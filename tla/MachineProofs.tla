---------------------------- MODULE MachineProofs ----------------------------
(***************************************************************************)
(* Theorems about Machine, for every program with a chart that passes:     *)
(* the machine keeps to the chart, and so to the sizes of the analyzer.    *)
(***************************************************************************)
EXTENDS Charts, SequenceTheorems, WellFoundedInduction, TLAPS

\* A finite set of numbers has a greatest.
LEMMA MaxOf ==
  ASSUME NEW n \in Nat, NEW T \in SUBSET (1 .. n), T # {}
  PROVE  Max(T) \in T
<1> DEFINE D == {n - x : x \in T}
           R == OpToRel(<, Nat)
<1>1. D \subseteq Nat /\ D # {}
  <2>1. \A x \in T : n - x \in Nat
    OBVIOUS
  <2> QED BY <2>1, Zenon
<1>2. PICK d \in D : \A y \in D : ~(<<y, d>> \in R)
  BY <1>1, NatLessThanWellFounded, WFMin
<1>3. PICK x \in T : d = n - x
  OBVIOUS
<1>4. \A y \in T : n - y \in D /\ ~(n - y < n - x)
  BY <1>1, <1>2, <1>3 DEF OpToRel
<1>5. \A y \in T : x >= y
  BY <1>4
<1> QED BY <1>5 DEF Max

-----------------------------------------------------------------------------
(* Sequences.                                                              *)

\* The first n elements, and one more.
LEMMA Prefix ==
  ASSUME NEW T, NEW s \in Seq(T), NEW n \in 0 .. Len(s)
  PROVE  /\ SubSeq(s, 1, n) \in Seq(T) /\ Len(SubSeq(s, 1, n)) = n
         /\ \A i \in 1 .. n : SubSeq(s, 1, n)[i] = s[i]
<1>1. \A i \in 1 .. n : s[i] \in T
  BY ElementOfSeq
<1>2. /\ SubSeq(s, 1, n) \in Seq(T)
      /\ Len(SubSeq(s, 1, n)) = IF 1 <= n THEN n - 1 + 1 ELSE 0
      /\ \A i \in 1 .. n - 1 + 1 : SubSeq(s, 1, n)[i] = s[1 + i - 1]
  BY <1>1, SubSeqProperties
<1>3. \A i \in 1 .. n : i \in 1 .. n - 1 + 1 /\ 1 + i - 1 = i
  OBVIOUS
<1> QED BY <1>2, <1>3

LEMMA Fronts ==
  ASSUME NEW T, NEW s \in Seq(T), s # << >>
  PROVE  /\ Len(s) \in Nat /\ Len(s) >= 1 /\ Last(s) = s[Len(s)] /\ Last(s) \in T
         /\ Front(s) \in Seq(T) /\ Len(Front(s)) = Len(s) - 1
         /\ \A i \in 1 .. Len(s) - 1 : Front(s)[i] = s[i]
<1>1. Len(s) \in Nat /\ Len(s) >= 1
  BY EmptySeq
<1>2. Len(s) - 1 \in 0 .. Len(s)
  BY <1>1
<1>3. s[Len(s)] \in T
  BY <1>1, ElementOfSeq
<1> QED BY <1>1, <1>2, <1>3, Prefix DEF Front, Last

\* A sequence of anything is one of what is in it.
LEMMA OfItself ==
  ASSUME NEW T, NEW s \in Seq(T)
  PROVE  s \in Seq(ToSet(s))
<1>1. s \in [1 .. Len(s) -> T] /\ Len(s) \in Nat /\ DOMAIN s = 1 .. Len(s)
  BY LenProperties
<1>2. s = [i \in 1 .. Len(s) |-> s[i]] /\ \A i \in 1 .. Len(s) : s[i] \in ToSet(s)
  BY <1>1 DEF ToSet
<1>3. [i \in 1 .. Len(s) |-> s[i]] \in Seq(ToSet(s))
  BY <1>1, <1>2, IsASeq
<1> QED BY <1>2, <1>3

-----------------------------------------------------------------------------
(* Heaps grow, and a cell keeps the fields it was made with: what was a    *)
(* value stays one.                                                        *)

Grown(h, g) == \A a \in DOMAIN h : a \in DOMAIN g /\ DOMAIN g[a] = DOMAIN h[a]

LEMMA ValuesStay ==
  ASSUME NEW p, NEW h, NEW g, Grown(h, g)
  PROVE  Valid(p, h) \subseteq Valid(p, g) /\ Buckets(h) \subseteq Buckets(g)
BY DEF Valid, Buckets, Grown

LEMMA CellsStay ==
  ASSUME NEW p, NEW h, NEW g, Grown(h, g), NEW c, CellOK(p, c, h)
  PROVE  CellOK(p, c, g)
<1>1. Valid(p, h) \subseteq Valid(p, g) /\ Buckets(h) \subseteq Buckets(g)
  BY ValuesStay
<1>2. \A s \in Seq(Valid(p, h)) : s \in Seq(Valid(p, g))
  BY <1>1, SeqMonotonic
<1>3. \A s \in Seq(Buckets(h)) : s \in Seq(Buckets(g))
  BY <1>1, SeqMonotonic
<1> QED BY <1>1, <1>2, <1>3 DEF CellOK

LEMMA LocalsStay ==
  ASSUME NEW p, NEW h, NEW g, Grown(h, g), NEW l, LocalsOK(p, l, h)
  PROVE  LocalsOK(p, l, g)
BY ValuesStay DEF LocalsOK

LEMMA FramesStay ==
  ASSUME NEW p, NEW h, NEW g, Grown(h, g)
  PROVE  Frame(p, h) \subseteq Frame(p, g)
<1>1. Valid(p, h) \subseteq Valid(p, g) /\ Buckets(h) \subseteq Buckets(g)
  BY ValuesStay
<1>2. \A s \in Seq(Valid(p, h)) : s \in Seq(Valid(p, g))
  BY <1>1, SeqMonotonic
<1>3. \A s \in Seq(Buckets(h)) : s \in Seq(Buckets(g))
  BY <1>1, SeqMonotonic
<1> QED BY <1>1, <1>2, <1>3 DEF Frame

\* A new cell behind the others.
LEMMA HeapAdd ==
  ASSUME NEW p, NEW h, HeapOK(p, h), NEW c, CellOK(p, c, h)
  PROVE  /\ HeapOK(p, Append(h, c)) /\ Grown(h, Append(h, c))
         /\ Len(h) + 1 \in DOMAIN Append(h, c) /\ Append(h, c)[Len(h) + 1] = c
         /\ Len(h) \in Nat /\ Len(Append(h, c)) = Len(h) + 1
<1> DEFINE g == Append(h, c)
           Cells == ToSet(h) \cup {c}
<1>1. h \in Seq(Cells) /\ c \in Cells
  <2>1. h \in Seq(ToSet(h)) /\ ToSet(h) \subseteq Cells
    BY DEF HeapOK
  <2> QED BY <2>1, SeqMonotonic
<1>2. Len(h) \in Nat /\ DOMAIN h = 1 .. Len(h)
  BY <1>1, LenProperties
<1>3. /\ g \in Seq(Cells) /\ Len(g) = Len(h) + 1
      /\ \A i \in 1 .. Len(h) : g[i] = h[i]
      /\ g[Len(h) + 1] = c
  BY <1>1, AppendProperties
<1>4. DOMAIN g = 1 .. Len(h) + 1
  BY <1>3, LenProperties
<1>5. g \in Seq(ToSet(g))
  BY <1>3, OfItself
<1> HIDE DEF g, Cells
<1>6. Grown(h, g)
  BY <1>2, <1>3, <1>4 DEF Grown
<1>7. \A a \in DOMAIN g : CellOK(p, g[a], g)
  <2>1. \A a \in DOMAIN h : CellOK(p, h[a], g)
    BY <1>6, CellsStay DEF HeapOK
  <2>2. CellOK(p, c, g)
    BY <1>6, CellsStay
  <2>3. \A a \in DOMAIN g : a \in DOMAIN h \/ a = Len(h) + 1
    BY <1>2, <1>4
  <2> QED BY <1>2, <1>3, <2>1, <2>2, <2>3
<1>8. HeapOK(p, g)
  BY <1>5, <1>7 DEF HeapOK
<1> QED BY <1>2, <1>3, <1>4, <1>6, <1>8 DEF g

\* A cell anew, with the fields it had.
LEMMA HeapPut ==
  ASSUME NEW p, NEW h, HeapOK(p, h), NEW a \in DOMAIN h, NEW c, CellOK(p, c, h), DOMAIN c = DOMAIN h[a]
  PROVE  HeapOK(p, [h EXCEPT ![a] = c]) /\ Grown(h, [h EXCEPT ![a] = c])
<1> DEFINE g == [h EXCEPT ![a] = c]
           Cells == ToSet(h) \cup {c}
<1>1. h \in Seq(Cells) /\ c \in Cells
  <2>1. h \in Seq(ToSet(h)) /\ ToSet(h) \subseteq Cells
    BY DEF HeapOK
  <2> QED BY <2>1, SeqMonotonic
<1>2. Len(h) \in Nat /\ DOMAIN h = 1 .. Len(h)
  BY <1>1, LenProperties
<1>3. /\ g \in Seq(Cells) /\ Len(g) = Len(h)
      /\ \A i \in 1 .. Len(h) : g[i] = IF i = a THEN c ELSE h[i]
  BY <1>1, <1>2, ExceptSeq
<1>4. DOMAIN g = DOMAIN h
  BY <1>2, <1>3, LenProperties
<1>5. g \in Seq(ToSet(g))
  BY <1>3, OfItself
<1> HIDE DEF g, Cells
<1>6. Grown(h, g)
  BY <1>2, <1>3, <1>4 DEF Grown
<1>7. \A i \in DOMAIN g : CellOK(p, g[i], g)
  <2>1. \A i \in DOMAIN h : CellOK(p, h[i], g)
    BY <1>6, CellsStay DEF HeapOK
  <2>2. CellOK(p, c, g)
    BY <1>6, CellsStay
  <2> QED BY <1>2, <1>3, <1>4, <2>1, <2>2
<1>8. HeapOK(p, g)
  BY <1>5, <1>7 DEF HeapOK
<1> QED BY <1>6, <1>8 DEF g

\* The reference to a new cell.
LEMMA NewRef ==
  ASSUME NEW p, NEW h, HeapOK(p, h), NEW c, CellOK(p, c, h), NEW kind \in DOMAIN Shape,
         DOMAIN c = Shape[kind]
  PROVE  Val(kind, Len(h) + 1) \in Valid(p, Append(h, c))
<1>1. /\ Len(h) + 1 \in DOMAIN Append(h, c) /\ Append(h, c)[Len(h) + 1] = c
      /\ Len(h) \in Nat
  BY HeapAdd
<1>2. kind # "code" /\ kind \in Kinds
  BY DEF Shape, Kinds
<1> QED BY <1>1, <1>2 DEF Valid, Val

LEMMA PlainValues ==
  ASSUME NEW p, NEW h
  PROVE  /\ NULL \in Valid(p, h) /\ Nil \in Valid(p, h)
         /\ \A b \in BOOLEAN : Bool(b) \in Valid(p, h)
         /\ \A n \in Int : Num(n) \in Valid(p, h)
BY DEF Valid, NULL, Nil, Bool, Num, Val, Kinds, Shape

-----------------------------------------------------------------------------
(* Frames.                                                                 *)

LEMMA FrameHas ==
  ASSUME NEW p, NEW h, NEW f \in Frame(p, h)
  PROVE  /\ f.code \in DOMAIN p.codes /\ f.pc \in Int /\ f.stack \in Seq(Valid(p, h)) /\ f.catches \in Seq(Int)
         /\ f.bucket \in Buckets(h) /\ f.parents \in Seq(Buckets(h)) /\ f.ret \in Valid(p, h)
         /\ Len(f.stack) \in Nat
BY LenProperties DEF Frame

LEMMA LastFrame ==
  ASSUME NEW p, NEW fs, NEW h, NEW e, FramesOK(p, fs, h, e)
  PROVE  /\ Len(fs) \in Nat /\ Len(fs) >= 1 /\ DOMAIN fs = 1 .. Len(fs)
         /\ Last(fs) = fs[Len(fs)] /\ Last(fs) \in Frame(p, h) /\ OnChart(p, Last(fs))
<1>1. fs # << >> /\ fs \in Seq(Frame(p, h))
  BY DEF FramesOK
<1>2. /\ Len(fs) \in Nat /\ Len(fs) >= 1 /\ DOMAIN fs = 1 .. Len(fs)
      /\ Last(fs) = fs[Len(fs)] /\ Last(fs) \in Frame(p, h)
  BY <1>1, Fronts, LenProperties
<1> QED BY <1>2 DEF FramesOK

\* The frame that runs, anew.
LEMMA FrameAnew ==
  ASSUME NEW p, NEW fs, NEW h, NEW e, FramesOK(p, fs, h, e), NEW g, Grown(h, g),
         NEW e2, NEW f \in Frame(p, g), OnChart(p, f), e2 # NULL => Bare(p, f)
  PROVE  FramesOK(p, [fs EXCEPT ![Len(fs)] = f], g, e2)
<1> DEFINE fs2 == [fs EXCEPT ![Len(fs)] = f]
<1>1. Len(fs) \in Nat /\ Len(fs) >= 1 /\ DOMAIN fs = 1 .. Len(fs)
  BY LastFrame
<1>2. fs \in Seq(Frame(p, g))
  <2>1. fs \in Seq(Frame(p, h)) /\ Frame(p, h) \subseteq Frame(p, g)
    BY FramesStay DEF FramesOK
  <2> QED BY <2>1, SeqMonotonic
<1>3. /\ fs2 \in Seq(Frame(p, g)) /\ Len(fs2) = Len(fs)
      /\ \A j \in 1 .. Len(fs) : fs2[j] = IF j = Len(fs) THEN f ELSE fs[j]
  BY <1>1, <1>2, ExceptSeq
<1>4. DOMAIN fs2 = 1 .. Len(fs) /\ fs2 # << >>
  BY <1>1, <1>3, LenProperties, EmptySeq
<1> HIDE DEF fs2
<1>5. \A i \in DOMAIN fs2 : OnChart(p, fs2[i])
  <2>1. \A i \in 1 .. Len(fs) : OnChart(p, fs[i])
    BY <1>1 DEF FramesOK
  <2> QED BY <1>3, <1>4, <2>1
<1>6. \A i \in 1 .. Len(fs2) - 1 : Waits(p, fs2[i])
  <2> SUFFICES ASSUME NEW i \in 1 .. Len(fs) - 1 PROVE Waits(p, fs2[i])
    BY <1>3
  <2>1. i \in 1 .. Len(fs) /\ i # Len(fs)
    <3>1. Len(fs) \in Nat
      BY <1>1
    <3> QED BY <3>1, SMT
  <2>2. fs2[i] = fs[i]
    BY <1>3, <2>1
  <2> QED BY <2>2 DEF FramesOK
<1>7. Last(fs2) = f
  <2>1. Len(fs) \in 1 .. Len(fs)
    BY <1>1
  <2> QED BY <1>3, <2>1 DEF Last
<1>8. FramesOK(p, fs2, g, e2)
  BY <1>3, <1>4, <1>5, <1>6, <1>7 DEF FramesOK
<1> QED BY <1>8 DEF fs2

\* The frame that runs is over, and the one that waits for it goes on.
LEMMA FrameOver ==
  ASSUME NEW p, NEW fs, NEW h, NEW e, FramesOK(p, fs, h, e), Len(fs) > 1, NEW e2
  PROVE  /\ FramesOK(p, Front(fs), h, e2) /\ Len(Front(fs)) = Len(fs) - 1
         /\ Last(Front(fs)) = fs[Len(fs) - 1] /\ Waits(p, fs[Len(fs) - 1])
<1> DEFINE fs2 == Front(fs)
<1>1. fs \in Seq(Frame(p, h)) /\ fs # << >> /\ DOMAIN fs = 1 .. Len(fs)
  BY LastFrame DEF FramesOK
<1>2. /\ Len(fs) \in Nat /\ fs2 \in Seq(Frame(p, h)) /\ Len(fs2) = Len(fs) - 1
      /\ \A i \in 1 .. Len(fs) - 1 : fs2[i] = fs[i]
  BY <1>1, Fronts
<1>3. DOMAIN fs2 = 1 .. Len(fs) - 1 /\ fs2 # << >>
  BY <1>2, LenProperties, EmptySeq
<1> HIDE DEF fs2
<1>4. Last(fs2) = fs[Len(fs) - 1] /\ Waits(p, fs[Len(fs) - 1])
  BY <1>2 DEF Last, FramesOK
<1>5. \A i \in DOMAIN fs2 : OnChart(p, fs2[i])
  BY <1>1, <1>2, <1>3 DEF FramesOK
<1>6. \A i \in 1 .. Len(fs2) - 1 : Waits(p, fs2[i])
  BY <1>2 DEF FramesOK
<1>7. FramesOK(p, fs2, h, e2)
  BY <1>2, <1>3, <1>4, <1>5, <1>6 DEF FramesOK, Waits
<1> QED BY <1>2, <1>4, <1>7 DEF fs2

\* A frame more, and the one that runs waits for it.
LEMMA FrameMore ==
  ASSUME NEW p, NEW fs, NEW h, FramesOK(p, fs, h, NULL), Waits(p, Last(fs)),
         NEW f \in Frame(p, h), OnChart(p, f)
  PROVE  FramesOK(p, Append(fs, f), h, NULL)
<1> DEFINE fs2 == Append(fs, f)
<1>1. /\ Len(fs) \in Nat /\ Len(fs) >= 1 /\ DOMAIN fs = 1 .. Len(fs) /\ fs \in Seq(Frame(p, h))
      /\ Last(fs) = fs[Len(fs)]
  BY LastFrame DEF FramesOK
<1>2. /\ fs2 \in Seq(Frame(p, h)) /\ Len(fs2) = Len(fs) + 1
      /\ \A i \in 1 .. Len(fs) : fs2[i] = fs[i]
      /\ fs2[Len(fs) + 1] = f
  BY <1>1, AppendProperties
<1>3. DOMAIN fs2 = 1 .. Len(fs) + 1 /\ fs2 # << >>
  BY <1>1, <1>2, LenProperties, EmptySeq
<1> HIDE DEF fs2
<1>4. \A i \in DOMAIN fs2 : OnChart(p, fs2[i])
  BY <1>1, <1>2, <1>3 DEF FramesOK
<1>5. \A i \in 1 .. Len(fs2) - 1 : Waits(p, fs2[i])
  <2> SUFFICES ASSUME NEW i \in 1 .. Len(fs) PROVE Waits(p, fs[i])
    BY <1>1, <1>2
  <2> QED BY <1>1 DEF FramesOK
<1>6. FramesOK(p, fs2, h, NULL)
  BY <1>2, <1>3, <1>4, <1>5 DEF FramesOK
<1> QED BY <1>6 DEF fs2

\* What the chart and the tape have at the place a frame is at.
LEMMA AtPlace ==
  ASSUME NEW p, Passes(p.codes, p.chart), NEW f, OnChart(p, f)
  PROVE  /\ f.code \in DOMAIN p.codes /\ SizesOK(p.codes[f.code])
         /\ PlaceOK(p.codes, p.codes[f.code], p.chart[f.code], f.pc)
BY DEF Passes, OnChart, TapeOK

LEMMA PlaceHas ==
  ASSUME NEW codes, NEW code, NEW t, NEW pc, PlaceOK(codes, code, t, pc), SizesOK(code)
  PROVE  /\ pc \in Int /\ pc < code.op_len /\ code.op_len \in Nat
         /\ t[pc].depth \in Nat /\ t[pc].depth <= code.stack_size /\ code.stack_size \in Nat
         /\ t[pc].bare \in Int /\ t[pc].bare <= t[pc].depth
         /\ t[pc].open \in Seq(Int) /\ Len(t[pc].open) <= code.catch_size
<1>1. code.op_len \in Nat /\ code.stack_size \in Nat
  BY DEF SizesOK
<1>2. pc \in -1 .. code.op_len - 1 /\ t[pc].depth \in 0 .. code.stack_size /\ t[pc].bare \in -1 .. t[pc].depth
  BY DEF PlaceOK
<1>3. t[pc].open \in Seq(0 .. code.op_len - 1) /\ Len(t[pc].open) <= code.catch_size
  BY DEF PlaceOK
<1>4. t[pc].open \in Seq(Int)
  BY <1>1, <1>3, SeqMonotonic, 0 .. code.op_len - 1 \subseteq Int
<1> QED BY <1>1, <1>2, <1>3, <1>4

-----------------------------------------------------------------------------
(* The inductive invariant.  A machine whose program passes never finds    *)
(* its stack full: without that, a frame that overflows would stay where   *)
(* it is with an exception that nobody raised there.                       *)

IInv == Passes(program.codes, program.chart) /\ TypeOK /\ status # "overflow"

\* The frame that runs, in a state of the invariant.
LEMMA Runs ==
  ASSUME IInv
  PROVE  /\ FramesOK(program, frames, heap, error)
         /\ Len(frames) \in Nat /\ Len(frames) >= 1 /\ DOMAIN frames = 1 .. Len(frames)
         /\ F = frames[Len(frames)] /\ F \in Frame(program, heap) /\ OnChart(program, F)
         /\ F.code \in DOMAIN program.codes /\ SizesOK(CodeOf(F))
         /\ PlaceOK(program.codes, CodeOf(F), program.chart[F.code], F.pc)
<1>1. FramesOK(program, frames, heap, error) /\ Passes(program.codes, program.chart)
  BY DEF IInv, TypeOK
<1>2. /\ Len(frames) \in Nat /\ Len(frames) >= 1 /\ DOMAIN frames = 1 .. Len(frames)
      /\ F = frames[Len(frames)] /\ F \in Frame(program, heap) /\ OnChart(program, F)
  BY <1>1, LastFrame DEF F
<1> QED BY <1>1, <1>2, AtPlace DEF CodeOf

LEMMA Fields ==
  ASSUME NEW fs, NEW n \in DOMAIN fs, NEW s, NEW q
  PROVE  [fs EXCEPT ![n].stack = s, ![n].pc = q] = [fs EXCEPT ![n] = [fs[n] EXCEPT !.stack = s, !.pc = q]]
OBVIOUS

LEMMA Goes ==
  ASSUME IInv, status = "running", ~Finished,
         program' = program, Grown(heap, heap'), HeapOK(program, heap'), LocalsOK(program, locals', heap'),
         error' \in Valid(program, heap'),
         NEW stack \in Seq(Valid(program, heap')), NEW pc, Go(stack, pc),
         pc \in DOMAIN program.chart[F.code],
         Len(stack) <= program.chart[F.code][pc].depth,
         program.chart[F.code][pc].open = F.catches,
         error' # NULL => Len(stack) <= program.chart[F.code][pc].bare
  PROVE  IInv'
<1> DEFINE f == [F EXCEPT !.stack = stack, !.pc = pc]
<1>1. F.ret = NULL
  BY DEF Finished
<1>2. /\ FramesOK(program, frames, heap, error) /\ F = frames[Len(frames)] /\ Len(frames) \in DOMAIN frames
      /\ F \in Frame(program, heap) /\ OnChart(program, F) /\ Passes(program.codes, program.chart)
  BY Runs DEF IInv
<1>3. PlaceOK(program.codes, CodeOf(F), program.chart[F.code], pc) /\ SizesOK(CodeOf(F))
  BY <1>2 DEF Passes, TapeOK, OnChart, CodeOf
<1>4. pc \in Int /\ ~(Len(stack) > CodeOf(F).stack_size + 1)
  <2>1. Len(stack) \in Nat
    BY LenProperties
  <2> QED BY <1>3, <2>1, PlaceHas
<1>5. frames' = [frames EXCEPT ![Len(frames)] = f] /\ status' = status
  <2>1. /\ frames' = [frames EXCEPT ![Len(frames)].stack = stack, ![Len(frames)].pc = pc]
        /\ status' = status
    BY <1>4 DEF Go
  <2> QED BY <1>2, <2>1, Fields
<1>6. F \in Frame(program, heap')
  BY <1>2, FramesStay
<1>7. f \in Frame(program, heap')
  BY <1>4, <1>6 DEF Frame
<1>8. /\ f.code = F.code /\ f.pc = pc /\ f.stack = stack /\ f.catches = F.catches /\ f.ret = F.ret
  BY <1>6 DEF Frame
<1> HIDE DEF f
<1>9. OnChart(program, f) /\ (error' # NULL => Bare(program, f))
  BY <1>1, <1>2, <1>8 DEF OnChart, Bare, PlaceOf
<1>10. FramesOK(program, frames', heap', error')
  BY <1>2, <1>5, <1>7, <1>9, FrameAnew
<1> QED BY <1>2, <1>5, <1>10 DEF IInv, TypeOK

\* An instruction that leads to another place, or raises.
LEMMA Steps ==
  ASSUME IInv, NEW names, NEW n \in Nat, Ready(names, n), names \cap {"PUSH_CATCH", "POP_CATCH"} = {},
         program' = program, Grown(heap, heap'), HeapOK(program, heap'), LocalsOK(program, locals', heap'),
         NEW stack \in Seq(Valid(program, heap')), NEW m, Go(stack, m.to), Len(stack) <= Depth + m.by,
         m.by \in Int,
         \/ m \in Moves(CodeOf(F), F.pc) /\ error' = error
         \/ m \in Throws(CodeOf(F), F.pc) /\ error' \in Valid(program, heap')
  PROVE  IInv'
<1> DEFINE t == program.chart[F.code]
<1>1. /\ status = "running" /\ error = NULL /\ ~Finished /\ F.pc + 1 < CodeOf(F).op_len
      /\ Op \notin {"PUSH_CATCH", "POP_CATCH"}
  BY DEF Ready
<1>2. OnChart(program, F) /\ F \in Frame(program, heap) /\ PlaceOK(program.codes, CodeOf(F), t, F.pc)
  BY Runs
<1>3. /\ m.to \in DOMAIN t /\ t[m.to].open = Opened(CodeOf(F), F.pc, t[F.pc].open)
      /\ m \in Moves(CodeOf(F), F.pc) => t[F.pc].depth + m.by <= t[m.to].depth
      /\ m \in Throws(CodeOf(F), F.pc) => t[F.pc].depth + m.by <= t[m.to].bare
  BY <1>1, <1>2 DEF PlaceOK
<1>4. t[m.to].open = F.catches
  BY <1>1, <1>2, <1>3 DEF Opened, OpAt, Op, Ops, OnChart, PlaceOf
<1>5. t[m.to].depth \in Nat /\ t[m.to].bare \in Int /\ t[m.to].bare <= t[m.to].depth
  <2>1. PlaceOK(program.codes, CodeOf(F), t, m.to) /\ SizesOK(CodeOf(F))
    BY <1>2, <1>3 DEF IInv, Passes, TapeOK, OnChart, CodeOf
  <2> QED BY <2>1, PlaceHas
<1>6. Depth \in Nat /\ Depth <= t[F.pc].depth /\ t[F.pc].depth \in Nat /\ Len(stack) \in Nat
  <2>1. Depth \in Nat /\ Depth <= t[F.pc].depth /\ Len(stack) \in Nat
    BY <1>2, FrameHas, LenProperties DEF OnChart, PlaceOf, Depth, S
  <2> QED BY <1>2, <2>1, Runs, PlaceHas
<1>7. error' \in Valid(program, heap')
  BY <1>1, PlainValues
<1>8. /\ Len(stack) <= t[m.to].depth
      /\ error' # NULL => Len(stack) <= t[m.to].bare
  <2> HIDE DEF t
  <2>1. CASE m \in Moves(CodeOf(F), F.pc) /\ error' = error
    BY <1>1, <1>3, <1>5, <1>6, <2>1
  <2>2. CASE m \in Throws(CodeOf(F), F.pc)
    BY <1>3, <1>5, <1>6, <2>2
  <2> QED BY <2>1, <2>2
<1> QED BY <1>1, <1>3, <1>4, <1>7, <1>8, Goes

-----------------------------------------------------------------------------
(* What the instructions find.                                             *)

LEMMA Leads ==
  ASSUME NEW code, NEW pc, NEW op, op = OpAt(code, pc)
  PROVE  /\ op \in {"BINARY_ADD", "BINARY_SUBTRACT", "BINARY_LT", "BINARY_EQUAL", "POP", "PRINT", "LOAD_INDEX", "RETURN"}
              => Way(pc + 1, -1) \in Moves(code, pc)
         /\ op \in {"UNARY_NOT", "FLIP_TWO", "SINK_FIRST", "IGNORE", "MAKE_ITER", "POP_CATCH"}
              => Way(pc + 1, 0) \in Moves(code, pc)
         /\ op \in {"PUSH_NIL", "SDUPLICATE", "PUSH_NEW_OBJECT", "ITER_INDEX"} => Way(pc + 1, 1) \in Moves(code, pc)
         /\ op = "DDUPLICATE" => Way(pc + 1, 2) \in Moves(code, pc)
         /\ op = "SAVE_INDEX" => Way(pc + 1, -2) \in Moves(code, pc)
         /\ op = "PUSH_BOOL" => Way(pc + 2, 1) \in Moves(code, pc)
         /\ op = "MAKE_FUNCTION" => Way(pc + 2, 0) \in Moves(code, pc)
         /\ op = "CALL_FUNC" => Way(pc + 2, -ByteAt(code, pc)) \in Moves(code, pc)
         /\ op \in {"LOAD_CONST", "LOAD_LOCAL", "LOAD_CLOSE", "NEXT_ITER_OR_JUMP"} => Way(pc + 5, 1) \in Moves(code, pc)
         /\ op \in {"SAVE_LOCAL", "SAVE_CLOSE", "LOAD_MEMBER", "PUSH_CATCH"} => Way(pc + 5, 0) \in Moves(code, pc)
         /\ op \in {"JUMP_FALSE", "JUMP_TRUE_ELSE_POP", "JUMP_FALSE_ELSE_POP", "SAVE_MEMBER"}
              => Way(pc + 5, -1) \in Moves(code, pc)
         /\ op = "MAKE_ARRAY" => Way(pc + 5, 1 - ArgAt(code, pc)) \in Moves(code, pc)
         /\ op = "MAKE_OBJECT" => Way(pc + 5 + 4 * ArgAt(code, pc), -ArgAt(code, pc)) \in Moves(code, pc)
         /\ op \in {"JUMP", "NEXT_ITER_OR_JUMP"} => Way(Jumped(ArgAt(code, pc), pc + 5), 0) \in Moves(code, pc)
         /\ op \in {"JUMP_TRUE_ELSE_POP", "JUMP_FALSE_ELSE_POP"} => Way(ArgAt(code, pc), 0) \in Moves(code, pc)
         /\ op = "JUMP_FALSE" => Way(ArgAt(code, pc), -1) \in Moves(code, pc)
BY Zenon DEF Moves

LEMMA LeadsOut ==
  ASSUME NEW code, NEW pc, NEW op, op = OpAt(code, pc)
  PROVE  /\ op = "LOAD_CLOSE" => Way(pc + 5, 0) \in Throws(code, pc)
         /\ op = "LOAD_MEMBER" => Way(pc + 5, -1) \in Throws(code, pc)
         /\ op \in {"LOAD_INDEX", "RAISE"} => Way(pc + 1, -1) \in Throws(code, pc)
         /\ op = "SAVE_INDEX" => Way(pc + 1, -2) \in Throws(code, pc)
         /\ op = "CALL_FUNC" => Way(pc + 2, -1 - ByteAt(code, pc)) \in Throws(code, pc)
BY Zenon DEF Throws

\* The frame's own: its operands, and what is left without the last n of them.
LEMMA Own ==
  ASSUME IInv
  PROVE  /\ S \in Seq(Valid(program, heap)) /\ Depth \in Nat /\ Depth = Len(S)
         /\ F.pc \in Int /\ F.bucket \in Buckets(heap) /\ F.parents \in Seq(Buckets(heap))
         /\ F.code \in DOMAIN program.codes /\ F.catches \in Seq(Int)
         /\ HeapOK(program, heap) /\ LocalsOK(program, locals, heap) /\ Grown(heap, heap)
         /\ error \in Valid(program, heap)
<1>1. F \in Frame(program, heap)
  BY Runs
<1>2. HeapOK(program, heap) /\ LocalsOK(program, locals, heap) /\ error \in Valid(program, heap)
  BY DEF IInv, TypeOK
<1> QED BY <1>1, <1>2, FrameHas DEF S, Depth, Grown

LEMMA Operand ==
  ASSUME IInv, NEW n \in Nat, Depth > n
  PROVE  Nth(n) \in Valid(program, heap) /\ Nth(0) = Top
<1>1. S \in Seq(Valid(program, heap)) /\ Depth \in Nat /\ Depth = Len(S)
  BY Own
<1>2. Depth - n \in 1 .. Len(S) /\ Depth - 0 = Depth
  BY <1>1
<1> QED BY <1>1, <1>2, ElementOfSeq DEF Nth, Top

LEMMA Dropped ==
  ASSUME IInv, NEW n \in Nat, Depth >= n
  PROVE  Drop(n) \in Seq(Valid(program, heap)) /\ Len(Drop(n)) = Depth - n
<1>1. S \in Seq(Valid(program, heap)) /\ Depth \in Nat /\ Depth = Len(S)
  BY Own
<1>2. Depth - n \in 0 .. Len(S)
  BY <1>1
<1> QED BY <1>1, <1>2, Prefix DEF Drop

\* What is left, beside a heap that has grown, and with a value pushed.
LEMMA Left ==
  ASSUME IInv, NEW n \in Nat, Depth >= n, NEW g, Grown(heap, g)
  PROVE  Drop(n) \in Seq(Valid(program, g)) /\ Len(Drop(n)) = Depth - n
<1>1. Drop(n) \in Seq(Valid(program, heap)) /\ Len(Drop(n)) = Depth - n
  BY Dropped
<1>2. Valid(program, heap) \subseteq Valid(program, g)
  BY ValuesStay
<1> QED BY <1>1, <1>2, SeqMonotonic

LEMMA Replaced ==
  ASSUME IInv, NEW n \in Nat, Depth >= n, NEW g, Grown(heap, g), NEW v \in Valid(program, g)
  PROVE  Append(Drop(n), v) \in Seq(Valid(program, g)) /\ Len(Append(Drop(n), v)) = Depth - n + 1
<1>1. Drop(n) \in Seq(Valid(program, g)) /\ Len(Drop(n)) = Depth - n
  BY Left
<1>2. /\ Append(Drop(n), v) \in Seq(Valid(program, g))
      /\ Len(Append(Drop(n), v)) = Len(Drop(n)) + 1
  BY <1>1, AppendProperties
<1> QED BY <1>1, <1>2

LEMMA OnTop ==
  ASSUME IInv, NEW g, Grown(heap, g), NEW v \in Valid(program, g)
  PROVE  /\ S \in Seq(Valid(program, g)) /\ Len(S) = Depth
         /\ Append(S, v) \in Seq(Valid(program, g)) /\ Len(Append(S, v)) = Depth + 1
<1>1. S \in Seq(Valid(program, heap)) /\ Len(S) = Depth /\ Valid(program, heap) \subseteq Valid(program, g)
  BY Own, ValuesStay
<1>2. S \in Seq(Valid(program, g))
  BY <1>1, SeqMonotonic
<1>3. Append(S, v) \in Seq(Valid(program, g)) /\ Len(Append(S, v)) = Len(S) + 1
  BY <1>2, AppendProperties
<1> QED BY <1>1, <1>2, <1>3

\* The operands on the tape.
LEMMA Reads ==
  ASSUME IInv, NEW names, NEW n, Ready(names, n)
  PROVE  /\ Op \in names /\ Depth >= n /\ error = NULL /\ ~Finished /\ status = "running"
         /\ Op = OpAt(CodeOf(F), F.pc) /\ Arg = ArgAt(CodeOf(F), F.pc) /\ Byte = ByteAt(CodeOf(F), F.pc)
         /\ OperandsOK(program.codes, CodeOf(F), F.pc)
         /\ Op \in Wide => Arg \in Nat
         /\ Op \in Short => Byte \in Nat
<1>1. PlaceOK(program.codes, CodeOf(F), program.chart[F.code], F.pc) /\ F.pc + 1 < CodeOf(F).op_len
  BY Runs DEF Ready
<1>2. OperandsOK(program.codes, CodeOf(F), F.pc)
  BY <1>1 DEF PlaceOK
<1>3. /\ Op \in names /\ Depth >= n /\ error = NULL /\ ~Finished /\ status = "running"
      /\ Op = OpAt(CodeOf(F), F.pc) /\ Arg = ArgAt(CodeOf(F), F.pc) /\ Byte = ByteAt(CodeOf(F), F.pc)
  BY DEF Ready, Op, OpAt, Ops, Arg, ArgAt, Byte, ByteAt
<1> QED BY <1>2, <1>3 DEF OperandsOK

\* An instruction that touches nothing but the stack.
LEMMA OnStack ==
  ASSUME IInv, NEW names, NEW n \in Nat, Ready(names, n), names \cap {"PUSH_CATCH", "POP_CATCH"} = {},
         program' = program, heap' = heap, locals' = locals, error' = error,
         NEW stack \in Seq(Valid(program, heap)), NEW to, NEW by \in Int, Way(to, by) \in Moves(CodeOf(F), F.pc),
         Go(stack, to), Len(stack) <= Depth + by
  PROVE  IInv'
<1> DEFINE m == Way(to, by)
<1>1. m.to = to /\ m.by = by
  BY DEF Way
<1>2. Grown(heap, heap') /\ HeapOK(program, heap') /\ LocalsOK(program, locals', heap')
  BY Own
<1> HIDE DEF m
<1>3. m \in Moves(CodeOf(F), F.pc) /\ m.by \in Int /\ Go(stack, m.to) /\ Len(stack) <= Depth + m.by
  BY <1>1 DEF m
<1> QED BY <1>2, <1>3, Steps

-----------------------------------------------------------------------------
(* The instructions, one by one.                                           *)

LEMMA BinaryGives ==
  ASSUME NEW p, NEW h, NEW name \in {"BINARY_ADD", "BINARY_SUBTRACT", "BINARY_LT", "BINARY_EQUAL"},
         NEW a, NEW b, a.kind \in Operands, b.kind \in Operands, a.at \in Int, b.at \in Int
  PROVE  Binary(name, a, b) \in Valid(p, h)
<1>1. /\ Nil \in Valid(p, h) /\ Bool(a.at = b.at) \in Valid(p, h) /\ Bool(a.at < b.at) \in Valid(p, h)
      /\ Num(a.at + b.at) \in Valid(p, h) /\ Num(a.at - b.at) \in Valid(p, h)
  <2>1. Bool(a.at = b.at) \in Valid(p, h) /\ Bool(a.at < b.at) \in Valid(p, h)
    BY DEF Valid, Bool, Val, Kinds, Shape
  <2> QED BY <2>1, PlainValues
<1>2. CASE name = "BINARY_EQUAL"
  BY <1>1, <1>2, Zenon DEF Binary
<1>3. CASE name # "BINARY_EQUAL" /\ (Singleton(a) \/ Singleton(b))
  BY <1>1, <1>3, Zenon DEF Binary
<1>4. CASE name # "BINARY_EQUAL" /\ ~(Singleton(a) \/ Singleton(b))
  <2>1. a.kind = b.kind
    BY <1>4, Zenon DEF Operands, Singleton
  <2>2. \/ name = "BINARY_ADD" \/ name = "BINARY_SUBTRACT" \/ name = "BINARY_LT"
    BY <1>4
  <2> QED BY <1>1, <1>4, <2>1, <2>2, Zenon DEF Binary
<1> QED BY <1>2, <1>3, <1>4

LEMMA ArithmeticStep == ASSUME IInv, Arithmetic PROVE IInv'
<1> DEFINE names == {"BINARY_ADD", "BINARY_SUBTRACT", "BINARY_LT", "BINARY_EQUAL"}
           stack == Append(Drop(2), Binary(Op, Nth(1), Top))
<1>1. /\ Ready(names, 2) /\ Top.kind \in Operands /\ Nth(1).kind \in Operands
      /\ Go(stack, F.pc + 1) /\ program' = program /\ heap' = heap /\ locals' = locals /\ error' = error
  BY DEF Arithmetic
<1>2. Op \in names /\ Depth >= 2 /\ Op = OpAt(CodeOf(F), F.pc) /\ Depth \in Nat
  BY <1>1, Reads, Own
<1>3. Top \in Valid(program, heap) /\ Nth(1) \in Valid(program, heap)
  BY <1>2, Operand
<1>4. Binary(Op, Nth(1), Top) \in Valid(program, heap)
  <2>1. Top.at \in Int /\ Nth(1).at \in Int
    BY <1>3 DEF Valid
  <2> QED BY <1>1, <1>2, <2>1, BinaryGives
<1>5. stack \in Seq(Valid(program, heap)) /\ Len(stack) <= Depth + (-1)
  <2>1. stack \in Seq(Valid(program, heap)) /\ Len(stack) = Depth - 2 + 1
    BY <1>2, <1>4, Replaced, Own
  <2> QED BY <1>2, <2>1
<1>6. Way(F.pc + 1, -1) \in Moves(CodeOf(F), F.pc)
  BY <1>2, Leads
<1> HIDE DEF stack
<1> QED BY <1>1, <1>5, <1>6, OnStack

LEMMA NotStep == ASSUME IInv, Not PROVE IInv'
<1> DEFINE names == {"UNARY_NOT"}
           stack == Append(Drop(1), Negated(Top))
<1>1. /\ Ready(names, 1) /\ Go(stack, F.pc + 1)
      /\ program' = program /\ heap' = heap /\ locals' = locals /\ error' = error
  BY DEF Not
<1>2. Op \in names /\ Depth >= 1 /\ Op = OpAt(CodeOf(F), F.pc) /\ Depth \in Nat /\ Grown(heap, heap)
  BY <1>1, Reads, Own
<1>3. Negated(Top) \in Valid(program, heap)
  <2>1. /\ Bool(Top.at = 0) \in Valid(program, heap)
        /\ Bool(Top = Nil) \in Valid(program, heap)
    BY DEF Valid, Bool, Val, Kinds, Shape
  <2>2. CASE Top.kind \in {"int", "bool"}
    BY <2>1, <2>2, Zenon DEF Negated
  <2>3. CASE Top.kind \notin {"int", "bool"}
    BY <2>1, <2>3, Zenon DEF Negated
  <2> QED BY <2>2, <2>3
<1>4. stack \in Seq(Valid(program, heap)) /\ Len(stack) = Depth - 1 + 1
  BY <1>2, <1>3, Replaced
<1>5. Way(F.pc + 1, 0) \in Moves(CodeOf(F), F.pc)
  BY <1>2, Leads
<1> HIDE DEF stack
<1>6. Len(stack) <= Depth + 0
  BY <1>2, <1>4
<1> QED BY <1>1, <1>4, <1>5, <1>6, OnStack

LEMMA LoadConstStep == ASSUME IInv, LoadConst PROVE IInv'
<1> DEFINE names == {"LOAD_CONST"}
           const == CodeOf(F).constants[Arg + 1]
           stack == Append(S, const)
<1>1. /\ Ready(names, 0) /\ Go(stack, F.pc + 5)
      /\ program' = program /\ heap' = heap /\ locals' = locals /\ error' = error
  BY DEF LoadConst
<1>2. /\ Op = "LOAD_CONST" /\ Op = OpAt(CodeOf(F), F.pc) /\ Arg = ArgAt(CodeOf(F), F.pc)
      /\ OperandsOK(program.codes, CodeOf(F), F.pc) /\ Depth \in Nat /\ Grown(heap, heap)
  BY <1>1, Reads, Own
<1>3. const \in [kind : {"int"}, at : Int] \cup [kind : {"code"}, at : DOMAIN program.codes]
  BY <1>2 DEF OperandsOK
<1>4. DOMAIN program.codes \subseteq Int
  BY LenProperties DEF IInv, Passes
<1>5. const \in Valid(program, heap)
  <2> HIDE DEF const
  <2> QED BY <1>3, <1>4 DEF Valid, Kinds, Shape
<1>6. stack \in Seq(Valid(program, heap)) /\ Len(stack) <= Depth + 1
  BY <1>2, <1>5, OnTop
<1>7. Way(F.pc + 5, 1) \in Moves(CodeOf(F), F.pc)
  BY <1>2, Leads
<1> HIDE DEF stack
<1> QED BY <1>1, <1>6, <1>7, OnStack

LEMMA PushNilStep == ASSUME IInv, PushNil PROVE IInv'
<1> DEFINE names == {"PUSH_NIL"}
           stack == Append(S, Nil)
<1>1. /\ Ready(names, 0) /\ Go(stack, F.pc + 1)
      /\ program' = program /\ heap' = heap /\ locals' = locals /\ error' = error
  BY DEF PushNil
<1>2. Op \in names /\ Op = OpAt(CodeOf(F), F.pc) /\ Depth \in Nat /\ Grown(heap, heap)
  BY <1>1, Reads, Own
<1>3. stack \in Seq(Valid(program, heap)) /\ Len(stack) <= Depth + 1
  BY <1>2, OnTop, PlainValues
<1>4. Way(F.pc + 1, 1) \in Moves(CodeOf(F), F.pc)
  BY <1>2, Leads
<1> HIDE DEF stack
<1> QED BY <1>1, <1>3, <1>4, OnStack

LEMMA PushBoolStep == ASSUME IInv, PushBool PROVE IInv'
<1> DEFINE names == {"PUSH_BOOL"}
           stack == Append(S, Bool(Byte # 0))
<1>1. /\ Ready(names, 0) /\ Go(stack, F.pc + 2)
      /\ program' = program /\ heap' = heap /\ locals' = locals /\ error' = error
  BY DEF PushBool
<1>2. Op \in names /\ Op = OpAt(CodeOf(F), F.pc) /\ Depth \in Nat /\ Grown(heap, heap)
  BY <1>1, Reads, Own
<1>3. Bool(Byte # 0) \in Valid(program, heap)
  BY DEF Valid, Bool, Val, Kinds, Shape
<1>4. stack \in Seq(Valid(program, heap)) /\ Len(stack) <= Depth + 1
  BY <1>2, <1>3, OnTop
<1>5. Way(F.pc + 2, 1) \in Moves(CodeOf(F), F.pc)
  BY <1>2, Leads
<1> HIDE DEF stack
<1> QED BY <1>1, <1>4, <1>5, OnStack

LEMMA PopStep == ASSUME IInv, Pop PROVE IInv'
<1> DEFINE names == {"POP"}
<1>1. /\ Ready(names, 1) /\ Go(Drop(1), F.pc + 1)
      /\ program' = program /\ heap' = heap /\ locals' = locals /\ error' = error
  BY DEF Pop
<1>2. Op \in names /\ Op = OpAt(CodeOf(F), F.pc) /\ Depth >= 1 /\ Depth \in Nat
  BY <1>1, Reads, Own
<1>3. Drop(1) \in Seq(Valid(program, heap)) /\ Len(Drop(1)) = Depth - 1
  BY <1>2, Dropped
<1>4. Len(Drop(1)) <= Depth + (-1)
  BY <1>2, <1>3
<1>5. Way(F.pc + 1, -1) \in Moves(CodeOf(F), F.pc)
  BY <1>2, Leads
<1> QED BY <1>1, <1>3, <1>4, <1>5, OnStack

LEMMA PrintTopStep == ASSUME IInv, PrintTop PROVE IInv'
<1> DEFINE names == {"PRINT"}
<1>1. /\ Ready(names, 1) /\ Go(Drop(1), F.pc + 1)
      /\ program' = program /\ heap' = heap /\ locals' = locals /\ error' = error
  BY DEF PrintTop
<1>2. Op \in names /\ Op = OpAt(CodeOf(F), F.pc) /\ Depth >= 1 /\ Depth \in Nat
  BY <1>1, Reads, Own
<1>3. Drop(1) \in Seq(Valid(program, heap)) /\ Len(Drop(1)) = Depth - 1
  BY <1>2, Dropped
<1>4. Len(Drop(1)) <= Depth + (-1)
  BY <1>2, <1>3
<1>5. Way(F.pc + 1, -1) \in Moves(CodeOf(F), F.pc)
  BY <1>2, Leads
<1> QED BY <1>1, <1>3, <1>4, <1>5, OnStack

\* The last n operands in another order.
LEMMA Reordered ==
  ASSUME IInv, NEW n \in Nat, Depth >= n, NEW last \in Seq(Valid(program, heap))
  PROVE  /\ Drop(n) \o last \in Seq(Valid(program, heap))
         /\ Len(Drop(n) \o last) = Depth - n + Len(last)
<1>1. Drop(n) \in Seq(Valid(program, heap)) /\ Len(Drop(n)) = Depth - n
  BY Dropped
<1> QED BY <1>1, ConcatProperties

LEMMA DuplicateStep == ASSUME IInv, Duplicate PROVE IInv'
<1>1. program' = program /\ heap' = heap /\ locals' = locals /\ error' = error /\ Depth \in Nat /\ Grown(heap, heap)
  BY Own DEF Duplicate
<1>2. CASE Ready({"SDUPLICATE"}, 1) /\ Go(Append(S, Top), F.pc + 1)
  <2>1. Op = "SDUPLICATE" /\ Op = OpAt(CodeOf(F), F.pc) /\ Depth >= 1
    BY <1>2, Reads
  <2>2. Top \in Valid(program, heap)
    BY <1>1, <2>1, Operand
  <2> DEFINE stack == Append(S, Top)
  <2>3. stack \in Seq(Valid(program, heap)) /\ Len(stack) <= Depth + 1
    BY <1>1, <2>2, OnTop
  <2>4. Way(F.pc + 1, 1) \in Moves(CodeOf(F), F.pc)
    BY <2>1, Leads
  <2>5. Ready({"SDUPLICATE"}, 1) /\ Go(stack, F.pc + 1)
    BY <1>2
  <2> HIDE DEF stack
  <2> QED BY <1>1, <2>3, <2>4, <2>5, OnStack
<1>3. CASE Ready({"DDUPLICATE"}, 2) /\ Go(S \o <<Nth(1), Top>>, F.pc + 1)
  <2> DEFINE last == <<Nth(1), Top>>
             stack == S \o last
  <2>1. Op = "DDUPLICATE" /\ Op = OpAt(CodeOf(F), F.pc) /\ Depth >= 2
    BY <1>3, Reads
  <2>2. Top \in Valid(program, heap) /\ Nth(1) \in Valid(program, heap)
    BY <1>1, <2>1, Operand
  <2>3. last \in Seq(Valid(program, heap)) /\ Len(last) = 2
    BY <2>2
  <2>4. stack \in Seq(Valid(program, heap)) /\ Len(stack) = Depth + Len(last)
    <3>1. S \in Seq(Valid(program, heap)) /\ Len(S) = Depth
      BY Own
    <3> HIDE DEF last
    <3> QED BY <2>3, <3>1, ConcatProperties
  <2>5. Way(F.pc + 1, 2) \in Moves(CodeOf(F), F.pc)
    BY <2>1, Leads
  <2>6. Ready({"DDUPLICATE"}, 2) /\ Go(stack, F.pc + 1)
    BY <1>3
  <2> HIDE DEF stack, last
  <2>7. Len(stack) <= Depth + 2
    BY <1>1, <2>3, <2>4
  <2> QED BY <1>1, <2>4, <2>5, <2>6, <2>7, OnStack
<1> QED BY <1>2, <1>3 DEF Duplicate

LEMMA FlipTwoStep == ASSUME IInv, FlipTwo PROVE IInv'
<1> DEFINE last == <<Top, Nth(1)>>
           stack == Drop(2) \o last
<1>1. /\ Ready({"FLIP_TWO"}, 2) /\ Go(stack, F.pc + 1)
      /\ program' = program /\ heap' = heap /\ locals' = locals /\ error' = error
  BY DEF FlipTwo
<1>2. Op = "FLIP_TWO" /\ Op = OpAt(CodeOf(F), F.pc) /\ Depth >= 2 /\ Depth \in Nat
  BY <1>1, Reads, Own
<1>3. Top \in Valid(program, heap) /\ Nth(1) \in Valid(program, heap)
  BY <1>2, Operand
<1>4. last \in Seq(Valid(program, heap)) /\ Len(last) = 2
  BY <1>3
<1>5. stack \in Seq(Valid(program, heap)) /\ Len(stack) = Depth - 2 + Len(last)
  <2> HIDE DEF last
  <2> QED BY <1>2, <1>4, Reordered
<1>6. Way(F.pc + 1, 0) \in Moves(CodeOf(F), F.pc)
  BY <1>2, Leads
<1> HIDE DEF stack, last
<1>7. Len(stack) <= Depth + 0
  BY <1>2, <1>4, <1>5
<1> QED BY <1>1, <1>5, <1>6, <1>7, OnStack

LEMMA SinkFirstStep == ASSUME IInv, SinkFirst PROVE IInv'
<1> DEFINE last == <<Top, Nth(2), Nth(1)>>
           stack == Drop(3) \o last
<1>1. /\ Ready({"SINK_FIRST"}, 3) /\ Go(stack, F.pc + 1)
      /\ program' = program /\ heap' = heap /\ locals' = locals /\ error' = error
  BY DEF SinkFirst
<1>2. Op = "SINK_FIRST" /\ Op = OpAt(CodeOf(F), F.pc) /\ Depth >= 3 /\ Depth \in Nat
  BY <1>1, Reads, Own
<1>3. Top \in Valid(program, heap) /\ Nth(1) \in Valid(program, heap) /\ Nth(2) \in Valid(program, heap)
  BY <1>2, Operand
<1>4. last \in Seq(Valid(program, heap)) /\ Len(last) = 3
  BY <1>3
<1>5. stack \in Seq(Valid(program, heap)) /\ Len(stack) = Depth - 3 + Len(last)
  <2> HIDE DEF last
  <2> QED BY <1>2, <1>4, Reordered
<1>6. Way(F.pc + 1, 0) \in Moves(CodeOf(F), F.pc)
  BY <1>2, Leads
<1> HIDE DEF stack, last
<1>7. Len(stack) <= Depth + 0
  BY <1>2, <1>4, <1>5
<1> QED BY <1>1, <1>5, <1>6, <1>7, OnStack

LEMMA IgnoreStep == ASSUME IInv, Ignore PROVE IInv'
<1>1. /\ Ready({"IGNORE"}, 0) /\ Go(S, F.pc + 1)
      /\ program' = program /\ heap' = heap /\ locals' = locals /\ error' = error
  BY DEF Ignore
<1>2. Op = "IGNORE" /\ Op = OpAt(CodeOf(F), F.pc)
  BY <1>1, Reads
<1>3. S \in Seq(Valid(program, heap)) /\ Len(S) <= Depth + 0
  BY Own
<1>4. Way(F.pc + 1, 0) \in Moves(CodeOf(F), F.pc)
  BY <1>2, Leads
<1> QED BY <1>1, <1>3, <1>4, OnStack

LEMMA JumpStep == ASSUME IInv, Jump PROVE IInv'
<1>1. /\ Ready({"JUMP"}, 0) /\ Go(S, Jumped(Arg, F.pc + 5))
      /\ program' = program /\ heap' = heap /\ locals' = locals /\ error' = error
  BY DEF Jump
<1>2. Op = "JUMP" /\ Op = OpAt(CodeOf(F), F.pc) /\ Arg = ArgAt(CodeOf(F), F.pc)
  BY <1>1, Reads
<1>3. S \in Seq(Valid(program, heap)) /\ Len(S) <= Depth + 0
  BY Own
<1>4. Way(Jumped(Arg, F.pc + 5), 0) \in Moves(CodeOf(F), F.pc)
  BY <1>2, Leads
<1> QED BY <1>1, <1>3, <1>4, OnStack

LEMMA JumpFalseStep == ASSUME IInv, JumpFalse PROVE IInv'
<1> DEFINE to == IF Truthy(Top) THEN F.pc + 5 ELSE Arg
<1>1. /\ Ready({"JUMP_FALSE"}, 1) /\ Go(Drop(1), to)
      /\ program' = program /\ heap' = heap /\ locals' = locals /\ error' = error
  BY DEF JumpFalse
<1>2. Op = "JUMP_FALSE" /\ Op = OpAt(CodeOf(F), F.pc) /\ Arg = ArgAt(CodeOf(F), F.pc) /\ Depth >= 1 /\ Depth \in Nat
  BY <1>1, Reads, Own
<1>3. Drop(1) \in Seq(Valid(program, heap)) /\ Len(Drop(1)) = Depth - 1
  BY <1>2, Dropped
<1>4. Len(Drop(1)) <= Depth + (-1)
  BY <1>2, <1>3
<1>5. Way(F.pc + 5, -1) \in Moves(CodeOf(F), F.pc) /\ Way(Arg, -1) \in Moves(CodeOf(F), F.pc)
  BY <1>2, Leads
<1>6. Way(to, -1) \in Moves(CodeOf(F), F.pc)
  BY <1>5
<1> HIDE DEF to
<1> QED BY <1>1, <1>3, <1>4, <1>6, OnStack

LEMMA JumpElsePopStep == ASSUME IInv, JumpElsePop PROVE IInv'
<1> DEFINE names == {"JUMP_TRUE_ELSE_POP", "JUMP_FALSE_ELSE_POP"}
<1>1. /\ Ready(names, 1)
      /\ Go(S, Arg) \/ Go(Drop(1), F.pc + 5)
      /\ program' = program /\ heap' = heap /\ locals' = locals /\ error' = error
  BY DEF JumpElsePop
<1>2. /\ Op \in names /\ Op = OpAt(CodeOf(F), F.pc) /\ Arg = ArgAt(CodeOf(F), F.pc) /\ Depth >= 1
      /\ S \in Seq(Valid(program, heap)) /\ Depth \in Nat /\ Len(S) <= Depth + 0
  BY <1>1, Reads, Own
<1>3. Drop(1) \in Seq(Valid(program, heap)) /\ Len(Drop(1)) = Depth - 1
  BY <1>2, Dropped
<1>4. Len(Drop(1)) <= Depth + (-1)
  BY <1>2, <1>3
<1>5. Way(F.pc + 5, -1) \in Moves(CodeOf(F), F.pc) /\ Way(Arg, 0) \in Moves(CodeOf(F), F.pc)
  BY <1>2, Leads
<1>6. CASE Go(S, Arg)
  BY <1>1, <1>2, <1>5, <1>6, OnStack
<1>7. CASE Go(Drop(1), F.pc + 5)
  BY <1>1, <1>3, <1>4, <1>5, <1>7, OnStack
<1> QED BY <1>1, <1>6, <1>7

-----------------------------------------------------------------------------
(* Variables.                                                              *)

LEMMA LocalPut ==
  ASSUME NEW p, NEW h, NEW l, LocalsOK(p, l, h), NEW c \in DOMAIN p.codes,
         NEW i \in 1 .. p.codes[c].num_locals, NEW v \in Valid(p, h)
  PROVE  LocalsOK(p, [l EXCEPT ![c][i] = v], h)
BY DEF LocalsOK

LEMMA SaveLocalStep == ASSUME IInv, SaveLocal PROVE IInv'
<1>1. /\ Ready({"SAVE_LOCAL"}, 1) /\ Go(S, F.pc + 5)
      /\ program' = program /\ heap' = heap /\ locals' = [locals EXCEPT ![F.code][Arg + 1] = Top] /\ error' = error
  BY DEF SaveLocal
<1>2. /\ Op = "SAVE_LOCAL" /\ Op = OpAt(CodeOf(F), F.pc) /\ Arg = ArgAt(CodeOf(F), F.pc) /\ Depth >= 1
      /\ OperandsOK(program.codes, CodeOf(F), F.pc)
  BY <1>1, Reads
<1>3. /\ Depth \in Nat /\ S \in Seq(Valid(program, heap)) /\ Len(S) <= Depth + 0 /\ F.code \in DOMAIN program.codes
      /\ HeapOK(program, heap) /\ LocalsOK(program, locals, heap) /\ Grown(heap, heap)
  BY Own
<1>4. Top \in Valid(program, heap)
  BY <1>2, <1>3, Operand
<1>5. Arg + 1 \in 1 .. program.codes[F.code].num_locals
  BY <1>2 DEF OperandsOK, CodeOf
<1>6. LocalsOK(program, locals', heap')
  BY <1>1, <1>3, <1>4, <1>5, LocalPut
<1> DEFINE m == Way(F.pc + 5, 0)
<1>7. m \in Moves(CodeOf(F), F.pc) /\ m.to = F.pc + 5 /\ m.by = 0
  BY <1>2, Leads DEF Way
<1> HIDE DEF m
<1>8. Go(S, m.to) /\ Len(S) <= Depth + m.by /\ m.by \in Int
  BY <1>1, <1>3, <1>7
<1> QED BY <1>1, <1>3, <1>6, <1>7, <1>8, Steps

LEMMA LoadLocalStep == ASSUME IInv, LoadLocal PROVE IInv'
<1> DEFINE stack == Append(S, locals[F.code][Arg + 1])
<1>1. /\ Ready({"LOAD_LOCAL"}, 0) /\ Go(stack, F.pc + 5)
      /\ program' = program /\ heap' = heap /\ locals' = locals /\ error' = error
  BY DEF LoadLocal
<1>2. /\ Op = "LOAD_LOCAL" /\ Op = OpAt(CodeOf(F), F.pc) /\ Arg = ArgAt(CodeOf(F), F.pc)
      /\ OperandsOK(program.codes, CodeOf(F), F.pc)
  BY <1>1, Reads
<1>3. /\ Depth \in Nat /\ F.code \in DOMAIN program.codes /\ LocalsOK(program, locals, heap) /\ Grown(heap, heap)
  BY Own
<1>4. Arg + 1 \in 1 .. program.codes[F.code].num_locals
  BY <1>2 DEF OperandsOK, CodeOf
<1>5. locals[F.code][Arg + 1] \in Valid(program, heap)
  BY <1>3, <1>4 DEF LocalsOK
<1>6. stack \in Seq(Valid(program, heap)) /\ Len(stack) <= Depth + 1
  BY <1>3, <1>5, OnTop
<1>7. Way(F.pc + 5, 1) \in Moves(CodeOf(F), F.pc)
  BY <1>2, Leads
<1> HIDE DEF stack
<1> QED BY <1>1, <1>6, <1>7, OnStack

\* The members of a cell that has members.
LEMMA MemberGives ==
  ASSUME NEW p, NEW h, HeapOK(p, h), NEW a \in Buckets(h), NEW name
  PROVE  Member(h, a, name) \in Valid(p, h)
<1>1. CellOK(p, h[a], h) /\ DOMAIN h[a] = {"members"}
  BY DEF HeapOK, Buckets
<1>2. \A n \in DOMAIN h[a].members : h[a].members[n] \in Valid(p, h)
  BY <1>1 DEF CellOK
<1> QED BY <1>2, PlainValues DEF Member

LEMMA MembersPut ==
  ASSUME NEW p, NEW h, HeapOK(p, h), NEW a \in Buckets(h), NEW ms, \A n \in DOMAIN ms : ms[n] \in Valid(p, h)
  PROVE  HeapOK(p, [h EXCEPT ![a].members = ms]) /\ Grown(h, [h EXCEPT ![a].members = ms])
<1> DEFINE c == [h[a] EXCEPT !.members = ms]
<1>1. a \in DOMAIN h /\ DOMAIN h[a] = {"members"}
  BY DEF Buckets
<1>2. DOMAIN c = {"members"} /\ c.members = ms
  BY <1>1
<1>3. [h EXCEPT ![a].members = ms] = [h EXCEPT ![a] = c]
  BY <1>1
<1> HIDE DEF c
<1>4. CellOK(p, c, h)
  BY <1>2 DEF CellOK
<1> QED BY <1>1, <1>2, <1>3, <1>4, HeapPut

LEMMA WithMemberPuts ==
  ASSUME NEW p, NEW h, HeapOK(p, h), NEW a \in Buckets(h), NEW name, NEW v \in Valid(p, h)
  PROVE  HeapOK(p, WithMember(h, a, name, v)) /\ Grown(h, WithMember(h, a, name, v))
<1> DEFINE old == h[a].members
           ms == [n \in DOMAIN old \cup {name} |-> IF n \in {name} THEN v ELSE old[n]]
<1>1. CellOK(p, h[a], h) /\ DOMAIN h[a] = {"members"}
  BY DEF HeapOK, Buckets
<1>2. \A n \in DOMAIN old : old[n] \in Valid(p, h)
  BY <1>1 DEF CellOK
<1>3. \A n \in DOMAIN ms : ms[n] \in Valid(p, h)
  BY <1>2
<1>4. WithMember(h, a, name, v) = [h EXCEPT ![a].members = ms]
  BY DEF WithMember, Setting
<1> HIDE DEF ms
<1>5. /\ HeapOK(p, [h EXCEPT ![a].members = ms])
      /\ Grown(h, [h EXCEPT ![a].members = ms])
  BY <1>3, MembersPut
<1> QED BY <1>4, <1>5, Zenon

LEMMA EnclosingGives ==
  ASSUME IInv, NEW name, Enclosing(name) # 0
  PROVE  Enclosing(name) \in Buckets(heap)
<1> DEFINE having == {i \in 1 .. Len(F.parents) : Member(heap, F.parents[i], name) # NULL}
<1>1. F.parents \in Seq(Buckets(heap)) /\ Len(F.parents) \in Nat
  BY Own, LenProperties
<1>2. having # {} /\ Enclosing(name) = F.parents[Max(having)]
  BY DEF Enclosing
<1>3. having \in SUBSET (1 .. Len(F.parents))
  OBVIOUS
<1> HIDE DEF having
<1>4. Max(having) \in 1 .. Len(F.parents)
  BY <1>1, <1>2, <1>3, MaxOf
<1> QED BY <1>1, <1>2, <1>4, ElementOfSeq

\* An instruction that leads on beside a heap that has grown.
LEMMA OnHeap ==
  ASSUME IInv, NEW names, NEW n \in Nat, Ready(names, n), names \cap {"PUSH_CATCH", "POP_CATCH"} = {},
         program' = program, locals' = locals, error' = error, Grown(heap, heap'), HeapOK(program, heap'),
         NEW stack \in Seq(Valid(program, heap')), NEW to, NEW by \in Int, Way(to, by) \in Moves(CodeOf(F), F.pc),
         Go(stack, to), Len(stack) <= Depth + by
  PROVE  IInv'
<1> DEFINE m == Way(to, by)
<1>1. m.to = to /\ m.by = by
  BY DEF Way
<1>2. LocalsOK(program, locals', heap')
  BY Own, LocalsStay
<1> HIDE DEF m
<1>3. m \in Moves(CodeOf(F), F.pc) /\ m.by \in Int /\ Go(stack, m.to) /\ Len(stack) <= Depth + m.by
  BY <1>1 DEF m
<1> QED BY <1>2, <1>3, Steps

\* A cell more.
LEMMA Allocates ==
  ASSUME IInv, NEW c, Alloc(c), CellOK(program, c, heap), NEW kind \in DOMAIN Shape, DOMAIN c = Shape[kind]
  PROVE  Grown(heap, heap') /\ HeapOK(program, heap') /\ NextRef(kind) \in Valid(program, heap')
<1>1. HeapOK(program, heap) /\ heap' = Append(heap, c)
  BY Own DEF Alloc
<1>2. HeapOK(program, Append(heap, c)) /\ Grown(heap, Append(heap, c))
  BY <1>1, HeapAdd
<1>3. Val(kind, Len(heap) + 1) \in Valid(program, Append(heap, c))
  BY <1>1, NewRef
<1> QED BY <1>1, <1>2, <1>3 DEF NextRef

\* An exception on its way.
LEMMA OnError ==
  ASSUME IInv, NEW names, NEW n \in Nat, Ready(names, n), names \cap {"PUSH_CATCH", "POP_CATCH"} = {},
         program' = program, locals' = locals, NEW custom \in Valid(program, heap),
         Alloc(Raised(custom)), error' = NextRef("error"),
         NEW stack, Grown(heap, heap') => stack \in Seq(Valid(program, heap')),
         NEW to, NEW by \in Int, Way(to, by) \in Throws(CodeOf(F), F.pc),
         Go(stack, to), Len(stack) <= Depth + by
  PROVE  IInv'
<1>1. CellOK(program, Raised(custom), heap) /\ DOMAIN Raised(custom) = {"members"}
  BY DEF Raised, CellOK
<1>2. "error" \in DOMAIN Shape /\ Shape["error"] = {"members"}
  BY DEF Shape
<1>3. Grown(heap, heap') /\ HeapOK(program, heap') /\ error' \in Valid(program, heap')
  BY <1>1, <1>2, Allocates
<1>4. LocalsOK(program, locals', heap')
  BY <1>3, Own, LocalsStay
<1> DEFINE m == Way(to, by)
<1>5. m.to = to /\ m.by = by
  BY DEF Way
<1> HIDE DEF m
<1>6. m \in Throws(CodeOf(F), F.pc) /\ m.by \in Int /\ Go(stack, m.to) /\ Len(stack) <= Depth + m.by
  BY <1>5 DEF m
<1>7. stack \in Seq(Valid(program, heap'))
  BY <1>3
<1> QED BY <1>3, <1>4, <1>6, <1>7, Steps

LEMMA SaveCloseStep == ASSUME IInv, SaveClose PROVE IInv'
<1> DEFINE bk == IF Enclosing(Name) # 0 THEN Enclosing(Name) ELSE F.bucket
<1>1. /\ Ready({"SAVE_CLOSE"}, 1) /\ Go(S, F.pc + 5)
      /\ program' = program /\ locals' = locals /\ error' = error /\ heap' = WithMember(heap, bk, Name, Top)
  BY DEF SaveClose
<1>2. Op = "SAVE_CLOSE" /\ Op = OpAt(CodeOf(F), F.pc) /\ Depth >= 1
  BY <1>1, Reads
<1>3. Depth \in Nat /\ HeapOK(program, heap) /\ F.bucket \in Buckets(heap)
  BY Own
<1>4. Top \in Valid(program, heap)
  BY <1>2, <1>3, Operand
<1>5. bk \in Buckets(heap)
  BY <1>3, EnclosingGives
<1> HIDE DEF bk
<1>6. Grown(heap, heap') /\ HeapOK(program, heap')
  BY <1>1, <1>3, <1>4, <1>5, WithMemberPuts
<1>7. Top \in Valid(program, heap')
  BY <1>4, <1>6, ValuesStay
<1>8. S \in Seq(Valid(program, heap')) /\ Len(S) <= Depth + 0
  BY <1>3, <1>6, <1>7, OnTop
<1>9. Way(F.pc + 5, 0) \in Moves(CodeOf(F), F.pc)
  BY <1>2, Leads
<1> QED BY <1>1, <1>6, <1>8, <1>9, OnHeap

LEMMA LoadCloseStep == ASSUME IInv, LoadClose PROVE IInv'
<1> DEFINE own == Member(heap, F.bucket, Name)
           v == IF own # NULL THEN own
                ELSE IF Enclosing(Name) # 0 THEN Member(heap, Enclosing(Name), Name) ELSE NULL
           stack == Append(S, v)
<1>1. /\ Ready({"LOAD_CLOSE"}, 0) /\ program' = program /\ locals' = locals
      /\ \/ v # NULL /\ Go(stack, F.pc + 5) /\ heap' = heap /\ error' = error
         \/ Go(S, F.pc + 5) /\ Alloc(Raised(NULL)) /\ error' = NextRef("error")
  BY DEF LoadClose
<1>2. Op = "LOAD_CLOSE" /\ Op = OpAt(CodeOf(F), F.pc)
  BY <1>1, Reads
<1>3. Depth \in Nat /\ HeapOK(program, heap) /\ F.bucket \in Buckets(heap) /\ Grown(heap, heap)
  BY Own
<1>4. v \in Valid(program, heap)
  <2>1. own \in Valid(program, heap)
    BY <1>3, MemberGives
  <2>2. ASSUME Enclosing(Name) # 0 PROVE Member(heap, Enclosing(Name), Name) \in Valid(program, heap)
    BY <1>3, <2>2, EnclosingGives, MemberGives
  <2> QED BY <2>1, <2>2, PlainValues
<1>5. stack \in Seq(Valid(program, heap)) /\ Len(stack) <= Depth + 1
  <2> HIDE DEF v
  <2> QED BY <1>3, <1>4, OnTop
<1>6. Way(F.pc + 5, 1) \in Moves(CodeOf(F), F.pc) /\ Way(F.pc + 5, 0) \in Throws(CodeOf(F), F.pc)
  BY <1>2, Leads, LeadsOut
<1> HIDE DEF stack, v
<1>7. CASE Go(stack, F.pc + 5) /\ heap' = heap /\ error' = error
  BY <1>1, <1>5, <1>6, <1>7, OnStack
<1>8. CASE Go(S, F.pc + 5) /\ Alloc(Raised(NULL)) /\ error' = NextRef("error")
  <2>1. Grown(heap, heap') => S \in Seq(Valid(program, heap'))
    BY OnTop, PlainValues
  <2>2. NULL \in Valid(program, heap) /\ Len(S) <= Depth + 0
    BY PlainValues, Own
  <2> QED BY <1>1, <1>6, <1>8, <2>1, <2>2, OnError
<1> QED BY <1>1, <1>7, <1>8

-----------------------------------------------------------------------------
(* Objects and arrays.                                                     *)

LEMMA PushNewObjectStep == ASSUME IInv, PushNewObject PROVE IInv'
<1> DEFINE c == [members |-> << >>]
           stack == Append(S, NextRef("object"))
<1>1. /\ Ready({"PUSH_NEW_OBJECT"}, 0) /\ Alloc(c) /\ Go(stack, F.pc + 1)
      /\ program' = program /\ locals' = locals /\ error' = error
  BY DEF PushNewObject
<1>2. Op = "PUSH_NEW_OBJECT" /\ Op = OpAt(CodeOf(F), F.pc) /\ Depth \in Nat
  BY <1>1, Reads, Own
<1>3. CellOK(program, c, heap) /\ DOMAIN c = {"members"}
  BY DEF CellOK
<1>4. "object" \in DOMAIN Shape /\ Shape["object"] = {"members"}
  BY DEF Shape
<1> HIDE DEF c
<1>5. Grown(heap, heap') /\ HeapOK(program, heap') /\ NextRef("object") \in Valid(program, heap')
  BY <1>1, <1>3, <1>4, Allocates
<1>6. stack \in Seq(Valid(program, heap')) /\ Len(stack) <= Depth + 1
  BY <1>2, <1>5, OnTop
<1>7. Way(F.pc + 1, 1) \in Moves(CodeOf(F), F.pc)
  BY <1>2, Leads
<1> HIDE DEF stack
<1> QED BY <1>1, <1>5, <1>6, <1>7, OnHeap

LEMMA HasBucket ==
  ASSUME NEW p, NEW h, NEW v \in Valid(p, h), HasMembers(v)
  PROVE  v.at \in Buckets(h)
BY DEF HasMembers, Valid, Shape, Buckets

LEMMA LoadMemberStep == ASSUME IInv, LoadMember PROVE IInv'
<1> DEFINE v == IF HasMembers(Top) THEN Member(heap, Top.at, Name) ELSE NULL
           stack == Append(Drop(1), v)
<1>1. /\ Ready({"LOAD_MEMBER"}, 1) /\ program' = program /\ locals' = locals
      /\ \/ v # NULL /\ Go(stack, F.pc + 5) /\ heap' = heap /\ error' = error
         \/ Go(Drop(1), F.pc + 5) /\ Alloc(Raised(NULL)) /\ error' = NextRef("error")
  BY DEF LoadMember
<1>2. Op = "LOAD_MEMBER" /\ Op = OpAt(CodeOf(F), F.pc) /\ Depth >= 1
  BY <1>1, Reads
<1>3. Depth \in Nat /\ HeapOK(program, heap) /\ Grown(heap, heap)
  BY Own
<1>4. v \in Valid(program, heap)
  <2>1. Top \in Valid(program, heap)
    BY <1>2, <1>3, Operand
  <2>2. ASSUME HasMembers(Top) PROVE Member(heap, Top.at, Name) \in Valid(program, heap)
    BY <1>3, <2>1, <2>2, HasBucket, MemberGives
  <2> QED BY <2>2, PlainValues
<1>5. stack \in Seq(Valid(program, heap)) /\ Len(stack) <= Depth + 0
  <2> HIDE DEF v
  <2>1. stack \in Seq(Valid(program, heap)) /\ Len(stack) = Depth - 1 + 1
    BY <1>2, <1>3, <1>4, Replaced
  <2> QED BY <1>3, <2>1
<1>6. Way(F.pc + 5, 0) \in Moves(CodeOf(F), F.pc) /\ Way(F.pc + 5, -1) \in Throws(CodeOf(F), F.pc)
  BY <1>2, Leads, LeadsOut
<1> HIDE DEF stack, v
<1>7. CASE Go(stack, F.pc + 5) /\ heap' = heap /\ error' = error
  BY <1>1, <1>5, <1>6, <1>7, OnStack
<1>8. CASE Go(Drop(1), F.pc + 5) /\ Alloc(Raised(NULL)) /\ error' = NextRef("error")
  <2>1. Grown(heap, heap') => Drop(1) \in Seq(Valid(program, heap'))
    BY <1>2, Left
  <2>2. Len(Drop(1)) = Depth - 1
    BY <1>2, Dropped
  <2>3. NULL \in Valid(program, heap) /\ Len(Drop(1)) <= Depth + (-1)
    BY <1>3, <2>2, PlainValues
  <2> QED BY <1>1, <1>6, <1>8, <2>1, <2>3, OnError
<1> QED BY <1>1, <1>7, <1>8

LEMMA SaveMemberStep == ASSUME IInv, SaveMember PROVE IInv'
<1>1. /\ Ready({"SAVE_MEMBER"}, 2) /\ Go(Drop(1), F.pc + 5)
      /\ program' = program /\ locals' = locals /\ error' = error
      /\ heap' = IF HasMembers(Top) THEN WithMember(heap, Top.at, Name, Nth(1)) ELSE heap
  BY DEF SaveMember
<1>2. Op = "SAVE_MEMBER" /\ Op = OpAt(CodeOf(F), F.pc) /\ Depth >= 2
  BY <1>1, Reads
<1>3. Depth \in Nat /\ HeapOK(program, heap) /\ Grown(heap, heap)
  BY Own
<1>4. Top \in Valid(program, heap) /\ Nth(1) \in Valid(program, heap)
  BY <1>2, <1>3, Operand
<1>5. Grown(heap, heap') /\ HeapOK(program, heap')
  <2>1. CASE HasMembers(Top)
    BY <1>1, <1>3, <1>4, <2>1, HasBucket, WithMemberPuts
  <2>2. CASE ~HasMembers(Top)
    BY <1>1, <1>3, <2>2
  <2> QED BY <2>1, <2>2
<1>6. Drop(1) \in Seq(Valid(program, heap')) /\ Len(Drop(1)) = Depth - 1
  BY <1>2, <1>3, <1>5, Left
<1>7. Len(Drop(1)) <= Depth + (-1)
  BY <1>3, <1>6
<1>8. Way(F.pc + 5, -1) \in Moves(CodeOf(F), F.pc)
  BY <1>2, Leads
<1> QED BY <1>1, <1>5, <1>6, <1>7, <1>8, OnHeap

LEMMA MakeArrayStep == ASSUME IInv, MakeArray PROVE IInv'
<1> DEFINE c == [items |-> SubSeq(S, Depth - Arg + 1, Depth)]
           stack == Append(Drop(Arg), NextRef("array"))
<1>1. /\ Ready({"MAKE_ARRAY"}, Arg) /\ Alloc(c) /\ Go(stack, F.pc + 5)
      /\ program' = program /\ locals' = locals /\ error' = error
  BY DEF MakeArray
<1>2. /\ Op = "MAKE_ARRAY" /\ Op = OpAt(CodeOf(F), F.pc) /\ Arg = ArgAt(CodeOf(F), F.pc) /\ Depth >= Arg
  BY <1>1, Reads
<1>3. Arg \in Nat
  BY <1>1, <1>2, Reads DEF Wide
<1>4. Depth \in Nat /\ S \in Seq(Valid(program, heap)) /\ Depth = Len(S)
  BY Own
<1>5. SubSeq(S, Depth - Arg + 1, Depth) \in Seq(Valid(program, heap))
  <2>1. \A i \in Depth - Arg + 1 .. Depth : i \in 1 .. Len(S)
    BY <1>2, <1>3, <1>4
  <2>2. \A i \in Depth - Arg + 1 .. Depth : S[i] \in Valid(program, heap)
    BY <1>4, <2>1, ElementOfSeq
  <2>3. Depth - Arg + 1 \in Int /\ Depth \in Int
    BY <1>3, <1>4
  <2> QED BY <2>2, <2>3, SubSeqProperties
<1>6. CellOK(program, c, heap) /\ DOMAIN c = {"items"}
  BY <1>5 DEF CellOK
<1>7. "array" \in DOMAIN Shape /\ Shape["array"] = {"items"}
  BY DEF Shape
<1> HIDE DEF c
<1>8. Grown(heap, heap') /\ HeapOK(program, heap') /\ NextRef("array") \in Valid(program, heap')
  BY <1>1, <1>6, <1>7, Allocates
<1>9. stack \in Seq(Valid(program, heap')) /\ Len(stack) = Depth - Arg + 1
  BY <1>2, <1>3, <1>8, Replaced
<1>10. Way(F.pc + 5, 1 - Arg) \in Moves(CodeOf(F), F.pc)
  BY <1>2, Leads
<1>11. Len(stack) <= Depth + (1 - Arg) /\ 1 - Arg \in Int
  BY <1>3, <1>4, <1>9
<1> HIDE DEF stack
<1> QED BY <1>1, <1>3, <1>8, <1>9, <1>10, <1>11, OnHeap

\* The items of an array.
LEMMA ItemsOf ==
  ASSUME NEW p, NEW h, HeapOK(p, h), NEW v \in Valid(p, h), v.kind = "array"
  PROVE  /\ v.at \in DOMAIN h /\ DOMAIN h[v.at] = {"items"} /\ h[v.at].items \in Seq(Valid(p, h))
<1>1. v.at \in DOMAIN h /\ DOMAIN h[v.at] = {"items"}
  BY DEF Valid, Shape
<1>2. CellOK(p, h[v.at], h)
  BY <1>1 DEF HeapOK
<1> QED BY <1>1, <1>2 DEF CellOK

LEMMA LoadIndexStep == ASSUME IInv, LoadIndex PROVE IInv'
<1> DEFINE arr == Nth(1)
           item == Append(Drop(2), Items(arr)[Top.at + 1])
           none == Append(Drop(2), Nil)
<1>1. /\ Ready({"LOAD_INDEX"}, 2) /\ program' = program /\ locals' = locals
      /\ arr.kind = "array" => Top.kind = "int" /\ Top.at >= 0
  BY DEF LoadIndex
<1>2. \/ arr.kind = "array" /\ InRange(arr, Top) /\ Go(item, F.pc + 1) /\ heap' = heap /\ error' = error
      \/ Go(none, F.pc + 1) /\ Alloc(Raised(NULL)) /\ error' = NextRef("error")
  BY DEF LoadIndex
<1>3. Op = "LOAD_INDEX" /\ Op = OpAt(CodeOf(F), F.pc) /\ Depth >= 2
  BY <1>1, Reads
<1>4. Depth \in Nat /\ HeapOK(program, heap) /\ Grown(heap, heap)
  BY Own
<1>5. Way(F.pc + 1, -1) \in Moves(CodeOf(F), F.pc) /\ Way(F.pc + 1, -1) \in Throws(CodeOf(F), F.pc)
  BY <1>3, Leads, LeadsOut
<1>6. CASE arr.kind = "array" /\ InRange(arr, Top) /\ Go(item, F.pc + 1) /\ heap' = heap /\ error' = error
  <2>1. Top \in Valid(program, heap) /\ arr \in Valid(program, heap)
    BY <1>3, <1>4, Operand
  <2>2. Items(arr) \in Seq(Valid(program, heap))
    BY <1>4, <1>6, <2>1, ItemsOf DEF Items
  <2>3. Top.at \in Int /\ Top.at >= 0 /\ Top.at < Len(Items(arr)) /\ Len(Items(arr)) \in Nat
    BY <1>1, <1>6, <2>1, <2>2, LenProperties DEF Valid, InRange
  <2>4. Top.at + 1 \in 1 .. Len(Items(arr))
    BY <2>3
  <2>5. Items(arr)[Top.at + 1] \in Valid(program, heap)
    BY <2>2, <2>4, ElementOfSeq
  <2>6. item \in Seq(Valid(program, heap)) /\ Len(item) = Depth - 2 + 1
    BY <1>3, <1>4, <2>5, Replaced
  <2>7. Len(item) <= Depth + (-1)
    BY <1>4, <2>6
  <2> HIDE DEF item
  <2> QED BY <1>1, <1>5, <1>6, <2>6, <2>7, OnStack
<1>7. CASE Go(none, F.pc + 1) /\ Alloc(Raised(NULL)) /\ error' = NextRef("error")
  <2>1. Grown(heap, heap') => none \in Seq(Valid(program, heap'))
    BY <1>3, Replaced, PlainValues
  <2>2. Len(none) = Depth - 2 + 1
    BY <1>3, <1>4, Replaced, PlainValues
  <2> HIDE DEF none
  <2>3. NULL \in Valid(program, heap) /\ Len(none) <= Depth + (-1)
    BY <1>4, <2>2, PlainValues
  <2> QED BY <1>1, <1>5, <1>7, <2>1, <2>3, OnError
<1> QED BY <1>2, <1>6, <1>7

LEMMA ItemPut ==
  ASSUME NEW p, NEW h, HeapOK(p, h), NEW arr \in Valid(p, h), arr.kind = "array",
         NEW i \in 1 .. Len(h[arr.at].items), NEW v \in Valid(p, h)
  PROVE  HeapOK(p, [h EXCEPT ![arr.at].items[i] = v]) /\ Grown(h, [h EXCEPT ![arr.at].items[i] = v])
<1> DEFINE a == arr.at
           new == [h[a].items EXCEPT ![i] = v]
           c == [h[a] EXCEPT !.items = new]
<1>1. a \in DOMAIN h /\ DOMAIN h[a] = {"items"} /\ h[a].items \in Seq(Valid(p, h))
  BY ItemsOf
<1>2. new \in Seq(Valid(p, h))
  BY <1>1, ExceptSeq
<1>3. DOMAIN c = {"items"} /\ c.items = new
  BY <1>1
<1>4. [h EXCEPT ![a].items[i] = v] = [h EXCEPT ![a] = c]
  BY <1>1
<1> HIDE DEF c, new
<1>5. CellOK(p, c, h)
  BY <1>2, <1>3 DEF CellOK
<1>6. HeapOK(p, [h EXCEPT ![a] = c]) /\ Grown(h, [h EXCEPT ![a] = c])
  BY <1>1, <1>3, <1>5, HeapPut
<1> QED BY <1>4, <1>6, Zenon

LEMMA SaveIndexStep == ASSUME IInv, SaveIndex PROVE IInv'
<1> DEFINE arr == Nth(1)
<1>1. /\ Ready({"SAVE_INDEX"}, 3) /\ program' = program /\ locals' = locals /\ Go(Drop(2), F.pc + 1)
      /\ arr.kind = "array" => Top.kind = "int" /\ Top.at >= 0
  BY DEF SaveIndex
<1>2. \/ /\ arr.kind = "array" /\ InRange(arr, Top) /\ error' = error
         /\ heap' = [heap EXCEPT ![arr.at].items[Top.at + 1] = Nth(2)]
      \/ Alloc(Raised(NULL)) /\ error' = NextRef("error")
  BY DEF SaveIndex
<1>3. Op = "SAVE_INDEX" /\ Op = OpAt(CodeOf(F), F.pc) /\ Depth >= 3
  BY <1>1, Reads
<1>4. Depth \in Nat /\ Depth >= 2 /\ HeapOK(program, heap)
  BY <1>3, Own
<1>5. Way(F.pc + 1, -2) \in Moves(CodeOf(F), F.pc) /\ Way(F.pc + 1, -2) \in Throws(CodeOf(F), F.pc)
  BY <1>3, Leads, LeadsOut
<1>6. Len(Drop(2)) <= Depth + (-2)
  <2>1. Len(Drop(2)) = Depth - 2
    BY <1>3, <1>4, Dropped
  <2> QED BY <1>4, <2>1
<1>7. CASE /\ arr.kind = "array" /\ InRange(arr, Top) /\ error' = error
           /\ heap' = [heap EXCEPT ![arr.at].items[Top.at + 1] = Nth(2)]
  <2>1. Top \in Valid(program, heap) /\ arr \in Valid(program, heap) /\ Nth(2) \in Valid(program, heap)
    BY <1>3, <1>4, Operand
  <2>2. Items(arr) \in Seq(Valid(program, heap))
    BY <1>4, <1>7, <2>1, ItemsOf DEF Items
  <2>3. Top.at \in Int /\ Top.at >= 0 /\ Top.at < Len(Items(arr)) /\ Len(Items(arr)) \in Nat
    BY <1>1, <1>7, <2>1, <2>2, LenProperties DEF Valid, InRange
  <2>4. Top.at + 1 \in 1 .. Len(heap[arr.at].items)
    BY <2>3 DEF Items
  <2> HIDE DEF arr
  <2>5. HeapOK(program, heap') /\ Grown(heap, heap')
    BY <1>4, <1>7, <2>1, <2>4, ItemPut
  <2>6. Drop(2) \in Seq(Valid(program, heap'))
    BY <1>4, <2>5, Left
  <2>7. error' = error
    BY <1>7
  <2> QED BY <1>1, <1>5, <1>6, <2>5, <2>6, <2>7, OnHeap
<1>8. CASE Alloc(Raised(NULL)) /\ error' = NextRef("error")
  <2>1. Grown(heap, heap') => Drop(2) \in Seq(Valid(program, heap'))
    BY <1>4, Left
  <2>2. NULL \in Valid(program, heap)
    BY PlainValues
  <2> QED BY <1>1, <1>5, <1>6, <1>8, <2>1, <2>2, OnError
<1> QED BY <1>2, <1>7, <1>8

LEMMA MakeObjectStep == ASSUME IInv, MakeObject PROVE IInv'
<1> DEFINE name(k) == CodeOf(F).names[Word(Ops, F.pc + 2 + 4 * k) + 1]
           named == {name(k) : k \in 1 .. Arg}
           having(n) == {k \in 1 .. Arg : name(k) = n}
           value(n) == Nth(Max(having(n)))
           old == heap[Top.at].members
           ms == [n \in DOMAIN old \cup named |-> IF n \in named THEN value(n) ELSE old[n]]
           stack == Append(Drop(1 + Arg), Top)
<1>1. /\ Ready({"MAKE_OBJECT"}, 1 + Arg) /\ HasMembers(Top) /\ Go(stack, F.pc + 5 + 4 * Arg)
      /\ program' = program /\ locals' = locals /\ error' = error
      /\ heap' = [heap EXCEPT ![Top.at].members = ms]
  BY DEF MakeObject, Setting
<1>2. /\ Op = "MAKE_OBJECT" /\ Op = OpAt(CodeOf(F), F.pc) /\ Arg = ArgAt(CodeOf(F), F.pc) /\ Depth >= 1 + Arg
  BY <1>1, Reads
<1>3. Arg \in Nat
  BY <1>1, <1>2, Reads DEF Wide
<1>4. Depth \in Nat /\ Depth >= 1 /\ HeapOK(program, heap)
  BY <1>2, <1>3, Own
<1>5. Top \in Valid(program, heap) /\ Top.at \in Buckets(heap)
  BY <1>1, <1>4, Operand, HasBucket
<1>6. \A n \in named : value(n) \in Valid(program, heap)
  <2> SUFFICES ASSUME NEW n \in named PROVE value(n) \in Valid(program, heap)
    OBVIOUS
  <2>1. having(n) \in SUBSET (1 .. Arg) /\ having(n) # {}
    OBVIOUS
  <2>2. Max(having(n)) \in having(n)
    <3> HIDE DEF having
    <3> QED BY <1>3, <2>1, MaxOf
  <2>3. Max(having(n)) \in 1 .. Arg
    BY <2>1, <2>2
  <2> HIDE DEF having
  <2>4. Max(having(n)) \in Nat /\ Depth > Max(having(n))
    BY <1>2, <1>3, <1>4, <2>3
  <2> QED BY <2>4, Operand
<1>7. \A n \in DOMAIN old : old[n] \in Valid(program, heap)
  BY <1>4, <1>5 DEF HeapOK, CellOK, Buckets
<1>8. \A n \in DOMAIN ms : ms[n] \in Valid(program, heap)
  <2> HIDE DEF named, value, old
  <2> QED BY <1>6, <1>7
<1> HIDE DEF ms
<1>9. /\ HeapOK(program, [heap EXCEPT ![Top.at].members = ms])
      /\ Grown(heap, [heap EXCEPT ![Top.at].members = ms])
  BY <1>4, <1>5, <1>8, MembersPut
<1>10. HeapOK(program, heap') /\ Grown(heap, heap')
  BY <1>1, <1>9, Zenon
<1>11. Top \in Valid(program, heap')
  BY <1>5, <1>10, ValuesStay
<1>12. stack \in Seq(Valid(program, heap')) /\ Len(stack) = Depth - (1 + Arg) + 1
  BY <1>2, <1>3, <1>10, <1>11, Replaced
<1>13. Way(F.pc + 5 + 4 * Arg, -Arg) \in Moves(CodeOf(F), F.pc)
  BY <1>2, Leads
<1> HIDE DEF stack
<1>14. Len(stack) <= Depth + (-Arg) /\ -Arg \in Int /\ 1 + Arg \in Nat
  BY <1>3, <1>4, <1>12
<1>15. program' = program /\ locals' = locals /\ error' = error
  BY <1>1
<1>16. Ready({"MAKE_OBJECT"}, 1 + Arg) /\ Go(stack, F.pc + 5 + 4 * Arg)
  BY <1>1
<1> QED BY <1>10, <1>12, <1>13, <1>14, <1>15, <1>16, OnHeap

-----------------------------------------------------------------------------
(* Iterators.                                                              *)

LEMMA MakeIterStep == ASSUME IInv, MakeIter PROVE IInv'
<1> DEFINE c == [store |-> Top, index |-> 0]
           stack == Append(Drop(1), NextRef("iterable"))
<1>1. /\ Ready({"MAKE_ITER"}, 1) /\ Top.kind = "array" /\ Alloc(c) /\ Go(stack, F.pc + 1)
      /\ program' = program /\ locals' = locals /\ error' = error
  BY DEF MakeIter
<1>2. Op = "MAKE_ITER" /\ Op = OpAt(CodeOf(F), F.pc) /\ Depth >= 1 /\ Depth \in Nat
  BY <1>1, Reads, Own
<1>3. Top \in Valid(program, heap)
  BY <1>2, Operand
<1>4. CellOK(program, c, heap) /\ DOMAIN c = {"store", "index"}
  BY <1>1, <1>3 DEF CellOK
<1>5. "iterable" \in DOMAIN Shape /\ Shape["iterable"] = {"store", "index"}
  BY DEF Shape
<1> HIDE DEF c
<1>6. Grown(heap, heap') /\ HeapOK(program, heap') /\ NextRef("iterable") \in Valid(program, heap')
  BY <1>1, <1>4, <1>5, Allocates
<1>7. stack \in Seq(Valid(program, heap')) /\ Len(stack) = Depth - 1 + 1
  BY <1>2, <1>6, Replaced
<1>8. Way(F.pc + 1, 0) \in Moves(CodeOf(F), F.pc)
  BY <1>2, Leads
<1> HIDE DEF stack
<1>9. Len(stack) <= Depth + 0
  BY <1>2, <1>7
<1> QED BY <1>1, <1>6, <1>7, <1>8, <1>9, OnHeap

LEMMA IterOf ==
  ASSUME NEW p, NEW h, HeapOK(p, h), NEW v \in Valid(p, h), v.kind = "iterable"
  PROVE  /\ v.at \in DOMAIN h /\ DOMAIN h[v.at] = {"store", "index"}
         /\ h[v.at].store \in Valid(p, h) /\ h[v.at].store.kind = "array" /\ h[v.at].index \in Nat
<1>1. v.at \in DOMAIN h /\ DOMAIN h[v.at] = {"store", "index"}
  BY DEF Valid, Shape
<1>2. CellOK(p, h[v.at], h)
  BY <1>1 DEF HeapOK
<1> QED BY <1>1, <1>2 DEF CellOK

LEMMA IndexPut ==
  ASSUME NEW p, NEW h, HeapOK(p, h), NEW v \in Valid(p, h), v.kind = "iterable"
  PROVE  HeapOK(p, [h EXCEPT ![v.at].index = @ + 1]) /\ Grown(h, [h EXCEPT ![v.at].index = @ + 1])
<1> DEFINE a == v.at
           c == [h[a] EXCEPT !.index = @ + 1]
<1>1. /\ a \in DOMAIN h /\ DOMAIN h[a] = {"store", "index"}
      /\ h[a].store \in Valid(p, h) /\ h[a].store.kind = "array" /\ h[a].index \in Nat
  BY IterOf
<1>2. DOMAIN c = {"store", "index"} /\ c.store = h[a].store /\ c.index = h[a].index + 1
  BY <1>1
<1>3. [h EXCEPT ![a].index = @ + 1] = [h EXCEPT ![a] = c]
  BY <1>1
<1> HIDE DEF c
<1>4. CellOK(p, c, h)
  BY <1>1, <1>2 DEF CellOK
<1>5. HeapOK(p, [h EXCEPT ![a] = c]) /\ Grown(h, [h EXCEPT ![a] = c])
  BY <1>1, <1>2, <1>4, HeapPut
<1> QED BY <1>3, <1>5, Zenon

LEMMA NextIterOrJumpStep == ASSUME IInv, NextIterOrJump PROVE IInv'
<1> DEFINE it == heap[Top.at]
           more == Top.kind = "iterable" /\ it.index < Len(Items(it.store))
           item == Items(it.store)[it.index + 1]
           stack == Append(S, item)
<1>1. /\ Ready({"NEXT_ITER_OR_JUMP"}, 1) /\ program' = program /\ locals' = locals /\ error' = error
      /\ heap' = IF more THEN [heap EXCEPT ![Top.at].index = @ + 1] ELSE heap
  BY DEF NextIterOrJump
<1>2. \/ more /\ Go(stack, F.pc + 5)
      \/ Go(S, Jumped(Arg, F.pc + 5))
  BY DEF NextIterOrJump
<1>3. /\ Op = "NEXT_ITER_OR_JUMP" /\ Op = OpAt(CodeOf(F), F.pc) /\ Arg = ArgAt(CodeOf(F), F.pc) /\ Depth >= 1
  BY <1>1, Reads
<1>4. Depth \in Nat /\ HeapOK(program, heap) /\ Grown(heap, heap)
  BY Own
<1>5. Top \in Valid(program, heap)
  BY <1>3, <1>4, Operand
<1>6. HeapOK(program, heap') /\ Grown(heap, heap')
  <2>1. CASE more
    <3>1. heap' = [heap EXCEPT ![Top.at].index = @ + 1] /\ Top.kind = "iterable"
      BY <1>1, <2>1
    <3>2. /\ HeapOK(program, [heap EXCEPT ![Top.at].index = @ + 1])
          /\ Grown(heap, [heap EXCEPT ![Top.at].index = @ + 1])
      BY <1>4, <1>5, <3>1, IndexPut
    <3> QED BY <3>1, <3>2, Zenon
  <2>2. CASE ~more
    BY <1>1, <1>4, <2>2
  <2> QED BY <2>1, <2>2
<1>7. Way(F.pc + 5, 1) \in Moves(CodeOf(F), F.pc) /\ Way(Jumped(Arg, F.pc + 5), 0) \in Moves(CodeOf(F), F.pc)
  BY <1>3, Leads
<1>8. program' = program /\ locals' = locals /\ error' = error /\ Ready({"NEXT_ITER_OR_JUMP"}, 1)
  BY <1>1
<1>9. CASE more /\ Go(stack, F.pc + 5)
  <2>1. /\ it.store \in Valid(program, heap) /\ it.store.kind = "array" /\ it.index \in Nat
        /\ it.index < Len(Items(it.store))
    BY <1>4, <1>5, <1>9, IterOf
  <2>2. Items(it.store) \in Seq(Valid(program, heap)) /\ Len(Items(it.store)) \in Nat
    BY <1>4, <2>1, ItemsOf, LenProperties DEF Items
  <2>3. it.index + 1 \in 1 .. Len(Items(it.store))
    BY <2>1, <2>2
  <2>4. item \in Valid(program, heap)
    BY <2>2, <2>3, ElementOfSeq
  <2> HIDE DEF item
  <2>5. item \in Valid(program, heap')
    BY <1>6, <2>4, ValuesStay
  <2>6. stack \in Seq(Valid(program, heap')) /\ Len(stack) <= Depth + 1
    BY <1>4, <1>6, <2>5, OnTop
  <2>7. Go(stack, F.pc + 5)
    BY <1>9
  <2> HIDE DEF stack
  <2> QED BY <1>6, <1>7, <1>8, <2>6, <2>7, OnHeap
<1>10. CASE Go(S, Jumped(Arg, F.pc + 5))
  <2>1. S \in Seq(Valid(program, heap')) /\ Len(S) <= Depth + 0
    BY <1>4, <1>6, OnTop, PlainValues
  <2> QED BY <1>6, <1>7, <1>8, <1>10, <2>1, OnHeap
<1> QED BY <1>2, <1>9, <1>10

LEMMA IterIndexStep == ASSUME IInv, IterIndex PROVE IInv'
<1> DEFINE stack == Append(S, Num(heap[Top.at].index - 1))
<1>1. /\ Ready({"ITER_INDEX"}, 1) /\ Top.kind = "iterable" /\ Go(stack, F.pc + 1)
      /\ program' = program /\ heap' = heap /\ locals' = locals /\ error' = error
  BY DEF IterIndex
<1>2. Op = "ITER_INDEX" /\ Op = OpAt(CodeOf(F), F.pc) /\ Depth >= 1
  BY <1>1, Reads
<1>3. Depth \in Nat /\ HeapOK(program, heap) /\ Grown(heap, heap)
  BY Own
<1>4. Top \in Valid(program, heap)
  BY <1>2, <1>3, Operand
<1>5. heap[Top.at].index \in Nat
  BY <1>1, <1>3, <1>4, IterOf
<1>6. Num(heap[Top.at].index - 1) \in Valid(program, heap)
  BY <1>5, PlainValues
<1>7. stack \in Seq(Valid(program, heap)) /\ Len(stack) <= Depth + 1
  BY <1>3, <1>6, OnTop
<1>8. Way(F.pc + 1, 1) \in Moves(CodeOf(F), F.pc)
  BY <1>2, Leads
<1> HIDE DEF stack
<1> QED BY <1>1, <1>7, <1>8, OnStack

\* A frame that a move of an instruction has taken to another place.
LEMMA Arrived ==
  ASSUME IInv, NEW names, NEW n, Ready(names, n), NEW f, NEW by \in Int, f.code = F.code,
         Way(f.pc, by) \in Moves(CodeOf(F), F.pc), Len(f.stack) \in Nat, Len(f.stack) <= Depth + by,
         f.catches = Opened(CodeOf(F), F.pc, F.catches)
  PROVE  OnChart(program, f)
<1> DEFINE t == program.chart[F.code]
           m == Way(f.pc, by)
<1>1. F.pc + 1 < CodeOf(F).op_len
  BY DEF Ready
<1>2. OnChart(program, F) /\ F \in Frame(program, heap) /\ PlaceOK(program.codes, CodeOf(F), t, F.pc)
  BY Runs
<1> HIDE DEF m
<1>0. m \in Moves(CodeOf(F), F.pc)
  BY DEF m
<1>3. /\ m.to \in DOMAIN t /\ t[m.to].open = Opened(CodeOf(F), F.pc, t[F.pc].open)
      /\ t[F.pc].depth + m.by <= t[m.to].depth
  BY <1>0, <1>1, <1>2 DEF PlaceOK
<1>4. m.to = f.pc /\ m.by = by
  BY DEF Way, m
<1>5. /\ Depth \in Nat /\ Depth <= t[F.pc].depth /\ t[F.pc].depth \in Nat /\ t[F.pc].open = F.catches
      /\ F.code \in DOMAIN program.chart
  <2>1. Depth \in Nat /\ Depth <= t[F.pc].depth /\ t[F.pc].open = F.catches /\ F.code \in DOMAIN program.chart
    BY <1>2, Own DEF OnChart, PlaceOf, Depth, S
  <2> QED BY <1>2, <2>1, Runs, PlaceHas
<1>6. t[f.pc].depth \in Nat
  <2>1. PlaceOK(program.codes, CodeOf(F), t, f.pc) /\ SizesOK(CodeOf(F))
    BY <1>2, <1>3, <1>4 DEF IInv, Passes, TapeOK, OnChart, CodeOf
  <2> QED BY <2>1, PlaceHas
<1>7. Len(f.stack) <= t[f.pc].depth
  <2> HIDE DEF t
  <2> QED BY <1>3, <1>4, <1>5, <1>6
<1> QED BY <1>3, <1>4, <1>5, <1>7 DEF OnChart, PlaceOf

-----------------------------------------------------------------------------
(* Functions.                                                              *)

LEMMA MakeFunctionStep == ASSUME IInv, MakeFunction PROVE IInv'
<1> DEFINE c == [code |-> Top.at, argc |-> Byte, parents |-> Append(F.parents, F.bucket)]
           stack == Append(Drop(1), NextRef("function"))
<1>1. /\ Ready({"MAKE_FUNCTION"}, 1) /\ Top.kind = "code" /\ Alloc(c) /\ Go(stack, F.pc + 2)
      /\ program' = program /\ locals' = locals /\ error' = error
  BY DEF MakeFunction
<1>2. Op = "MAKE_FUNCTION" /\ Op = OpAt(CodeOf(F), F.pc) /\ Depth >= 1
  BY <1>1, Reads
<1>3. Byte \in Nat
  BY <1>1, <1>2, Reads DEF Short
<1>4. Depth \in Nat /\ F.bucket \in Buckets(heap) /\ F.parents \in Seq(Buckets(heap))
  BY Own
<1>5. Top.at \in DOMAIN program.codes
  <2>1. Top \in Valid(program, heap)
    BY <1>2, <1>4, Operand
  <2> QED BY <1>1, <2>1 DEF Valid
<1>6. Append(F.parents, F.bucket) \in Seq(Buckets(heap))
  BY <1>4, AppendProperties
<1>7. CellOK(program, c, heap) /\ DOMAIN c = {"code", "argc", "parents"}
  BY <1>3, <1>5, <1>6 DEF CellOK
<1>8. "function" \in DOMAIN Shape /\ Shape["function"] = {"code", "argc", "parents"}
  BY DEF Shape
<1> HIDE DEF c
<1>9. Grown(heap, heap') /\ HeapOK(program, heap') /\ NextRef("function") \in Valid(program, heap')
  BY <1>1, <1>7, <1>8, Allocates
<1>10. stack \in Seq(Valid(program, heap')) /\ Len(stack) = Depth - 1 + 1
  BY <1>2, <1>4, <1>9, Replaced
<1>11. Way(F.pc + 2, 0) \in Moves(CodeOf(F), F.pc)
  BY <1>2, Leads
<1> HIDE DEF stack
<1>12. Len(stack) <= Depth + 0
  BY <1>4, <1>10
<1> QED BY <1>1, <1>9, <1>10, <1>11, <1>12, OnHeap

LEMMA CallNothingStep == ASSUME IInv, CallNothing PROVE IInv'
<1> DEFINE stack == Append(Drop(1 + Byte), NULL)
<1>1. /\ Ready({"CALL_FUNC"}, 1 + Byte) /\ Go(stack, F.pc + 2)
      /\ program' = program /\ heap' = heap /\ locals' = locals /\ error' = error
  BY DEF CallNothing
<1>2. /\ Op = "CALL_FUNC" /\ Op = OpAt(CodeOf(F), F.pc) /\ Byte = ByteAt(CodeOf(F), F.pc) /\ Depth >= 1 + Byte
  BY <1>1, Reads
<1>3. Byte \in Nat
  BY <1>1, <1>2, Reads DEF Short
<1>4. Depth \in Nat /\ Grown(heap, heap) /\ 1 + Byte \in Nat
  BY <1>3, Own
<1>5. stack \in Seq(Valid(program, heap)) /\ Len(stack) = Depth - (1 + Byte) + 1
  BY <1>2, <1>4, Replaced, PlainValues
<1>6. Way(F.pc + 2, -Byte) \in Moves(CodeOf(F), F.pc)
  BY <1>2, Leads
<1> HIDE DEF stack
<1>7. Len(stack) <= Depth + (-Byte) /\ -Byte \in Int
  BY <1>3, <1>4, <1>5
<1> QED BY <1>1, <1>4, <1>5, <1>6, <1>7, OnStack

\* The frame that runs, anew, where nothing else changes.
LEMMA Stays ==
  ASSUME IInv, status = "running", NEW f \in Frame(program, heap), OnChart(program, f), error = NULL,
         frames' = [frames EXCEPT ![Len(frames)] = f], UNCHANGED <<program, locals, heap, error, status>>
  PROVE  IInv'
<1>1. FramesOK(program, frames, heap, error) /\ Grown(heap, heap)
  BY Runs, Own
<1>2. FramesOK(program, [frames EXCEPT ![Len(frames)] = f], heap, error)
  BY <1>1, FrameAnew
<1> QED BY <1>2 DEF IInv, TypeOK

LEMMA ReturnStep == ASSUME IInv, Return PROVE IInv'
<1> DEFINE f == [F EXCEPT !.stack = Drop(1), !.pc = F.pc + 1, !.ret = Top]
<1>1. Ready({"RETURN"}, 1) /\ UNCHANGED <<program, locals, heap, error, status>>
  BY DEF Return
<1>2. /\ Op = "RETURN" /\ Op = OpAt(CodeOf(F), F.pc) /\ Depth >= 1 /\ error = NULL /\ status = "running"
  BY <1>1, Reads
<1>3. F = frames[Len(frames)] /\ Len(frames) \in DOMAIN frames /\ F \in Frame(program, heap) /\ OnChart(program, F)
  BY Runs
<1>4. frames' = [frames EXCEPT ![Len(frames)] = f]
  BY <1>3 DEF Return
<1>5. Depth \in Nat /\ F.pc \in Int /\ Top \in Valid(program, heap)
  BY <1>2, Own, Operand
<1>6. Drop(1) \in Seq(Valid(program, heap)) /\ Len(Drop(1)) = Depth - 1
  BY <1>2, Dropped
<1>7. f \in Frame(program, heap) /\ f.code = F.code /\ f.pc = F.pc + 1 /\ f.stack = Drop(1) /\ f.catches = F.catches
  <2> DEFINE s == Drop(1)
             q == F.pc + 1
  <2>1. f = [F EXCEPT !.stack = s, !.pc = q, !.ret = Top]
    OBVIOUS
  <2>2. F \in Frame(program, heap) /\ s \in Seq(Valid(program, heap)) /\ q \in Int /\ Top \in Valid(program, heap)
    BY <1>3, <1>5, <1>6
  <2> HIDE DEF f, s, q
  <2>3. DOMAIN f = DOMAIN F /\ f.code = F.code /\ f.pc = q /\ f.stack = s /\ f.catches = F.catches
    BY <2>1, <2>2 DEF Frame
  <2>4. f \in Frame(program, heap)
    BY <2>1, <2>2, <2>3 DEF Frame
  <2> QED BY <2>3, <2>4 DEF s, q
<1> HIDE DEF f
<1>8. Way(f.pc, -1) \in Moves(CodeOf(F), F.pc)
  BY <1>2, <1>7, Leads
<1>9. Len(f.stack) \in Nat /\ Len(f.stack) <= Depth + (-1)
  BY <1>2, <1>5, <1>6, <1>7
<1>10. f.catches = Opened(CodeOf(F), F.pc, F.catches)
  BY <1>2, <1>7 DEF Opened
<1>11. OnChart(program, f)
  BY <1>1, <1>7, <1>8, <1>9, <1>10, Arrived
<1> QED BY <1>1, <1>2, <1>4, <1>7, <1>11, Stays

-----------------------------------------------------------------------------
(* Exceptions.                                                             *)

LEMMA RaiseStep == ASSUME IInv, Raise PROVE IInv'
<1>1. /\ Ready({"RAISE"}, 1) /\ Go(Drop(1), F.pc + 1) /\ Alloc(Raised(Top)) /\ error' = NextRef("error")
      /\ program' = program /\ locals' = locals
  BY DEF Raise
<1>2. Op = "RAISE" /\ Op = OpAt(CodeOf(F), F.pc) /\ Depth >= 1
  BY <1>1, Reads
<1>3. Depth \in Nat /\ Top \in Valid(program, heap)
  BY <1>2, Own, Operand
<1>4. Grown(heap, heap') => Drop(1) \in Seq(Valid(program, heap'))
  BY <1>2, Left
<1>5. Len(Drop(1)) = Depth - 1
  BY <1>2, Dropped
<1>6. Way(F.pc + 1, -1) \in Throws(CodeOf(F), F.pc)
  BY <1>2, LeadsOut
<1>7. Len(Drop(1)) <= Depth + (-1)
  BY <1>3, <1>5
<1> QED BY <1>1, <1>3, <1>4, <1>6, <1>7, OnError

LEMMA PushCatchStep == ASSUME IInv, PushCatch PROVE IInv'
<1> DEFINE f == [F EXCEPT !.catches = Append(F.catches, Arg), !.pc = F.pc + 5]
<1>1. Ready({"PUSH_CATCH"}, 0) /\ UNCHANGED <<program, locals, heap, error, status>>
  BY DEF PushCatch
<1>2. /\ Op = "PUSH_CATCH" /\ Op = OpAt(CodeOf(F), F.pc) /\ Arg = ArgAt(CodeOf(F), F.pc)
      /\ error = NULL /\ status = "running"
  BY <1>1, Reads
<1>3. F = frames[Len(frames)] /\ Len(frames) \in DOMAIN frames /\ F \in Frame(program, heap) /\ OnChart(program, F)
  BY Runs
<1>4. frames' = [frames EXCEPT ![Len(frames)] = f]
  BY <1>3 DEF PushCatch
<1>5. Arg \in Nat /\ F.pc \in Int /\ F.catches \in Seq(Int) /\ Depth \in Nat /\ Depth = Len(S)
  BY <1>1, <1>2, Reads, Own DEF Wide
<1>6. Append(F.catches, Arg) \in Seq(Int)
  BY <1>5, AppendProperties
<1>7. /\ f \in Frame(program, heap) /\ f.code = F.code /\ f.pc = F.pc + 5 /\ f.stack = S
      /\ f.catches = Append(F.catches, Arg)
  <2> DEFINE c == Append(F.catches, Arg)
             q == F.pc + 5
  <2>1. f = [F EXCEPT !.catches = c, !.pc = q]
    OBVIOUS
  <2>2. F \in Frame(program, heap) /\ c \in Seq(Int) /\ q \in Int
    BY <1>3, <1>5, <1>6
  <2> HIDE DEF f, c, q
  <2>3. f \in Frame(program, heap) /\ f.code = F.code /\ f.pc = q /\ f.stack = F.stack /\ f.catches = c
    BY <2>1, <2>2 DEF Frame
  <2> QED BY <2>3 DEF c, q, S
<1> HIDE DEF f
<1>8. Way(f.pc, 0) \in Moves(CodeOf(F), F.pc) /\ Len(f.stack) \in Nat /\ Len(f.stack) <= Depth + 0
  BY <1>2, <1>5, <1>7, Leads
<1>9. f.catches = Opened(CodeOf(F), F.pc, F.catches)
  BY <1>2, <1>7 DEF Opened
<1>10. OnChart(program, f)
  <2>1. f.code = F.code /\ Ready({"PUSH_CATCH"}, 0)
    BY <1>1, <1>7
  <2> QED BY <1>8, <1>9, <2>1, Arrived
<1> QED BY <1>1, <1>2, <1>4, <1>7, <1>10, Stays

LEMMA PopCatchStep == ASSUME IInv, PopCatch PROVE IInv'
<1> DEFINE f == [F EXCEPT !.catches = Front(F.catches), !.pc = F.pc + 1]
<1>1. Ready({"POP_CATCH"}, 0) /\ F.catches # << >> /\ UNCHANGED <<program, locals, heap, error, status>>
  BY DEF PopCatch
<1>2. Op = "POP_CATCH" /\ Op = OpAt(CodeOf(F), F.pc) /\ error = NULL /\ status = "running"
  BY <1>1, Reads
<1>3. F = frames[Len(frames)] /\ Len(frames) \in DOMAIN frames /\ F \in Frame(program, heap) /\ OnChart(program, F)
  BY Runs
<1>4. frames' = [frames EXCEPT ![Len(frames)] = f]
  BY <1>3 DEF PopCatch
<1>5. F.pc \in Int /\ F.catches \in Seq(Int) /\ Depth \in Nat /\ Depth = Len(S)
  BY Own
<1>6. Front(F.catches) \in Seq(Int)
  BY <1>1, <1>5, Fronts
<1>7. /\ f \in Frame(program, heap) /\ f.code = F.code /\ f.pc = F.pc + 1 /\ f.stack = S
      /\ f.catches = Front(F.catches)
  <2> DEFINE c == Front(F.catches)
             q == F.pc + 1
  <2>1. f = [F EXCEPT !.catches = c, !.pc = q]
    OBVIOUS
  <2>2. F \in Frame(program, heap) /\ c \in Seq(Int) /\ q \in Int
    BY <1>3, <1>5, <1>6
  <2> HIDE DEF f, c, q
  <2>3. f \in Frame(program, heap) /\ f.code = F.code /\ f.pc = q /\ f.stack = F.stack /\ f.catches = c
    BY <2>1, <2>2 DEF Frame
  <2> QED BY <2>3 DEF c, q, S
<1> HIDE DEF f
<1>8. Way(f.pc, 0) \in Moves(CodeOf(F), F.pc) /\ Len(f.stack) \in Nat /\ Len(f.stack) <= Depth + 0
  BY <1>2, <1>5, <1>7, Leads
<1>9. f.catches = Opened(CodeOf(F), F.pc, F.catches)
  BY <1>1, <1>2, <1>7 DEF Opened
<1>10. OnChart(program, f)
  BY <1>1, <1>7, <1>8, <1>9, Arrived
<1> QED BY <1>1, <1>2, <1>4, <1>7, <1>10, Stays

\* A piece of a sequence.
LEMMA Piece ==
  ASSUME NEW S1, NEW s \in Seq(S1), NEW m \in Nat, NEW n \in Nat, m >= 1, n <= Len(s)
  PROVE  /\ SubSeq(s, m, n) \in Seq(S1) /\ Len(SubSeq(s, m, n)) \in Nat
         /\ m <= n + 1 => Len(SubSeq(s, m, n)) = n + 1 - m
<1>1. \A i \in m .. n : i \in 1 .. Len(s)
  OBVIOUS
<1>2. \A i \in m .. n : s[i] \in S1
  BY <1>1, ElementOfSeq
<1>3. m \in Int /\ n \in Int
  OBVIOUS
<1>4. SubSeq(s, m, n) \in Seq(S1) /\ Len(SubSeq(s, m, n)) = IF m <= n THEN n - m + 1 ELSE 0
  BY <1>2, <1>3, SubSeqProperties
<1>5. Len(SubSeq(s, m, n)) \in Nat
  BY <1>4, LenProperties
<1>6. m <= n + 1 => Len(SubSeq(s, m, n)) = n + 1 - m
  BY <1>4
<1> QED BY <1>4, <1>5, <1>6

LEMMA OneMore ==
  ASSUME NEW h, h \in Seq(ToSet(h)), NEW c
  PROVE  h \o <<c>> = Append(h, c) /\ h \o << >> = h
<1> DEFINE A == ToSet(h) \cup {c}
<1>1. h \in Seq(A) /\ c \in A
  BY SeqMonotonic, ToSet(h) \subseteq A
<1> QED BY <1>1, AppendIsConcat, ConcatEmptySeq

\* What is left of the arguments is an array, and none of them is none.
LEMMA RestIsThere ==
  ASSUME NEW p, NEW h, HeapOK(p, h), NEW more \in Seq(Valid(p, h)),
         NEW cells, cells = IF more = << >> THEN << >> ELSE <<[items |-> more]>>,
         NEW rest, rest = IF more = << >> THEN Nil ELSE Val("array", Len(h) + 1)
  PROVE  /\ HeapOK(p, h \o cells) /\ Grown(h, h \o cells) /\ rest \in Valid(p, h \o cells)
         /\ Len(h \o cells) = Len(h) + Len(cells) /\ Len(h \o cells) \in Nat
<1> DEFINE g == h \o cells
<1>1. h \in Seq(ToSet(h)) /\ Len(h) \in Nat
  BY LenProperties DEF HeapOK
<1>2. CASE more = << >>
  <2>1. g = h /\ Len(cells) = 0 /\ rest = Nil
    BY <1>1, <1>2, OneMore
  <2>2. Grown(h, h) /\ Nil \in Valid(p, h)
    BY PlainValues DEF Grown
  <2> HIDE DEF g
  <2>3. HeapOK(p, g) /\ Grown(h, g) /\ rest \in Valid(p, g)
    BY <2>1, <2>2
  <2>4. Len(g) = Len(h) + Len(cells) /\ Len(g) \in Nat
    BY <1>1, <2>1
  <2> QED BY <2>3, <2>4 DEF g
<1>3. CASE more # << >>
  <2> DEFINE c == [items |-> more]
  <2>1. CellOK(p, c, h) /\ DOMAIN c = {"items"}
    BY DEF CellOK
  <2>2. "array" \in DOMAIN Shape /\ Shape["array"] = {"items"}
    BY DEF Shape
  <2>3. cells = <<c>> /\ Len(cells) = 1 /\ rest = Val("array", Len(h) + 1)
    BY <1>3
  <2> HIDE DEF c
  <2>4. g = Append(h, c)
    BY <1>1, <2>3, OneMore
  <2>5. /\ HeapOK(p, Append(h, c)) /\ Grown(h, Append(h, c)) /\ Len(Append(h, c)) = Len(h) + 1
        /\ Val("array", Len(h) + 1) \in Valid(p, Append(h, c))
    BY <2>1, <2>2, HeapAdd, NewRef
  <2> HIDE DEF g
  <2>6. HeapOK(p, g) /\ Grown(h, g) /\ rest \in Valid(p, g)
    BY <2>3, <2>4, <2>5
  <2>7. Len(g) = Len(h) + Len(cells) /\ Len(g) \in Nat
    BY <1>1, <2>3, <2>4, <2>5
  <2> QED BY <2>6, <2>7 DEF g
<1> QED BY <1>2, <1>3

\* The bucket of a call holds nothing but values.
LEMMA BucketIsOne ==
  ASSUME NEW h, NEW fn, fn.argc \in Nat, NEW args \in Seq(Valid(program, h)), NEW rest \in Valid(program, h)
  PROVE  CellOK(program, Bucket(fn, args, rest), h) /\ DOMAIN Bucket(fn, args, rest) = {"members"}
<1> DEFINE names == program.codes[fn.code].names
           having(n) == {j \in 1 .. fn.argc : names[j] = n}
           given == {names[i] : i \in 1 .. fn.argc}
           params == [n \in given |->
                       IF Max(having(n)) <= Len(args) THEN args[Max(having(n))] ELSE Nil]
           ms == [n \in given \cup {"va_args_"} |-> IF n \in {"va_args_"} THEN rest ELSE params[n]]
<1>1. Bucket(fn, args, rest) = [members |-> ms]
  BY DEF Bucket, Setting
<1>2. \A n \in given : params[n] \in Valid(program, h)
  <2> SUFFICES ASSUME NEW n \in given PROVE params[n] \in Valid(program, h)
    OBVIOUS
  <2>1. having(n) \in SUBSET (1 .. fn.argc) /\ having(n) # {}
    OBVIOUS
  <2>2. params[n] = IF Max(having(n)) <= Len(args) THEN args[Max(having(n))] ELSE Nil
    OBVIOUS
  <2> HIDE DEF having, params
  <2>3. Max(having(n)) \in 1 .. fn.argc
    BY <2>1, MaxOf
  <2>4. Len(args) \in Nat
    BY LenProperties
  <2>5. Max(having(n)) <= Len(args) => Max(having(n)) \in 1 .. Len(args)
    BY <2>3, <2>4
  <2> QED BY <2>2, <2>5, ElementOfSeq, PlainValues
<1>3. \A n \in DOMAIN ms : ms[n] \in Valid(program, h)
  <2> HIDE DEF params, given
  <2> QED BY <1>2
<1> HIDE DEF ms
<1> QED BY <1>1, <1>3 DEF CellOK

LEMMA FunctionOf ==
  ASSUME NEW p, NEW h, HeapOK(p, h), NEW v \in Valid(p, h), v.kind = "function"
  PROVE  h[v.at].code \in DOMAIN p.codes /\ h[v.at].argc \in Nat /\ h[v.at].parents \in Seq(Buckets(h))
<1>1. v.at \in DOMAIN h /\ DOMAIN h[v.at] = {"code", "argc", "parents"}
  BY DEF Valid, Shape
<1>2. CellOK(p, h[v.at], h)
  BY <1>1 DEF HeapOK
<1> QED BY <1>1, <1>2 DEF CellOK

\* The frame of the caller, when the call and its arguments are off its stack.
LEMMA CallerWaits ==
  ASSUME IInv, Ready({"CALL_FUNC"}, 1 + Byte),
         NEW f, f = [F EXCEPT !.stack = Drop(1 + Byte), !.pc = F.pc + 2]
  PROVE  f \in Frame(program, heap) /\ OnChart(program, f) /\ Waits(program, f)
<1> DEFINE t == program.chart[F.code]
<1>1. /\ Op = "CALL_FUNC" /\ Op = OpAt(CodeOf(F), F.pc) /\ Byte = ByteAt(CodeOf(F), F.pc) /\ Depth >= 1 + Byte
      /\ ~Finished
  BY Reads
<1>2. Byte \in Nat
  BY <1>1, Reads DEF Short
<1>3. Depth \in Nat /\ F.pc \in Int /\ 1 + Byte \in Nat
  BY <1>2, Own
<1>4. Drop(1 + Byte) \in Seq(Valid(program, heap)) /\ Len(Drop(1 + Byte)) = Depth - (1 + Byte)
  BY <1>1, <1>3, Dropped
<1>5. /\ OnChart(program, F) /\ F \in Frame(program, heap) /\ PlaceOK(program.codes, CodeOf(F), t, F.pc)
  BY Runs
<1>6. /\ f \in Frame(program, heap) /\ f.code = F.code /\ f.pc = F.pc + 2 /\ f.stack = Drop(1 + Byte)
      /\ f.catches = F.catches /\ f.ret = F.ret
  <2> DEFINE s == Drop(1 + Byte)
             q == F.pc + 2
  <2>1. f = [F EXCEPT !.stack = s, !.pc = q]
    OBVIOUS
  <2>2. F \in Frame(program, heap) /\ s \in Seq(Valid(program, heap)) /\ q \in Int
    BY <1>3, <1>4, <1>5
  <2> HIDE DEF s, q
  <2>3. /\ f \in Frame(program, heap) /\ f.code = F.code /\ f.pc = q /\ f.stack = s /\ f.catches = F.catches
        /\ f.ret = F.ret
    BY <2>1, <2>2 DEF Frame
  <2> QED BY <2>3 DEF s, q
<1>7. Way(f.pc, -Byte) \in Moves(CodeOf(F), F.pc) /\ Way(f.pc, -1 - Byte) \in Throws(CodeOf(F), F.pc)
  BY <1>1, <1>6, Leads, LeadsOut
<1>8. OnChart(program, f)
  <2>1. Len(f.stack) \in Nat /\ Len(f.stack) <= Depth + (-Byte) /\ -Byte \in Int
    BY <1>1, <1>2, <1>3, <1>4, <1>6
  <2>2. f.catches = Opened(CodeOf(F), F.pc, F.catches) /\ f.code = F.code
    BY <1>1, <1>6 DEF Opened
  <2>3. Way(f.pc, -Byte) \in Moves(CodeOf(F), F.pc)
    BY <1>7
  <2> QED BY <2>1, <2>2, <2>3, Arrived
<1>9. t[F.pc].depth - Byte <= t[f.pc].depth /\ t[F.pc].depth - 1 - Byte <= t[f.pc].bare
  <2>1. F.pc + 1 < CodeOf(F).op_len
    BY DEF Ready
  <2> DEFINE m == Way(f.pc, -Byte)
             w == Way(f.pc, -1 - Byte)
  <2>2. m.to = f.pc /\ w.to = f.pc /\ m.by = -Byte /\ w.by = -1 - Byte
    BY DEF Way
  <2>3. m \in Moves(CodeOf(F), F.pc) /\ w \in Throws(CodeOf(F), F.pc)
    BY <1>7
  <2> HIDE DEF m, w
  <2>4. t[F.pc].depth + m.by <= t[m.to].depth /\ t[F.pc].depth + w.by <= t[w.to].bare
    BY <1>5, <2>1, <2>3 DEF PlaceOK
  <2>5. t[F.pc].depth \in Nat
    BY <1>5, Runs, PlaceHas
  <2>6. t[F.pc].depth + -Byte = t[F.pc].depth - Byte /\ t[F.pc].depth + (-1 - Byte) = t[F.pc].depth - 1 - Byte
    BY <1>2, <2>5
  <2> QED BY <2>2, <2>4, <2>6
<1>10. /\ Depth <= t[F.pc].depth /\ t[F.pc].depth \in Nat /\ t[f.pc].depth \in Nat /\ t[f.pc].bare \in Int
       /\ PlaceOf(program, f) = t[f.pc]
  <2>1. Depth <= t[F.pc].depth
    BY <1>5 DEF OnChart, PlaceOf, Depth, S
  <2>2. t[F.pc].depth \in Nat
    BY <1>5, Runs, PlaceHas
  <2>3. PlaceOK(program.codes, program.codes[f.code], program.chart[f.code], f.pc) /\ SizesOK(program.codes[f.code])
    BY <1>8, AtPlace DEF IInv
  <2>4. program.chart[f.code] = t
    BY <1>6
  <2>5. t[f.pc].depth \in Nat /\ t[f.pc].bare \in Int
    BY <2>3, <2>4, PlaceHas
  <2> QED BY <1>6, <2>1, <2>2, <2>5 DEF PlaceOf
<1>11. Len(f.stack) <= t[f.pc].bare /\ Len(f.stack) < t[f.pc].depth
  <2> DEFINE n == Len(f.stack)
             high == t[f.pc].depth
             bare == t[f.pc].bare
             from == t[F.pc].depth
  <2>1. n = Depth - (1 + Byte)
    BY <1>4, <1>6
  <2>2. /\ from - Byte <= high /\ from - 1 - Byte <= bare /\ Depth <= from
        /\ from \in Nat /\ high \in Nat /\ bare \in Int
    BY <1>9, <1>10
  <2> HIDE DEF n, high, bare, from
  <2>3. n <= bare /\ n < high
    BY <1>2, <1>3, <2>1, <2>2
  <2> QED BY <2>3 DEF n, high, bare
<1>12. f.ret = NULL
  BY <1>1, <1>6 DEF Finished
<1> QED BY <1>6, <1>8, <1>10, <1>11, <1>12 DEF Waits, Bare

LEMMA CallStep == ASSUME IInv, Call PROVE IInv'
<1> DEFINE fn == heap[Top.at]
           args == SubSeq(S, Depth - Byte, Depth - 1)
           more == SubSeq(args, fn.argc + 1, Len(args))
           cells == IF more = << >> THEN << >> ELSE <<[items |-> more]>>
           rest == IF more = << >> THEN Nil ELSE NextRef("array")
           mid == heap \o cells
           bk == Bucket(fn, args, rest)
           f == [F EXCEPT !.stack = Drop(1 + Byte), !.pc = F.pc + 2]
           callee == Activation(fn.code, Len(heap) + Len(cells) + 1, fn.parents)
<1>1. /\ Ready({"CALL_FUNC"}, 1 + Byte) /\ Top.kind = "function"
      /\ UNCHANGED <<program, locals, error, output, status>>
  BY DEF Call
<1>2. heap' = mid \o <<bk>>
  BY DEF Call
<1>3. /\ Op = "CALL_FUNC" /\ Op = OpAt(CodeOf(F), F.pc) /\ Depth >= 1 + Byte /\ error = NULL /\ status = "running"
  BY <1>1, Reads
<1>4. Byte \in Nat
  BY <1>1, <1>3, Reads DEF Short
<1>5. /\ Depth \in Nat /\ Depth = Len(S) /\ S \in Seq(Valid(program, heap)) /\ Depth >= 1
      /\ HeapOK(program, heap) /\ LocalsOK(program, locals, heap)
  BY <1>3, <1>4, Own
<1>6. frames' = Append([frames EXCEPT ![Len(frames)] = f], callee)
  <2>1. F = frames[Len(frames)] /\ Len(frames) \in DOMAIN frames
    BY Runs
  <2>2. [frames EXCEPT ![Len(frames)].stack = Drop(1 + Byte), ![Len(frames)].pc = @ + 2]
          = [frames EXCEPT ![Len(frames)] = f]
    BY <2>1
  <2>3. frames' = Append([frames EXCEPT ![Len(frames)].stack = Drop(1 + Byte), ![Len(frames)].pc = @ + 2], callee)
    BY DEF Call
  <2> HIDE DEF f, callee
  <2> QED BY <2>2, <2>3, Zenon
<1>7. Top \in Valid(program, heap)
  BY <1>5, Operand
<1>8. fn.code \in DOMAIN program.codes /\ fn.argc \in Nat /\ fn.parents \in Seq(Buckets(heap))
  BY <1>1, <1>5, <1>7, FunctionOf
<1> HIDE DEF fn
<1>9. args \in Seq(Valid(program, heap)) /\ Len(args) \in Nat
  <2>1. Depth - Byte \in Nat /\ Depth - 1 \in Nat /\ Depth - Byte >= 1 /\ Depth - 1 <= Len(S)
    BY <1>3, <1>4, <1>5
  <2> QED BY <1>5, <2>1, Piece
<1> HIDE DEF args
<1>10. more \in Seq(Valid(program, heap))
  <2>1. fn.argc + 1 \in Nat /\ fn.argc + 1 >= 1 /\ Len(args) <= Len(args)
    BY <1>8, <1>9
  <2> QED BY <1>9, <2>1, Piece
<1> HIDE DEF more
<1>11. /\ HeapOK(program, mid) /\ Grown(heap, mid) /\ rest \in Valid(program, mid)
       /\ Len(mid) = Len(heap) + Len(cells) /\ Len(mid) \in Nat
  <2>1. rest = IF more = << >> THEN Nil ELSE Val("array", Len(heap) + 1)
    BY DEF NextRef
  <2>2. cells = IF more = << >> THEN << >> ELSE <<[items |-> more]>>
    OBVIOUS
  <2> HIDE DEF rest, cells
  <2> QED BY <1>5, <1>10, <2>1, <2>2, RestIsThere
<1> HIDE DEF rest, cells, mid
<1>12. CellOK(program, bk, mid) /\ DOMAIN bk = {"members"}
  <2>1. args \in Seq(Valid(program, mid))
    BY <1>9, <1>11, ValuesStay, SeqMonotonic
  <2> QED BY <1>8, <1>11, <2>1, BucketIsOne
<1> HIDE DEF bk
<1>13. heap' = Append(mid, bk)
  BY <1>2, <1>11, OneMore DEF HeapOK
<1>14. /\ HeapOK(program, heap') /\ Grown(mid, heap')
       /\ Len(mid) + 1 \in DOMAIN heap' /\ heap'[Len(mid) + 1] = bk
  <2>1. /\ HeapOK(program, Append(mid, bk)) /\ Grown(mid, Append(mid, bk))
        /\ Len(mid) + 1 \in DOMAIN Append(mid, bk) /\ Append(mid, bk)[Len(mid) + 1] = bk
    BY <1>11, <1>12, HeapAdd
  <2> QED BY <1>13, <2>1, Zenon
<1>15. Grown(heap, heap')
  BY <1>11, <1>14 DEF Grown
<1>16. Len(heap) + Len(cells) + 1 \in Buckets(heap')
  <2>1. Len(mid) + 1 \in Buckets(heap')
    BY <1>12, <1>14 DEF Buckets
  <2> QED BY <1>11, <2>1
<1>17. f \in Frame(program, heap) /\ OnChart(program, f) /\ Waits(program, f)
  BY <1>1, CallerWaits
<1> HIDE DEF f
<1>18. f \in Frame(program, heap')
  BY <1>15, <1>17, FramesStay
<1> DEFINE fs == [frames EXCEPT ![Len(frames)] = f]
<1>19. FramesOK(program, fs, heap', NULL) /\ Last(fs) = f
  <2>1. FramesOK(program, frames, heap, error) /\ Len(frames) \in Nat /\ Len(frames) >= 1
    BY Runs
  <2>2. FramesOK(program, fs, heap', NULL)
    BY <1>15, <1>17, <1>18, <2>1, FrameAnew
  <2>3. frames \in Seq(Frame(program, heap')) /\ Len(frames) \in 1 .. Len(frames)
    <3>1. frames \in Seq(Frame(program, heap)) /\ Frame(program, heap) \subseteq Frame(program, heap')
      BY <1>15, <2>1, FramesStay DEF FramesOK
    <3> QED BY <2>1, <3>1, SeqMonotonic
  <2>4. /\ fs \in Seq(Frame(program, heap')) /\ Len(fs) = Len(frames)
        /\ \A j \in 1 .. Len(frames) : fs[j] = IF j = Len(frames) THEN f ELSE frames[j]
    BY <1>18, <2>3, ExceptSeq
  <2>5. fs[Len(fs)] = f
    BY <2>3, <2>4
  <2> HIDE DEF fs
  <2> QED BY <2>2, <2>5 DEF Last
<1>20. callee \in Frame(program, heap')
  <2>1. fn.parents \in Seq(Buckets(heap'))
    BY <1>8, <1>15, ValuesStay, SeqMonotonic
  <2>2. NULL \in Valid(program, heap') /\ << >> \in Seq(Valid(program, heap')) /\ << >> \in Seq(Int)
    BY PlainValues
  <2> QED BY <1>8, <1>16, <2>1, <2>2 DEF Activation, Frame
<1>21. OnChart(program, callee)
  <2> DEFINE t == program.chart[fn.code]
  <2>1. fn.code \in DOMAIN program.chart /\ TapeOK(program.codes, program.codes[fn.code], t)
    BY <1>8 DEF IInv, Passes
  <2>2. -1 \in DOMAIN t /\ t[-1].open = << >> /\ t[-1].depth \in Nat
    BY <2>1, PlaceHas DEF TapeOK
  <2>3. /\ callee.code = fn.code /\ callee.pc = -1 /\ callee.stack = << >> /\ callee.catches = << >>
        /\ Len(callee.stack) = 0
    BY DEF Activation
  <2> HIDE DEF callee
  <2> QED BY <2>1, <2>2, <2>3 DEF OnChart, PlaceOf
<1> HIDE DEF callee, fs
<1>22. FramesOK(program, Append(fs, callee), heap', NULL)
  BY <1>17, <1>19, <1>20, <1>21, FrameMore
<1>23. FramesOK(program, frames', heap', NULL)
  BY <1>6, <1>22, Zenon DEF fs
<1>24. LocalsOK(program, locals, heap')
  BY <1>5, <1>15, LocalsStay
<1>25. NULL \in Valid(program, heap')
  BY PlainValues
<1> QED BY <1>1, <1>3, <1>14, <1>23, <1>24, <1>25 DEF IInv, TypeOK

\* Where an exception is on its way, the frame that runs has not come to its end.
LEMMA NoneIsLost ==
  ASSUME IInv, Finished
  PROVE  error = NULL
<1>1. SUFFICES ASSUME error # NULL PROVE FALSE
  OBVIOUS
<1>2. F.ret = NULL
  BY <1>1, Runs DEF FramesOK, Bare, F
<1>3. F.pc \in Int /\ F.pc < CodeOf(F).op_len /\ CodeOf(F).op_len \in Nat
  BY Runs, PlaceHas
<1> QED BY <1>2, <1>3 DEF Finished

LEMMA LeaveStep == ASSUME IInv, Leave PROVE IInv'
<1> DEFINE n == Len(frames) - 1
           caller == frames[n]
           stack == Append(caller.stack, F.ret)
           f == [caller EXCEPT !.stack = stack]
           fs == Front(frames)
<1>1. status = "running" /\ Finished /\ Len(frames) > 1 /\ UNCHANGED <<program, locals, heap, error>>
  BY DEF Leave
<1>2. \/ Len(stack) > CodeOf(caller).stack_size + 1
      \/ frames' = [fs EXCEPT ![n].stack = stack] /\ status' = status
  BY DEF Leave
<1>3. error = NULL
  BY <1>1, NoneIsLost
<1>4. FramesOK(program, frames, heap, error) /\ F \in Frame(program, heap) /\ Passes(program.codes, program.chart)
  BY Runs DEF IInv
<1>5. /\ FramesOK(program, fs, heap, NULL) /\ Len(fs) = n /\ Last(fs) = caller /\ Waits(program, caller)
  BY <1>1, <1>4, FrameOver
<1> HIDE DEF n, fs, caller
<1>6. n \in DOMAIN fs /\ caller = fs[n] /\ caller \in Frame(program, heap) /\ OnChart(program, caller)
  <2>1. /\ Len(fs) \in Nat /\ Len(fs) >= 1 /\ DOMAIN fs = 1 .. Len(fs)
        /\ Last(fs) = fs[Len(fs)] /\ Last(fs) \in Frame(program, heap) /\ OnChart(program, Last(fs))
    BY <1>5, LastFrame
  <2> QED BY <1>5, <2>1
<1>7. caller.stack \in Seq(Valid(program, heap)) /\ F.ret \in Valid(program, heap)
  BY <1>4, <1>6, FrameHas
<1>8. stack \in Seq(Valid(program, heap)) /\ Len(stack) = Len(caller.stack) + 1 /\ Len(caller.stack) \in Nat
  BY <1>7, AppendProperties, LenProperties
<1>9. /\ f \in Frame(program, heap) /\ f.code = caller.code /\ f.pc = caller.pc /\ f.stack = stack
      /\ f.catches = caller.catches
  <2> HIDE DEF stack
  <2> QED BY <1>6, <1>8 DEF Frame
<1>10. PlaceOf(program, caller).depth \in Nat /\ PlaceOf(program, caller).depth <= CodeOf(caller).stack_size
       /\ CodeOf(caller).stack_size \in Nat
  <2>1. /\ SizesOK(program.codes[caller.code])
        /\ PlaceOK(program.codes, program.codes[caller.code], program.chart[caller.code], caller.pc)
    BY <1>4, <1>6, AtPlace
  <2> QED BY <2>1, PlaceHas DEF PlaceOf, CodeOf
<1>11. Len(caller.stack) < PlaceOf(program, caller).depth
  BY <1>5 DEF Waits
<1>12. Len(stack) <= PlaceOf(program, caller).depth /\ ~(Len(stack) > CodeOf(caller).stack_size + 1)
  <2> DEFINE d == PlaceOf(program, caller).depth
  <2> HIDE DEF d, stack
  <2>1. Len(stack) <= d /\ ~(Len(stack) > CodeOf(caller).stack_size + 1)
    BY <1>8, <1>10, <1>11 DEF d
  <2> QED BY <2>1 DEF d
<1>13. OnChart(program, f)
  <2> HIDE DEF f
  <2> QED BY <1>6, <1>9, <1>12 DEF OnChart, PlaceOf
<1>14. frames' = [fs EXCEPT ![n] = f] /\ status' = status
  <2>1. frames' = [fs EXCEPT ![n].stack = stack] /\ status' = status
    BY <1>2, <1>12
  <2> HIDE DEF stack
  <2>2. [fs EXCEPT ![n].stack = stack] = [fs EXCEPT ![n] = f]
    BY <1>6
  <2> HIDE DEF f
  <2> QED BY <2>1, <2>2, Zenon
<1> HIDE DEF f
<1>15. Grown(heap, heap)
  BY Own
<1>16. FramesOK(program, [fs EXCEPT ![n] = f], heap, NULL)
  BY <1>5, <1>9, <1>13, <1>15, FrameAnew
<1>17. FramesOK(program, frames', heap, NULL)
  BY <1>14, <1>16, Zenon
<1> QED BY <1>1, <1>3, <1>14, <1>17 DEF IInv, TypeOK

LEMMA FinishStep == ASSUME IInv, Finish PROVE IInv'
BY DEF Finish, IInv, TypeOK

-----------------------------------------------------------------------------
(* Exceptions on their way.                                                *)

\* What is bare enough for the exception, and what handles it.
LEMMA HandlerHas ==
  ASSUME IInv, Thrown, F.catches # << >>, NEW h, h = Last(F.catches), NEW t, t = program.chart[F.code]
  PROVE  /\ h \in DOMAIN t /\ t[h].open = Front(F.catches) /\ h \in Int
         /\ Depth + 1 <= t[h].depth /\ t[h].depth <= CodeOf(F).stack_size
         /\ t[h].depth \in Nat /\ CodeOf(F).stack_size \in Nat
<1>1. /\ OnChart(program, F) /\ F \in Frame(program, heap) /\ PlaceOK(program.codes, CodeOf(F), t, F.pc)
      /\ SizesOK(CodeOf(F)) /\ FramesOK(program, frames, heap, error)
  BY Runs
<1>2. Bare(program, F)
  BY <1>1 DEF Thrown, FramesOK, F
<1>3. Depth \in Nat /\ Depth <= t[F.pc].bare /\ t[F.pc].open = F.catches
  <2>1. Depth \in Nat
    BY Own
  <2> QED BY <1>1, <1>2, <2>1 DEF Bare, OnChart, PlaceOf, Depth, S
<1>4. t[F.pc].bare \in Int
  BY <1>1, PlaceHas
<1>5. t[F.pc].bare >= 0
  BY <1>3, <1>4
<1>6. HandlerOK(t, t[F.pc])
  BY <1>1, <1>3, <1>5 DEF PlaceOK
<1>7. h \in DOMAIN t /\ t[F.pc].bare + 1 <= t[h].depth /\ t[h].open = Front(F.catches)
  BY <1>3, <1>6 DEF HandlerOK
<1>8. PlaceOK(program.codes, CodeOf(F), t, h)
  BY <1>1, <1>7 DEF IInv, Passes, TapeOK, OnChart, CodeOf
<1>9. /\ h \in Int /\ t[h].depth \in Nat /\ t[h].depth <= CodeOf(F).stack_size /\ CodeOf(F).stack_size \in Nat
  BY <1>1, <1>8, PlaceHas
<1>10. Depth + 1 <= t[h].depth
  <2> DEFINE bare == t[F.pc].bare
             d == t[h].depth
  <2>1. Depth <= bare /\ bare + 1 <= d /\ bare \in Int /\ d \in Nat
    BY <1>3, <1>4, <1>7, <1>9
  <2> HIDE DEF bare, d
  <2>2. Depth + 1 <= d
    BY <1>3, <2>1
  <2> QED BY <2>2 DEF d
<1> QED BY <1>7, <1>9, <1>10

LEMMA CatchStep == ASSUME IInv, Catch PROVE IInv'
<1> DEFINE h == Last(F.catches)
           t == program.chart[F.code]
           stack == Append(S, error)
           rest == Front(F.catches)
           f == [F EXCEPT !.stack = stack, !.pc = h, !.catches = rest]
<1>1. /\ Thrown /\ F.catches # << >> /\ error' = NULL /\ UNCHANGED <<program, locals, heap>>
      /\ \/ Depth > CodeOf(F).stack_size
         \/ /\ frames' = [frames EXCEPT ![Len(frames)] =
                           [@ EXCEPT !.stack = Append(S, error), !.pc = Last(F.catches), !.catches = Front(F.catches)]]
            /\ status' = status
  BY DEF Catch
<1>2. /\ h \in DOMAIN t /\ t[h].open = rest /\ h \in Int
      /\ Depth + 1 <= t[h].depth /\ t[h].depth <= CodeOf(F).stack_size
      /\ t[h].depth \in Nat /\ CodeOf(F).stack_size \in Nat
  BY <1>1, HandlerHas
<1>3. /\ FramesOK(program, frames, heap, error) /\ F = frames[Len(frames)] /\ Len(frames) \in DOMAIN frames
      /\ F \in Frame(program, heap) /\ OnChart(program, F)
  BY Runs
<1>4. /\ Depth \in Nat /\ F.catches \in Seq(Int) /\ error \in Valid(program, heap) /\ Grown(heap, heap)
      /\ S \in Seq(Valid(program, heap))
  BY Own
<1>5. ~(Depth > CodeOf(F).stack_size)
  <2> DEFINE d == t[h].depth
  <2>1. Depth + 1 <= d /\ d <= CodeOf(F).stack_size /\ d \in Nat /\ CodeOf(F).stack_size \in Nat
    BY <1>2
  <2> HIDE DEF d
  <2> QED BY <1>4, <2>1
<1>6. status' = status /\ frames' = [frames EXCEPT ![Len(frames)] = f]
  BY <1>1, <1>3, <1>5
<1>7. rest \in Seq(Int)
  BY <1>1, <1>4, Fronts
<1>8. stack \in Seq(Valid(program, heap)) /\ Len(stack) = Depth + 1
  BY <1>4, OnTop
<1>9. f \in Frame(program, heap) /\ f.code = F.code /\ f.pc = h /\ f.stack = stack /\ f.catches = rest
  <2>1. F \in Frame(program, heap)
    BY <1>3
  <2> HIDE DEF h, stack, rest
  <2>2. DOMAIN f = DOMAIN F /\ f.code = F.code /\ f.pc = h /\ f.stack = stack /\ f.catches = rest
    BY <2>1 DEF Frame
  <2>3. f \in Frame(program, heap)
    BY <1>2, <1>7, <1>8, <2>1, <2>2 DEF Frame
  <2> QED BY <2>2, <2>3
<1> HIDE DEF f
<1>10. OnChart(program, f)
  <2>1. F.code \in DOMAIN program.chart
    BY <1>3 DEF OnChart
  <2> HIDE DEF h, stack, rest
  <2> QED BY <1>2, <1>8, <1>9, <2>1 DEF OnChart, PlaceOf
<1>11. FramesOK(program, [frames EXCEPT ![Len(frames)] = f], heap, NULL)
  BY <1>3, <1>4, <1>9, <1>10, FrameAnew
<1>12. FramesOK(program, frames', heap, NULL)
  BY <1>6, <1>11, Zenon
<1> QED BY <1>1, <1>6, <1>12, PlainValues DEF IInv, TypeOK

LEMMA EscapeStep == ASSUME IInv, Escape PROVE IInv'
<1>1. frames' = Front(frames) /\ Len(frames) > 1 /\ UNCHANGED <<program, locals, heap, error, output, status>>
  BY DEF Escape
<1>2. FramesOK(program, Front(frames), heap, error)
  BY <1>1, Runs, FrameOver
<1> QED BY <1>1, <1>2 DEF IInv, TypeOK

LEMMA FatalStep == ASSUME IInv, Fatal PROVE IInv'
<1>1. status' = "fatal" /\ error' = NULL /\ UNCHANGED <<program, frames, locals, heap, output>>
  BY DEF Fatal
<1>2. FramesOK(program, frames, heap, NULL)
  BY Runs DEF FramesOK
<1> QED BY <1>1, <1>2, PlainValues DEF IInv, TypeOK

-----------------------------------------------------------------------------
(* All of it.                                                              *)

LEMMA Starts == ASSUME Passes(program.codes, program.chart), Start PROVE IInv
<1> DEFINE n == Len(program.codes)
           f == Activation(n, 1, << >>)
<1>1. n \in DOMAIN program.codes
  <2>1. program.codes # << >> /\ program.codes \in Seq(ToSet(program.codes))
    BY DEF Passes
  <2>2. n \in Nat /\ n >= 1 /\ DOMAIN program.codes = 1 .. n
    BY <2>1, LenProperties, EmptySeq
  <2> QED BY <2>2
<1> HIDE DEF n
<1>2. heap = <<[members |-> << >>]>>
  BY DEF Start
<1>3. Len(heap) = 1 /\ DOMAIN heap = {1} /\ heap[1] = [members |-> << >>] /\ DOMAIN heap[1] = {"members"}
  BY <1>2
<1>4. HeapOK(program, heap)
  <2>1. heap \in Seq({heap[1]})
    BY <1>2
  <2>2. heap \in Seq(ToSet(heap))
    BY <2>1, OfItself
  <2>3. CellOK(program, heap[1], heap)
    BY <1>3 DEF CellOK
  <2> QED BY <1>3, <2>2, <2>3 DEF HeapOK
<1>5. /\ NULL \in Valid(program, heap) /\ << >> \in Seq(Valid(program, heap)) /\ << >> \in Seq(Int)
      /\ << >> \in Seq(Buckets(heap)) /\ 1 \in Buckets(heap)
  BY <1>3, PlainValues DEF Buckets
<1>6. LocalsOK(program, locals, heap)
  BY <1>5 DEF Start, LocalsOK
<1>7. f \in Frame(program, heap)
  BY <1>1, <1>5 DEF Activation, Frame
<1>8. OnChart(program, f)
  <2> DEFINE t == program.chart[n]
  <2>1. n \in DOMAIN program.chart /\ TapeOK(program.codes, program.codes[n], t)
    BY <1>1 DEF Passes
  <2>2. -1 \in DOMAIN t /\ t[-1].open = << >> /\ t[-1].depth \in Nat
    BY <2>1, PlaceHas DEF TapeOK
  <2>3. f.code = n /\ f.pc = -1 /\ f.stack = << >> /\ f.catches = << >> /\ Len(f.stack) = 0
    BY DEF Activation
  <2> HIDE DEF f
  <2> QED BY <2>1, <2>2, <2>3 DEF OnChart, PlaceOf
<1>9. frames = <<f>> /\ error = NULL /\ status = "running"
  BY DEF Start, n
<1> HIDE DEF f
<1>10. FramesOK(program, frames, heap, error)
  <2>1. frames \in Seq(Frame(program, heap)) /\ frames # << >> /\ Len(frames) = 1 /\ DOMAIN frames = {1}
    BY <1>7, <1>9
  <2>2. \A i \in DOMAIN frames : OnChart(program, frames[i])
    BY <1>8, <1>9, <2>1
  <2> QED BY <1>9, <2>1, <2>2 DEF FramesOK
<1> QED BY <1>4, <1>5, <1>6, <1>9, <1>10 DEF IInv, TypeOK

LEMMA InstructionStep == ASSUME IInv, Instruction PROVE IInv'
<1>1. CASE Arithmetic \/ Not \/ LoadConst \/ PushNil \/ PushBool \/ Pop \/ Duplicate \/ FlipTwo \/ SinkFirst
  BY <1>1, ArithmeticStep, NotStep, LoadConstStep, PushNilStep, PushBoolStep, PopStep, DuplicateStep,
     FlipTwoStep, SinkFirstStep
<1>2. CASE Ignore \/ Jump \/ JumpFalse \/ JumpElsePop \/ PrintTop
  BY <1>2, IgnoreStep, JumpStep, JumpFalseStep, JumpElsePopStep, PrintTopStep
<1>3. CASE SaveLocal \/ LoadLocal \/ SaveClose \/ LoadClose
  BY <1>3, SaveLocalStep, LoadLocalStep, SaveCloseStep, LoadCloseStep
<1>4. CASE PushNewObject \/ LoadMember \/ SaveMember \/ MakeObject \/ MakeArray \/ LoadIndex \/ SaveIndex
  BY <1>4, PushNewObjectStep, LoadMemberStep, SaveMemberStep, MakeObjectStep, MakeArrayStep, LoadIndexStep,
     SaveIndexStep
<1>5. CASE MakeIter \/ NextIterOrJump \/ IterIndex
  BY <1>5, MakeIterStep, NextIterOrJumpStep, IterIndexStep
<1>6. CASE MakeFunction \/ Call \/ CallNothing \/ Return
  BY <1>6, MakeFunctionStep, CallStep, CallNothingStep, ReturnStep
<1>7. CASE PushCatch \/ PopCatch \/ Raise
  BY <1>7, PushCatchStep, PopCatchStep, RaiseStep
<1> QED BY <1>1, <1>2, <1>3, <1>4, <1>5, <1>6, <1>7, Zenon DEF Instruction

LEMMA Unchanged == ASSUME IInv, UNCHANGED vars PROVE IInv'
BY DEF IInv, TypeOK, vars

LEMMA NextStep == ASSUME IInv, [Next]_vars PROVE IInv'
<1>1. CASE Instruction
  BY <1>1, InstructionStep
<1>2. CASE Leave \/ Finish \/ Catch \/ Escape \/ Fatal
  BY <1>2, LeaveStep, FinishStep, CatchStep, EscapeStep, FatalStep
<1>3. CASE Stopped \/ UNCHANGED vars
  BY <1>3, Unchanged DEF Stopped
<1> QED BY <1>1, <1>2, <1>3, Zenon DEF Next

\* A state of the invariant keeps to the sizes.
LEMMA Fits == ASSUME IInv PROVE StackFits /\ CatchFits
<1> SUFFICES ASSUME NEW i \in DOMAIN frames
             PROVE  /\ Len(frames[i].stack) <= CodeOf(frames[i]).stack_size
                    /\ Len(frames[i].catches) <= CodeOf(frames[i]).catch_size
  BY DEF StackFits, CatchFits
<1> DEFINE f == frames[i]
           t == program.chart[f.code]
<1>1. OnChart(program, f) /\ Passes(program.codes, program.chart) /\ frames \in Seq(Frame(program, heap))
  BY DEF IInv, TypeOK, FramesOK
<1>2. f \in Frame(program, heap)
  <2>1. i \in 1 .. Len(frames)
    BY <1>1, LenProperties
  <2> QED BY <1>1, <2>1, ElementOfSeq
<1>3. Len(f.stack) \in Nat /\ Len(f.stack) <= t[f.pc].depth /\ f.catches = t[f.pc].open
  BY <1>1, <1>2, FrameHas DEF OnChart, PlaceOf
<1>4. SizesOK(CodeOf(f)) /\ PlaceOK(program.codes, CodeOf(f), t, f.pc)
  BY <1>1, AtPlace DEF CodeOf
<1>5. /\ t[f.pc].depth \in Nat /\ t[f.pc].depth <= CodeOf(f).stack_size /\ CodeOf(f).stack_size \in Nat
      /\ Len(t[f.pc].open) <= CodeOf(f).catch_size
  BY <1>4, PlaceHas
<1>6. Len(f.stack) <= CodeOf(f).stack_size
  <2> DEFINE n == Len(f.stack)
             d == t[f.pc].depth
  <2>1. n \in Nat /\ d \in Nat /\ CodeOf(f).stack_size \in Nat /\ n <= d /\ d <= CodeOf(f).stack_size
    BY <1>3, <1>5
  <2> HIDE DEF n, d, f
  <2>2. n <= CodeOf(f).stack_size
    BY <2>1
  <2> QED BY <2>2 DEF n, f
<1> QED BY <1>3, <1>5, <1>6

\* The invariant: of a program with a chart that passes, every state the
\* machine gets to (mach_execute, mach_eval, lky_machine.c:236-980) keeps to
\* the chart, and no frame finds its stack full.
THEOREM MachineKeepsToTheChart == MachineSpec => []IInv
<1>1. Passes(program.codes, program.chart) /\ Start => IInv
  BY Starts
<1>2. IInv /\ [Next]_vars => IInv'
  BY NextStep
<1> QED BY <1>1, <1>2, PTL DEF MachineSpec

\* Every value is what its kind says, every reference leads to a cell of its
\* kind, and every frame is at a place of the chart with no more operands, and
\* with the very handlers, that the chart has there: what the machine never
\* looks at again when it pops an operand and uses its fields.
THEOREM MachineTypes == MachineSpec => []TypeOK
<1>1. IInv => TypeOK
  BY DEF IInv
<1> QED BY <1>1, MachineKeepsToTheChart, PTL

\* No operand stack outgrows the array that mach_execute makes for it, of the
\* size that calculate_max_stack_depth computed, however the calls nest and
\* wherever an exception is caught.
THEOREM StacksFit == MachineSpec => []StackFits
<1>1. IInv => StackFits
  BY Fits
<1> QED BY <1>1, MachineKeepsToTheChart, PTL

\* No frame has more open handlers than calculate_max_catch_depth counted:
\* PUSH_CATCH always finds room in the catch stack that mach_execute made by
\* that count.
THEOREM CatchesFit == MachineSpec => []CatchFits
<1>1. IInv => CatchFits
  BY Fits
<1> QED BY <1>1, MachineKeepsToTheChart, PTL

\* push_node never reports a stack that is full.
THEOREM NeverOverflows == MachineSpec => [](status # "overflow")
<1>1. IInv => status # "overflow"
  BY DEF IInv
<1> QED BY <1>1, MachineKeepsToTheChart, PTL

=============================================================================

--------------------------- MODULE SequenceLemmas ---------------------------
(***************************************************************************)
(* What the proofs about lists, chains, loops and strings share.  Models   *)
(* go through a sequence by a recursive function, so two lemmas come       *)
(* first: induction over the numbers up to a bound, and that a function    *)
(* given step by step exists.                                              *)
(***************************************************************************)
EXTENDS SequencesExt, SequenceTheorems, FiniteSetTheorems, WellFoundedInduction, TLAPS

\* What holds of 0, and of a number if it holds of the one before, holds up to m.
LEMMA Induction ==
  ASSUME NEW m \in Nat, NEW T, 0 \in T, \A n \in 1..m : n - 1 \in T => n \in T
  PROVE  0..m \subseteq T
<1> DEFINE R == OpToRel(<, Nat)
           F == (0..m) \ T
<1> SUFFICES ASSUME F # {} PROVE FALSE
  OBVIOUS
<1>1. F \subseteq Nat
  OBVIOUS
<1>2. PICK n \in F : \A y \in F : ~(<<y, n>> \in R)
  BY <1>1, NatLessThanWellFounded, WFMin
<1>3. n \in 1..m /\ n - 1 \in 0..m
  OBVIOUS
<1>4. n - 1 \notin F
  <2>1. n - 1 \in Nat /\ n \in Nat /\ n - 1 < n
    BY <1>3
  <2>2. <<n - 1, n>> \in R
    BY <2>1 DEF OpToRel
  <2> HIDE DEF R, F
  <2> QED BY <1>2, <2>2
<1> QED BY <1>2, <1>3, <1>4

\* step leads from X to X, m times; f starts with x and goes on by step.
Stays(m, X, step) == \A n \in 1..m : \A y \in X : step[<<n, y>>] \in X
Follows(f, m, X, x, step) == f \in [0..m -> X] /\ f[0] = x /\ \A n \in 1..m : f[n] = step[<<n, f[n - 1]>>]

\* Such a function exists.
LEMMA Recursion ==
  ASSUME NEW m \in Nat, NEW X, NEW x \in X, NEW step, Stays(m, X, step)
  PROVE  \E f : Follows(f, m, X, x, step)
<1> DEFINE Upto(k) == \E f \in [0..k -> X] : f[0] = x /\ \A n \in 1..k : f[n] = step[<<n, f[n - 1]>>]
           T == {k \in 0..m : Upto(k)}
<1>1. 0 \in T
  <2> DEFINE f == [n \in 0..0 |-> x]
  <2>1. f \in [0..0 -> X] /\ f[0] = x /\ \A n \in 1..0 : f[n] = step[<<n, f[n - 1]>>]
    OBVIOUS
  <2> HIDE DEF f
  <2>2. Upto(0)
    BY <2>1
  <2> HIDE DEF Upto
  <2> QED BY <2>2
<1>2. ASSUME NEW n \in 1..m, Upto(n - 1) PROVE Upto(n)
  <2>1. PICK f \in [0..n - 1 -> X] : f[0] = x /\ \A k \in 1..n - 1 : f[k] = step[<<k, f[k - 1]>>]
    BY <1>2
  <2> DEFINE g == [k \in 0..n |-> IF k = n THEN step[<<n, f[n - 1]>>] ELSE f[k]]
  <2>2. f[n - 1] \in X /\ step[<<n, f[n - 1]>>] \in X
    BY DEF Stays
  <2>3. g \in [0..n -> X] /\ g[0] = x
    BY <2>1, <2>2
  <2>4. ASSUME NEW k \in 1..n PROVE g[k] = step[<<k, g[k - 1]>>]
    <3>1. k - 1 \in 0..n - 1 /\ k - 1 # n /\ g[k - 1] = f[k - 1]
      OBVIOUS
    <3>2. CASE k = n
      <4>1. g[k] = step[<<n, f[n - 1]>>] /\ g[k - 1] = f[n - 1]
        BY <3>1, <3>2
      <4> HIDE DEF g
      <4> QED BY <3>2, <4>1
    <3>3. CASE k # n
      <4>1. k \in 1..n - 1 /\ g[k] = f[k]
        BY <3>3
      <4> QED BY <2>1, <3>1, <4>1
    <3> QED BY <3>2, <3>3
  <2> HIDE DEF g
  <2> QED BY <2>3, <2>4
<1> HIDE DEF Upto
<1>3. 0..m \subseteq T
  <2>1. \A n \in 1..m : n - 1 \in T => n \in T
    BY <1>2
  <2> HIDE DEF T
  <2> QED BY <1>1, <2>1, Induction
<1>4. m \in T
  BY <1>3
<1> QED BY <1>4 DEF Upto, Follows
\* What leads from X[n - 1] to X[n] all the way from X[0] to X[m].
Leads(m, X, step) == \A n \in 1..m : \A y \in X[n - 1] : step[<<n, y>>] \in X[n]

LEMMA Along ==
  ASSUME NEW m \in Nat, NEW X, NEW f, f[0] \in X[0],
         \A n \in 1..m : f[n - 1] \in X[n - 1] => f[n] \in X[n]
  PROVE  \A n \in 0..m : f[n] \in X[n]
<1> DEFINE T == {n \in 0..m : f[n] \in X[n]}
<1>1. 0 \in T
  OBVIOUS
<1>2. \A n \in 1..m : n - 1 \in T => n \in T
  OBVIOUS
<1>3. 0..m \subseteq T
  <2> HIDE DEF T
  <2> QED BY <1>1, <1>2, Induction
<1> QED BY <1>3

\* A loop of which each round goes from X[n - 1] to X[n] exists as a function.
Loops(f, m, X, x, step) == /\ f = [n \in 0..m |-> IF n = 0 THEN x ELSE step[<<n, f[n - 1]>>]]
                           /\ \A n \in 0..m : f[n] \in X[n]
LEMMA Loop ==
  ASSUME NEW m \in Nat, NEW X, NEW x \in X[0], NEW step, Leads(m, X, step)
  PROVE  \E f : Loops(f, m, X, x, step)
<1> DEFINE Y == UNION {X[n] : n \in 0..m}
           go == [p \in (1..m) \X Y |-> IF p[2] \in X[p[1] - 1] THEN step[p] ELSE x]
<1>1. \A n \in 0..m : X[n] \subseteq Y
  OBVIOUS
<1>2. \A n \in 1..m : \A y \in Y : go[<<n, y>>] = IF y \in X[n - 1] THEN step[<<n, y>>] ELSE x
  OBVIOUS
<1>3. x \in Y
  BY <1>1
<1> HIDE DEF go, Y
<1>4. Stays(m, Y, go)
  <2> SUFFICES ASSUME NEW n \in 1..m, NEW y \in Y PROVE go[<<n, y>>] \in Y
    BY DEF Stays
  <2>1. y \in X[n - 1] => step[<<n, y>>] \in X[n]
    BY DEF Leads
  <2>2. n \in 0..m
    OBVIOUS
  <2> QED BY <1>1, <1>2, <1>3, <2>1, <2>2
<1>5. PICK f : Follows(f, m, Y, x, go)
  BY <1>3, <1>4, Recursion
<1>6. f \in [0..m -> Y] /\ f[0] = x /\ \A n \in 1..m : f[n] = go[<<n, f[n - 1]>>]
  BY <1>5 DEF Follows
<1>7. \A n \in 1..m : f[n - 1] \in X[n - 1] => f[n] = step[<<n, f[n - 1]>>] /\ f[n] \in X[n]
  <2> SUFFICES ASSUME NEW n \in 1..m, f[n - 1] \in X[n - 1]
               PROVE  f[n] = step[<<n, f[n - 1]>>] /\ f[n] \in X[n]
    OBVIOUS
  <2>1. n - 1 \in 0..m
    OBVIOUS
  <2>2. f[n - 1] \in Y
    BY <1>6, <2>1
  <2>3. f[n] = step[<<n, f[n - 1]>>]
    BY <1>2, <1>6, <2>2
  <2> QED BY <2>3 DEF Leads
<1>8. \A n \in 0..m : f[n] \in X[n]
  BY <1>6, <1>7, Along
<1>9. \A n \in 0..m : f[n] = IF n = 0 THEN x ELSE step[<<n, f[n - 1]>>]
  <2> TAKE n \in 0..m
  <2>1. CASE n = 0
    BY <1>6, <2>1
  <2>2. CASE n # 0
    <3>1. n \in 1..m /\ n - 1 \in 0..m
      BY <2>2
    <3> QED BY <1>7, <1>8, <2>2, <3>1
  <2> QED BY <2>1, <2>2
<1>10. f = [n \in 0..m |-> f[n]]
  BY <1>6
<1>11. f = [n \in 0..m |-> IF n = 0 THEN x ELSE step[<<n, f[n - 1]>>]]
  BY <1>9, <1>10
<1> QED BY <1>8, <1>11 DEF Loops

\* A set of numbers that is not empty has a least.
LEMMA MinOf ==
  ASSUME NEW T \in SUBSET Nat, T # {}
  PROVE  Min(T) \in T /\ \A y \in T : Min(T) <= y
<1> DEFINE R == OpToRel(<, Nat)
<1>1. PICK n \in T : \A y \in T : ~(<<y, n>> \in R)
  BY NatLessThanWellFounded, WFMin
<1>2. \A y \in T : y \in Nat /\ n \in Nat /\ ~(y < n)
  BY <1>1 DEF OpToRel
<1>3. \A y \in T : n <= y
  BY <1>2
<1> QED BY <1>3 DEF Min

-----------------------------------------------------------------------------
(* Lists without repetition.                                               *)

LEMMA Members ==
  ASSUME NEW S, NEW s \in Seq(S)
  PROVE  /\ ToSet(s) = {s[i] : i \in 1..Len(s)} /\ ToSet(s) \subseteq S
         /\ IsInjective(s) <=> \A i, j \in 1..Len(s) : s[i] = s[j] => i = j
BY LenProperties DEF ToSet, IsInjective

LEMMA Joined ==
  ASSUME NEW S, NEW s \in Seq(S), NEW t \in Seq(S)
  PROVE  /\ s \o t \in Seq(S) /\ ToSet(s \o t) = ToSet(s) \cup ToSet(t)
         /\ IsInjective(s) /\ IsInjective(t) /\ ToSet(s) \cap ToSet(t) = {} => IsInjective(s \o t)
<1> DEFINE r == s \o t
           a == Len(s)
           b == Len(t)
<1>1. /\ a \in Nat /\ b \in Nat /\ r \in Seq(S) /\ Len(r) = a + b
      /\ \A i \in 1..a + b : r[i] = IF i <= a THEN s[i] ELSE t[i - a]
  BY ConcatProperties, LenProperties
<1>2. /\ ToSet(s) = {s[i] : i \in 1..a} /\ ToSet(t) = {t[i] : i \in 1..b} /\ ToSet(r) = {r[i] : i \in 1..a + b}
      /\ IsInjective(s) <=> \A i, j \in 1..a : s[i] = s[j] => i = j
      /\ IsInjective(t) <=> \A i, j \in 1..b : t[i] = t[j] => i = j
      /\ IsInjective(r) <=> \A i, j \in 1..a + b : r[i] = r[j] => i = j
  <2>1. ToSet(s) = {s[i] : i \in 1..a} /\ (IsInjective(s) <=> \A i, j \in 1..a : s[i] = s[j] => i = j)
    BY Members, Zenon
  <2>2. ToSet(t) = {t[i] : i \in 1..b} /\ (IsInjective(t) <=> \A i, j \in 1..b : t[i] = t[j] => i = j)
    BY Members, Zenon
  <2>3. /\ ToSet(r) = {r[i] : i \in 1..Len(r)}
        /\ IsInjective(r) <=> \A i, j \in 1..Len(r) : r[i] = r[j] => i = j
    <3> HIDE DEF r
    <3> QED BY <1>1, Members, Zenon
  <2> QED BY <1>1, <2>1, <2>2, <2>3, Zenon
<1> HIDE DEF a, b, r
<1>3. \A i \in 1..a : i \in 1..a + b /\ r[i] = s[i]
  BY <1>1
<1>4. \A i \in 1..b : a + i \in 1..a + b /\ r[a + i] = t[i]
  <2> TAKE i \in 1..b
  <2>1. a + i \in 1..a + b /\ ~(a + i <= a) /\ a + i - a = i
    BY <1>1
  <2> QED BY <1>1, <2>1
<1>5. \A i \in 1..a + b : (i \in 1..a /\ r[i] = s[i]) \/ (i - a \in 1..b /\ r[i] = t[i - a])
  BY <1>1
<1>6. ToSet(r) = ToSet(s) \cup ToSet(t)
  <2>1. \A x \in ToSet(r) : x \in ToSet(s) \cup ToSet(t)
    BY <1>2, <1>5
  <2>2. \A x \in ToSet(s) : x \in ToSet(r)
    BY <1>2, <1>3
  <2>3. \A x \in ToSet(t) : x \in ToSet(r)
    BY <1>2, <1>4
  <2> QED BY <2>1, <2>2, <2>3
<1>7. ASSUME IsInjective(s), IsInjective(t), ToSet(s) \cap ToSet(t) = {} PROVE IsInjective(r)
  <2> SUFFICES ASSUME NEW i \in 1..a + b, NEW j \in 1..a + b, r[i] = r[j] PROVE i = j
    BY <1>2
  <2>1. i \in 1..a => r[i] \in ToSet(s)
    BY <1>2, <1>3
  <2>2. j \in 1..a => r[j] \in ToSet(s)
    BY <1>2, <1>3
  <2>3. i - a \in 1..b /\ r[i] = t[i - a] => r[i] \in ToSet(t)
    BY <1>2
  <2>4. j - a \in 1..b /\ r[j] = t[j - a] => r[j] \in ToSet(t)
    BY <1>2
  <2>5. CASE i \in 1..a /\ r[i] = s[i]
    <3>1. j \in 1..a /\ r[j] = s[j]
      BY <1>5, <1>7, <2>1, <2>4, <2>5
    <3> QED BY <1>2, <1>7, <2>5, <3>1
  <2>6. CASE i - a \in 1..b /\ r[i] = t[i - a]
    <3>1. j - a \in 1..b /\ r[j] = t[j - a]
      BY <1>5, <1>7, <2>2, <2>3, <2>6
    <3>2. i - a = j - a
      BY <1>2, <1>7, <2>6, <3>1
    <3> QED BY <1>1, <3>2
  <2> QED BY <1>5, <2>5, <2>6
<1> QED BY <1>1, <1>6, <1>7 DEF r

\* A list with one more, that was not in it.
LEMMA OneMore ==
  ASSUME NEW S, NEW s \in Seq(S), NEW x \in S
  PROVE  /\ Append(s, x) \in Seq(S) /\ ToSet(Append(s, x)) = ToSet(s) \cup {x}
         /\ IsInjective(s) /\ x \notin ToSet(s) => IsInjective(Append(s, x))
<1>1. <<x>> \in Seq(S) /\ Append(s, x) = s \o <<x>>
  BY AppendIsConcat
<1>2. ToSet(<<x>>) = {x} /\ IsInjective(<<x>>)
  BY DEF ToSet, IsInjective
<1>3. /\ s \o <<x>> \in Seq(S) /\ ToSet(s \o <<x>>) = ToSet(s) \cup ToSet(<<x>>)
      /\ IsInjective(s) /\ IsInjective(<<x>>) /\ ToSet(s) \cap ToSet(<<x>>) = {} => IsInjective(s \o <<x>>)
  BY <1>1, Joined, Zenon
<1>4. x \notin ToSet(s) => ToSet(s) \cap {x} = {}
  OBVIOUS
<1> QED BY <1>1, <1>2, <1>3, <1>4, Zenon

\* It has as many members as it is long.
LEMMA Counted ==
  ASSUME NEW S, NEW s \in Seq(S), IsInjective(s)
  PROVE  IsFiniteSet(ToSet(s)) /\ Cardinality(ToSet(s)) = Len(s)
<1>1. /\ Len(s) \in Nat /\ DOMAIN s = 1..Len(s) /\ ToSet(s) = {s[i] : i \in 1..Len(s)}
      /\ \A i, j \in 1..Len(s) : s[i] = s[j] => i = j
  BY Members, LenProperties
<1>2. s \in [1..Len(s) -> ToSet(s)]
  BY <1>1, LenProperties
<1>3. s \in Bijection(1..Len(s), ToSet(s))
  <2>1. s \in Injection(1..Len(s), ToSet(s))
    BY <1>1, <1>2 DEF Injection, IsInjective
  <2>2. s \in Surjection(1..Len(s), ToSet(s))
    BY <1>1, <1>2 DEF Surjection
  <2> QED BY <2>1, <2>2 DEF Bijection
<1>4. IsFiniteSet(1..Len(s)) /\ Cardinality(1..Len(s)) = Len(s)
  BY <1>1, FS_Interval
<1> QED BY <1>3, <1>4, FS_Bijection DEF ExistsBijection

\* FlattenSeq goes from the first list on.
LEMMA FlattenedUpto ==
  ASSUME NEW S, NEW ss \in Seq(Seq(S)), Len(ss) # 0
  PROVE  \E f \in [1..Len(ss) -> Seq(S)] :
           /\ f[1] = ss[1] /\ \A i \in 2..Len(ss) : f[i] = f[i - 1] \o ss[i]
           /\ FlattenSeq(ss) = f[Len(ss)]
<1> DEFINE l == Len(ss)
           step == [p \in (1..l - 1) \X Seq(S) |-> p[2] \o ss[p[1] + 1]]
           Body(f) == [i \in 1..l |-> IF i = 1 THEN ss[i] ELSE f[i - 1] \o ss[i]]
           flatten == CHOOSE f : f = Body(f)
<1>1. l \in Nat /\ l - 1 \in Nat /\ \A i \in 1..l : ss[i] \in Seq(S)
  BY LenProperties
<1>2. ss[1] \in Seq(S)
  BY <1>1
<1>3. \A n \in 1..l - 1 : \A y \in Seq(S) : step[<<n, y>>] = y \o ss[n + 1] /\ step[<<n, y>>] \in Seq(S)
  <2> TAKE n \in 1..l - 1
  <2> TAKE y \in Seq(S)
  <2>1. n + 1 \in 1..l
    BY <1>1
  <2>2. y \o ss[n + 1] \in Seq(S)
    BY <1>1, <2>1, ConcatProperties
  <2> QED BY <2>2
<1> HIDE DEF step, l
<1>4. PICK g \in [0..l - 1 -> Seq(S)] : g[0] = ss[1] /\ \A n \in 1..l - 1 : g[n] = step[<<n, g[n - 1]>>]
  <2>1. \A n \in 1..l - 1 : \A y \in Seq(S) : step[<<n, y>>] \in Seq(S)
    BY <1>3
  <2>2. Stays(l - 1, Seq(S), step)
    BY <2>1 DEF Stays
  <2>3. \E g : Follows(g, l - 1, Seq(S), ss[1], step)
    BY <1>1, <1>2, <2>2, Recursion
  <2> QED BY <2>3 DEF Follows
<1> DEFINE f == [i \in 1..l |-> g[i - 1]]
<1>5. f \in [1..l -> Seq(S)] /\ f[1] = ss[1]
  <2>1. \A i \in 1..l : i - 1 \in 0..l - 1
    BY <1>1
  <2>2. l # 0
    BY DEF l
  <2>3. 1 \in 1..l /\ 1 - 1 = 0
    BY <1>1, <2>2
  <2> QED BY <1>4, <2>1, <2>3
<1>6. \A i \in 2..l : f[i] = f[i - 1] \o ss[i]
  <2> TAKE i \in 2..l
  <2>1. i \in 1..l /\ i - 1 \in 1..l /\ i - 1 \in 1..l - 1 /\ (i - 1) - 1 \in 0..l - 1 /\ (i - 1) + 1 = i
    BY <1>1
  <2>2. f[i] = g[i - 1] /\ f[i - 1] = g[(i - 1) - 1]
    BY <2>1
  <2>3. g[i - 1] = step[<<i - 1, g[(i - 1) - 1]>>] /\ g[(i - 1) - 1] \in Seq(S)
    BY <1>4, <2>1
  <2> HIDE DEF f
  <2> QED BY <1>3, <2>1, <2>2, <2>3
<1> DEFINE Good(h) == h \in [1..l -> Seq(S)] /\ h[1] = ss[1] /\ \A i \in 2..l : h[i] = h[i - 1] \o ss[i]
<1>7. f = Body(f)
  <2>1. \A i \in 1..l : f[i] = IF i = 1 THEN ss[i] ELSE f[i - 1] \o ss[i]
    <3> TAKE i \in 1..l
    <3>1. CASE i = 1
      BY <1>5, <3>1
    <3>2. CASE i # 1
      <4>1. i \in 2..l
        BY <1>1, <3>2
      <4> HIDE DEF f
      <4> QED BY <1>6, <3>2, <4>1
    <3> QED BY <3>1, <3>2
  <2>2. f = [i \in 1..l |-> f[i]]
    OBVIOUS
  <2> HIDE DEF f
  <2> QED BY <2>1, <2>2
<1>8. flatten = Body(flatten)
  <2> HIDE DEF f
  <2> QED BY <1>7
<1>9. FlattenSeq(ss) = flatten[l]
  BY Zenon DEF FlattenSeq, l
<1>10. flatten = f
  <2>1. 0..l - 1 \subseteq {n \in 0..l - 1 : flatten[n + 1] = f[n + 1]}
    <3> DEFINE T == {n \in 0..l - 1 : flatten[n + 1] = f[n + 1]}
    <3> HIDE DEF f, flatten
    <3>0. \A i \in 1..l : flatten[i] = IF i = 1 THEN ss[i] ELSE flatten[i - 1] \o ss[i]
      BY <1>8
    <3>1. 0 \in T
      <4>1. 0 \in 0..l - 1 /\ 0 + 1 = 1 /\ 1 \in 1..l
        BY <1>1
      <4> QED BY <1>5, <3>0, <4>1
    <3>2. \A n \in 1..l - 1 : n - 1 \in T => n \in T
      <4> SUFFICES ASSUME NEW n \in 1..l - 1, n - 1 \in T PROVE n \in T
        OBVIOUS
      <4>1. n \in 0..l - 1 /\ n + 1 \in 2..l /\ n + 1 \in 1..l /\ n + 1 # 1 /\ (n + 1) - 1 = (n - 1) + 1
        BY <1>1
      <4>2. flatten[n + 1] = flatten[(n - 1) + 1] \o ss[n + 1]
        BY <3>0, <4>1
      <4>3. f[n + 1] = f[(n - 1) + 1] \o ss[n + 1]
        BY <1>6, <4>1
      <4> QED BY <4>1, <4>2, <4>3
    <3> HIDE DEF T
    <3>3. 0..l - 1 \subseteq T
      BY <1>1, <3>1, <3>2, Induction
    <3> QED BY <3>3 DEF T
  <2>2. \A i \in 1..l : flatten[i] = f[i]
    <3> TAKE i \in 1..l
    <3>1. i - 1 \in 0..l - 1 /\ (i - 1) + 1 = i
      BY <1>1
    <3> HIDE DEF f, flatten
    <3> QED BY <2>1, <3>1
  <2>3. flatten = [i \in 1..l |-> flatten[i]] /\ f = [i \in 1..l |-> f[i]]
    <3>1. Body(flatten) = [i \in 1..l |-> Body(flatten)[i]]
      OBVIOUS
    <3> HIDE DEF flatten, Body
    <3> QED BY <1>8, <3>1
  <2> HIDE DEF f, flatten
  <2> QED BY <2>2, <2>3
<1> HIDE DEF f, flatten
<1> QED BY <1>5, <1>6, <1>9, <1>10 DEF l

\* Lists that share nothing, each without repetition, make one without repetition
\* that has the members of all.
LEMMA Flattened ==
  ASSUME NEW S, NEW ss \in Seq(Seq(S)), Len(ss) # 0,
         \A i \in 1..Len(ss) : IsInjective(ss[i]),
         \A i, j \in 1..Len(ss) : i # j => ToSet(ss[i]) \cap ToSet(ss[j]) = {}
  PROVE  /\ FlattenSeq(ss) \in Seq(S) /\ IsInjective(FlattenSeq(ss))
         /\ \A x : x \in ToSet(FlattenSeq(ss)) <=> \E i \in 1..Len(ss) : x \in ToSet(ss[i])
<1> DEFINE l == Len(ss)
<1>1. l \in Nat /\ l - 1 \in Nat /\ 1 \in 1..l /\ \A i \in 1..l : ss[i] \in Seq(S)
  BY LenProperties
<1>2. PICK f \in [1..l -> Seq(S)] :
        /\ f[1] = ss[1] /\ \A i \in 2..l : f[i] = f[i - 1] \o ss[i]
        /\ FlattenSeq(ss) = f[l]
  BY FlattenedUpto
<1> HIDE DEF l
<1> DEFINE Good(n) == /\ IsInjective(f[n])
                      /\ \A x : x \in ToSet(f[n]) <=> \E i \in 1..n : x \in ToSet(ss[i])
           T == {n \in 0..l - 1 : Good(n + 1)}
<1>3. Good(1)
  <2>1. \A x : x \in ToSet(ss[1]) <=> \E i \in 1..1 : x \in ToSet(ss[i])
    OBVIOUS
  <2>2. IsInjective(ss[1])
    BY <1>1 DEF l
  <2> QED BY <1>2, <2>1, <2>2
<1>4. ASSUME NEW n \in 2..l, Good(n - 1) PROVE Good(n)
  <2>1. n \in 1..l /\ n - 1 \in 1..l /\ 1..n = (1..n - 1) \cup {n} /\ \A i \in 1..n - 1 : i \in 1..l /\ i # n
    BY <1>1
  <2>2. f[n - 1] \in Seq(S) /\ ss[n] \in Seq(S) /\ f[n] = f[n - 1] \o ss[n] /\ IsInjective(ss[n])
    BY <1>1, <1>2, <2>1 DEF l
  <2>3. ToSet(f[n - 1]) \cap ToSet(ss[n]) = {}
    <3>1. \A i \in 1..n - 1 : ToSet(ss[i]) \cap ToSet(ss[n]) = {}
      BY <2>1 DEF l
    <3> QED BY <1>4, <3>1, Zenon
  <2>4. /\ ToSet(f[n]) = ToSet(f[n - 1]) \cup ToSet(ss[n])
        /\ IsInjective(f[n])
    BY <1>4, <2>2, <2>3, Joined
  <2> QED BY <1>4, <2>1, <2>4, Zenon
<1>5. 0..l - 1 \subseteq T
  <2> HIDE DEF Good
  <2>1. 0 \in T
    BY <1>1, <1>3
  <2>2. \A n \in 1..l - 1 : n - 1 \in T => n \in T
    <3> SUFFICES ASSUME NEW n \in 1..l - 1, n - 1 \in T PROVE n \in T
      OBVIOUS
    <3>1. n + 1 \in 2..l /\ (n + 1) - 1 = (n - 1) + 1 /\ n \in 0..l - 1
      BY <1>1
    <3>2. Good((n + 1) - 1)
      BY <3>1
    <3> QED BY <1>4, <3>1, <3>2
  <2> HIDE DEF T
  <2> QED BY <1>1, <2>1, <2>2, Induction
<1>6. Good(l)
  <2> HIDE DEF Good
  <2>1. l - 1 \in 0..l - 1 /\ (l - 1) + 1 = l
    BY <1>1
  <2>2. Good((l - 1) + 1)
    BY <1>5, <2>1
  <2> QED BY <2>1, <2>2
<1>7. f[l] \in Seq(S)
  BY <1>1, <1>2
<1> QED BY <1>2, <1>6, <1>7 DEF l

\* A list without its k-th element.
LEMMA RemovedAt ==
  ASSUME NEW S, NEW s \in Seq(S), NEW k \in 1..Len(s)
  PROVE  /\ RemoveAt(s, k) \in Seq(S) /\ Len(RemoveAt(s, k)) = Len(s) - 1
         /\ \A j \in 1..Len(s) - 1 : RemoveAt(s, k)[j] = IF j < k THEN s[j] ELSE s[j + 1]
<1> DEFINE l == Len(s)
           before == SubSeq(s, 1, k - 1)
           after == SubSeq(s, k + 1, l)
<1>1. l \in Nat /\ \A i \in 1..l : s[i] \in S
  BY LenProperties
<1>2. RemoveAt(s, k) = before \o after
  BY DEF RemoveAt
<1> HIDE DEF l
<1>3. k \in 1..l
  BY DEF l
<1>4. /\ before \in Seq(S) /\ Len(before) = k - 1 /\ \A i \in 1..k - 1 : before[i] = s[i]
  <2>1. k - 1 \in Int /\ 1 \in Int /\ \A i \in 1..k - 1 : i \in 1..l /\ 1 + i - 1 = i
    BY <1>1, <1>3
  <2>2. \A i \in 1..k - 1 : s[i] \in S
    BY <1>1, <2>1
  <2>3. /\ before \in Seq(S) /\ Len(before) = IF 1 <= k - 1 THEN k - 1 - 1 + 1 ELSE 0
        /\ \A i \in 1..k - 1 - 1 + 1 : before[i] = s[1 + i - 1]
    BY <2>1, <2>2, SubSeqProperties
  <2>4. k - 1 - 1 + 1 = k - 1 /\ (~(1 <= k - 1) => k - 1 = 0)
    BY <1>1, <1>3
  <2> HIDE DEF before
  <2> QED BY <2>1, <2>3, <2>4
<1>5. /\ after \in Seq(S) /\ Len(after) = l - k /\ \A i \in 1..l - k : after[i] = s[k + i]
  <2>1. k + 1 \in Int /\ l \in Int /\ \A i \in k + 1..l : i \in 1..l
    BY <1>1, <1>3
  <2>2. \A i \in k + 1..l : s[i] \in S
    BY <1>1, <2>1
  <2>3. /\ after \in Seq(S) /\ Len(after) = IF k + 1 <= l THEN l - (k + 1) + 1 ELSE 0
        /\ \A i \in 1..l - (k + 1) + 1 : after[i] = s[k + 1 + i - 1]
    BY <2>1, <2>2, SubSeqProperties
  <2>4. l - (k + 1) + 1 = l - k /\ (~(k + 1 <= l) => l - k = 0) /\ \A i \in 1..l - k : k + 1 + i - 1 = k + i
    BY <1>1, <1>3
  <2> HIDE DEF after
  <2> QED BY <2>3, <2>4
<1> HIDE DEF before, after
<1>6. /\ before \o after \in Seq(S) /\ Len(before \o after) = (k - 1) + (l - k)
      /\ \A i \in 1..(k - 1) + (l - k) : (before \o after)[i] = IF i <= k - 1 THEN before[i] ELSE after[i - (k - 1)]
  <2>1. /\ before \o after \in Seq(S) /\ Len(before \o after) = Len(before) + Len(after)
        /\ \A i \in 1..Len(before) + Len(after) : (before \o after)[i] =
             IF i <= Len(before) THEN before[i] ELSE after[i - Len(before)]
    BY <1>4, <1>5, ConcatProperties, Zenon
  <2> QED BY <1>4, <1>5, <2>1, Zenon
<1>7. (k - 1) + (l - k) = l - 1
  BY <1>1, <1>3
<1>8. \A j \in 1..l - 1 : (before \o after)[j] = IF j < k THEN s[j] ELSE s[j + 1]
  <2> TAKE j \in 1..l - 1
  <2>1. CASE j < k
    <3>1. j \in 1..k - 1 /\ j <= k - 1
      BY <1>1, <1>3, <2>1
    <3> QED BY <1>4, <1>6, <1>7, <2>1, <3>1
  <2>2. CASE ~(j < k)
    <3>1. j - (k - 1) \in 1..l - k /\ ~(j <= k - 1) /\ k + (j - (k - 1)) = j + 1
      BY <1>1, <1>3, <2>2
    <3>2. (before \o after)[j] = after[j - (k - 1)]
      BY <1>6, <1>7, <3>1
    <3>3. after[j - (k - 1)] = s[k + (j - (k - 1))]
      BY <1>5, <3>1
    <3> QED BY <2>2, <3>1, <3>2, <3>3
  <2> QED BY <2>1, <2>2
<1> QED BY <1>2, <1>6, <1>7, <1>8 DEF l

\* A list without repetition, and without its k-th element.
LEMMA OneFewer ==
  ASSUME NEW S, NEW s \in Seq(S), IsInjective(s), NEW k \in 1..Len(s)
  PROVE  IsInjective(RemoveAt(s, k)) /\ ToSet(RemoveAt(s, k)) = ToSet(s) \ {s[k]}
<1> DEFINE l == Len(s)
           r == RemoveAt(s, k)
<1>1. /\ l \in Nat /\ ToSet(s) = {s[i] : i \in 1..l}
      /\ \A i, j \in 1..l : s[i] = s[j] => i = j
  BY LenProperties, Members
<1>2. /\ r \in Seq(S) /\ Len(r) = l - 1
      /\ \A j \in 1..l - 1 : r[j] = IF j < k THEN s[j] ELSE s[j + 1]
  BY RemovedAt
<1>3. k \in 1..l
  OBVIOUS
<1> HIDE DEF l, r
<1>4. /\ ToSet(r) = {r[i] : i \in 1..l - 1}
      /\ IsInjective(r) <=> \A i, j \in 1..l - 1 : r[i] = r[j] => i = j
  BY <1>2, Members
<1> DEFINE Of(j) == IF j < k THEN j ELSE j + 1
<1>5. \A j \in 1..l - 1 : Of(j) \in 1..l /\ Of(j) # k /\ r[j] = s[Of(j)]
  BY <1>1, <1>2, <1>3
<1>6. \A i, j \in 1..l - 1 : Of(i) = Of(j) => i = j
  BY <1>1, <1>3
<1>7. \A i \in 1..l : i # k => \E j \in 1..l - 1 : Of(j) = i
  <2> SUFFICES ASSUME NEW i \in 1..l, i # k PROVE \E j \in 1..l - 1 : Of(j) = i
    OBVIOUS
  <2>1. CASE i < k
    <3>1. i \in 1..l - 1 /\ Of(i) = i
      BY <1>1, <1>3, <2>1
    <3> QED BY <3>1
  <2>2. CASE i > k
    <3>1. i - 1 \in 1..l - 1 /\ Of(i - 1) = i
      BY <1>1, <1>3, <2>2
    <3> QED BY <3>1
  <2> QED BY <1>1, <1>3, <2>1, <2>2
<1> HIDE DEF Of
<1>8. IsInjective(r)
  <2> SUFFICES ASSUME NEW i \in 1..l - 1, NEW j \in 1..l - 1, r[i] = r[j] PROVE i = j
    BY <1>4
  <2>1. Of(i) = Of(j)
    BY <1>1, <1>5
  <2> QED BY <1>6, <2>1
<1>9. \A x \in ToSet(r) : x \in ToSet(s) /\ x # s[k]
  <2> SUFFICES ASSUME NEW j \in 1..l - 1 PROVE r[j] \in ToSet(s) /\ r[j] # s[k]
    BY <1>4
  <2> QED BY <1>1, <1>3, <1>5
<1>10. \A x \in ToSet(s) : x # s[k] => x \in ToSet(r)
  <2> SUFFICES ASSUME NEW i \in 1..l, s[i] # s[k] PROVE s[i] \in ToSet(r)
    BY <1>1
  <2>1. PICK j \in 1..l - 1 : Of(j) = i
    BY <1>7
  <2> QED BY <1>4, <1>5, <2>1
<1> QED BY <1>8, <1>9, <1>10 DEF r

\* A list without one of its members.
LEMMA OneLess ==
  ASSUME NEW S, NEW s \in Seq(S), IsInjective(s), NEW e \in ToSet(s)
  PROVE  /\ RemoveFirst(s, e) \in Seq(S) /\ IsInjective(RemoveFirst(s, e))
         /\ ToSet(RemoveFirst(s, e)) = ToSet(s) \ {e}
<1>1. /\ Len(s) \in Nat /\ ToSet(s) = {s[i] : i \in 1..Len(s)}
      /\ \A i, j \in 1..Len(s) : s[i] = s[j] => i = j
  BY LenProperties, Members
<1>2. PICK k \in 1..Len(s) : s[k] = e
  BY <1>1
<1>3. RemoveFirst(s, e) = RemoveAt(s, k)
  <2>1. {i \in 1..Len(s) : s[i] = e} = {k}
    BY <1>1, <1>2
  <2>2. Min({k}) = k
    BY <1>1, <1>2 DEF Min
  <2>3. SelectInSeq(s, LAMBDA v : v = e) = k
    BY <2>1, <2>2 DEF SelectInSeq
  <2> QED BY <1>2, <2>3 DEF RemoveFirst
<1>4. RemoveAt(s, k) \in Seq(S)
  BY RemovedAt
<1>5. IsInjective(RemoveAt(s, k)) /\ ToSet(RemoveAt(s, k)) = ToSet(s) \ {e}
  BY <1>2, OneFewer
<1> QED BY <1>3, <1>4, <1>5
=============================================================================

--------------------------- MODULE StringsProofs ----------------------------
(***************************************************************************)
(* Theorems about regular expressions and strings, for any automata,       *)
(* subjects, strings and numbers of calls.                                 *)
(***************************************************************************)
EXTENDS Strings, SequenceLemmas

-----------------------------------------------------------------------------
(* The automaton of a regex, and the regex while a call runs.              *)

States(r) == DOMAIN r.states
Leaves(r) == {s \in States(r) : r.states[s].c \notin {SPLIT, NONE}}

\* A regex is what a pattern was compiled to, and no mark on a state is of a
\* generation to come.
IsRegex(r) ==
  /\ r = [pattern |-> r.pattern, flags |-> r.flags, states |-> r.states, start |-> r.start,
          listit |-> r.listit, listgen |-> r.listgen]
  /\ r.pattern \in Pattern /\ r.flags \in FlagSet
  /\ r.states = Compiled[r.pattern].states /\ r.start = Compiled[r.pattern].start
  /\ r.listgen \in Nat /\ r.listit \in [States(r) -> -1..r.listgen]

\* While a call runs, the list holds states that take a character or match, and
\* none has been too long.
Sims(r) ==
  {m \in [pattern : {r.pattern}, flags : {r.flags}, states : {r.states}, start : {r.start},
          listit : [States(r) -> Int], listgen : Nat, curr : [mem : SUBSET Leaves(r), ct : Nat],
          matched : BOOLEAN, peak : Nat] :
     m.peak <= Len(r.states) /\ \A s \in States(r) : -1 <= m.listit[s] /\ m.listit[s] <= m.listgen}
\* No state is in the list twice, and what is in it is marked.
Counts(m) == m.curr.ct = Cardinality(m.curr.mem)
Marks(m) == \A s \in m.curr.mem : m.listit[s] = m.listgen

LEMMA AutomatonOf ==
  ASSUME NEW r, IsRegex(r)
  PROVE  /\ Len(r.states) \in Nat /\ States(r) = 1..Len(r.states) /\ r.start \in States(r)
         /\ \A s \in States(r) : r.states[s].c # MATCH => r.states[s].out \in States(r)
         /\ \A s \in States(r) : r.states[s].c = SPLIT => r.states[s].out_alt \in States(r)
         /\ \E s \in States(r) : r.states[s].c = NONE
<1>1. IsAutomaton(Compiled[r.pattern])
  BY RegexAssumption DEF IsRegex
<1> DEFINE S == {r.states[s] : s \in DOMAIN r.states}
<1>2. r.states \in Seq(S) /\ r.start \in DOMAIN r.states
  BY <1>1 DEF IsAutomaton, IsRegex
<1>3. Len(r.states) \in Nat /\ DOMAIN r.states = 1..Len(r.states)
  <2> HIDE DEF S
  <2> QED BY <1>2, LenProperties
<1>4. \A s \in DOMAIN r.states : /\ r.states[s].c # MATCH => r.states[s].out \in DOMAIN r.states
                                 /\ r.states[s].c = SPLIT => r.states[s].out_alt \in DOMAIN r.states
  BY <1>1 DEF IsAutomaton, IsRegex
<1>5. \E s \in DOMAIN r.states : r.states[s].c = NONE
  BY <1>1 DEF IsAutomaton, IsRegex
<1> QED BY <1>2, <1>3, <1>4, <1>5 DEF States

LEMMA SimOf ==
  ASSUME NEW r, NEW m \in Sims(r)
  PROVE  /\ m = [pattern |-> r.pattern, flags |-> r.flags, states |-> r.states, start |-> r.start,
                 listit |-> m.listit, listgen |-> m.listgen, curr |-> m.curr,
                 matched |-> m.matched, peak |-> m.peak]
         /\ m.states = r.states /\ m.start = r.start /\ m.flags = r.flags /\ m.pattern = r.pattern
         /\ m.listit \in [States(r) -> Int] /\ m.listgen \in Nat
         /\ m.curr = [mem |-> m.curr.mem, ct |-> m.curr.ct]
         /\ m.curr.mem \subseteq Leaves(r) /\ m.curr.ct \in Nat
         /\ m.matched \in BOOLEAN /\ m.peak \in Nat /\ m.peak <= Len(r.states)
         /\ \A s \in States(r) : -1 <= m.listit[s] /\ m.listit[s] <= m.listgen
BY DEF Sims

\* rgx_add_state visits states not marked yet, each of which it was called on or
\* led to from another that it visits.
LEMMA VisitedIs ==
  ASSUME NEW r, IsRegex(r), NEW m \in Sims(r), NEW from \in SUBSET States(r)
  PROVE  LET V == Visited(m, from)
         IN  /\ V \subseteq States(r) /\ \A s \in V : m.listit[s] # m.listgen
             /\ \A s \in V : s \in from \/ \E t \in V : s \in Ahead(m, t)
<1> DEFINE k == Len(r.states)
           Led(V) == \A s \in V : m.listit[s] # m.listgen /\ (s \in from \/ \E t \in V : s \in Ahead(m, t))
           X == {V \in SUBSET States(r) : Led(V)}
           x == Unlisted(m, from)
           More(V) == UNION {{s} \cup Unlisted(m, Ahead(m, s)) : s \in V}
           Y == [n \in 0..k |-> X]
           step == [p \in (1..k) \X X |-> More(p[2])]
           Body(f) == [n \in 0..k |-> IF n = 0 THEN x ELSE More(f[n - 1])]
           upto == CHOOSE f : f = Body(f)
<1>0. m.states = r.states /\ k \in Nat
  BY SimOf, AutomatonOf
<1>1. \A s \in States(r) : Ahead(m, s) \subseteq States(r)
  BY <1>0, AutomatonOf DEF Ahead, SPLIT, NONE, MATCH
<1>2. x \in X
  BY DEF Unlisted
<1>3. \A V \in X : More(V) \in X
  <2> SUFFICES ASSUME NEW V \in X PROVE More(V) \in X
    OBVIOUS
  <2>1. More(V) \subseteq States(r)
    BY <1>1 DEF Unlisted
  <2>2. V \subseteq More(V)
    OBVIOUS
  <2>3. ASSUME NEW s \in More(V) PROVE m.listit[s] # m.listgen /\ (s \in from \/ \E t \in More(V) : s \in Ahead(m, t))
    <3>1. PICK t \in V : s = t \/ s \in Unlisted(m, Ahead(m, t))
      OBVIOUS
    <3>2. CASE s = t
      BY <2>2, <3>2
    <3>3. CASE s \in Unlisted(m, Ahead(m, t))
      BY <2>2, <3>3 DEF Unlisted
    <3> QED BY <3>1, <3>2, <3>3
  <2> HIDE DEF More
  <2> QED BY <2>1, <2>3
<1>4. \A n \in 1..k : \A V \in X : step[<<n, V>>] = More(V)
  OBVIOUS
<1>5. (\A n \in 0..k : Y[n] = X) /\ \A n \in 1..k : Y[n - 1] = X /\ Y[n] = X
  BY <1>0
<1> HIDE DEF X, Y, More, x, step, k
<1>6. Leads(k, Y, step)
  <2>1. \A n \in 1..k : \A V \in X : step[<<n, V>>] \in X
    BY <1>3, <1>4
  <2>2. SUFFICES ASSUME NEW n \in 1..k, NEW V \in Y[n - 1] PROVE step[<<n, V>>] \in Y[n]
    BY DEF Leads
  <2>3. Y[n - 1] = X /\ Y[n] = X
    BY <1>5
  <2> QED BY <2>1, <2>2, <2>3, Zenon
<1>7. upto = Body(upto)
  <2>1. PICK f : Loops(f, k, Y, x, step)
    <3>1. x \in Y[0]
      BY <1>0, <1>2, <1>5
    <3> QED BY <1>0, <1>6, <3>1, Loop
  <2>2. \A n \in 0..k : (IF n = 0 THEN x ELSE step[<<n, f[n - 1]>>]) = (IF n = 0 THEN x ELSE More(f[n - 1]))
    BY <1>0, <1>4, <1>5, <2>1 DEF Loops
  <2>3. f = Body(f)
    BY <2>1, <2>2 DEF Loops
  <2> QED BY <2>3
<1> HIDE DEF upto
<1>8. upto[0] = x /\ \A n \in 1..k : upto[n] = More(upto[n - 1])
  BY <1>0, <1>7
<1>9. \A n \in 0..k : upto[n] \in Y[n]
  <2>1. upto[0] \in Y[0] /\ \A n \in 1..k : upto[n - 1] \in Y[n - 1] => upto[n] \in Y[n]
    BY <1>0, <1>2, <1>3, <1>5, <1>8
  <2> QED BY <1>0, <2>1, Along
<1>10. Visited(m, from) = upto[k]
  BY <1>0, Zenon DEF Visited, k, More, x, upto
<1> QED BY <1>0, <1>5, <1>9, <1>10 DEF X

-----------------------------------------------------------------------------
(* rgx_add_state, and what is called with it.                              *)

\* What a regex being run is after rgx_add_state: the states visited are marked,
\* and those that take a character or match are in the list.
Adds(r, m, list, from, a) ==
  LET V == Visited(m, from)
      K == V \cap Leaves(r)
  IN  /\ K = Kept(m, V) /\ Cardinality(K) \in Nat
      /\ a.listit = [s \in States(r) |-> IF s \in V THEN m.listgen ELSE m.listit[s]] /\ a.listgen = m.listgen
      /\ a.curr.mem = list.mem \cup K /\ a.curr.ct = list.ct + Cardinality(K)
      /\ a.matched => m.matched \/ K # {}
      /\ list.ct + Cardinality(K) <= Len(r.states) => a \in Sims(r)

LEMMA AddedIs ==
  ASSUME NEW r, IsRegex(r), NEW m \in Sims(r), NEW from \in SUBSET States(r),
         NEW list, list.mem \in SUBSET Leaves(r), list.ct \in Nat
  PROVE  Adds(r, m, list, from, rgx_add_state(m, list, from))
<1> DEFINE V == Visited(m, from)
           K == Kept(m, V)
           a == rgx_add_state(m, list, from)
           c == list.ct + Cardinality(K)
<1>1. /\ m = [pattern |-> r.pattern, flags |-> r.flags, states |-> r.states, start |-> r.start,
              listit |-> m.listit, listgen |-> m.listgen, curr |-> m.curr,
              matched |-> m.matched, peak |-> m.peak]
      /\ DOMAIN m.listit = States(r) /\ m.states = r.states
  BY SimOf
<1>2. V \subseteq States(r)
  BY VisitedIs
<1>3. K = V \cap Leaves(r)
  BY <1>1, <1>2 DEF Kept, Leaves
<1>4. Cardinality(K) \in Nat
  <2>1. Len(r.states) \in Int /\ States(r) = 1..Len(r.states)
    BY AutomatonOf
  <2>2. IsFiniteSet(States(r))
    BY <2>1, FS_Interval
  <2> HIDE DEF K
  <2>3. K \in SUBSET States(r)
    BY <1>2, <1>3
  <2> QED BY <2>2, <2>3, FS_Subset, FS_CardinalityType
<1>5. a = Listed(Marked(m, V), list, K)
  BY Zenon DEF rgx_add_state
<1> HIDE DEF V, K
<1>6. Marked(m, V) = [pattern |-> r.pattern, flags |-> r.flags, states |-> r.states, start |-> r.start,
                      listit |-> [s \in States(r) |-> IF s \in V THEN m.listgen ELSE m.listit[s]],
                      listgen |-> m.listgen, curr |-> m.curr, matched |-> m.matched, peak |-> m.peak]
  BY <1>1 DEF Marked
<1>7. a = [pattern |-> r.pattern, flags |-> r.flags, states |-> r.states, start |-> r.start,
           listit |-> [s \in States(r) |-> IF s \in V THEN m.listgen ELSE m.listit[s]],
           listgen |-> m.listgen, curr |-> [mem |-> list.mem \cup K, ct |-> c],
           matched |-> m.matched \/ \E s \in K : r.states[s].c = MATCH,
           peak |-> IF m.peak < c THEN c ELSE m.peak]
  <2> DEFINE M == Marked(m, V)
             q == M.matched \/ \E s \in K : M.states[s].c = MATCH
             p == IF M.peak < c THEN c ELSE M.peak
             u == [mem |-> list.mem \cup K, ct |-> c]
             l == [s \in States(r) |-> IF s \in V THEN m.listgen ELSE m.listit[s]]
  <2>1. a = [M EXCEPT !.curr = u, !.matched = q, !.peak = p]
    BY <1>5, Zenon DEF Listed
  <2>2. q = (m.matched \/ \E s \in K : r.states[s].c = MATCH) /\ p = IF m.peak < c THEN c ELSE m.peak
    BY <1>6
  <2>3. M = [pattern |-> r.pattern, flags |-> r.flags, states |-> r.states, start |-> r.start,
             listit |-> l, listgen |-> m.listgen, curr |-> m.curr, matched |-> m.matched, peak |-> m.peak]
    BY <1>6
  <2> HIDE DEF M, p, q, u, l, a
  <2>4. a = [pattern |-> r.pattern, flags |-> r.flags, states |-> r.states, start |-> r.start,
             listit |-> l, listgen |-> m.listgen, curr |-> u, matched |-> q, peak |-> p]
    BY <2>1, <2>3
  <2> QED BY <2>2, <2>4, Zenon DEF l, u
<1>8. ASSUME c <= Len(r.states) PROVE a \in Sims(r)
  <2>1. /\ m.listgen \in Nat /\ m.listit \in [States(r) -> Int] /\ m.peak \in Nat /\ m.peak <= Len(r.states)
        /\ \A s \in States(r) : -1 <= m.listit[s] /\ m.listit[s] <= m.listgen
        /\ m.matched \in BOOLEAN
    BY SimOf
  <2>2. c \in Nat
    BY <1>4
  <2> DEFINE l == [s \in States(r) |-> IF s \in V THEN m.listgen ELSE m.listit[s]]
             p == IF m.peak < c THEN c ELSE m.peak
             q == m.matched \/ \E s \in K : r.states[s].c = MATCH
             u == [mem |-> list.mem \cup K, ct |-> c]
  <2>3. l \in [States(r) -> Int] /\ \A s \in States(r) : -1 <= l[s] /\ l[s] <= m.listgen
    BY <2>1
  <2>4. p \in Nat /\ p <= Len(r.states)
    BY <1>8, <2>1, <2>2
  <2>5. q \in BOOLEAN /\ u \in [mem : SUBSET Leaves(r), ct : Nat]
    BY <1>3, <2>1, <2>2
  <2>6. a = [pattern |-> r.pattern, flags |-> r.flags, states |-> r.states, start |-> r.start,
             listit |-> l, listgen |-> m.listgen, curr |-> u, matched |-> q, peak |-> p]
    BY <1>7, Zenon
  <2> HIDE DEF l, p, q, u, a, c
  <2> QED BY <2>1, <2>3, <2>4, <2>5, <2>6 DEF Sims
<1>9. a.matched => m.matched \/ K # {}
  <2>1. a.matched = (m.matched \/ \E s \in K : r.states[s].c = MATCH)
    BY <1>7
  <2> QED BY <2>1
<1>10. /\ a.listit = [s \in States(r) |-> IF s \in V THEN m.listgen ELSE m.listit[s]] /\ a.listgen = m.listgen
       /\ a.curr.mem = list.mem \cup K /\ a.curr.ct = c
  BY <1>7
<1> HIDE DEF a
<1> QED BY <1>3, <1>4, <1>8, <1>9, <1>10, Zenon DEF V, K, Adds, a

\* What a function makes of the elements of a finite set is not more than they are.
LEMMA ImageOf ==
  ASSUME NEW S, IsFiniteSet(S), NEW g
  PROVE  LET I == {g[x] : x \in S} IN IsFiniteSet(I) /\ Cardinality(I) <= Cardinality(S)
<1> DEFINE I == {g[x] : x \in S}
           f == [x \in S |-> g[x]]
<1>1. f \in Surjection(S, I)
  BY DEF Surjection
<1> HIDE DEF f, I
<1>2. IsFiniteSet(I) /\ Cardinality(I) <= Cardinality(S)
  BY <1>1, FS_Surjection
<1> QED BY <1>2 DEF I

\* The states that rgx_add_state lists, called on the start state, fit into a list
\* behind others even if they are in it already: a state that splits lists one
\* more than it is visited for, and a blank state is never in the list.
LEMMA KeptFew ==
  ASSUME NEW r, IsRegex(r), NEW m \in Sims(r), NEW L \in SUBSET Leaves(r)
  PROVE  Cardinality(L) + Cardinality(Kept(m, Visited(m, {r.start}))) <= Len(r.states)
<1> DEFINE n == Len(r.states)
           V == Visited(m, {r.start})
           K == Kept(m, V)
           A == {s \in V : r.states[s].c = SPLIT}
           N == {s \in V : r.states[s].c = NONE}
           out == [s \in States(r) |-> r.states[s].out]
           alt == [s \in States(r) |-> r.states[s].out_alt]
           O == {out[s] : s \in A \cup N}
           Q == {alt[s] : s \in A}
<1>1. m.states = r.states /\ n \in Nat /\ States(r) = 1..n /\ r.start \in States(r)
  BY SimOf, AutomatonOf
<1>2. V \subseteq States(r) /\ \A s \in V : s = r.start \/ \E t \in V : s \in Ahead(m, t)
  <2>1. {r.start} \in SUBSET States(r)
    BY <1>1
  <2> QED BY <2>1, VisitedIs
<1> HIDE DEF V
<1>3. IsFiniteSet(States(r)) /\ Cardinality(States(r)) = n
  BY <1>1, FS_Interval
<1> HIDE DEF n
<1>4. V \subseteq {r.start} \cup O \cup Q
  <2> SUFFICES ASSUME NEW s \in V, s # r.start PROVE s \in O \cup Q
    OBVIOUS
  <2>1. PICK t \in V : s \in Ahead(m, t)
    BY <1>2
  <2>2. \/ t \in A /\ s = r.states[t].out
        \/ t \in A /\ s = r.states[t].out_alt
        \/ t \in N /\ s = r.states[t].out
    BY <1>1, <2>1 DEF Ahead
  <2>3. t \in States(r)
    BY <1>2
  <2> QED BY <2>2, <2>3
<1>5. K = V \ (A \cup N) /\ A \cap N = {} /\ A \cup N \subseteq V
  BY <1>1 DEF Kept, SPLIT, NONE
<1>6. IsFiniteSet(V) /\ IsFiniteSet(A) /\ IsFiniteSet(N) /\ IsFiniteSet(A \cup N) /\ IsFiniteSet(K)
  <2>1. A \subseteq States(r) /\ N \subseteq States(r) /\ A \cup N \subseteq States(r) /\ K \subseteq States(r)
    BY <1>2, <1>5
  <2> HIDE DEF A, N, K
  <2> QED BY <1>2, <1>3, <2>1, FS_Subset
<1>7. /\ IsFiniteSet(O) /\ Cardinality(O) <= Cardinality(A \cup N)
      /\ IsFiniteSet(Q) /\ Cardinality(Q) <= Cardinality(A)
  <2>1. IsFiniteSet(O) /\ Cardinality(O) <= Cardinality(A \cup N)
    <3> HIDE DEF A, N, out
    <3> QED BY <1>6, ImageOf
  <2>2. IsFiniteSet(Q) /\ Cardinality(Q) <= Cardinality(A)
    <3> HIDE DEF A, alt
    <3> QED BY <1>6, ImageOf
  <2> QED BY <2>1, <2>2
<1> HIDE DEF O, Q, A, N, K
<1> DEFINE a == Cardinality(A)
           b == Cardinality(N)
<1>8. a \in Nat /\ b \in Nat /\ Cardinality(A \cup N) = a + b
  <2>1. Cardinality(A \cup N) = Cardinality(A) + Cardinality(N) - Cardinality(A \cap N)
    BY <1>6, FS_Union
  <2>2. Cardinality(A \cap N) = 0
    BY <1>5, FS_EmptySet
  <2>3. Cardinality(A) \in Nat /\ Cardinality(N) \in Nat
    BY <1>6, FS_CardinalityType
  <2> QED BY <2>1, <2>2, <2>3
<1>9. Cardinality(V) <= 1 + (a + b) + a
  <2>1. IsFiniteSet({r.start}) /\ Cardinality({r.start}) = 1
    BY FS_Singleton
  <2>2. IsFiniteSet({r.start} \cup O) /\ Cardinality({r.start} \cup O) <= 1 + Cardinality(O)
    <3>1. IsFiniteSet({r.start} \cup O) /\ Cardinality({r.start} \cup O) = 1 + Cardinality(O) - Cardinality({r.start} \cap O)
      BY <1>7, <2>1, FS_Union
    <3>2. Cardinality(O) \in Nat /\ Cardinality({r.start} \cap O) \in Nat
      <4>1. {r.start} \cap O \in SUBSET O
        OBVIOUS
      <4> QED BY <1>7, <4>1, FS_Subset, FS_CardinalityType
    <3> QED BY <3>1, <3>2
  <2>3. IsFiniteSet({r.start} \cup O \cup Q)
        /\ Cardinality({r.start} \cup O \cup Q) <= Cardinality({r.start} \cup O) + Cardinality(Q)
    <3> DEFINE P == {r.start} \cup O
    <3> HIDE DEF P
    <3>1. IsFiniteSet(P \cup Q) /\ Cardinality(P \cup Q) = Cardinality(P) + Cardinality(Q) - Cardinality(P \cap Q)
      BY <1>7, <2>2, FS_Union DEF P
    <3>2. Cardinality(P) \in Nat /\ Cardinality(Q) \in Nat /\ Cardinality(P \cap Q) \in Nat
      <4>1. P \cap Q \in SUBSET Q
        OBVIOUS
      <4>2. IsFiniteSet(P)
        BY <2>2 DEF P
      <4> QED BY <1>7, <4>1, <4>2, FS_Subset, FS_CardinalityType
    <3> QED BY <3>1, <3>2 DEF P
  <2>4. Cardinality(V) <= Cardinality({r.start} \cup O \cup Q)
    BY <1>4, <2>3, FS_Subset
  <2>5. /\ Cardinality(V) \in Nat /\ Cardinality({r.start} \cup O) \in Nat /\ Cardinality(O) \in Nat
        /\ Cardinality({r.start} \cup O \cup Q) \in Nat /\ Cardinality(Q) \in Nat
    BY <1>6, <1>7, <2>2, <2>3, FS_CardinalityType
  <2>6. Cardinality(O) <= a + b /\ Cardinality(Q) <= a
    BY <1>7, <1>8
  <2> HIDE DEF a, b
  <2> QED BY <1>8, <2>2, <2>3, <2>4, <2>5, <2>6
<1>10. Cardinality(K) <= 1 + a
  <2>1. Cardinality(K) = Cardinality(V) - Cardinality(V \cap (A \cup N))
    BY <1>5, <1>6, FS_Difference
  <2>2. V \cap (A \cup N) = A \cup N
    BY <1>5
  <2>3. Cardinality(V) \in Nat
    BY <1>6, FS_CardinalityType
  <2> HIDE DEF a, b
  <2> QED BY <1>8, <1>9, <2>1, <2>2, <2>3
<1>11. Cardinality(L) <= n - a - 1
  <2>1. PICK z \in States(r) : r.states[z].c = NONE
    BY AutomatonOf
  <2>2. L \subseteq States(r) \ (A \cup {z})
    BY <2>1 DEF Leaves, A
  <2>3. A \cup {z} \subseteq States(r) /\ z \notin A
    BY <1>2, <2>1 DEF A, SPLIT, NONE
  <2>4. IsFiniteSet(A \cup {z}) /\ Cardinality(A \cup {z}) = a + 1
    BY <1>6, <2>3, FS_AddElement
  <2>5. /\ IsFiniteSet(States(r) \ (A \cup {z}))
        /\ Cardinality(States(r) \ (A \cup {z})) = n - Cardinality(States(r) \cap (A \cup {z}))
    BY <1>3, FS_Difference
  <2>6. States(r) \cap (A \cup {z}) = A \cup {z}
    BY <2>3
  <2>7. Cardinality(L) <= Cardinality(States(r) \ (A \cup {z}))
    BY <2>2, <2>5, FS_Subset
  <2>8. n \in Nat
    BY <1>1
  <2> HIDE DEF a
  <2> QED BY <1>8, <2>4, <2>5, <2>6, <2>7, <2>8
<1>12. Cardinality(L) \in Nat /\ Cardinality(K) \in Nat /\ n \in Nat
  <2>1. L \subseteq States(r)
    BY DEF Leaves
  <2> QED BY <1>1, <1>3, <1>6, <2>1, FS_Subset, FS_CardinalityType
<1>13. Cardinality(L) + Cardinality(K) <= n
  <2> HIDE DEF a
  <2> QED BY <1>8, <1>10, <1>11, <1>12
<1> QED BY <1>13 DEF n, K, V

\* A regex as a call begins, and as it ends.
LEMMA StartedOf ==
  ASSUME NEW r, IsRegex(r)
  PROVE  /\ Started(r) \in Sims(r) /\ Counts(Started(r)) /\ Marks(Started(r))
         /\ Started(r).listgen = r.listgen
<1>1. Len(r.states) \in Nat
  BY AutomatonOf
<1>2. r.listgen \in Nat /\ r.listit \in [States(r) -> Int] /\ \A s \in States(r) : -1 <= r.listit[s] /\ r.listit[s] <= r.listgen
  BY DEF IsRegex
<1>3. Cardinality({}) = 0
  BY FS_EmptySet
<1>4. {} \in SUBSET Leaves(r) /\ 0 \in Nat /\ FALSE \in BOOLEAN
  OBVIOUS
<1>5. Started(r) \in Sims(r)
  <2> DEFINE u == [mem |-> {}, ct |-> 0]
             f == FALSE
  <2>1. u \in [mem : SUBSET Leaves(r), ct : Nat] /\ f \in BOOLEAN
    OBVIOUS
  <2>2. Started(r) = [pattern |-> r.pattern, flags |-> r.flags, states |-> r.states, start |-> r.start,
                      listit |-> r.listit, listgen |-> r.listgen, curr |-> u, matched |-> f, peak |-> 0]
    BY Zenon DEF Started, Empty
  <2> HIDE DEF u, f
  <2> QED BY <1>1, <1>2, <2>1, <2>2 DEF Sims
<1>6. Started(r).curr.mem = {} /\ Started(r).curr.ct = 0 /\ Started(r).listgen = r.listgen
  BY DEF Started, Empty
<1> QED BY <1>3, <1>5, <1>6 DEF Counts, Marks

LEMMA StoppedOf ==
  ASSUME NEW r, IsRegex(r), NEW m \in Sims(r)
  PROVE  IsRegex(Stopped(m)) /\ Stopped(m).pattern = r.pattern /\ Stopped(m).flags = r.flags
         /\ Stopped(m).states = r.states /\ Stopped(m).listgen = m.listgen /\ Stopped(m).listit = m.listit
<1>1. m.listit \in [States(r) -> -1..m.listgen]
  <2>1. m.listit \in [States(r) -> Int] /\ m.listgen \in Nat
        /\ \A s \in States(r) : -1 <= m.listit[s] /\ m.listit[s] <= m.listgen
    BY SimOf
  <2> QED BY <2>1
<1>2. m.states = r.states /\ m.start = r.start /\ m.flags = r.flags /\ m.pattern = r.pattern /\ m.listgen \in Nat
  BY SimOf
<1> QED BY <1>1, <1>2 DEF Stopped, IsRegex, States

\* One character: the list of the next generation holds each state once.
LEMMA StepOf ==
  ASSUME NEW r, IsRegex(r), NEW m \in Sims(r), NEW ch
  PROVE  LET n == rgx_step(m, ch)
         IN  /\ n \in Sims(r) /\ Counts(n) /\ Marks(n) /\ n.listgen = m.listgen + 1
             /\ n.matched => n.curr.ct # 0
<1> DEFINE o == [m EXCEPT !.listgen = @ + 1, !.matched = FALSE]
           F == Followers(m, ch)
           V == Visited(o, F)
           K == V \cap Leaves(r)
           n == rgx_step(m, ch)
<1>1. m = [pattern |-> r.pattern, flags |-> r.flags, states |-> r.states, start |-> r.start,
           listit |-> m.listit, listgen |-> m.listgen, curr |-> m.curr,
           matched |-> m.matched, peak |-> m.peak] /\ m.listgen \in Nat
      /\ m.curr.mem \subseteq Leaves(r) /\ m.states = r.states /\ m.listit \in [States(r) -> Int]
  BY SimOf
<1>2. o = [pattern |-> r.pattern, flags |-> r.flags, states |-> r.states, start |-> r.start,
           listit |-> m.listit, listgen |-> m.listgen + 1, curr |-> m.curr,
           matched |-> FALSE, peak |-> m.peak]
  <2> DEFINE f == FALSE
             g == m.listgen + 1
             l == m.listit
             h == m.listgen
             u == m.curr
             q == m.matched
             p == m.peak
  <2>1. o = [m EXCEPT !.listgen = g, !.matched = f]
    BY Zenon
  <2>2. m = [pattern |-> r.pattern, flags |-> r.flags, states |-> r.states, start |-> r.start,
             listit |-> l, listgen |-> h, curr |-> u, matched |-> q, peak |-> p]
    BY <1>1, Zenon
  <2> HIDE DEF f, g, o, l, h, u, q, p
  <2>3. o = [pattern |-> r.pattern, flags |-> r.flags, states |-> r.states, start |-> r.start,
             listit |-> l, listgen |-> g, curr |-> u, matched |-> f, peak |-> p]
    BY <2>1, <2>2
  <2> QED BY <2>3, Zenon DEF f, g, l, u, p
<1>3. o \in Sims(r)
  <2>1. \A s \in States(r) : m.listit[s] \in Int /\ -1 <= m.listit[s] /\ m.listit[s] <= m.listgen
    BY SimOf
  <2>2. \A s \in States(r) : -1 <= m.listit[s] /\ m.listit[s] <= m.listgen + 1
    BY <1>1, <2>1
  <2>3. FALSE \in BOOLEAN /\ m.listgen + 1 \in Nat /\ m.peak \in Nat /\ m.peak <= Len(r.states)
        /\ m.curr \in [mem : SUBSET Leaves(r), ct : Nat]
    BY <1>1, SimOf DEF Sims
  <2> HIDE DEF o
  <2> QED BY <1>1, <1>2, <2>2, <2>3 DEF Sims
<1>4. F \in SUBSET States(r)
  <2> SUFFICES ASSUME NEW s \in m.curr.mem, rgx_test(m.states[s], ch, m.flags)
               PROVE  m.states[s].out \in States(r)
    BY DEF Followers
  <2>1. s \in States(r) /\ m.states[s].c # MATCH
    BY <1>1 DEF Leaves, rgx_test, MATCH, ANY, CHRCLS
  <2> QED BY <1>1, <2>1, AutomatonOf
<1>5. Empty.mem \in SUBSET Leaves(r) /\ Empty.ct \in Nat /\ Empty.mem = {} /\ Empty.ct = 0
  BY DEF Empty
<1>6. n = rgx_add_state(o, Empty, F)
  BY DEF rgx_step
<1> HIDE DEF o, F
<1>7. Adds(r, o, Empty, F, n)
  BY <1>3, <1>4, <1>5, <1>6, AddedIs
<1> HIDE DEF V, n
<1>8. /\ K = Kept(o, V) /\ Cardinality(K) \in Nat
      /\ n.listit = [s \in States(r) |-> IF s \in V THEN o.listgen ELSE o.listit[s]] /\ n.listgen = o.listgen
      /\ n.curr.mem = K /\ n.curr.ct = Cardinality(K)
      /\ n.matched => o.matched \/ K # {}
      /\ Cardinality(K) <= Len(r.states) => n \in Sims(r)
  BY <1>5, <1>7 DEF Adds, V
<1>9. K \subseteq States(r)
  BY DEF Leaves
<1> HIDE DEF K
<1>10. Cardinality(K) <= Len(r.states)
  <2>1. Len(r.states) \in Nat /\ States(r) = 1..Len(r.states)
    BY AutomatonOf
  <2>2. IsFiniteSet(States(r)) /\ Cardinality(States(r)) = Len(r.states)
    BY <2>1, FS_Interval
  <2> QED BY <1>9, <2>2, FS_Subset
<1>11. Counts(n) /\ Marks(n) /\ n.listgen = m.listgen + 1
  <2>1. K \subseteq V
    BY DEF K
  <2> QED BY <1>2, <1>8, <1>9, <2>1 DEF Counts, Marks
<1>12. n.matched => K # {}
  BY <1>2, <1>8
<1>13. K # {} => Cardinality(K) # 0
  <2>1. Len(r.states) \in Nat /\ States(r) = 1..Len(r.states)
    BY AutomatonOf
  <2>2. IsFiniteSet(States(r))
    BY <2>1, FS_Interval
  <2>3. IsFiniteSet(K)
    BY <1>9, <2>2, FS_Subset
  <2> QED BY <2>3, FS_EmptySet
<1> QED BY <1>8, <1>10, <1>11, <1>12, <1>13 DEF n

\* The start states are listed behind what is in the list, which has room for
\* them; they are in it already only if the marks of the list are gone.
LEMMA StartOf ==
  ASSUME NEW r, IsRegex(r), NEW m \in Sims(r), Counts(m)
  PROVE  LET n == AddStart(m)
         IN  /\ n \in Sims(r) /\ n.listgen = m.listgen
             /\ Marks(m) => Counts(n) /\ Marks(n)
<1> DEFINE F == {m.start}
           V == Visited(m, F)
           K == V \cap Leaves(r)
           n == AddStart(m)
           L == m.curr.mem
<1>1. /\ m.listgen \in Nat /\ L \subseteq Leaves(r) /\ m.start = r.start /\ m.curr.ct = Cardinality(L)
      /\ m.curr.ct \in Nat /\ m.listit \in [States(r) -> Int]
  BY SimOf DEF Counts
<1>2. F = {r.start} /\ F \in SUBSET States(r)
  BY <1>1, AutomatonOf
<1>3. n = rgx_add_state(m, m.curr, F)
  BY DEF AddStart
<1>4. V \subseteq States(r) /\ \A s \in V : m.listit[s] # m.listgen
  BY <1>2, VisitedIs
<1>5. Adds(r, m, m.curr, F, n)
  <2>1. m.curr.mem \in SUBSET Leaves(r) /\ m.curr.ct \in Nat
    BY <1>1
  <2> HIDE DEF F, n
  <2> QED BY <1>2, <1>3, <2>1, AddedIs
<1>6. Cardinality(L) + Cardinality(Kept(m, V)) <= Len(r.states)
  <2> HIDE DEF L
  <2> QED BY <1>1, <1>2, KeptFew
<1> HIDE DEF V, F, n
<1>7. /\ K = Kept(m, V) /\ Cardinality(K) \in Nat
      /\ n.listit = [s \in States(r) |-> IF s \in V THEN m.listgen ELSE m.listit[s]] /\ n.listgen = m.listgen
      /\ n.curr.mem = L \cup K /\ n.curr.ct = m.curr.ct + Cardinality(K)
      /\ m.curr.ct + Cardinality(K) <= Len(r.states) => n \in Sims(r)
  BY <1>5 DEF Adds, V
<1> HIDE DEF L, K
<1>8. n \in Sims(r) /\ n.curr.ct = Cardinality(L) + Cardinality(K)
  BY <1>1, <1>6, <1>7
<1>9. ASSUME Marks(m) PROVE Counts(n) /\ Marks(n)
  <2>1. L \cap K = {}
    BY <1>4, <1>9 DEF Marks, L, K
  <2>2. Cardinality(L \cup K) = Cardinality(L) + Cardinality(K)
    <3>1. Len(r.states) \in Nat /\ States(r) = 1..Len(r.states)
      BY AutomatonOf
    <3>2. L \subseteq States(r) /\ K \subseteq States(r)
      BY <1>1, <1>4 DEF Leaves, K
    <3>3. IsFiniteSet(L) /\ IsFiniteSet(K)
      <4>1. IsFiniteSet(States(r))
        BY <3>1, FS_Interval
      <4> QED BY <3>2, <4>1, FS_Subset
    <3>4. Cardinality(L \cup K) = Cardinality(L) + Cardinality(K) - Cardinality(L \cap K)
      BY <3>3, FS_Union
    <3>5. Cardinality(L \cap K) = 0 /\ Cardinality(L) \in Nat /\ Cardinality(K) \in Nat
      BY <2>1, <3>3, FS_EmptySet, FS_CardinalityType
    <3> QED BY <3>4, <3>5
  <2>3. \A s \in L \cup K : n.listit[s] = m.listgen
    <3> SUFFICES ASSUME NEW s \in L \cup K PROVE n.listit[s] = m.listgen
      OBVIOUS
    <3>1. s \in States(r) /\ (s \in L \/ s \in V)
      BY <1>1, <1>4 DEF Leaves, K
    <3>2. s \in L => m.listit[s] = m.listgen
      BY <1>9 DEF Marks, L
    <3> QED BY <1>7, <3>1, <3>2
  <2> QED BY <1>7, <1>8, <2>2, <2>3 DEF Counts, Marks
<1> QED BY <1>7, <1>8, <1>9 DEF n

\* Every mark is taken off, and the list stays.
LEMMA ResetOf ==
  ASSUME NEW r, IsRegex(r), NEW m \in Sims(r)
  PROVE  LET n == rgx_reset_all(m)
         IN  /\ n \in Sims(r) /\ n.listgen = m.listgen /\ n.curr = m.curr /\ n.peak = m.peak
             /\ n.listit = [s \in States(r) |-> 0]
<1> DEFINE n == rgx_reset_all(m)
<1>1. /\ m = [pattern |-> r.pattern, flags |-> r.flags, states |-> r.states, start |-> r.start,
              listit |-> m.listit, listgen |-> m.listgen, curr |-> m.curr,
              matched |-> m.matched, peak |-> m.peak]
      /\ m.listgen \in Nat /\ m.listit \in [States(r) -> Int] /\ m.curr \in [mem : SUBSET Leaves(r), ct : Nat]
      /\ m.matched \in BOOLEAN /\ m.peak \in Nat /\ m.peak <= Len(r.states)
  BY SimOf DEF Sims
<1>2. n = [pattern |-> r.pattern, flags |-> r.flags, states |-> r.states, start |-> r.start,
           listit |-> [s \in States(r) |-> 0], listgen |-> m.listgen, curr |-> m.curr,
           matched |-> m.matched, peak |-> m.peak]
  BY <1>1 DEF rgx_reset_all
<1> HIDE DEF n
<1>3. n \in Sims(r)
  BY <1>1, <1>2 DEF Sims
<1>4. n.listgen = m.listgen /\ n.curr = m.curr /\ n.peak = m.peak /\ n.listit = [s \in States(r) |-> 0]
  BY <1>2
<1> QED BY <1>3, <1>4 DEF n

-----------------------------------------------------------------------------
(* A run of the automaton, and the calls that are made of runs.             *)

Runs(r, n) == {t \in [m : Sims(r), hit : BOOLEAN, dead : BOOLEAN, len : 0..n] : t.hit => t.len > 0}
Went(t, g) == Counts(t.m) /\ Marks(t.m) /\ t.m.listgen > g

LEMMA AdvancedIs ==
  ASSUME NEW r, IsRegex(r), NEW n \in Nat, NEW t \in Runs(r, n), NEW ch
  PROVE  LET a == Advanced(t, rgx_step(t.m, ch))
         IN  a \in Runs(r, n + 1) /\ \A g \in Nat : t.m.listgen >= g => Went(a, g)
<1> DEFINE s == rgx_step(t.m, ch)
           a == Advanced(t, s)
           h == t.hit \/ s.matched
           d == s.curr.ct = 0
           l == IF s.curr.ct = 0 THEN t.len ELSE t.len + 1
<1>1. t.m \in Sims(r) /\ t.hit \in BOOLEAN /\ t.len \in 0..n /\ (t.hit => t.len > 0)
  BY DEF Runs
<1>2. s \in Sims(r) /\ Counts(s) /\ Marks(s) /\ s.listgen = t.m.listgen + 1 /\ (s.matched => s.curr.ct # 0)
  BY <1>1, StepOf
<1>3. t.m.listgen \in Nat /\ s.matched \in BOOLEAN
  BY <1>1, <1>2, SimOf
<1> HIDE DEF s
<1>4. a = [m |-> s, hit |-> h, dead |-> d, len |-> l]
  BY Zenon DEF Advanced
<1>5. h \in BOOLEAN /\ d \in BOOLEAN
  BY <1>1, <1>3
<1>6. l \in 0..n + 1
  BY <1>1
<1>7. h => l > 0
  BY <1>1, <1>2
<1> HIDE DEF h, d, l, a
<1>8. a.m = s
  BY <1>4
<1>9. a \in Runs(r, n + 1)
  BY <1>2, <1>4, <1>5, <1>6, <1>7 DEF Runs
<1>10. \A g \in Nat : t.m.listgen >= g => Went(a, g)
  BY <1>2, <1>3, <1>8 DEF Went
<1> QED BY <1>9, <1>10 DEF a, s

\* A run makes one step at least, and gets through one character at least if it
\* matches.
LEMMA RunOf ==
  ASSUME NEW r, IsRegex(r), NEW m \in Sims(r), NEW input, Len(input) \in Nat,
         NEW i \in 1..Len(input), NEW first
  PROVE  LET t == Run(m, input, i, first)
         IN  t \in Runs(r, Len(input) - i + 1) /\ Went(t, m.listgen)
<1> DEFINE k == Len(input) - i + 1
           x == [m |-> m, hit |-> FALSE, dead |-> FALSE, len |-> 0]
           More(n, t) == Continued(t, input[i + n - 1], first)
           X == [n \in 0..k |-> IF n = 0 THEN {x} ELSE {t \in Runs(r, n) : Went(t, m.listgen)}]
           step == [p \in (1..k) \X Runs(r, k) |-> More(p[1], p[2])]
           Body(f) == [n \in 0..k |-> IF n = 0 THEN x ELSE More(n, f[n - 1])]
           ran == CHOOSE f : f = Body(f)
<1>0. k \in Nat /\ k # 0 /\ m.listgen \in Nat
  <2>1. m.listgen \in Nat
    BY SimOf
  <2> QED BY <2>1
<1>1. x \in Runs(r, 0) /\ ~x.dead /\ ~x.hit /\ x.m = m
  <2> DEFINE f == FALSE
  <2>1. f \in BOOLEAN /\ ~f
    OBVIOUS
  <2>2. x = [m |-> m, hit |-> f, dead |-> f, len |-> 0]
    BY Zenon
  <2> HIDE DEF f, x
  <2> QED BY <2>1, <2>2 DEF Runs
<1>2. \A a, b \in Nat : a <= b => Runs(r, a) \subseteq Runs(r, b)
  BY DEF Runs
<1>3. X[0] = {x} /\ \A n \in 1..k : X[n] = {t \in Runs(r, n) : Went(t, m.listgen)}
  BY <1>0
<1> HIDE DEF X
<1>4. \A n \in 1..k : \A t \in X[n - 1] : t \in Runs(r, n - 1) /\ t.m.listgen >= m.listgen /\ (n = 1 => t = x)
  <2> SUFFICES ASSUME NEW n \in 1..k, NEW t \in X[n - 1]
               PROVE  t \in Runs(r, n - 1) /\ t.m.listgen >= m.listgen /\ (n = 1 => t = x)
    OBVIOUS
  <2>1. CASE n = 1
    <3>1. t = x
      BY <1>3, <2>1
    <3> HIDE DEF x
    <3> QED BY <1>0, <1>1, <2>1, <3>1
  <2>2. CASE n # 1
    <3>1. n - 1 \in 1..k
      BY <1>0, <2>2
    <3>2. t \in Runs(r, n - 1) /\ t.m.listgen > m.listgen
      BY <1>3, <3>1 DEF Went
    <3>3. t.m.listgen \in Nat
      BY <3>2, SimOf DEF Runs
    <3> QED BY <1>0, <2>2, <3>2, <3>3
  <2> QED BY <2>1, <2>2
<1> HIDE DEF x
<1>5. \A n \in 1..k : \A t \in X[n - 1] : More(n, t) \in X[n]
  <2> SUFFICES ASSUME NEW n \in 1..k, NEW t \in X[n - 1] PROVE More(n, t) \in X[n]
    OBVIOUS
  <2>1. t \in Runs(r, n - 1) /\ t.m.listgen >= m.listgen /\ n - 1 \in Nat /\ n \in Nat
    BY <1>0, <1>4
  <2> DEFINE ch == input[i + n - 1]
             a == Advanced(t, rgx_step(t.m, ch))
  <2>2. a \in Runs(r, n) /\ Went(a, m.listgen)
    <3> HIDE DEF ch
    <3>1. a \in Runs(r, (n - 1) + 1) /\ Went(a, m.listgen)
      BY <1>0, <2>1, AdvancedIs
    <3>2. (n - 1) + 1 = n
      BY <2>1
    <3> QED BY <3>1, <3>2
  <2> HIDE DEF a
  <2>3. More(n, t) = IF t.dead \/ (first /\ t.hit) THEN t ELSE a
    BY DEF Continued, a
  <2>4. CASE t.dead \/ (first /\ t.hit)
    <3>1. n # 1
      BY <1>1, <1>4, <2>4
    <3>2. n - 1 \in 1..k
      BY <1>0, <3>1
    <3>3. Went(t, m.listgen) /\ t \in Runs(r, n)
      BY <1>2, <1>3, <2>1, <3>2
    <3> QED BY <1>3, <2>3, <2>4, <3>3
  <2>5. CASE ~(t.dead \/ (first /\ t.hit))
    BY <1>3, <2>2, <2>3, <2>5
  <2> QED BY <2>4, <2>5
<1>6. \A n \in 1..k : \A t \in X[n - 1] : step[<<n, t>>] = More(n, t)
  <2> SUFFICES ASSUME NEW n \in 1..k, NEW t \in X[n - 1] PROVE step[<<n, t>>] = More(n, t)
    OBVIOUS
  <2>1. n - 1 \in Nat /\ n - 1 <= k
    BY <1>0
  <2>2. t \in Runs(r, k)
    <3> HIDE DEF k
    <3>1. t \in Runs(r, n - 1)
      BY <1>4
    <3>2. Runs(r, n - 1) \subseteq Runs(r, k)
      BY <1>0, <1>2, <2>1
    <3> QED BY <3>1, <3>2
  <2> QED BY <2>2
<1> HIDE DEF More, step, k
<1>7. Leads(k, X, step)
  BY <1>5, <1>6 DEF Leads
<1>8. ran = Body(ran)
  <2>1. PICK f : Loops(f, k, X, x, step)
    <3>1. x \in X[0]
      BY <1>3
    <3> QED BY <1>0, <1>7, <3>1, Loop
  <2>2. \A n \in 0..k : n = 0 \/ (n \in 1..k /\ f[n - 1] \in X[n - 1])
    BY <1>0, <2>1 DEF Loops
  <2>3. \A n \in 0..k : (IF n = 0 THEN x ELSE step[<<n, f[n - 1]>>]) = (IF n = 0 THEN x ELSE More(n, f[n - 1]))
    BY <1>6, <2>2
  <2>4. f = Body(f)
    BY <2>1, <2>3 DEF Loops
  <2> QED BY <2>4
<1> HIDE DEF ran
<1>9. ran[0] = x /\ \A n \in 1..k : ran[n] = More(n, ran[n - 1])
  BY <1>0, <1>8
<1>10. \A n \in 0..k : ran[n] \in X[n]
  <2>1. ran[0] \in X[0] /\ \A n \in 1..k : ran[n - 1] \in X[n - 1] => ran[n] \in X[n]
    BY <1>3, <1>5, <1>9
  <2> QED BY <1>0, <2>1, Along
<1>11. Run(m, input, i, first) = ran[k]
  BY Zenon DEF Run, k, More, x, ran
<1>12. k \in 1..k /\ k \in 0..k
  BY <1>0
<1> QED BY <1>3, <1>10, <1>11, <1>12 DEF k

\* rgx_matches takes every mark off, and has begun a generation if there was a
\* character.
LEMMA MatchesOf ==
  ASSUME NEW r, IsRegex(r), NEW input, Len(input) \in Nat
  PROVE  LET n == rgx_matches(r, input).m
         IN  /\ n \in Sims(r) /\ n.listit = [s \in States(r) |-> 0]
             /\ Len(input) # 0 => n.listgen > 0
<1> DEFINE k == Len(input)
           x == [AddStart(Started(r)) EXCEPT !.matched = FALSE]
           More(n, m) == rgx_step(m, input[n])
           X == [n \in 0..k |-> {m \in Sims(r) : n # 0 => m.listgen > 0}]
           step == [p \in (1..k) \X Sims(r) |-> More(p[1], p[2])]
           Body(f) == [n \in 0..k |-> IF n = 0 THEN x ELSE More(n, f[n - 1])]
           read == CHOOSE f : f = Body(f)
<1>0. k \in Nat
  OBVIOUS
<1>1. x \in Sims(r)
  <2> DEFINE m == AddStart(Started(r))
             f == FALSE
  <2>1. m \in Sims(r) /\ f \in BOOLEAN
    BY StartedOf, StartOf
  <2>2. x = [m EXCEPT !.matched = f]
    BY Zenon
  <2> HIDE DEF m, f, x
  <2> QED BY <2>1, <2>2 DEF Sims
<1>2. (\A n \in 0..k : X[n] = {m \in Sims(r) : n # 0 => m.listgen > 0}) /\ x \in X[0]
  BY <1>0, <1>1
<1> HIDE DEF X, x
<1>3. \A n \in 1..k : \A m \in X[n - 1] : More(n, m) \in X[n] /\ step[<<n, m>>] = More(n, m)
  <2> SUFFICES ASSUME NEW n \in 1..k, NEW m \in X[n - 1]
               PROVE  More(n, m) \in X[n] /\ step[<<n, m>>] = More(n, m)
    OBVIOUS
  <2>1. n - 1 \in 0..k /\ n \in 0..k
    BY <1>0
  <2>2. m \in Sims(r)
    BY <1>2, <2>1
  <2>3. More(n, m) \in Sims(r) /\ More(n, m).listgen = m.listgen + 1
    BY <2>2, StepOf
  <2>4. m.listgen \in Nat
    BY <2>2, SimOf
  <2> HIDE DEF More, k
  <2> QED BY <1>2, <2>1, <2>2, <2>3, <2>4
<1> HIDE DEF More, step, k
<1>4. Leads(k, X, step)
  BY <1>3 DEF Leads
<1>5. read = Body(read)
  <2>1. PICK f : Loops(f, k, X, x, step)
    BY <1>0, <1>2, <1>4, Loop
  <2>2. \A n \in 0..k : n = 0 \/ (n \in 1..k /\ f[n - 1] \in X[n - 1])
    BY <1>0, <2>1 DEF Loops
  <2>3. \A n \in 0..k : (IF n = 0 THEN x ELSE step[<<n, f[n - 1]>>]) = (IF n = 0 THEN x ELSE More(n, f[n - 1]))
    BY <1>3, <2>2
  <2>4. f = Body(f)
    BY <2>1, <2>3 DEF Loops
  <2> QED BY <2>4
<1> HIDE DEF read
<1>6. read[0] = x /\ \A n \in 1..k : read[n] = More(n, read[n - 1])
  BY <1>0, <1>5
<1>7. read[k] \in X[k] /\ k \in 0..k
  <2>1. ASSUME NEW n \in 1..k, read[n - 1] \in X[n - 1] PROVE read[n] \in X[n]
    <3>1. More(n, read[n - 1]) \in X[n]
      BY <1>3, <2>1
    <3>2. read[n] = More(n, read[n - 1])
      BY <1>6
    <3> QED BY <3>1, <3>2
  <2>2. read[0] \in X[0]
    BY <1>2, <1>6
  <2>3. \A n \in 0..k : read[n] \in X[n]
    BY <1>0, <2>1, <2>2, Along
  <2>4. k \in 0..k
    BY <1>0
  <2> QED BY <2>3, <2>4
<1>8. rgx_matches(r, input) = [result |-> read[k].matched, m |-> rgx_reset_all(read[k])]
  BY Zenon DEF rgx_matches, k, More, x, read
<1>9. rgx_matches(r, input).m = rgx_reset_all(read[k])
  BY <1>8
<1>10. read[k] \in Sims(r) /\ (k # 0 => read[k].listgen > 0)
  BY <1>2, <1>7
<1> QED BY <1>9, <1>10, ResetOf DEF k

\* So has rgx_search.
LEMMA SearchOf ==
  ASSUME NEW r, IsRegex(r), NEW input, Len(input) \in Nat
  PROVE  LET n == rgx_search(r, input).m
         IN  /\ n \in Sims(r) /\ n.listit = [s \in States(r) |-> 0]
             /\ Len(input) # 0 => n.listgen > 0
<1> DEFINE k == Len(input)
           S == {s \in [m : Sims(r), result : Int] : Counts(s.m) /\ Marks(s.m)}
           x == [m |-> AddStart(Started(r)), result |-> -1]
           More(n, s) == SearchedAt(s, input, n)
           X == [n \in 0..k |-> {s \in S : IF n = 0 THEN s.result = -1 ELSE s.m.listgen > 0}]
           step == [p \in (1..k) \X S |-> More(p[1], p[2])]
           Body(f) == [n \in 0..k |-> IF n = 0 THEN x ELSE More(n, f[n - 1])]
           searched == CHOOSE f : f = Body(f)
<1>0. k \in Nat
  OBVIOUS
<1>1. x \in S /\ x.result = -1
  <2>1. AddStart(Started(r)) \in Sims(r) /\ Counts(AddStart(Started(r))) /\ Marks(AddStart(Started(r)))
    BY StartedOf, StartOf
  <2> QED BY <2>1
<1>2. (\A n \in 0..k : X[n] = {s \in S : IF n = 0 THEN s.result = -1 ELSE s.m.listgen > 0}) /\ x \in X[0]
  <2>1. 0 \in 0..k
    BY <1>0
  <2> HIDE DEF S, x
  <2> QED BY <1>1, <2>1
<1> HIDE DEF X, x
<1>3. \A n \in 1..k : \A s \in X[n - 1] : More(n, s) \in X[n] /\ step[<<n, s>>] = More(n, s)
  <2> SUFFICES ASSUME NEW n \in 1..k, NEW s \in X[n - 1]
               PROVE  More(n, s) \in X[n] /\ step[<<n, s>>] = More(n, s)
    OBVIOUS
  <2>1. n - 1 \in 0..k /\ n \in 0..k /\ n # 0
    BY <1>0
  <2> HIDE DEF S
  <2>2. s \in S /\ (s.result >= 0 => n - 1 # 0 /\ s.m.listgen > 0)
    <3>1. s \in {q \in S : IF n - 1 = 0 THEN q.result = -1 ELSE q.m.listgen > 0}
      BY <1>2, <2>1
    <3> QED BY <3>1
  <2>3. s.m \in Sims(r) /\ Counts(s.m) /\ Marks(s.m)
    BY <2>2 DEF S
  <2> DEFINE m == AddStart(s.m)
             t == Run(m, input, n, TRUE)
             o == [m |-> t.m, result |-> IF t.hit THEN n - 1 ELSE -1]
  <2>4. m \in Sims(r) /\ m.listgen \in Nat
    BY <2>3, StartOf, SimOf
  <2>5. t \in Runs(r, Len(input) - n + 1) /\ Went(t, m.listgen)
    <3> HIDE DEF m
    <3> QED BY <2>4, RunOf
  <2> HIDE DEF m, t
  <2>6. t.m \in Sims(r) /\ t.m.listgen \in Nat
    BY <2>5, SimOf DEF Runs
  <2>7. o \in S /\ o.m.listgen > 0
    BY <2>4, <2>5, <2>6 DEF Went, S
  <2> HIDE DEF o
  <2>8. More(n, s) = IF s.result >= 0 THEN s ELSE o
    BY Zenon DEF SearchedAt, o, t, m
  <2>9. More(n, s) \in X[n]
    BY <1>2, <2>1, <2>2, <2>7, <2>8
  <2>10. step[<<n, s>>] = More(n, s)
    BY <2>2
  <2> QED BY <2>9, <2>10
<1> HIDE DEF More, step, k
<1>4. Leads(k, X, step)
  BY <1>3 DEF Leads
<1>5. searched = Body(searched)
  <2>1. PICK f : Loops(f, k, X, x, step)
    BY <1>0, <1>2, <1>4, Loop
  <2>2. \A n \in 0..k : n = 0 \/ (n \in 1..k /\ f[n - 1] \in X[n - 1])
    BY <1>0, <2>1 DEF Loops
  <2>3. \A n \in 0..k : (IF n = 0 THEN x ELSE step[<<n, f[n - 1]>>]) = (IF n = 0 THEN x ELSE More(n, f[n - 1]))
    BY <1>3, <2>2
  <2>4. f = Body(f)
    BY <2>1, <2>3 DEF Loops
  <2> QED BY <2>4
<1> HIDE DEF searched
<1>6. searched[0] = x /\ \A n \in 1..k : searched[n] = More(n, searched[n - 1])
  BY <1>0, <1>5
<1>7. searched[k] \in X[k] /\ k \in 0..k
  <2>1. ASSUME NEW n \in 1..k, searched[n - 1] \in X[n - 1] PROVE searched[n] \in X[n]
    <3>1. More(n, searched[n - 1]) \in X[n]
      BY <1>3, <2>1
    <3>2. searched[n] = More(n, searched[n - 1])
      BY <1>6
    <3> QED BY <3>1, <3>2
  <2>2. searched[0] \in X[0]
    BY <1>2, <1>6
  <2>3. \A n \in 0..k : searched[n] \in X[n]
    BY <1>0, <2>1, <2>2, Along
  <2>4. k \in 0..k
    BY <1>0
  <2> QED BY <2>3, <2>4
<1>8. rgx_search(r, input) = [result |-> searched[k].result, m |-> rgx_reset_all(searched[k].m)]
  BY Zenon DEF rgx_search, k, More, x, searched
<1>9. rgx_search(r, input).m = rgx_reset_all(searched[k].m)
  BY <1>8
<1>10. searched[k].m \in Sims(r) /\ (k # 0 => searched[k].m.listgen > 0)
  BY <1>2, <1>7
<1> QED BY <1>9, <1>10, ResetOf DEF k

\* What rgx_collect_matches has when it gets to a place: spans in order, all
\* before the place it goes on from.
Before(spans, from) == \A k \in DOMAIN spans : EndOf(spans[k]) < from
Collections(r, input) ==
  {s \in [m : Sims(r), spans : Seq(Nat \X Nat), from : Nat] :
     /\ Counts(s.m) /\ InOrder(s.spans, input) /\ Before(s.spans, s.from)
     /\ s.from >= 1 /\ ("g" \notin r.flags => Len(s.spans) <= 1)}

LEMMA SpanAdded ==
  ASSUME NEW input, Len(input) \in Nat, NEW spans \in Seq(Nat \X Nat), InOrder(spans, input),
         NEW from \in Nat, Before(spans, from),
         NEW i \in Nat \ {0}, from <= i, NEW l \in Nat, l > 0, i + l <= Len(input) + 1
  PROVE  LET more == Append(spans, <<i - 1, l>>)
         IN  /\ more \in Seq(Nat \X Nat) /\ Len(more) = Len(spans) + 1
             /\ InOrder(more, input) /\ Before(more, i + l)
<1> DEFINE new == <<i - 1, l>>
           more == Append(spans, new)
           n == Len(spans)
<1>1. n \in Nat /\ DOMAIN spans = 1..n /\ \A k \in 1..n : spans[k] \in Nat \X Nat
  BY LenProperties
<1>2. /\ Len(more) = n + 1 /\ DOMAIN more = 1..n + 1 /\ more[n + 1] = new
      /\ \A k \in 1..n : more[k] = spans[k]
  <2> HIDE DEF new
  <2>1. Len(more) = n + 1 /\ \A k \in 1..n : more[k] = spans[k]
    BY <1>1
  <2>2. DOMAIN more = 1..n + 1 /\ more[n + 1] = new
    BY <1>1
  <2> QED BY <2>1, <2>2
<1>3. more \in Seq(Nat \X Nat)
  <2>1. new \in Nat \X Nat
    OBVIOUS
  <2> HIDE DEF new
  <2> QED BY <2>1
<1>4. EndOf(new) = i - 1 + l /\ EndOf(new) < i + l /\ EndOf(new) <= Len(input) /\ new[1] = i - 1 /\ new[2] = l
  BY DEF EndOf
<1>5. \A k \in 1..n : spans[k][1] \in Nat /\ spans[k][2] \in Nat /\ EndOf(spans[k]) \in Nat /\ EndOf(spans[k]) < from
  <2>1. \A p \in Nat \X Nat : p[1] \in Nat /\ p[2] \in Nat /\ EndOf(p) \in Nat
    BY DEF EndOf
  <2> QED BY <1>1, <2>1 DEF Before
<1> HIDE DEF new, more, n
<1>6. \A k \in 1..n : k \in 1..n + 1 /\ k # n + 1 /\ more[k] = spans[k]
  BY <1>1, <1>2
<1>7. \A k \in 1..n + 1 : k = n + 1 \/ k \in 1..n
  BY <1>1
<1>8. InOrder(more, input)
  <2> SUFFICES ASSUME NEW k \in 1..n + 1
               PROVE  /\ more[k][1] >= 0 /\ more[k][2] > 0 /\ EndOf(more[k]) <= Len(input)
                      /\ k > 1 => EndOf(more[k - 1]) <= more[k][1]
    BY <1>2 DEF InOrder
  <2>1. CASE k = n + 1
    <3>1. more[k] = new
      BY <1>2, <2>1
    <3>2. k > 1 => EndOf(more[k - 1]) < from
      <4>1. SUFFICES ASSUME k > 1 PROVE EndOf(more[k - 1]) < from
        OBVIOUS
      <4>2. k - 1 \in 1..n
        BY <1>1, <2>1, <4>1
      <4> QED BY <1>5, <1>6, <4>2
    <3>3. k > 1 => EndOf(more[k - 1]) \in Nat
      <4>1. SUFFICES ASSUME k > 1 PROVE EndOf(more[k - 1]) \in Nat
        OBVIOUS
      <4>2. k - 1 \in 1..n
        BY <1>1, <2>1, <4>1
      <4> QED BY <1>5, <1>6, <4>2
    <3> QED BY <1>4, <3>1, <3>2, <3>3
  <2>2. CASE k \in 1..n
    <3>1. /\ spans[k][1] >= 0 /\ spans[k][2] > 0 /\ EndOf(spans[k]) <= Len(input)
          /\ k > 1 => EndOf(spans[k - 1]) <= spans[k][1]
      BY <1>1, <2>2 DEF InOrder
    <3>2. k > 1 => k - 1 \in 1..n
      BY <1>1, <2>2
    <3>3. more[k] = spans[k] /\ (k > 1 => more[k - 1] = spans[k - 1])
      BY <1>6, <2>2, <3>2
    <3> QED BY <3>1, <3>3
  <2> QED BY <1>7, <2>1, <2>2
<1>9. Before(more, i + l)
  <2> SUFFICES ASSUME NEW k \in 1..n + 1 PROVE EndOf(more[k]) < i + l
    BY <1>2 DEF Before
  <2>1. CASE k = n + 1
    BY <1>2, <1>4, <2>1
  <2>2. CASE k \in 1..n
    BY <1>5, <1>6, <2>2
  <2> QED BY <1>7, <2>1, <2>2
<1> QED BY <1>2, <1>3, <1>8, <1>9 DEF more, new, n

LEMMA CollectedAtIs ==
  ASSUME NEW r, IsRegex(r), NEW input, Len(input) \in Nat, NEW i \in 1..Len(input),
         NEW s \in Collections(r, input)
  PROVE  CollectedAt(s, input, i) \in Collections(r, input)
<1> DEFINE m == AddStart(rgx_reset_all(s.m))
           t == Run(m, input, i, FALSE)
           more == Append(s.spans, <<i - 1, t.len>>)
           a == [m |-> t.m, spans |-> more, from |-> i + t.len]
           b == [s EXCEPT !.m = t.m]
           stays == i < s.from \/ (s.spans # <<>> /\ "g" \notin s.m.flags)
<1>1. /\ s = [m |-> s.m, spans |-> s.spans, from |-> s.from] /\ s.m \in Sims(r)
      /\ s.spans \in Seq(Nat \X Nat) /\ s.from \in Nat /\ s.from >= 1
      /\ Counts(s.m) /\ InOrder(s.spans, input) /\ Before(s.spans, s.from)
      /\ "g" \notin r.flags => Len(s.spans) <= 1
  BY DEF Collections
<1>2. m \in Sims(r)
  <2>1. rgx_reset_all(s.m) \in Sims(r) /\ Counts(rgx_reset_all(s.m))
    BY <1>1, ResetOf DEF Counts
  <2> QED BY <2>1, StartOf
<1> HIDE DEF m
<1>3. t \in Runs(r, Len(input) - i + 1) /\ Counts(t.m)
  BY <1>2, RunOf DEF Went
<1>4. s.m.flags = r.flags
  BY <1>1, SimOf
<1> HIDE DEF t
<1>5. t.m \in Sims(r) /\ t.len \in Nat /\ t.len <= Len(input) - i + 1 /\ (t.hit => t.len > 0)
  BY <1>3 DEF Runs
<1>6. ASSUME ~stays, t.hit PROVE a \in Collections(r, input)
  <2>1. s.from <= i /\ i \in Nat /\ i >= 1 /\ i + t.len <= Len(input) + 1
    BY <1>1, <1>5, <1>6
  <2>2. /\ more \in Seq(Nat \X Nat) /\ Len(more) = Len(s.spans) + 1
        /\ InOrder(more, input) /\ Before(more, i + t.len)
    <3> DEFINE l == t.len
    <3>1. l \in Nat /\ l > 0 /\ i + l <= Len(input) + 1 /\ i \in Nat \ {0}
      BY <1>5, <1>6, <2>1
    <3> HIDE DEF l
    <3>2. LET q == Append(s.spans, <<i - 1, l>>)
          IN  /\ q \in Seq(Nat \X Nat) /\ Len(q) = Len(s.spans) + 1
              /\ InOrder(q, input) /\ Before(q, i + l)
      BY <1>1, <2>1, <3>1, SpanAdded
    <3> QED BY <3>2 DEF l
  <2>3. "g" \notin r.flags => Len(more) <= 1
    <3>1. SUFFICES ASSUME "g" \notin r.flags PROVE Len(more) = 1
      OBVIOUS
    <3>2. s.spans = <<>>
      BY <1>4, <1>6, <3>1
    <3>3. Len(s.spans) = 0
      BY <3>2
    <3> QED BY <2>2, <3>3
  <2> DEFINE n == t.m
             l == i + t.len
  <2>4. a = [m |-> n, spans |-> more, from |-> l] /\ n \in Sims(r) /\ Counts(n)
        /\ l \in Nat /\ l >= 1 /\ Before(more, l)
    BY <1>3, <1>5, <2>1, <2>2
  <2> HIDE DEF more, n, l, a
  <2> QED BY <2>2, <2>3, <2>4 DEF Collections
<1>7. b \in Collections(r, input)
  <2>1. b = [m |-> t.m, spans |-> s.spans, from |-> s.from]
    <3> DEFINE u == s.m
               v == s.spans
               w == s.from
               n == t.m
    <3>1. s = [m |-> u, spans |-> v, from |-> w] /\ b = [s EXCEPT !.m = n]
      BY <1>1, Zenon
    <3> HIDE DEF u, v, w, n, b
    <3>2. b = [m |-> n, spans |-> v, from |-> w]
      BY <3>1
    <3> QED BY <3>2 DEF u, v, w, n
  <2> HIDE DEF b
  <2> QED BY <1>1, <1>3, <1>5, <2>1 DEF Collections
<1> HIDE DEF a, b, stays
<1>8. CollectedAt(s, input, i) = IF stays THEN s ELSE IF t.hit THEN a ELSE b
  BY Zenon DEF CollectedAt, stays, t, m, a, b
<1> QED BY <1>6, <1>7, <1>8

\* The matches that rgx_collect_matches finds follow one another; without g it
\* stops at the first.
LEMMA CollectOf ==
  ASSUME NEW r, IsRegex(r), NEW input, Len(input) \in Nat
  PROVE  LET c == rgx_collect_matches(r, input)
         IN  /\ c.m \in Sims(r) /\ c.result \in Seq(Nat \X Nat)
             /\ InOrder(c.result, input) /\ ("g" \notin r.flags => Len(c.result) <= 1)
<1> DEFINE k == Len(input)
           S == Collections(r, input)
           x == [m |-> AddStart(Started(r)), spans |-> <<>>, from |-> 1]
           More(n, s) == CollectedAt(s, input, n)
           X == [n \in 0..k |-> S]
           step == [p \in (1..k) \X S |-> More(p[1], p[2])]
           Body(f) == [n \in 0..k |-> IF n = 0 THEN x ELSE More(n, f[n - 1])]
           collected == CHOOSE f : f = Body(f)
<1>0. k \in Nat
  OBVIOUS
<1>1. x \in S
  <2> DEFINE m == AddStart(Started(r))
             none == <<>>
  <2>1. m \in Sims(r) /\ Counts(m)
    BY StartedOf, StartOf
  <2>2. none \in Seq(Nat \X Nat) /\ Len(none) = 0 /\ DOMAIN none = {}
    OBVIOUS
  <2> HIDE DEF m, none
  <2>3. InOrder(none, input) /\ Before(none, 1)
    BY <2>2 DEF InOrder, Before
  <2>4. x = [m |-> m, spans |-> none, from |-> 1]
    BY Zenon DEF m, none
  <2> HIDE DEF x
  <2> QED BY <2>1, <2>2, <2>3, <2>4 DEF Collections
<1>2. (\A n \in 0..k : X[n] = S) /\ \A n \in 1..k : X[n - 1] = S /\ X[n] = S
  BY <1>0
<1> HIDE DEF X, x
<1>3. \A n \in 1..k : \A s \in S : More(n, s) \in S /\ step[<<n, s>>] = More(n, s)
  <2>1. \A n \in 1..k : \A s \in S : More(n, s) \in S
    BY CollectedAtIs
  <2> HIDE DEF More, S, k
  <2> QED BY <2>1
<1> HIDE DEF More, step, k, S
<1>4. Leads(k, X, step)
  <2> SUFFICES ASSUME NEW n \in 1..k, NEW s \in X[n - 1] PROVE step[<<n, s>>] \in X[n]
    BY DEF Leads
  <2>1. X[n - 1] = S /\ X[n] = S
    BY <1>2
  <2> QED BY <1>3, <2>1
<1>5. x \in X[0] /\ 0 \in 0..k /\ k \in 0..k
  BY <1>0, <1>1, <1>2
<1>6. collected = Body(collected)
  <2>1. PICK f : Loops(f, k, X, x, step)
    BY <1>0, <1>4, <1>5, Loop
  <2>2. \A n \in 0..k : n = 0 \/ (n \in 1..k /\ f[n - 1] \in S)
    BY <1>0, <1>2, <2>1 DEF Loops
  <2>3. \A n \in 0..k : (IF n = 0 THEN x ELSE step[<<n, f[n - 1]>>]) = (IF n = 0 THEN x ELSE More(n, f[n - 1]))
    BY <1>3, <2>2
  <2>4. f = Body(f)
    BY <2>1, <2>3 DEF Loops
  <2> QED BY <2>4
<1> HIDE DEF collected
<1>7. collected[0] = x /\ \A n \in 1..k : collected[n] = More(n, collected[n - 1])
  BY <1>0, <1>6
<1>8. collected[k] \in S
  <2>1. ASSUME NEW n \in 1..k, collected[n - 1] \in X[n - 1] PROVE collected[n] \in X[n]
    <3>1. X[n - 1] = S /\ X[n] = S
      BY <1>2
    <3>2. More(n, collected[n - 1]) \in S
      BY <1>3, <2>1, <3>1
    <3> QED BY <1>7, <3>1, <3>2
  <2>2. \A n \in 0..k : collected[n] \in X[n]
    BY <1>0, <1>5, <1>7, <2>1, Along
  <2> QED BY <1>2, <1>5, <2>2
<1>9. rgx_collect_matches(r, input) = [result |-> collected[k].spans, m |-> collected[k].m]
  BY Zenon DEF rgx_collect_matches, k, More, x, collected
<1> HIDE DEF collected
<1>10. rgx_collect_matches(r, input).m = collected[k].m /\ rgx_collect_matches(r, input).result = collected[k].spans
  BY <1>9
<1> QED BY <1>8, <1>10 DEF S, Collections

-----------------------------------------------------------------------------
(* The calls of a regex.                                                    *)

LEMMA AnswersIs ==
  ASSUME IsRegex(rgx), NEW op, NEW w, NEW ran, ran.m \in Sims(rgx), NEW result, Answers(op, w, ran, result)
  PROVE  /\ IsRegex(rgx') /\ rgx'.states = rgx.states /\ rgx'.flags = rgx.flags
         /\ rgx'.listgen = ran.m.listgen /\ rgx'.listit = ran.m.listit
         /\ call.nr < MaxCalls /\ call'.nr = call.nr + 1 /\ call'.peak <= Len(rgx'.states)
         /\ call'.op = op /\ call'.arg = w /\ call'.result = result
<1>1. rgx' = Stopped(ran.m) /\ call.nr < MaxCalls
  BY DEF Answers
<1>2. IsRegex(Stopped(ran.m)) /\ Stopped(ran.m).flags = rgx.flags /\ Stopped(ran.m).states = rgx.states
      /\ Stopped(ran.m).listgen = ran.m.listgen /\ Stopped(ran.m).listit = ran.m.listit
  BY StoppedOf
<1>3. call'.op = op /\ call'.arg = w /\ call'.result = result /\ call'.nr = call.nr + 1 /\ call'.peak = ran.m.peak
  BY DEF Answers
<1>4. ran.m.peak <= Len(rgx.states)
  BY DEF Sims
<1> QED BY <1>1, <1>2, <1>3, <1>4

\* What a call of a regex does: it answers, and what it leaves behind is a regex.
Called(w, op) ==
  /\ IsRegex(rgx') /\ rgx'.states = rgx.states /\ rgx'.flags = rgx.flags
  /\ call.nr < MaxCalls /\ call'.nr = call.nr + 1 /\ call'.peak <= Len(rgx'.states)
  /\ call'.op = op /\ call'.arg = w /\ UNCHANGED str

LEMMA SearchCalled ==
  ASSUME IsRegex(rgx), NEW w, Len(w) \in Nat, DOMAIN w = 1..Len(w),
         \/ \E fuzzy \in BOOLEAN : stlrgx_matches(w, fuzzy)
         \/ stlrgx_search(w),
         UNCHANGED str
  PROVE  /\ \E op \in {"matches", "matches_any", "search"} : Called(w, op)
         /\ w # <<>> => Unmarked(rgx')
<1>1. ASSUME NEW op \in {"matches", "matches_any", "search"}, NEW ran, NEW result, Answers(op, w, ran, result),
             ran.m \in Sims(rgx), ran.m.listit = [s \in States(rgx) |-> 0], Len(w) # 0 => ran.m.listgen > 0
      PROVE  /\ \E o \in {"matches", "matches_any", "search"} : Called(w, o)
             /\ w # <<>> => Unmarked(rgx')
  <2>1. /\ IsRegex(rgx') /\ rgx'.states = rgx.states /\ rgx'.flags = rgx.flags
        /\ rgx'.listgen = ran.m.listgen /\ rgx'.listit = ran.m.listit
        /\ call.nr < MaxCalls /\ call'.nr = call.nr + 1 /\ call'.peak <= Len(rgx'.states)
        /\ call'.op = op /\ call'.arg = w
    BY <1>1, AnswersIs
  <2>2. Called(w, op)
    BY <2>1 DEF Called
  <2>3. w # <<>> => Len(w) # 0
    OBVIOUS
  <2>4. w # <<>> => Unmarked(rgx')
    BY <1>1, <2>1, <2>3 DEF Unmarked, States
  <2> QED BY <2>2, <2>4
<1>2. CASE stlrgx_matches(w, TRUE)
  <2>1. Answers("matches", w, rgx_matches(rgx, w), rgx_matches(rgx, w).result)
    BY <1>2 DEF stlrgx_matches
  <2> QED BY <1>1, <2>1, MatchesOf
<1>3. CASE stlrgx_matches(w, FALSE)
  <2>1. Answers("matches_any", w, rgx_search(rgx, w), rgx_search(rgx, w).result >= 0)
    BY <1>3 DEF stlrgx_matches
  <2> QED BY <1>1, <2>1, SearchOf
<1>4. CASE stlrgx_search(w)
  <2>1. Answers("search", w, rgx_search(rgx, w), rgx_search(rgx, w).result)
    BY <1>4 DEF stlrgx_search
  <2> QED BY <1>1, <2>1, SearchOf
<1> QED BY <1>2, <1>3, <1>4

\* The calls that collect: what they return is made of the spans of the matches.
LEMMA CollectCalled ==
  ASSUME IsRegex(rgx), NEW w, Len(w) \in Nat,
         NEW op, NEW result, Collecting(op, w, rgx_collect_matches(rgx, w), result),
         result.spans = rgx_collect_matches(rgx, w).result
  PROVE  /\ Called(w, op) /\ call'.result = result
         /\ result.spans \in Seq(Nat \X Nat) /\ InOrder(result.spans, w)
         /\ "g" \notin rgx.flags => Len(result.spans) <= 1
<1> DEFINE ran == rgx_collect_matches(rgx, w)
<1>1. /\ ran.m \in Sims(rgx) /\ ran.result \in Seq(Nat \X Nat)
      /\ InOrder(ran.result, w) /\ ("g" \notin rgx.flags => Len(ran.result) <= 1)
  BY CollectOf
<1>2. Answers(op, w, ran, result) /\ UNCHANGED str
  BY DEF Collecting
<1> HIDE DEF ran
<1>3. /\ IsRegex(rgx') /\ rgx'.states = rgx.states /\ rgx'.flags = rgx.flags
      /\ call.nr < MaxCalls /\ call'.nr = call.nr + 1 /\ call'.peak <= Len(rgx'.states)
      /\ call'.op = op /\ call'.arg = w /\ call'.result = result
  BY <1>1, <1>2, AnswersIs
<1>4. result.spans = ran.result
  BY DEF ran
<1> QED BY <1>1, <1>2, <1>3, <1>4 DEF Called

\* The steps with a regex.
FindStep(w) == LET c == rgx_collect_matches(rgx, w).result IN
  Collecting("find", w, rgx_collect_matches(rgx, w), FoundIn(w, c))
SplitStep(w) == LET c == rgx_collect_matches(rgx, w).result IN
  Collecting("split", w, rgx_collect_matches(rgx, w), [spans |-> c, pieces |-> Copies(Between(w, c))])
ReplaceStep(w, repl) == LET c == rgx_collect_matches(rgx, w).result IN
  Collecting("replacing", w, rgx_collect_matches(rgx, w),
             [spans |-> c, repl |-> repl, built |-> stlstr_replacing_generic(w, repl, c)])

LEMMA RegexSteps ==
  ASSUME NEW w, CallsRegex(w)
  PROVE  \/ ((\E fuzzy \in BOOLEAN : stlrgx_matches(w, fuzzy)) \/ stlrgx_search(w)) /\ UNCHANGED str
         \/ FindStep(w) \/ SplitStep(w)
         \/ \E repl \in Replacement : ReplaceStep(w, repl)
<1>1. stlstr_find(w) => FindStep(w)
  BY Zenon DEF stlstr_find, FindStep
<1>2. stlstr_split_regex(w) => SplitStep(w)
  BY Zenon DEF stlstr_split_regex, SplitStep
<1>3. \A repl : stlstr_replacing_regex(w, repl) => ReplaceStep(w, repl)
  BY Zenon DEF stlstr_replacing_regex, ReplaceStep
<1> QED BY <1>1, <1>2, <1>3, Zenon DEF CallsRegex

\* In every case the call leaves a regex behind.
LEMMA RegexCalled ==
  ASSUME IsRegex(rgx), NEW w, Len(w) \in Nat, DOMAIN w = 1..Len(w), CallsRegex(w)
  PROVE  /\ \E op \in {"matches", "matches_any", "search"} \cup Collects : Called(w, op)
         /\ call'.op \notin Collects /\ w # <<>> => Unmarked(rgx')
         /\ call'.op \in Collects =>
              /\ call'.result.spans \in Seq(Nat \X Nat) /\ InOrder(call'.result.spans, w)
              /\ "g" \notin rgx'.flags => Len(call'.result.spans) <= 1
<1>1. ASSUME (\E fuzzy \in BOOLEAN : stlrgx_matches(w, fuzzy)) \/ stlrgx_search(w), UNCHANGED str
      PROVE  /\ \E op \in {"matches", "matches_any", "search"} : Called(w, op)
             /\ w # <<>> => Unmarked(rgx')
  BY <1>1, SearchCalled
<1>2. ASSUME NEW op \in Collects, NEW result, Collecting(op, w, rgx_collect_matches(rgx, w), result),
             result.spans = rgx_collect_matches(rgx, w).result
      PROVE  /\ Called(w, op)
             /\ call'.result.spans \in Seq(Nat \X Nat) /\ InOrder(call'.result.spans, w)
             /\ "g" \notin rgx'.flags => Len(call'.result.spans) <= 1
  BY <1>2, CollectCalled DEF Called
<1>3. FindStep(w) => /\ Called(w, "find")
                     /\ call'.result.spans \in Seq(Nat \X Nat) /\ InOrder(call'.result.spans, w)
                     /\ "g" \notin rgx'.flags => Len(call'.result.spans) <= 1
  BY <1>2 DEF FindStep, FoundIn, Collects
<1>4. SplitStep(w) => /\ Called(w, "split")
                      /\ call'.result.spans \in Seq(Nat \X Nat) /\ InOrder(call'.result.spans, w)
                      /\ "g" \notin rgx'.flags => Len(call'.result.spans) <= 1
  BY <1>2 DEF SplitStep, Collects
<1>5. \A repl : ReplaceStep(w, repl) =>
                  /\ Called(w, "replacing")
                  /\ call'.result.spans \in Seq(Nat \X Nat) /\ InOrder(call'.result.spans, w)
                  /\ "g" \notin rgx'.flags => Len(call'.result.spans) <= 1
  BY <1>2 DEF ReplaceStep, Collects
<1>6. \A op : Called(w, op) => call'.op = op
  BY DEF Called
<1>7. \A op \in {"matches", "matches_any", "search"} : op \notin Collects
  BY DEF Collects
<1>8. "find" \in Collects /\ "split" \in Collects /\ "replacing" \in Collects
  BY DEF Collects
<1> QED BY <1>1, <1>3, <1>4, <1>5, <1>6, <1>7, <1>8, RegexSteps

-----------------------------------------------------------------------------
(* Characters, buffers and copies.                                          *)

\* The letters that change case, and what an escape stands for, are characters,
\* and NUL is none.
LEMMA Alphabet ==
  /\ NUL \notin Char /\ "\n" \in Char /\ "\\" \in Char
  /\ \A ch \in DOMAIN Lower : ch \in Char /\ Lower[ch] \in Char
  /\ \A ch \in DOMAIN UpperOf : UpperOf[ch] \in Char
  /\ \A ch \in DOMAIN EscapeFor : EscapeFor[ch] \in Char
<1>1. \A i \in 1..33 : Ascii[i] # "NUL"
  <2>1. /\ Ascii[1] # "NUL" /\ Ascii[2] # "NUL" /\ Ascii[3] # "NUL" /\ Ascii[4] # "NUL"
        /\ Ascii[5] # "NUL" /\ Ascii[6] # "NUL" /\ Ascii[7] # "NUL" /\ Ascii[8] # "NUL"
        /\ Ascii[9] # "NUL" /\ Ascii[10] # "NUL" /\ Ascii[11] # "NUL" /\ Ascii[12] # "NUL"
        /\ Ascii[13] # "NUL" /\ Ascii[14] # "NUL" /\ Ascii[15] # "NUL" /\ Ascii[16] # "NUL"
        /\ Ascii[17] # "NUL" /\ Ascii[18] # "NUL" /\ Ascii[19] # "NUL" /\ Ascii[20] # "NUL"
        /\ Ascii[21] # "NUL" /\ Ascii[22] # "NUL" /\ Ascii[23] # "NUL" /\ Ascii[24] # "NUL"
        /\ Ascii[25] # "NUL" /\ Ascii[26] # "NUL" /\ Ascii[27] # "NUL" /\ Ascii[28] # "NUL"
        /\ Ascii[29] # "NUL" /\ Ascii[30] # "NUL" /\ Ascii[31] # "NUL" /\ Ascii[32] # "NUL"
        /\ Ascii[33] # "NUL"
    BY DEF Ascii
  <2>2. \A i \in 1..33 :
          \/ i = 1 \/ i = 2 \/ i = 3 \/ i = 4 \/ i = 5 \/ i = 6 \/ i = 7 \/ i = 8 \/ i = 9
          \/ i = 10 \/ i = 11 \/ i = 12 \/ i = 13 \/ i = 14 \/ i = 15 \/ i = 16 \/ i = 17 \/ i = 18
          \/ i = 19 \/ i = 20 \/ i = 21 \/ i = 22 \/ i = 23 \/ i = 24 \/ i = 25 \/ i = 26 \/ i = 27
          \/ i = 28 \/ i = 29 \/ i = 30 \/ i = 31 \/ i = 32 \/ i = 33
    OBVIOUS
  <2> QED BY <2>1, <2>2
<1>2. DOMAIN Ascii = 1..33
  BY DEF Ascii
<1>3. NUL \notin Char
  BY <1>1, <1>2 DEF Char, NUL
<1>4. /\ Ascii[2] = "\n" /\ Ascii[21] = "\\" /\ Ascii[16] = "A" /\ Ascii[17] = "B" /\ Ascii[18] = "N"
      /\ Ascii[19] = "Z" /\ Ascii[25] = "a" /\ Ascii[26] = "b" /\ Ascii[29] = "n" /\ Ascii[32] = "z"
  BY DEF Ascii
<1>5. {"\n", "\\", "A", "B", "N", "Z", "a", "b", "n", "z"} \subseteq Char
  BY <1>2, <1>4 DEF Char
<1>6. \A ch \in DOMAIN Lower : ch \in Char /\ Lower[ch] \in Char
  BY <1>5 DEF Lower
<1>7. \A ch \in DOMAIN UpperOf : UpperOf[ch] \in Char
  <2> SUFFICES ASSUME NEW ch \in Range(Lower) PROVE UpperOf[ch] \in Char
    BY DEF UpperOf
  <2>1. \E u \in DOMAIN Lower : Lower[u] = ch
    BY DEF Range
  <2>2. (CHOOSE u \in DOMAIN Lower : Lower[u] = ch) \in DOMAIN Lower
    BY <2>1
  <2> QED BY <1>6, <2>2 DEF UpperOf
<1>8. \A ch \in DOMAIN EscapeFor : EscapeFor[ch] \in Char
  BY <1>5 DEF EscapeFor
<1> QED BY <1>3, <1>5, <1>6, <1>7, <1>8

\* A C string goes up to the first NUL.
Ends(b, n) == n \in 0..Len(b) /\ (\A i \in 1..n : b[i] # NUL) /\ (n < Len(b) => b[n + 1] = NUL)
LEMMA CStrIs ==
  ASSUME NEW b \in Seq(Char \cup {NUL})
  PROVE  /\ CStr(b) \in Seq(Char) /\ Len(CStr(b)) <= Len(b) /\ Ends(b, Len(CStr(b)))
         /\ \A i \in 1..Len(CStr(b)) : CStr(b)[i] = b[i]
<1> DEFINE nul == {i \in DOMAIN b : b[i] = NUL}
           n == Len(b)
           C == Char \cup {NUL}
<1>1. n \in Nat /\ DOMAIN b = 1..n /\ \A i \in 1..n : b[i] \in C
  BY LenProperties
<1>2. CASE nul = {}
  <2>1. CStr(b) = b
    BY <1>2 DEF CStr
  <2>2. \A i \in 1..n : b[i] \in Char /\ b[i] # NUL
    BY <1>1, <1>2
  <2>3. b \in Seq(Char)
    <3>1. b = [i \in 1..n |-> b[i]]
      BY <1>1, LenProperties
    <3>2. [i \in 1..n |-> b[i]] \in Seq(Char)
      BY <1>1, <2>2, IsASeq
    <3> QED BY <3>1, <3>2
  <2> QED BY <1>1, <2>1, <2>2, <2>3 DEF Ends
<1>3. CASE nul # {}
  <2> DEFINE m == Min(nul)
  <2>1. m \in nul /\ \A i \in nul : m <= i
    <3>1. nul \in SUBSET Nat
      BY <1>1
    <3> HIDE DEF nul
    <3> QED BY <1>3, <3>1, MinOf
  <2>2. CStr(b) = SubSeq(b, 1, m - 1)
    BY <1>3 DEF CStr
  <2>3. m \in 1..n /\ b[m] = NUL
    BY <1>1, <2>1
  <2> HIDE DEF m
  <2>4. \A i \in 1..m - 1 : i \in 1..n /\ b[i] # NUL
    <3> SUFFICES ASSUME NEW i \in 1..m - 1 PROVE i \in 1..n /\ b[i] # NUL
      OBVIOUS
    <3>1. i \in 1..n /\ ~(m <= i)
      BY <1>1, <2>3
    <3> QED BY <1>1, <2>1, <3>1
  <2>5. \A i \in 1..m - 1 : b[i] \in Char
    BY <1>1, <2>4
  <2>6. /\ SubSeq(b, 1, m - 1) \in Seq(Char) /\ Len(SubSeq(b, 1, m - 1)) = m - 1
        /\ \A i \in 1..m - 1 : SubSeq(b, 1, m - 1)[i] = b[i]
    <3>1. m - 1 \in Int /\ 1 \in Int /\ (m - 1) - 1 + 1 = m - 1 /\ \A i \in 1..m - 1 : 1 + i - 1 = i
      BY <1>1, <2>3
    <3>2. /\ SubSeq(b, 1, m - 1) \in Seq(Char)
          /\ Len(SubSeq(b, 1, m - 1)) = IF 1 <= m - 1 THEN (m - 1) - 1 + 1 ELSE 0
          /\ \A i \in 1..(m - 1) - 1 + 1 : SubSeq(b, 1, m - 1)[i] = b[1 + i - 1]
      BY <2>5, <3>1, SubSeqProperties
    <3> QED BY <2>3, <3>1, <3>2
  <2>7. Ends(b, m - 1)
    <3>1. m - 1 \in 0..n /\ (m - 1) + 1 = m
      BY <1>1, <2>3
    <3> QED BY <2>3, <2>4, <3>1 DEF Ends
  <2>8. m - 1 <= n
    BY <1>1, <2>3
  <2> QED BY <2>2, <2>6, <2>7, <2>8
<1> QED BY <1>2, <1>3

\* One step of the copy: in all, no more is copied than there is; without
\* a backslash, what there is.
Copying(s, i) ==
  {c \in [out : Seq(Char), skip : BOOLEAN] :
     Len(c.out) <= i /\ (Plain(s) => ~c.skip /\ c.out = SubSeq(s, 1, i))}

LEMMA CopiedAtIs ==
  ASSUME NEW s \in Seq(Char), NEW i \in 1..Len(s), NEW c \in Copying(s, i - 1)
  PROVE  CopiedAt(s, c, i) \in Copying(s, i)
<1> DEFINE n == Len(s)
           a == [c EXCEPT !.skip = FALSE]
           e == [out |-> Append(c.out, EscapeFor[s[i + 1]]), skip |-> TRUE]
           o == [c EXCEPT !.out = Append(@, s[i])]
<1>1. n \in Nat /\ i \in Nat /\ i >= 1 /\ \A j \in 1..n : s[j] \in Char
  BY LenProperties
<1>2. /\ c = [out |-> c.out, skip |-> c.skip] /\ c.out \in Seq(Char) /\ c.skip \in BOOLEAN /\ Len(c.out) <= i - 1
      /\ Plain(s) => ~c.skip /\ c.out = SubSeq(s, 1, i - 1)
  BY DEF Copying
<1>3. Len(c.out) \in Nat
  BY <1>2, LenProperties
<1>4. \A ch \in Char : Append(c.out, ch) \in Seq(Char) /\ Len(Append(c.out, ch)) = Len(c.out) + 1
  BY <1>2
<1>5. CASE c.skip
  <2>1. CopiedAt(s, c, i) = a
    BY <1>5 DEF CopiedAt
  <2>2. a = [out |-> c.out, skip |-> FALSE]
    <3> DEFINE u == c.out
               v == c.skip
               f == FALSE
    <3>1. c = [out |-> u, skip |-> v] /\ a = [c EXCEPT !.skip = f]
      BY <1>2, Zenon
    <3> HIDE DEF u, v, f, a
    <3>2. a = [out |-> u, skip |-> f]
      BY <3>1
    <3> QED BY <3>2, Zenon DEF u, f
  <2>3. ~Plain(s)
    BY <1>2, <1>5
  <2>4. Len(c.out) <= i
    BY <1>1, <1>2, <1>3
  <2> HIDE DEF a
  <2> QED BY <1>2, <2>1, <2>2, <2>3, <2>4 DEF Copying
<1>6. CASE ~c.skip /\ Escapes(s, i)
  <2>1. CopiedAt(s, c, i) = e
    BY <1>6 DEF CopiedAt
  <2>2. i + 1 \in 1..n /\ s[i + 1] \in DOMAIN EscapeFor /\ s[i] = "\\"
    BY <1>1, <1>6 DEF Escapes
  <2>3. EscapeFor[s[i + 1]] \in Char
    BY <2>2, Alphabet
  <2>4. ~Plain(s)
    BY <1>1, <2>2, LenProperties DEF Plain
  <2> DEFINE q == Append(c.out, EscapeFor[s[i + 1]])
             t == TRUE
  <2>5. q \in Seq(Char) /\ Len(q) <= i /\ t \in BOOLEAN
    BY <1>1, <1>2, <1>3, <1>4, <2>3
  <2>6. e = [out |-> q, skip |-> t]
    OBVIOUS
  <2> HIDE DEF q, t, e
  <2> QED BY <2>1, <2>4, <2>5, <2>6 DEF Copying
<1>7. CASE ~c.skip /\ ~Escapes(s, i)
  <2>1. CopiedAt(s, c, i) = o
    BY <1>7 DEF CopiedAt
  <2> DEFINE q == Append(c.out, s[i])
             u == c.out
             v == c.skip
  <2>2. q \in Seq(Char) /\ Len(q) <= i
    BY <1>1, <1>2, <1>3, <1>4
  <2>3. Plain(s) => q = SubSeq(s, 1, i)
    <3>1. SUFFICES ASSUME Plain(s) PROVE q = SubSeq(s, 1, i)
      OBVIOUS
    <3>2. c.out = SubSeq(s, 1, i - 1)
      BY <1>2, <3>1
    <3>3. q = c.out \o <<s[i]>>
      BY <1>1, <1>2, AppendIsConcat
    <3>4. 1 \in 1..Len(s) /\ i \in 1..Len(s)
      BY <1>1
    <3>5. SubSeq(s, 1, i) = SubSeq(s, 1, i - 1) \o <<s[i]>>
      BY <3>4, SubSeqRecursiveSecond
    <3> QED BY <3>2, <3>3, <3>5
  <2>4. o = [out |-> q, skip |-> v]
    <3>1. c = [out |-> u, skip |-> v] /\ o = [c EXCEPT !.out = q]
      BY <1>2
    <3> HIDE DEF u, v, q, o
    <3> QED BY <3>1
  <2>5. ~v /\ v \in BOOLEAN
    BY <1>2, <1>7
  <2> HIDE DEF o, q, v
  <2> QED BY <2>1, <2>2, <2>3, <2>4, <2>5 DEF Copying
<1> QED BY <1>5, <1>6, <1>7

LEMMA CopyOf ==
  ASSUME NEW s \in Seq(Char)
  PROVE  LET c == stlstr_copy_and_escape(s)
         IN  c \in Seq(Char) /\ Len(c) <= Len(s) /\ (Plain(s) => c = s)
<1> DEFINE k == Len(s)
           x == [out |-> <<>>, skip |-> FALSE]
           More(n, c) == CopiedAt(s, c, n)
           X == [n \in 0..k |-> Copying(s, n)]
           S == [out : Seq(Char), skip : BOOLEAN]
           step == [p \in (1..k) \X S |-> More(p[1], p[2])]
           Body(f) == [n \in 0..k |-> IF n = 0 THEN x ELSE More(n, f[n - 1])]
           copied == CHOOSE f : f = Body(f)
<1>0. k \in Nat
  BY LenProperties
<1>1. x \in Copying(s, 0)
  <2> DEFINE f == FALSE
             none == <<>>
  <2>1. none \in Seq(Char) /\ Len(none) = 0 /\ f \in BOOLEAN /\ ~f
    OBVIOUS
  <2>2. none = SubSeq(s, 1, 0)
    BY SubSeqEmpty
  <2>3. x = [out |-> none, skip |-> f]
    OBVIOUS
  <2> HIDE DEF none, f, x
  <2> QED BY <2>1, <2>2, <2>3 DEF Copying
<1>2. (\A n \in 0..k : X[n] = Copying(s, n)) /\ \A n \in 1..k : n - 1 \in 0..k /\ n \in 0..k
  BY <1>0
<1> HIDE DEF X, x
<1>3. \A n \in 1..k : \A c \in X[n - 1] : More(n, c) \in X[n] /\ step[<<n, c>>] = More(n, c)
  <2> SUFFICES ASSUME NEW n \in 1..k, NEW c \in X[n - 1]
               PROVE  More(n, c) \in X[n] /\ step[<<n, c>>] = More(n, c)
    OBVIOUS
  <2>1. X[n - 1] = Copying(s, n - 1) /\ X[n] = Copying(s, n)
    BY <1>2
  <2>2. More(n, c) \in Copying(s, n)
    BY <2>1, CopiedAtIs
  <2>3. c \in S
    BY <2>1 DEF Copying
  <2> HIDE DEF More, S, k
  <2> QED BY <2>1, <2>2, <2>3
<1> HIDE DEF More, step, k
<1>4. Leads(k, X, step)
  BY <1>3 DEF Leads
<1>5. x \in X[0] /\ 0 \in 0..k /\ k \in 0..k
  BY <1>0, <1>1, <1>2
<1>6. copied = Body(copied)
  <2>1. PICK f : Loops(f, k, X, x, step)
    BY <1>0, <1>4, <1>5, Loop
  <2>2. \A n \in 0..k : n = 0 \/ (n \in 1..k /\ f[n - 1] \in X[n - 1])
    BY <1>0, <2>1 DEF Loops
  <2>3. \A n \in 0..k : (IF n = 0 THEN x ELSE step[<<n, f[n - 1]>>]) = (IF n = 0 THEN x ELSE More(n, f[n - 1]))
    BY <1>3, <2>2
  <2>4. f = Body(f)
    BY <2>1, <2>3 DEF Loops
  <2> QED BY <2>4
<1> HIDE DEF copied
<1>7. copied[0] = x /\ \A n \in 1..k : copied[n] = More(n, copied[n - 1])
  BY <1>0, <1>6
<1>8. copied[k] \in Copying(s, k)
  <2>1. ASSUME NEW n \in 1..k, copied[n - 1] \in X[n - 1] PROVE copied[n] \in X[n]
    <3>1. More(n, copied[n - 1]) \in X[n]
      BY <1>3, <2>1
    <3> QED BY <1>7, <3>1
  <2>2. \A n \in 0..k : copied[n] \in X[n]
    BY <1>0, <1>5, <1>7, <2>1, Along
  <2> QED BY <1>2, <1>5, <2>2
<1>9. stlstr_copy_and_escape(s) = copied[k].out
  BY Zenon DEF stlstr_copy_and_escape, k, More, x, copied
<1>10. SubSeq(s, 1, k) = s
  BY SubSeqFull DEF k
<1> QED BY <1>8, <1>9, <1>10 DEF k, Copying

-----------------------------------------------------------------------------
(* The builder of "replacing".                                              *)

Builders(me) ==
  {b \in [text : Seq(Char), alloced : Nat, block : Nat, fits : BOOLEAN, cur : 0..Len(me)] :
     b.fits /\ Len(b.text) <= b.alloced /\ b.alloced <= b.block}

LEMMA BuilderOf ==
  ASSUME NEW me \in Seq(Char), NEW b \in Builders(me)
  PROVE  /\ b = [text |-> b.text, alloced |-> b.alloced, block |-> b.block, fits |-> b.fits, cur |-> b.cur]
         /\ b.text \in Seq(Char) /\ Len(b.text) \in Nat /\ b.alloced \in Nat /\ b.block \in Nat
         /\ b.fits /\ b.fits \in BOOLEAN /\ b.cur \in 0..Len(me)
         /\ Len(b.text) <= b.alloced /\ b.alloced <= b.block
BY LenProperties DEF Builders

\* There is room for what is needed behind what is used already.
LEMMA RoomIs ==
  ASSUME NEW me \in Seq(Char), NEW b \in Builders(me), NEW needed \in Nat, NEW more \in Nat, needed <= more
  PROVE  LET c == Room(b, needed, more)
         IN  c \in Builders(me) /\ c.text = b.text /\ c.cur = b.cur /\ Len(b.text) + needed <= c.alloced
<1> DEFINE t == b.text
           a == b.alloced
           k == b.block
           f == b.fits
           u == b.cur
           n == a + more
<1>1. /\ b = [text |-> t, alloced |-> a, block |-> k, fits |-> f, cur |-> u]
      /\ t \in Seq(Char) /\ Len(t) \in Nat /\ a \in Nat /\ k \in Nat /\ f /\ f \in BOOLEAN /\ u \in 0..Len(me)
      /\ Len(t) <= a /\ a <= k
  BY BuilderOf, Zenon
<1>2. CASE needed > a - Len(t)
  <2>1. Room(b, needed, more) = [b EXCEPT !.alloced = n, !.block = n]
    BY <1>2 DEF Room
  <2>2. n \in Nat /\ Len(t) <= n /\ Len(t) + needed <= n
    BY <1>1
  <2> DEFINE c == [b EXCEPT !.alloced = n, !.block = n]
  <2> HIDE DEF t, a, k, f, u, n, c
  <2>3. c = [text |-> t, alloced |-> n, block |-> n, fits |-> f, cur |-> u]
    <3>1. b = [text |-> t, alloced |-> a, block |-> k, fits |-> f, cur |-> u]
      BY <1>1
    <3>2. c = [b EXCEPT !.alloced = n, !.block = n]
      BY DEF c
    <3> QED BY <3>1, <3>2
  <2>4. c \in Builders(me) /\ c.text = t /\ c.cur = u /\ c.alloced = n
    BY <1>1, <2>2, <2>3 DEF Builders
  <2> QED BY <2>1, <2>2, <2>4 DEF c, t, u
<1>3. CASE ~(needed > a - Len(t))
  <2>1. Room(b, needed, more) = b
    BY <1>3 DEF Room
  <2>2. Len(t) + needed <= a
    BY <1>1, <1>3
  <2> QED BY <2>1, <2>2
<1> QED BY <1>2, <1>3

LEMMA PutIs ==
  ASSUME NEW me \in Seq(Char), NEW b \in Builders(me), NEW s \in Seq(Char), Len(b.text) + Len(s) <= b.alloced
  PROVE  LET c == Put(b, s)
         IN  c \in Builders(me) /\ c.text = b.text \o s /\ c.cur = b.cur /\ c.alloced = b.alloced
             /\ Len(c.text) = Len(b.text) + Len(s)
<1> DEFINE t == b.text
           a == b.alloced
           k == b.block
           f == b.fits
           u == b.cur
           n == t \o s
           g == f /\ Len(t) + Len(s) <= k
           c == [b EXCEPT !.text = n, !.fits = g]
<1>1. /\ b = [text |-> t, alloced |-> a, block |-> k, fits |-> f, cur |-> u]
      /\ t \in Seq(Char) /\ Len(t) \in Nat /\ a \in Nat /\ k \in Nat /\ f /\ f \in BOOLEAN /\ u \in 0..Len(me)
      /\ Len(t) <= a /\ a <= k
  BY BuilderOf, Zenon
<1>2. Put(b, s) = c
  BY Zenon DEF Put
<1>3. Len(s) \in Nat
  BY LenProperties
<1>4. n \in Seq(Char) /\ Len(n) = Len(t) + Len(s)
  BY <1>1, ConcatProperties
<1>5. g /\ g \in BOOLEAN /\ Len(n) <= a
  BY <1>1, <1>3, <1>4
<1> HIDE DEF t, a, k, f, u, n, g, c
<1>6. c = [text |-> n, alloced |-> a, block |-> k, fits |-> g, cur |-> u]
  <2>1. b = [text |-> t, alloced |-> a, block |-> k, fits |-> f, cur |-> u]
    BY <1>1
  <2>2. c = [b EXCEPT !.text = n, !.fits = g]
    BY DEF c
  <2> QED BY <2>1, <2>2
<1>7. c \in Builders(me) /\ c.text = n /\ c.cur = u /\ c.alloced = a
  BY <1>1, <1>4, <1>5, <1>6 DEF Builders
<1> QED BY <1>2, <1>4, <1>7 DEF c, t, a, u, n

\* A part of a string, with what it is.
LEMMA PartOf ==
  ASSUME NEW s \in Seq(Char), NEW i \in Nat, NEW j \in Nat, i <= j, j <= Len(s)
  PROVE  /\ SubSeq(s, i + 1, j) \in Seq(Char) /\ Len(SubSeq(s, i + 1, j)) = j - i
         /\ \A k \in 1..j - i : SubSeq(s, i + 1, j)[k] = s[i + k]
<1>1. Len(s) \in Nat /\ \A k \in 1..Len(s) : s[k] \in Char
  BY LenProperties
<1>2. /\ i + 1 \in Int /\ j \in Int /\ j - (i + 1) + 1 = j - i /\ (i + 1 <= j <=> i # j)
      /\ \A k \in i + 1..j : k \in 1..Len(s)
  BY <1>1
<1>3. /\ SubSeq(s, i + 1, j) \in Seq(Char)
      /\ Len(SubSeq(s, i + 1, j)) = IF i + 1 <= j THEN j - (i + 1) + 1 ELSE 0
      /\ \A k \in 1..j - (i + 1) + 1 : SubSeq(s, i + 1, j)[k] = s[(i + 1) + k - 1]
  BY <1>1, <1>2, SubSeqProperties
<1>4. \A k \in 1..j - i : (i + 1) + k - 1 = i + k
  OBVIOUS
<1> QED BY <1>2, <1>3, <1>4

\* A span of a string, and the piece at it.
Inside(span, s) == span \in Nat \X Nat /\ span[2] > 0 /\ EndOf(span) <= Len(s)
LEMMA PieceOf ==
  ASSUME NEW s \in Seq(Char), NEW span, Inside(span, s)
  PROVE  /\ span[1] \in Nat /\ span[2] \in Nat /\ EndOf(span) \in Nat /\ span[1] < EndOf(span)
         /\ PieceAt(s, span) = SubSeq(s, span[1] + 1, EndOf(span)) /\ PieceAt(s, span) \in Seq(Char)
<1>1. span[1] \in Nat /\ span[2] \in Nat
  BY DEF Inside
<1>2. EndOf(span) = span[1] + span[2] /\ EndOf(span) \in Nat /\ span[1] < EndOf(span) /\ EndOf(span) <= Len(s)
  BY <1>1 DEF EndOf, Inside
<1>3. PieceAt(s, span) = SubSeq(s, span[1] + 1, EndOf(span))
  BY <1>2 DEF PieceAt
<1> QED BY <1>1, <1>2, <1>3, PartOf

LEMMA ReplacedAtIs ==
  ASSUME NEW me \in Seq(Char), NEW b \in Builders(me), NEW out \in Seq(Char),
         NEW span, Inside(span, me), b.cur <= span[1]
  PROVE  LET c == ReplacedAt(me, b, out, span)
         IN  /\ c \in Builders(me) /\ c.cur = EndOf(span)
             /\ c.text = (b.text \o SubSeq(me, b.cur + 1, span[1])) \o out
<1> DEFINE between == SubSeq(me, b.cur + 1, span[1])
           needed == Len(out) + Len(between)
           r == Room(b, needed, needed + Len(me))
           p == Put(r, between)
           q == Put(p, out)
           e == EndOf(span)
           c == [q EXCEPT !.cur = e]
<1>1. ReplacedAt(me, b, out, span) = c
  BY Zenon DEF ReplacedAt
<1>2. span[1] \in Nat /\ e \in Nat /\ span[1] < e /\ e <= Len(me) /\ b.cur \in Nat /\ Len(me) \in Nat
  BY PieceOf, BuilderOf, LenProperties DEF Inside
<1>3. between \in Seq(Char) /\ Len(between) \in Nat /\ Len(out) \in Nat
  BY <1>2, PartOf, LenProperties
<1> HIDE DEF between, e
<1>4. /\ r \in Builders(me) /\ r.text = b.text /\ r.cur = b.cur
      /\ Len(b.text) + needed <= r.alloced
  <2>1. needed \in Nat /\ needed + Len(me) \in Nat /\ needed <= needed + Len(me)
    BY <1>2, <1>3
  <2> HIDE DEF needed
  <2> QED BY <2>1, RoomIs
<1>5. Len(b.text) \in Nat /\ r.alloced \in Nat
  BY <1>4, BuilderOf
<1> DEFINE x == Len(b.text)
           y == Len(between)
           z == Len(out)
           l == r.alloced
<1>6. x \in Nat /\ y \in Nat /\ z \in Nat /\ l \in Nat /\ x + (z + y) <= l
  BY <1>3, <1>4, <1>5
<1> HIDE DEF r, x, y, z, l
<1>7. x + y <= l /\ (x + y) + z <= l
  BY <1>6
<1>8. p \in Builders(me) /\ p.text = b.text \o between /\ p.alloced = r.alloced
      /\ Len(p.text) = Len(b.text) + Len(between)
  <2>1. Len(r.text) + Len(between) <= r.alloced
    BY <1>4, <1>7 DEF x, y, l
  <2>2. /\ p \in Builders(me) /\ p.text = r.text \o between /\ p.alloced = r.alloced
        /\ Len(p.text) = Len(r.text) + Len(between)
    BY <1>3, <1>4, <2>1, PutIs
  <2> QED BY <1>4, <2>2
<1> HIDE DEF p
<1>9. q \in Builders(me) /\ q.text = (b.text \o between) \o out
  <2>1. Len(p.text) + Len(out) <= p.alloced
    BY <1>7, <1>8 DEF x, y, z, l
  <2>2. q \in Builders(me) /\ q.text = p.text \o out
    BY <1>8, <2>1, PutIs
  <2> QED BY <1>8, <2>2
<1> HIDE DEF q
<1>10. c \in Builders(me) /\ c.cur = e /\ c.text = q.text
  <2> DEFINE t == q.text
             a == q.alloced
             k == q.block
             f == q.fits
             u == q.cur
  <2>1. /\ q = [text |-> t, alloced |-> a, block |-> k, fits |-> f, cur |-> u]
        /\ t \in Seq(Char) /\ Len(t) \in Nat /\ a \in Nat /\ k \in Nat /\ f /\ f \in BOOLEAN
        /\ Len(t) <= a /\ a <= k
    BY <1>9, BuilderOf, Zenon
  <2> HIDE DEF t, a, k, f, u, c
  <2>2. c = [text |-> t, alloced |-> a, block |-> k, fits |-> f, cur |-> e]
    <3>1. q = [text |-> t, alloced |-> a, block |-> k, fits |-> f, cur |-> u]
      BY <2>1
    <3> QED BY <3>1 DEF c
  <2> QED BY <1>2, <2>1, <2>2 DEF Builders, t
<1> QED BY <1>1, <1>9, <1>10 DEF c, between, e

LEMMA FinishIs ==
  ASSUME NEW me \in Seq(Char), NEW b \in Builders(me)
  PROVE  LET c == Finish(me, b)
         IN  c \in Builders(me) /\ c.text = b.text \o SubSeq(me, b.cur + 1, Len(me))
<1> DEFINE rest == SubSeq(me, b.cur + 1, Len(me))
           r == Room(b, Len(rest), Len(rest) + 5)
<1>1. b.cur \in Nat /\ Len(me) \in Nat /\ b.cur <= Len(me)
  BY BuilderOf, LenProperties
<1>2. rest \in Seq(Char) /\ Len(rest) \in Nat
  BY <1>1, PartOf, LenProperties
<1>3. Finish(me, b) = Put(r, rest)
  BY Zenon DEF Finish
<1> HIDE DEF rest
<1>4. r \in Builders(me) /\ r.text = b.text /\ Len(b.text) + Len(rest) <= r.alloced
  <2>1. Len(rest) + 5 \in Nat /\ Len(rest) <= Len(rest) + 5
    BY <1>2
  <2> QED BY <1>2, <2>1, RoomIs
<1> HIDE DEF r
<1>5. Put(r, rest) \in Builders(me) /\ Put(r, rest).text = r.text \o rest
  BY <1>2, <1>4, PutIs
<1> QED BY <1>3, <1>4, <1>5 DEF rest

\* What is built goes from span to span.
Puts(repl) == \A piece \in Seq(Char) : Out(repl, piece) \in Seq(Char)
Reached(spans, k) == IF k = 0 THEN 0 ELSE EndOf(spans[k])
Builds(f, me, repl, spans) ==
  /\ \A k \in 0..Len(spans) : f[k] \in Builders(me) /\ f[k].cur = Reached(spans, k)
  /\ f[0].text = <<>>
  /\ \A k \in 1..Len(spans) :
       f[k].text = (f[k - 1].text \o SubSeq(me, f[k - 1].cur + 1, spans[k][1])) \o Out(repl, PieceAt(me, spans[k]))

\* Spans in order are inside the string, each behind the one before.
LEMMA OrderOf ==
  ASSUME NEW me \in Seq(Char), NEW spans \in Seq(Nat \X Nat), InOrder(spans, me)
  PROVE  /\ Len(spans) \in Nat /\ DOMAIN spans = 1..Len(spans)
         /\ \A k \in 1..Len(spans) : Inside(spans[k], me) /\ Reached(spans, k - 1) <= spans[k][1]
         /\ \A k \in 0..Len(spans) : Reached(spans, k) \in 0..Len(me)
<1>1. /\ Len(spans) \in Nat /\ DOMAIN spans = 1..Len(spans) /\ Len(me) \in Nat
      /\ \A k \in 1..Len(spans) : spans[k] \in Nat \X Nat
  BY LenProperties
<1>2. \A k \in 1..Len(spans) : Inside(spans[k], me)
  BY <1>1 DEF InOrder, Inside
<1>3. \A k \in 1..Len(spans) : Reached(spans, k - 1) <= spans[k][1]
  <2> SUFFICES ASSUME NEW k \in 1..Len(spans) PROVE Reached(spans, k - 1) <= spans[k][1]
    OBVIOUS
  <2>1. spans[k][1] \in Nat
    BY <1>2, PieceOf
  <2>2. CASE k = 1
    BY <2>1, <2>2 DEF Reached
  <2>3. CASE k # 1
    <3>1. k > 1 /\ k - 1 # 0
      BY <2>3
    <3> QED BY <1>1, <3>1 DEF InOrder, Reached
  <2> QED BY <2>2, <2>3
<1>4. \A k \in 0..Len(spans) : Reached(spans, k) \in 0..Len(me)
  <2> SUFFICES ASSUME NEW k \in 0..Len(spans) PROVE Reached(spans, k) \in 0..Len(me)
    OBVIOUS
  <2>1. CASE k = 0
    BY <1>1, <2>1 DEF Reached
  <2>2. CASE k # 0
    <3>1. k \in 1..Len(spans)
      BY <1>1, <2>2
    <3>2. EndOf(spans[k]) \in Nat /\ EndOf(spans[k]) <= Len(me)
      BY <1>2, <3>1, PieceOf DEF Inside
    <3> QED BY <1>1, <2>2, <3>2 DEF Reached
  <2> QED BY <2>1, <2>2
<1> QED BY <1>1, <1>2, <1>3, <1>4

LEMMA BuiltOf ==
  ASSUME NEW me \in Seq(Char), NEW repl, Puts(repl), NEW spans \in Seq(Nat \X Nat), InOrder(spans, me)
  PROVE  \E f : /\ Builds(f, me, repl, spans)
                /\ stlstr_replacing_generic(me, repl, spans) \in Builders(me)
                /\ stlstr_replacing_generic(me, repl, spans).text =
                     f[Len(spans)].text \o SubSeq(me, f[Len(spans)].cur + 1, Len(me))
<1> DEFINE k == Len(spans)
           x == Builder(Len(me))
           out(n) == Out(repl, PieceAt(me, spans[n]))
           More(n, b) == ReplacedAt(me, b, out(n), spans[n])
           S == Builders(me)
           X == [n \in 0..k |-> {b \in S : b.cur = Reached(spans, n)}]
           step == [p \in (1..k) \X S |-> More(p[1], p[2])]
           Body(f) == [n \in 0..k |-> IF n = 0 THEN x ELSE More(n, f[n - 1])]
           built == CHOOSE f : f = Body(f)
<1>0. /\ k \in Nat
      /\ \A n \in 1..k : Inside(spans[n], me) /\ Reached(spans, n - 1) <= spans[n][1]
  BY OrderOf
<1>1. x \in S /\ x.cur = Reached(spans, 0) /\ x.text = <<>>
  <2> DEFINE f == TRUE
             none == <<>>
             a == 2 * Len(me)
             b == 2 * Len(me) + 1
  <2>1. none \in Seq(Char) /\ Len(none) = 0 /\ f \in BOOLEAN /\ f /\ a \in Nat /\ b \in Nat /\ a <= b /\ 0 \in 0..Len(me)
    BY LenProperties
  <2>2. x = [text |-> none, alloced |-> a, block |-> b, fits |-> f, cur |-> 0]
    BY DEF Builder
  <2> HIDE DEF none, f, a, b, x
  <2>3. x \in S
    BY <2>1, <2>2 DEF Builders
  <2>4. x.cur = 0 /\ x.text = none
    BY <2>2
  <2> QED BY <2>3, <2>4 DEF Reached, none
<1>2. (\A n \in 0..k : X[n] = {b \in S : b.cur = Reached(spans, n)}) /\ \A n \in 1..k : n - 1 \in 0..k /\ n \in 0..k
  BY <1>0
<1> HIDE DEF X, x
<1>3. \A n \in 1..k : \A b \in X[n - 1] :
        /\ More(n, b) \in X[n] /\ step[<<n, b>>] = More(n, b)
        /\ More(n, b).text = (b.text \o SubSeq(me, b.cur + 1, spans[n][1])) \o out(n)
  <2> SUFFICES ASSUME NEW n \in 1..k, NEW b \in X[n - 1]
               PROVE  /\ More(n, b) \in X[n] /\ step[<<n, b>>] = More(n, b)
                      /\ More(n, b).text = (b.text \o SubSeq(me, b.cur + 1, spans[n][1])) \o out(n)
    OBVIOUS
  <2>1. b \in S /\ b.cur <= spans[n][1] /\ Inside(spans[n], me)
    BY <1>0, <1>2
  <2>2. out(n) \in Seq(Char)
    <3>1. PieceAt(me, spans[n]) \in Seq(Char)
      BY <2>1, PieceOf
    <3> QED BY <3>1 DEF Puts
  <2>3. /\ More(n, b) \in S /\ More(n, b).cur = EndOf(spans[n])
        /\ More(n, b).text = (b.text \o SubSeq(me, b.cur + 1, spans[n][1])) \o out(n)
    <3> DEFINE o == out(n)
               sp == spans[n]
               c == ReplacedAt(me, b, o, sp)
    <3>1. o \in Seq(Char) /\ Inside(sp, me) /\ b \in Builders(me) /\ b.cur <= sp[1] /\ More(n, b) = c
      BY <2>1, <2>2
    <3> HIDE DEF o, sp, More
    <3>2. c \in Builders(me) /\ c.cur = EndOf(sp) /\ c.text = (b.text \o SubSeq(me, b.cur + 1, sp[1])) \o o
      BY <3>1, ReplacedAtIs
    <3> QED BY <3>1, <3>2 DEF o, sp
  <2>4. Reached(spans, n) = EndOf(spans[n])
    BY DEF Reached
  <2>5. step[<<n, b>>] = More(n, b)
    BY <2>1
  <2> HIDE DEF More, S, k
  <2> QED BY <1>2, <2>3, <2>4, <2>5
<1> HIDE DEF More, step, k, out
<1>4. Leads(k, X, step)
  BY <1>3 DEF Leads
<1>5. x \in X[0] /\ 0 \in 0..k /\ k \in 0..k
  BY <1>0, <1>1, <1>2
<1>6. built = Body(built)
  <2>1. PICK f : Loops(f, k, X, x, step)
    BY <1>0, <1>4, <1>5, Loop
  <2>2. \A n \in 0..k : n = 0 \/ (n \in 1..k /\ f[n - 1] \in X[n - 1])
    BY <1>0, <2>1 DEF Loops
  <2>3. \A n \in 0..k : (IF n = 0 THEN x ELSE step[<<n, f[n - 1]>>]) = (IF n = 0 THEN x ELSE More(n, f[n - 1]))
    BY <1>3, <2>2
  <2>4. f = Body(f)
    BY <2>1, <2>3 DEF Loops
  <2> QED BY <2>4
<1> HIDE DEF built
<1>7. built[0] = x /\ \A n \in 1..k : built[n] = More(n, built[n - 1])
  BY <1>0, <1>6
<1>8. \A n \in 0..k : built[n] \in X[n]
  <2>1. ASSUME NEW n \in 1..k, built[n - 1] \in X[n - 1] PROVE built[n] \in X[n]
    <3>1. More(n, built[n - 1]) \in X[n]
      BY <1>3, <2>1
    <3> QED BY <1>7, <3>1
  <2> QED BY <1>0, <1>5, <1>7, <2>1, Along
<1>9. \A n \in 1..k : built[n].text = (built[n - 1].text \o SubSeq(me, built[n - 1].cur + 1, spans[n][1])) \o out(n)
  <2> TAKE n \in 1..k
  <2>1. built[n - 1] \in X[n - 1] /\ built[n] = More(n, built[n - 1])
    BY <1>2, <1>7, <1>8
  <2> QED BY <1>3, <2>1
<1>10. Builds(built, me, repl, spans)
  BY <1>1, <1>2, <1>7, <1>8, <1>9 DEF Builds, k, out
<1>11. stlstr_replacing_generic(me, repl, spans) = Finish(me, built[k])
  BY Zenon DEF stlstr_replacing_generic, k, More, x, built, out
<1>12. built[k] \in S
  BY <1>2, <1>5, <1>8
<1>13. Finish(me, built[k]) \in S /\ Finish(me, built[k]).text = built[k].text \o SubSeq(me, built[k].cur + 1, Len(me))
  BY <1>12, FinishIs
<1> QED BY <1>10, <1>11, <1>13 DEF k

\* Whatever is put in for the matches, the builder has room for all of it.
LEMMA BuilderRoom ==
  ASSUME NEW me \in Seq(Char), NEW repl, Puts(repl), NEW spans \in Seq(Nat \X Nat), InOrder(spans, me)
  PROVE  LET c == stlstr_replacing_generic(me, repl, spans)
         IN  c.text \in Seq(Char) /\ c.fits /\ Len(c.text) <= c.alloced
<1>1. stlstr_replacing_generic(me, repl, spans) \in Builders(me)
  BY BuiltOf
<1> QED BY <1>1, BuilderOf

LEMMA PlainPart ==
  ASSUME NEW s \in Seq(Char), Plain(s), NEW i \in Nat, NEW j \in Nat, i <= j, j <= Len(s)
  PROVE  Plain(SubSeq(s, i + 1, j))
<1>1. /\ Len(SubSeq(s, i + 1, j)) = j - i /\ SubSeq(s, i + 1, j) \in Seq(Char)
      /\ \A k \in 1..j - i : SubSeq(s, i + 1, j)[k] = s[i + k]
  BY PartOf
<1>2. DOMAIN SubSeq(s, i + 1, j) = 1..j - i /\ DOMAIN s = 1..Len(s) /\ Len(s) \in Nat
  BY <1>1, LenProperties
<1>3. \A k \in 1..j - i : i + k \in 1..Len(s)
  BY <1>2
<1> QED BY <1>1, <1>2, <1>3 DEF Plain

\* A match replaced by itself leaves the string as it was.
LEMMA SameBack ==
  ASSUME NEW me \in Seq(Char), Plain(me), NEW repl, repl.callback = "same",
         NEW spans \in Seq(Nat \X Nat), InOrder(spans, me)
  PROVE  stlstr_replacing_generic(me, repl, spans).text = me
<1> DEFINE k == Len(spans)
           P(n) == SubSeq(me, 1, n)
<1>1. \A piece : Out(repl, piece) = stlstr_copy_and_escape(piece)
  BY DEF Out
<1>2. Puts(repl)
  BY <1>1, CopyOf DEF Puts
<1>3. PICK f : /\ Builds(f, me, repl, spans)
               /\ stlstr_replacing_generic(me, repl, spans).text = f[k].text \o SubSeq(me, f[k].cur + 1, Len(me))
  BY <1>2, BuiltOf
<1>4. /\ k \in Nat /\ Len(me) \in Nat
      /\ \A n \in 1..k : Inside(spans[n], me) /\ Reached(spans, n - 1) <= spans[n][1]
      /\ \A n \in 0..k : Reached(spans, n) \in 0..Len(me)
  BY OrderOf, LenProperties
<1> DEFINE X == [n \in 0..k |-> {b \in Builders(me) : b.text = P(Reached(spans, n))}]
<1>5. \A n \in 0..k : f[n] \in Builders(me) /\ f[n].cur = Reached(spans, n)
  BY <1>3 DEF Builds
<1>6. \A n \in 0..k : X[n] = {b \in Builders(me) : b.text = P(Reached(spans, n))}
  OBVIOUS
<1>7. f[0] \in X[0]
  <2>1. P(0) = <<>> /\ Reached(spans, 0) = 0
    BY SubSeqEmpty DEF Reached
  <2>2. f[0].text = <<>> /\ f[0] \in Builders(me) /\ 0 \in 0..k
    BY <1>3, <1>4 DEF Builds
  <2> QED BY <1>6, <2>1, <2>2
<1> HIDE DEF X
<1>8. ASSUME NEW n \in 1..k, f[n - 1] \in X[n - 1] PROVE f[n] \in X[n]
  <2> DEFINE a == Reached(spans, n - 1)
             b == spans[n][1]
             c == EndOf(spans[n])
  <2>1. n - 1 \in 0..k /\ n \in 0..k
    BY <1>4
  <2>2. f[n - 1].text = P(a) /\ f[n - 1].cur = a
    BY <1>5, <1>6, <1>8, <2>1
  <2>3. a \in Nat /\ b \in Nat /\ c \in Nat /\ a <= b /\ b < c /\ c <= Len(me)
        /\ PieceAt(me, spans[n]) = SubSeq(me, b + 1, c)
    <3> DEFINE sp == spans[n]
    <3>1. Inside(sp, me) /\ a <= sp[1] /\ a \in 0..Len(me)
      BY <1>4, <2>1
    <3> HIDE DEF sp, a
    <3>2. /\ sp[1] \in Nat /\ EndOf(sp) \in Nat /\ sp[1] < EndOf(sp)
          /\ PieceAt(me, sp) = SubSeq(me, sp[1] + 1, EndOf(sp))
      BY <3>1, PieceOf
    <3>3. EndOf(sp) <= Len(me)
      BY <3>1 DEF Inside
    <3> QED BY <3>1, <3>2, <3>3 DEF sp
  <2> HIDE DEF a, b, c
  <2>4. Out(repl, PieceAt(me, spans[n])) = SubSeq(me, b + 1, c)
    <3>1. b <= c
      BY <2>3
    <3>2. SubSeq(me, b + 1, c) \in Seq(Char)
      BY <2>3, <3>1, PartOf
    <3>3. Plain(SubSeq(me, b + 1, c))
      BY <2>3, <3>1, PlainPart
    <3> QED BY <1>1, <2>3, <3>2, <3>3, CopyOf
  <2>5. f[n].text = (P(a) \o SubSeq(me, a + 1, b)) \o SubSeq(me, b + 1, c)
    BY <1>3, <2>2, <2>4 DEF Builds, b
  <2>6. P(a) \o SubSeq(me, a + 1, b) = P(b)
    <3>1. 1 \in 1..Len(me) + 1 /\ a \in (1 - 1)..Len(me) /\ b \in a..Len(me)
      BY <1>4, <2>3
    <3> QED BY <3>1, ConcatAdjacentSubSeq
  <2>7. P(b) \o SubSeq(me, b + 1, c) = P(c)
    <3>1. 1 \in 1..Len(me) + 1 /\ b \in (1 - 1)..Len(me) /\ c \in b..Len(me)
      BY <1>4, <2>3
    <3> QED BY <3>1, ConcatAdjacentSubSeq
  <2>8. f[n].text = P(c) /\ f[n] \in Builders(me)
    BY <1>5, <2>1, <2>5, <2>6, <2>7
  <2>9. Reached(spans, n) = c
    BY DEF Reached, c
  <2> QED BY <1>6, <2>1, <2>8, <2>9
<1>9. f[k] \in X[k] /\ k \in 0..k
  <2>1. \A n \in 0..k : f[n] \in X[n]
    BY <1>4, <1>7, <1>8, Along
  <2> QED BY <1>4, <2>1
<1> DEFINE a == Reached(spans, k)
           l == Len(me)
<1>10. f[k].text = P(a) /\ f[k].cur = a /\ a \in 0..l /\ l \in Nat
  BY <1>4, <1>5, <1>6, <1>9
<1> HIDE DEF a
<1>11. P(a) \o SubSeq(me, a + 1, l) = P(l)
  <2>1. 1 \in 1..Len(me) + 1 /\ a \in (1 - 1)..Len(me) /\ l \in a..Len(me)
    BY <1>10
  <2> QED BY <2>1, ConcatAdjacentSubSeq
<1>12. P(l) = me
  BY SubSeqFull
<1> QED BY <1>3, <1>10, <1>11, <1>12

-----------------------------------------------------------------------------
(* Looking for a string in another.                                         *)

\* sub is at place j of s.
At(s, sub, j) == j + Len(sub) - 1 <= Len(s) /\ SubSeq(s, j, j + Len(sub) - 1) = sub

\* The first place from i on where sub is.
LEMMA FirstOf ==
  ASSUME NEW s \in Seq(Char), NEW sub \in Seq(Char), sub # <<>>, NEW i \in Nat, i >= 1
  PROVE  LET j == strstr(s, sub, i)
         IN  /\ j \in Nat
             /\ j # 0 => j >= i /\ At(s, sub, j)
             /\ \A x \in Nat : x >= i /\ At(s, sub, x) => j # 0 /\ j <= x
<1> DEFINE l == Len(s)
           m == Len(sub)
           at == {x \in i..(l - m + 1) : SubSeq(s, x, x + m - 1) = sub}
<1>1. l \in Nat /\ m \in Nat /\ m >= 1
  BY LenProperties
<1>2. strstr(s, sub, i) = IF at = {} THEN 0 ELSE Min(at)
  BY DEF strstr
<1> HIDE DEF l, m
<1>3. \A x \in Nat : x >= i /\ At(s, sub, x) <=> x \in at
  <2> SUFFICES ASSUME NEW x \in Nat PROVE x >= i /\ At(s, sub, x) <=> x \in at
    OBVIOUS
  <2>1. x \in i..(l - m + 1) <=> x >= i /\ x + m - 1 <= l
    BY <1>1
  <2> QED BY <2>1 DEF At, l, m
<1>4. CASE at = {}
  BY <1>2, <1>3, <1>4
<1>5. CASE at # {}
  <2>1. at \in SUBSET Nat
    BY <1>1
  <2> HIDE DEF at
  <2>2. Min(at) \in at /\ \A y \in at : Min(at) <= y
    BY <1>5, <2>1, MinOf
  <2>3. Min(at) \in Nat /\ Min(at) >= i /\ At(s, sub, Min(at)) /\ Min(at) # 0
    <3> DEFINE y == Min(at)
    <3>1. y \in Nat /\ y \in at
      BY <2>1, <2>2
    <3> HIDE DEF y
    <3>2. y >= i /\ At(s, sub, y)
      BY <1>3, <3>1
    <3>3. y # 0
      BY <3>1, <3>2
    <3> QED BY <3>1, <3>2, <3>3 DEF y
  <2> QED BY <1>2, <1>3, <1>5, <2>2, <2>3
<1> QED BY <1>4, <1>5

\* Every span is the first place behind the one before.
Firsts(s, sub, spans) ==
  \A k \in 1..Len(spans) :
     LET j == strstr(s, sub, Reached(spans, k - 1) + 1) IN j # 0 /\ spans[k] = <<j - 1, Len(sub)>>
Finding(s, sub, n) ==
  {f \in [spans : Seq(Nat \X Nat), from : Nat] :
     /\ InOrder(f.spans, s) /\ Firsts(s, sub, f.spans)
     /\ f.from = Reached(f.spans, Len(f.spans)) + 1
     /\ strstr(s, sub, f.from) = 0 \/ f.from > n}

\* One more span.
LEMMA OneSpanMore ==
  ASSUME NEW s \in Seq(Char), NEW sub \in Seq(Char), sub # <<>>, NEW spans \in Seq(Nat \X Nat),
         InOrder(spans, s), Firsts(s, sub, spans),
         NEW j, j = strstr(s, sub, Reached(spans, Len(spans)) + 1), j # 0
  PROVE  LET more == Append(spans, <<j - 1, Len(sub)>>)
         IN  /\ more \in Seq(Nat \X Nat) /\ InOrder(more, s) /\ Firsts(s, sub, more)
             /\ Reached(more, Len(more)) + 1 = j + Len(sub) /\ j \in Nat /\ j >= Reached(spans, Len(spans)) + 1
<1> DEFINE n == Len(spans)
           m == Len(sub)
           sp == <<j - 1, m>>
           more == Append(spans, sp)
           from == Reached(spans, n)
<1>1. /\ n \in Nat /\ DOMAIN spans = 1..n /\ Len(s) \in Nat /\ m \in Nat /\ m >= 1
      /\ \A k \in 1..n : Inside(spans[k], s) /\ Reached(spans, k - 1) <= spans[k][1]
      /\ from \in 0..Len(s)
  <2>1. Len(s) \in Nat /\ m \in Nat /\ m >= 1
    BY LenProperties
  <2>2. /\ n \in Nat /\ DOMAIN spans = 1..n
        /\ \A k \in 1..n : Inside(spans[k], s) /\ Reached(spans, k - 1) <= spans[k][1]
        /\ \A k \in 0..n : Reached(spans, k) \in 0..Len(s)
    BY OrderOf
  <2>3. from \in 0..Len(s)
    BY <2>2
  <2> QED BY <2>1, <2>2, <2>3
<1>2. j \in Nat /\ j >= from + 1 /\ j + m - 1 <= Len(s)
  <2>1. from + 1 \in Nat /\ from + 1 >= 1 /\ j = strstr(s, sub, from + 1)
    BY <1>1
  <2> HIDE DEF from
  <2> QED BY <2>1, FirstOf DEF At
<1> HIDE DEF n, m
<1>3. sp \in Nat \X Nat /\ sp[1] = j - 1 /\ sp[2] = m /\ EndOf(sp) = j + m - 1
  BY <1>1, <1>2 DEF EndOf
<1>4. /\ more \in Seq(Nat \X Nat) /\ Len(more) = n + 1 /\ DOMAIN more = 1..n + 1
      /\ more[n + 1] = sp /\ \A k \in 1..n : more[k] = spans[k]
  <2> HIDE DEF sp
  <2> QED BY <1>1, <1>3, AppendProperties DEF n
<1> HIDE DEF sp, more
<1>5. \A k \in 0..n : Reached(more, k) = Reached(spans, k)
  BY <1>1, <1>4 DEF Reached
<1>6. Reached(more, n + 1) = j + m - 1
  BY <1>1, <1>3, <1>4 DEF Reached
<1>7. InOrder(more, s)
  <2> SUFFICES ASSUME NEW k \in 1..n + 1
               PROVE  /\ more[k][1] >= 0 /\ more[k][2] > 0 /\ EndOf(more[k]) <= Len(s)
                      /\ k > 1 => EndOf(more[k - 1]) <= more[k][1]
    BY <1>4 DEF InOrder
  <2>1. CASE k = n + 1
    <3>1. /\ more[k][1] >= 0 /\ more[k][2] > 0 /\ EndOf(more[k]) <= Len(s)
      BY <1>1, <1>2, <1>3, <1>4, <2>1
    <3>2. ASSUME k > 1 PROVE EndOf(more[k - 1]) <= more[k][1]
      <4>1. k - 1 = n /\ n # 0 /\ n \in 1..n
        BY <1>1, <2>1, <3>2
      <4>2. EndOf(more[k - 1]) = from
        BY <1>4, <4>1 DEF Reached, n
      <4> QED BY <1>1, <1>2, <1>3, <1>4, <2>1, <4>2
    <3> QED BY <3>1, <3>2
  <2>2. CASE k # n + 1
    <3>1. k \in 1..n /\ (k > 1 => k - 1 \in 1..n)
      BY <1>1, <2>2
    <3> QED BY <1>1, <1>4, <3>1 DEF InOrder
  <2> QED BY <2>1, <2>2
<1>8. Firsts(s, sub, more)
  <2> SUFFICES ASSUME NEW k \in 1..n + 1
               PROVE  LET x == strstr(s, sub, Reached(more, k - 1) + 1) IN x # 0 /\ more[k] = <<x - 1, Len(sub)>>
    BY <1>4 DEF Firsts
  <2>1. k - 1 \in 0..n /\ Reached(more, k - 1) = Reached(spans, k - 1)
    <3>1. k - 1 \in 0..n
      BY <1>1
    <3> QED BY <1>5, <3>1
  <2>2. CASE k = n + 1
    <3>1. k - 1 = n
      BY <1>1, <2>2
    <3> QED BY <1>4, <2>1, <2>2, <3>1 DEF sp, m, n
  <2>3. CASE k # n + 1
    <3>1. k \in 1..n
      BY <1>1, <2>3
    <3> QED BY <1>4, <2>1, <3>1 DEF Firsts, n
  <2> QED BY <2>2, <2>3
<1>9. Reached(more, Len(more)) + 1 = j + m
  BY <1>1, <1>2, <1>4, <1>6
<1> QED BY <1>2, <1>4, <1>7, <1>8, <1>9 DEF more, sp, m, n

LEMMA FoundAtIs ==
  ASSUME NEW s \in Seq(Char), NEW sub \in Seq(Char), sub # <<>>, NEW n \in 1..Len(s), NEW f \in Finding(s, sub, n - 1)
  PROVE  FoundAt(f, s, sub) \in Finding(s, sub, n)
<1> DEFINE j == strstr(s, sub, f.from)
           more == Append(f.spans, <<j - 1, Len(sub)>>)
           g == [spans |-> more, from |-> j + Len(sub)]
<1>1. /\ f.spans \in Seq(Nat \X Nat) /\ f.from \in Nat /\ InOrder(f.spans, s) /\ Firsts(s, sub, f.spans)
      /\ f.from = Reached(f.spans, Len(f.spans)) + 1 /\ (j = 0 \/ f.from > n - 1)
  BY DEF Finding
<1>2. FoundAt(f, s, sub) = IF j = 0 THEN f ELSE g
  BY Zenon DEF FoundAt
<1>3. CASE j = 0
  BY <1>2, <1>3 DEF Finding
<1>4. CASE j # 0
  <2>1. /\ more \in Seq(Nat \X Nat) /\ InOrder(more, s) /\ Firsts(s, sub, more)
        /\ Reached(more, Len(more)) + 1 = j + Len(sub) /\ j \in Nat /\ j >= f.from
    <3>1. j = strstr(s, sub, Reached(f.spans, Len(f.spans)) + 1)
      BY <1>1
    <3> HIDE DEF j
    <3> QED BY <1>1, <1>4, <3>1, OneSpanMore
  <2>2. Len(sub) \in Nat /\ Len(sub) >= 1
    BY LenProperties
  <2> DEFINE l == j + Len(sub)
  <2> HIDE DEF j, more
  <2>3. l \in Nat /\ l > n
    <3>1. n \in Nat /\ f.from > n - 1
      BY <1>1, <1>4
    <3> QED BY <1>1, <2>1, <2>2, <3>1
  <2>4. g = [spans |-> more, from |-> l] /\ Reached(more, Len(more)) + 1 = l
    BY <2>1
  <2> HIDE DEF l, g
  <2>5. g \in Finding(s, sub, n)
    BY <2>1, <2>3, <2>4 DEF Finding
  <2> QED BY <1>2, <1>4, <2>5
<1> QED BY <1>3, <1>4

\* What is found is in order, and there is no more of it.
LEMMA SpansOf ==
  ASSUME NEW s \in Seq(Char), NEW sub \in Seq(Char), sub # <<>>
  PROVE  LET spans == Spans(s, sub)
         IN  /\ spans \in Seq(Nat \X Nat) /\ InOrder(spans, s) /\ Firsts(s, sub, spans)
             /\ strstr(s, sub, Reached(spans, Len(spans)) + 1) = 0
<1> DEFINE k == Len(s)
           x == [spans |-> <<>>, from |-> 1]
           More(n, f) == FoundAt(f, s, sub)
           X == [n \in 0..k |-> Finding(s, sub, n)]
           S == [spans : Seq(Nat \X Nat), from : Nat]
           step == [p \in (1..k) \X S |-> More(p[1], p[2])]
           Body(f) == [n \in 0..k |-> IF n = 0 THEN x ELSE More(n, f[n - 1])]
           found == CHOOSE f : f = Body(f)
<1>0. k \in Nat
  BY LenProperties
<1>1. x \in Finding(s, sub, 0)
  <2> DEFINE none == <<>>
  <2>1. none \in Seq(Nat \X Nat) /\ Len(none) = 0 /\ DOMAIN none = {}
    OBVIOUS
  <2> HIDE DEF none
  <2>2. InOrder(none, s) /\ Firsts(s, sub, none) /\ Reached(none, Len(none)) + 1 = 1
    BY <2>1 DEF InOrder, Firsts, Reached
  <2>3. x = [spans |-> none, from |-> 1]
    BY DEF none
  <2> HIDE DEF x
  <2> QED BY <2>1, <2>2, <2>3 DEF Finding
<1>2. (\A n \in 0..k : X[n] = Finding(s, sub, n)) /\ \A n \in 1..k : n - 1 \in 0..k /\ n \in 0..k
  BY <1>0
<1> HIDE DEF X, x
<1>3. \A n \in 1..k : \A f \in X[n - 1] : More(n, f) \in X[n] /\ step[<<n, f>>] = More(n, f)
  <2> SUFFICES ASSUME NEW n \in 1..k, NEW f \in X[n - 1]
               PROVE  More(n, f) \in X[n] /\ step[<<n, f>>] = More(n, f)
    OBVIOUS
  <2>1. X[n - 1] = Finding(s, sub, n - 1) /\ X[n] = Finding(s, sub, n)
    BY <1>2
  <2>2. More(n, f) \in Finding(s, sub, n)
    BY <2>1, FoundAtIs
  <2>3. f \in S
    BY <2>1 DEF Finding
  <2> HIDE DEF More, S, k
  <2> QED BY <2>1, <2>2, <2>3
<1> HIDE DEF More, step, k
<1>4. Leads(k, X, step)
  BY <1>3 DEF Leads
<1>5. x \in X[0] /\ 0 \in 0..k /\ k \in 0..k
  BY <1>0, <1>1, <1>2
<1>6. found = Body(found)
  <2>1. PICK f : Loops(f, k, X, x, step)
    BY <1>0, <1>4, <1>5, Loop
  <2>2. \A n \in 0..k : n = 0 \/ (n \in 1..k /\ f[n - 1] \in X[n - 1])
    BY <1>0, <2>1 DEF Loops
  <2>3. \A n \in 0..k : (IF n = 0 THEN x ELSE step[<<n, f[n - 1]>>]) = (IF n = 0 THEN x ELSE More(n, f[n - 1]))
    BY <1>3, <2>2
  <2>4. f = Body(f)
    BY <2>1, <2>3 DEF Loops
  <2> QED BY <2>4
<1> HIDE DEF found
<1>7. found[0] = x /\ \A n \in 1..k : found[n] = More(n, found[n - 1])
  BY <1>0, <1>6
<1>8. found[k] \in Finding(s, sub, k)
  <2>1. ASSUME NEW n \in 1..k, found[n - 1] \in X[n - 1] PROVE found[n] \in X[n]
    <3>1. More(n, found[n - 1]) \in X[n]
      BY <1>3, <2>1
    <3> QED BY <1>7, <3>1
  <2>2. \A n \in 0..k : found[n] \in X[n]
    BY <1>0, <1>5, <1>7, <2>1, Along
  <2> QED BY <1>2, <1>5, <2>2
<1>9. Spans(s, sub) = found[k].spans
  BY Zenon DEF Spans, k, More, x, found
<1> DEFINE e == found[k]
<1>10. /\ e.spans \in Seq(Nat \X Nat) /\ InOrder(e.spans, s) /\ Firsts(s, sub, e.spans)
       /\ e.from \in Nat /\ e.from = Reached(e.spans, Len(e.spans)) + 1
       /\ strstr(s, sub, e.from) = 0 \/ e.from > k
  BY <1>8 DEF Finding
<1> HIDE DEF e
<1>11. strstr(s, sub, e.from) = 0
  <2>1. SUFFICES ASSUME strstr(s, sub, e.from) # 0, e.from > k PROVE FALSE
    BY <1>10
  <2>2. strstr(s, sub, e.from) \in Nat /\ strstr(s, sub, e.from) >= e.from
        /\ strstr(s, sub, e.from) + Len(sub) - 1 <= k
    <3>1. e.from \in Nat /\ e.from >= 1
      BY <1>0, <1>10, <2>1
    <3> QED BY <2>1, <3>1, FirstOf DEF At, k
  <2>3. Len(sub) \in Nat /\ Len(sub) >= 1
    BY LenProperties
  <2> QED BY <1>0, <1>10, <2>1, <2>2, <2>3
<1> QED BY <1>9, <1>10, <1>11 DEF e

-----------------------------------------------------------------------------
(* Multiplying a string.                                                    *)

\* A string that begins with another, as it began.
LEMMA Beginning ==
  ASSUME NEW s \in Seq(Char), NEW t \in Seq(Char)
  PROVE  /\ SubSeq(s \o t, 1, Len(s)) = s /\ s \o t \in Seq(Char)
         /\ Len(s \o t) = Len(s) + Len(t) /\ Len(s) \in Nat /\ Len(t) \in Nat
<1> DEFINE r == s \o t
           n == Len(s)
<1>1. /\ n \in Nat /\ Len(t) \in Nat /\ r \in Seq(Char) /\ Len(r) = n + Len(t)
      /\ \A i \in 1..n + Len(t) : r[i] = IF i <= n THEN s[i] ELSE t[i - n]
  BY LenProperties, ConcatProperties
<1> HIDE DEF r, n
<1>2. /\ SubSeq(r, 1, n) \in Seq(Char) /\ Len(SubSeq(r, 1, n)) = n
      /\ \A i \in 1..n : SubSeq(r, 1, n)[i] = r[i]
  <2>1. n <= Len(r) /\ 0 \in Nat /\ 0 + 1 = 1 /\ n - 0 = n /\ 0 <= n /\ \A i \in 1..n : 0 + i = i
    BY <1>1
  <2>2. /\ SubSeq(r, 0 + 1, n) \in Seq(Char) /\ Len(SubSeq(r, 0 + 1, n)) = n - 0
        /\ \A i \in 1..n - 0 : SubSeq(r, 0 + 1, n)[i] = r[0 + i]
    BY <1>1, <2>1, PartOf
  <2> QED BY <2>1, <2>2
<1>3. \A i \in 1..n : SubSeq(r, 1, n)[i] = s[i]
  BY <1>1, <1>2
<1>4. SubSeq(r, 1, n) = s
  BY <1>2, <1>3, SeqEqual DEF n
<1> QED BY <1>1, <1>4 DEF r, n

\* f[i] is s, i times.
Times(f, s, n) == f \in [1..n -> Seq(Char)] /\ f[1] = s /\ \A i \in 2..n : f[i] = f[i - 1] \o s

LEMMA TimesOf ==
  ASSUME NEW s \in Seq(Char), NEW n \in Nat, n >= 1
  PROVE  \E f : Times(f, s, n) /\ T!Repeated(s, n) = f[n]
<1> DEFINE ss == [i \in 1..n |-> s]
<1>1. ss \in Seq(Seq(Char)) /\ Len(ss) = n /\ Len(ss) # 0 /\ (\A i \in 2..n : ss[i] = s) /\ ss[1] = s
  OBVIOUS
<1>2. T!Repeated(s, n) = FlattenSeq(ss)
  BY Zenon DEF T!Repeated, T!FlattenSeq, FlattenSeq
<1> HIDE DEF ss
<1>3. PICK f \in [1..Len(ss) -> Seq(Char)] :
        /\ f[1] = ss[1] /\ \A i \in 2..Len(ss) : f[i] = f[i - 1] \o ss[i]
        /\ FlattenSeq(ss) = f[Len(ss)]
  BY <1>1, FlattenedUpto
<1> QED BY <1>1, <1>2, <1>3 DEF Times

Sums(f, n) == \A a, b, c \in 1..n : c = a + b => f[c] = f[a] \o f[b]
LEMMA TimesSum ==
  ASSUME NEW s \in Seq(Char), NEW n \in Nat, NEW f, Times(f, s, n)
  PROVE  Sums(f, n)
<1> SUFFICES ASSUME NEW a \in 1..n, NEW b \in 1..n, NEW c \in 1..n, c = a + b
             PROVE  f[c] = f[a] \o f[b]
  BY DEF Sums
<1> DEFINE m == n - a - 1
           T0 == {k \in 0..m : f[a + (k + 1)] = f[a] \o f[k + 1]}
<1>1. m \in Nat /\ f[1] = s /\ \A i \in 1..n : f[i] \in Seq(Char)
  BY DEF Times
<1>2. 0 \in T0
  <2>1. a + 1 \in 2..n /\ (a + 1) - 1 = a /\ 0 + 1 = 1 /\ 0 \in 0..m
    BY <1>1
  <2>2. f[a + 1] = f[a] \o s
    BY <2>1 DEF Times
  <2> QED BY <1>1, <2>1, <2>2
<1>3. ASSUME NEW k \in 1..m, k - 1 \in T0 PROVE k \in T0
  <2>1. /\ k \in 0..m /\ (k - 1) + 1 = k /\ a + (k + 1) \in 2..n /\ k + 1 \in 2..n /\ k \in 1..n
        /\ (a + (k + 1)) - 1 = a + k /\ (k + 1) - 1 = k
    BY <1>1
  <2>2. f[a + k] = f[a] \o f[k]
    BY <1>3, <2>1
  <2>3. f[a + (k + 1)] = f[a + k] \o s /\ f[k + 1] = f[k] \o s
    BY <2>1 DEF Times
  <2>4. (f[a] \o f[k]) \o s = f[a] \o (f[k] \o s)
    <3> DEFINE p == f[a]
               q == f[k]
    <3>1. p \in Seq(Char) /\ q \in Seq(Char)
      BY <1>1, <2>1
    <3> HIDE DEF p, q
    <3>2. (p \o q) \o s = p \o (q \o s)
      BY <3>1, ConcatAssociative
    <3> QED BY <3>2 DEF p, q
  <2> QED BY <2>1, <2>2, <2>3, <2>4
<1>4. 0..m \subseteq T0
  <2> HIDE DEF T0, m
  <2> QED BY <1>1, <1>2, <1>3, Induction
<1>5. b - 1 \in 0..m /\ (b - 1) + 1 = b
  OBVIOUS
<1> QED BY <1>4, <1>5

\* It is as long as it is to be.
LEMMA TimesLong ==
  ASSUME NEW s \in Seq(Char), NEW n \in Nat, n >= 1, NEW f, Times(f, s, n)
  PROVE  Len(f[n]) = Len(s) * n
<1> DEFINE m == n - 1
           T0 == {k \in 0..m : Len(f[k + 1]) = Len(s) * (k + 1)}
<1>1. m \in Nat /\ f[1] = s /\ Len(s) \in Nat /\ \A i \in 1..n : f[i] \in Seq(Char)
  BY LenProperties DEF Times
<1>2. 0 \in T0
  BY <1>1
<1>3. ASSUME NEW k \in 1..m, k - 1 \in T0 PROVE k \in T0
  <2>1. k \in 0..m /\ (k - 1) + 1 = k /\ k + 1 \in 2..n /\ k \in 1..n /\ (k + 1) - 1 = k /\ k \in Nat
    BY <1>1
  <2>2. Len(f[k]) = Len(s) * k
    BY <1>3, <2>1
  <2>3. f[k + 1] = f[k] \o s
    BY <2>1 DEF Times
  <2>4. Len(f[k + 1]) = Len(s) * k + Len(s)
    <3> DEFINE p == f[k]
    <3>1. p \in Seq(Char) /\ Len(p) = Len(s) * k /\ f[k + 1] = p \o s
      BY <1>1, <2>1, <2>2, <2>3
    <3> HIDE DEF p
    <3>2. Len(p \o s) = Len(p) + Len(s)
      BY <3>1, ConcatProperties
    <3> QED BY <3>1, <3>2
  <2> DEFINE l == Len(s)
  <2>5. l \in Nat
    BY <1>1
  <2> HIDE DEF l
  <2>6. l * k + l = l * (k + 1)
    BY <2>1, <2>5
  <2> QED BY <2>1, <2>4, <2>6 DEF l
<1>4. 0..m \subseteq T0
  <2> HIDE DEF T0, m
  <2> QED BY <1>1, <1>2, <1>3, Induction
<1>5. m \in 0..m /\ m + 1 = n
  BY <1>1
<1> QED BY <1>4, <1>5

\* What the next copy makes of a number of times: as often again, or all.
LEMMA LongerIs ==
  ASSUME NEW s \in Seq(Char), NEW n \in Nat, n >= 1, NEW f, Times(f, s, n), NEW e \in 1..n
  PROVE  \E d \in 1..n : Longer(f[e], Len(s) * n) = f[d] /\ (d = n \/ d = e + e)
<1> DEFINE q == f[e]
           targ == Len(s) * n
<1>1. \A i \in 1..n : f[i] \in Seq(Char) /\ Len(f[i]) \in Nat
  BY LenProperties DEF Times
<1>2. Len(f[n]) = targ /\ n \in 1..n /\ Sums(f, n)
  BY TimesLong, TimesSum
<1>3. CASE e = n
  <2>1. Len(q) >= targ
    <3>1. Len(q) = targ /\ Len(q) \in Nat
      BY <1>1, <1>2, <1>3
    <3> HIDE DEF q, targ
    <3> QED BY <3>1
  <2> HIDE DEF q, targ
  <2>2. Longer(q, targ) = q
    BY <2>1 DEF Longer
  <2> QED BY <1>2, <1>3, <2>2 DEF q, targ
<1>4. CASE e # n
  <2>1. PICK c \in 1..n : e + c = n
    <3>1. n - e \in 1..n /\ e + (n - e) = n
      BY <1>4
    <3> QED BY <3>1
  <2> DEFINE p == f[c]
             x == Len(q)
             y == Len(p)
  <2>2. q \in Seq(Char) /\ p \in Seq(Char) /\ x \in Nat /\ y \in Nat
    BY <1>1, <2>1
  <2>3. f[n] = q \o p
    <3>1. n = e + c /\ n \in 1..n
      BY <1>2, <2>1
    <3> QED BY <2>1, <3>1, <1>2 DEF Sums
  <2>4. targ = x + y
    BY <1>2, <2>2, <2>3, ConcatProperties
  <2> HIDE DEF q, p, targ
  <2>5. CASE x >= targ
    <3>1. y = 0
      BY <2>2, <2>4, <2>5
    <3>2. p = <<>>
      BY <2>2, <3>1, EmptySeq
    <3>3. f[n] = q
      BY <2>2, <2>3, <3>2, ConcatEmptySeq
    <3>4. Longer(q, targ) = q
      BY <2>5 DEF Longer
    <3> QED BY <1>2, <3>3, <3>4 DEF q, targ
  <2>6. CASE ~(x >= targ) /\ x <= y
    <3>1. targ - x = y
      BY <2>2, <2>4
    <3>2. Longer(q, targ) = q \o SubSeq(q, 1, x)
      BY <2>6, <3>1 DEF Longer
    <3>3. Longer(q, targ) = q \o q
      BY <2>2, <3>2, SubSeqFull
    <3>4. CASE e <= c
      <4>1. e + e \in 1..n
        BY <2>1, <3>4
      <4>2. f[e + e] = q \o q
        <5> DEFINE d == e + e
        <5>1. d \in 1..n /\ d = e + e
          BY <4>1
        <5> HIDE DEF d
        <5>2. f[d] = f[e] \o f[e]
          BY <5>1, <1>2 DEF Sums
        <5> QED BY <5>2 DEF d, q
      <4> QED BY <3>3, <4>1, <4>2 DEF q, targ
    <3>5. CASE ~(e <= c)
      <4>1. PICK b \in 1..n : c + b = e
        <5>1. e - c \in 1..n /\ c + (e - c) = e
          BY <2>1, <3>5
        <5> QED BY <5>1
      <4>2. q = p \o f[b] /\ f[b] \in Seq(Char) /\ Len(f[b]) \in Nat
        <5>1. e = c + b
          BY <4>1
        <5>2. f[e] = f[c] \o f[b]
          BY <5>1, <1>2, Zenon DEF Sums
        <5> QED BY <1>1, <4>1, <5>2 DEF q, p
      <4>3. x = y + Len(f[b])
        BY <2>2, <4>2, ConcatProperties
      <4>4. Len(f[b]) = 0
        BY <2>2, <2>6, <4>2, <4>3
      <4>5. f[b] = <<>>
        BY <4>2, <4>4, EmptySeq
      <4>6. q = p
        BY <2>2, <4>2, <4>5, ConcatEmptySeq
      <4> QED BY <1>2, <2>3, <3>3, <4>6 DEF q, targ
    <3> QED BY <3>4, <3>5
  <2>7. CASE ~(x >= targ) /\ ~(x <= y)
    <3>1. targ - x = y
      BY <2>2, <2>4
    <3>2. Longer(q, targ) = q \o SubSeq(q, 1, y)
      BY <2>7, <3>1 DEF Longer
    <3>3. c < e
      <4>1. SUFFICES ASSUME e <= c PROVE FALSE
        BY <2>1
      <4>2. CASE e = c
        BY <2>2, <2>7, <4>2 DEF p, q
      <4>3. CASE e # c
        <5>1. PICK b \in 1..n : e + b = c
          <6>1. c - e \in 1..n /\ e + (c - e) = c
            BY <2>1, <4>1, <4>3
          <6> QED BY <6>1
        <5>2. c = e + b
          BY <5>1
        <5>3. f[c] = f[e] \o f[b]
          BY <5>2, <1>2, Zenon DEF Sums
        <5>4. p = q \o f[b] /\ f[b] \in Seq(Char) /\ Len(f[b]) \in Nat
          BY <1>1, <5>1, <5>3 DEF q, p
        <5>5. y = x + Len(f[b])
          BY <2>2, <5>4, ConcatProperties
        <5> QED BY <2>2, <2>7, <5>4, <5>5
      <4> QED BY <4>2, <4>3
    <3>4. PICK b \in 1..n : c + b = e
      <4>1. e - c \in 1..n /\ c + (e - c) = e
        BY <2>1, <3>3
      <4> QED BY <4>1
    <3>5. e = c + b
      BY <3>4
    <3>6. f[e] = f[c] \o f[b]
      BY <3>5, <1>2, Zenon DEF Sums
    <3>7. q = p \o f[b] /\ f[b] \in Seq(Char)
      BY <1>1, <3>4, <3>6 DEF q, p
    <3>8. SubSeq(q, 1, y) = p
      BY <2>2, <3>7, Beginning
    <3> QED BY <1>2, <2>3, <3>2, <3>8 DEF q, targ
  <2> QED BY <2>5, <2>6, <2>7
<1> QED BY <1>3, <1>4

\* Copying what is there behind itself gives the string as often as it is wanted.
LEMMA DoubledOf ==
  ASSUME NEW s \in Seq(Char), NEW count \in Nat, count >= 1
  PROVE  Doubled(s, count) = T!Repeated(s, count) /\ Doubled(s, count) \in Seq(Char)
<1> DEFINE targ == Len(s) * count
           More(n, q) == Longer(q, targ)
<1>0. PICK f : Times(f, s, count) /\ T!Repeated(s, count) = f[count]
  BY TimesOf
<1> DEFINE S == Seq(Char)
           X == [n \in 0..count |-> {q \in S : \E e \in 1..count : q = f[e] /\ (e = count \/ e >= n + 1)}]
           step == [p \in (1..count) \X S |-> More(p[1], p[2])]
           Body(g) == [n \in 0..count |-> IF n = 0 THEN s ELSE More(n, g[n - 1])]
           done == CHOOSE g : g = Body(g)
<1>1. f[1] = s /\ 1 \in 1..count /\ \A i \in 1..count : f[i] \in S
  BY <1>0 DEF Times
<1>2. /\ \A n \in 0..count : X[n] = {q \in S : \E e \in 1..count : q = f[e] /\ (e = count \/ e >= n + 1)}
      /\ \A n \in 1..count : n - 1 \in 0..count /\ n \in 0..count
  OBVIOUS
<1>3. s \in X[0] /\ 0 \in 0..count /\ count \in 0..count
  BY <1>1, <1>2
<1> HIDE DEF X
<1>4. \A n \in 1..count : \A q \in X[n - 1] : More(n, q) \in X[n] /\ step[<<n, q>>] = More(n, q)
  <2> SUFFICES ASSUME NEW n \in 1..count, NEW q \in X[n - 1]
               PROVE  More(n, q) \in X[n] /\ step[<<n, q>>] = More(n, q)
    OBVIOUS
  <2>1. PICK e \in 1..count : q = f[e] /\ (e = count \/ e >= (n - 1) + 1)
    BY <1>2
  <2>2. PICK d \in 1..count : More(n, q) = f[d] /\ (d = count \/ d = e + e)
    BY <1>0, <2>1, LongerIs
  <2>3. d = count \/ d >= n + 1
    <3>1. CASE d = e + e /\ e = count
      BY <2>2, <3>1
    <3>2. CASE d = e + e /\ e >= (n - 1) + 1
      BY <3>2
    <3> QED BY <2>1, <2>2, <3>1, <3>2
  <2>4. q \in S
    BY <1>2
  <2>5. step[<<n, q>>] = More(n, q)
    BY <2>4
  <2> HIDE DEF More, S, step
  <2> QED BY <1>1, <1>2, <2>2, <2>3, <2>5
<1> HIDE DEF More, step, S
<1>5. Leads(count, X, step)
  BY <1>4 DEF Leads
<1>6. done = Body(done)
  <2>1. PICK g : Loops(g, count, X, s, step)
    BY <1>3, <1>5, Loop
  <2>2. \A n \in 0..count : n = 0 \/ (n \in 1..count /\ g[n - 1] \in X[n - 1])
    BY <2>1 DEF Loops
  <2>3. \A n \in 0..count : (IF n = 0 THEN s ELSE step[<<n, g[n - 1]>>]) = (IF n = 0 THEN s ELSE More(n, g[n - 1]))
    BY <1>4, <2>2
  <2>4. g = Body(g)
    BY <2>1, <2>3 DEF Loops
  <2> QED BY <2>4
<1> HIDE DEF done
<1>7. done[0] = s /\ \A n \in 1..count : done[n] = More(n, done[n - 1])
  BY <1>6
<1>8. done[count] \in X[count]
  <2>1. ASSUME NEW n \in 1..count, done[n - 1] \in X[n - 1] PROVE done[n] \in X[n]
    <3>1. More(n, done[n - 1]) \in X[n]
      BY <1>4, <2>1
    <3> QED BY <1>7, <3>1
  <2>2. \A n \in 0..count : done[n] \in X[n]
    BY <1>3, <1>7, <2>1, Along
  <2> QED BY <1>3, <2>2
<1>9. done[count] = f[count] /\ done[count] \in S
  <2>1. PICK e \in 1..count : done[count] = f[e] /\ (e = count \/ e >= count + 1)
    BY <1>2, <1>3, <1>8
  <2> QED BY <1>1, <2>1
<1>10. Doubled(s, count) = done[count]
  BY Zenon DEF Doubled, More, targ, done
<1> QED BY <1>0, <1>9, <1>10 DEF S

-----------------------------------------------------------------------------
(* The methods that make strings.                                           *)

\* The string is a buffer as long as its length says.
IsString == /\ str = [sb |-> str.sb, length |-> str.length]
            /\ str.sb \in Seq(Char \cup {NUL}) /\ str.length = Len(str.sb) /\ str.length <= MaxLength

\* What stlstr_cinit is given becomes a string, no longer than it.
LEMMA CinitOf ==
  ASSUME NEW s \in Seq(Char), Len(s) <= MaxLength
  PROVE  LET c == stlstr_cinit(s)
         IN  /\ c = [sb |-> c.sb, length |-> c.length] /\ c.sb \in Seq(Char) /\ c.sb \in Seq(Char \cup {NUL})
             /\ c.length = Len(c.sb) /\ c.length <= MaxLength /\ (Plain(s) => c.sb = s)
<1> DEFINE q == stlstr_copy_and_escape(s)
<1>1. q \in Seq(Char) /\ Len(q) <= Len(s) /\ (Plain(s) => q = s)
  BY CopyOf
<1>2. stlstr_cinit(s) = [sb |-> q, length |-> Len(q)]
  BY Zenon DEF stlstr_cinit
<1> HIDE DEF q
<1>3. Len(q) \in Nat /\ Len(s) \in Nat /\ MaxLength \in Nat /\ q \in Seq(Char \cup {NUL})
  BY <1>1, LenProperties, StringAssumption, SeqMonotonic
<1>4. Len(q) <= MaxLength
  BY <1>1, <1>3
<1> QED BY <1>1, <1>2, <1>3, <1>4

\* What the string holds.
LEMMA ContentsOf ==
  ASSUME IsString
  PROVE  /\ Contents \in Seq(Char) /\ Len(Contents) \in Nat /\ DOMAIN Contents = 1..Len(Contents)
         /\ \A i \in 1..Len(Contents) : Contents[i] \in Char
<1>1. Contents \in Seq(Char)
  BY CStrIs DEF Contents, IsString
<1> QED BY <1>1, LenProperties

\* Turned round, or its letters changed, it is as long as before.
Backwards(s) == [i \in DOMAIN s |-> s[Len(s) - i + 1]]
LEMMA Turned ==
  ASSUME NEW s \in Seq(Char)
  PROVE  Backwards(s) \in Seq(Char) /\ Backwards(s) = T!Reverse(s)
<1>1. Len(s) \in Nat /\ DOMAIN s = 1..Len(s) /\ \A i \in 1..Len(s) : s[i] \in Char
  BY LenProperties
<1>2. \A i \in 1..Len(s) : Len(s) - i + 1 \in 1..Len(s) /\ (Len(s) - i) + 1 = Len(s) - i + 1
  BY <1>1
<1>3. Backwards(s) = [i \in 1..Len(s) |-> s[Len(s) - i + 1]]
  BY <1>1 DEF Backwards
<1>4. \A i \in 1..Len(s) : s[Len(s) - i + 1] \in Char
  BY <1>1, <1>2
<1>5. [i \in 1..Len(s) |-> s[Len(s) - i + 1]] \in Seq(Char)
  BY <1>1, <1>4
<1> QED BY <1>3, <1>5 DEF T!Reverse

Changed(s, case) == [i \in DOMAIN s |-> IF s[i] \in DOMAIN case THEN case[s[i]] ELSE s[i]]
LEMMA ChangedIs ==
  ASSUME NEW s \in Seq(Char), NEW case, \A ch \in DOMAIN case : case[ch] \in Char
  PROVE  Changed(s, case) \in Seq(Char)
<1>1. Len(s) \in Nat /\ DOMAIN s = 1..Len(s) /\ \A i \in 1..Len(s) : s[i] \in Char
  BY LenProperties
<1> DEFINE e(i) == IF s[i] \in DOMAIN case THEN case[s[i]] ELSE s[i]
<1>2. \A i \in 1..Len(s) : e(i) \in Char
  BY <1>1
<1>3. Changed(s, case) = [i \in 1..Len(s) |-> e(i)]
  BY <1>1 DEF Changed
<1> HIDE DEF e
<1>4. [i \in 1..Len(s) |-> e(i)] \in Seq(Char)
  BY <1>1, <1>2
<1> QED BY <1>3, <1>4

\* What a replacement puts in is a string.
LEMMA PutsIn ==
  ASSUME NEW repl \in Replacement
  PROVE  Puts(repl) /\ repl.text \in Seq(Char) /\ repl.callback \in {"none", "same"}
<1>1. repl.text \in Seq(Char) /\ repl.callback \in {"none", "same"}
  BY StringAssumption
<1>2. ASSUME NEW piece \in Seq(Char) PROVE Out(repl, piece) \in Seq(Char)
  <2>1. stlstr_copy_and_escape(piece) \in Seq(Char)
    BY CopyOf
  <2> QED BY <1>1, <2>1 DEF Out
<1> QED BY <1>1, <1>2 DEF Puts

\* The string a method makes, and the array another gives.
Made(op, arg, s) == s \in Seq(Char) /\ Makes(op, arg, s)
Multiplied(s, count) == IF count = 0 THEN <<>> ELSE Doubled(s, count)
Exchanged(s, search, repl) == stlstr_replacing_generic(s, repl, Spans(s, search))

LEMMA StringSteps ==
  ASSUME IsString, MakesString
  PROVE  \/ Made("copy", <<>>, Contents)
         \/ Made("reverse", <<>>, Backwards(Contents))
         \/ Made("lower", <<>>, Changed(Contents, Lower))
         \/ Made("upper", <<>>, Changed(Contents, UpperOf))
         \/ \E t \in Argument : Made("add", t, Contents \o t) \/ Made("added_to", t, t \o Contents)
         \/ \E count \in Factor : Made("multiply", count, Multiplied(Contents, count))
         \/ \E t \in Argument, repl \in Replacement :
              LET built == Exchanged(Contents, t, repl)
              IN  /\ repl.callback = "none" /\ t # <<>> /\ built.fits /\ Len(built.text) <= built.alloced
                  /\ Made("replace", [search |-> t, repl |-> repl.text, built |-> built], built.text)
         \/ \E t \in Argument : Lists("split_at", t, SplitAt(Contents, t))
         \/ Lists("iterable", <<>>, Characters(Contents))
         \/ \E i \in 1..MaxLength, t \in Argument : stlstr_set_index(i, t)
<1> DEFINE s == Contents
<1>1. s \in Seq(Char)
  BY ContentsOf
<1>2. Argument \subseteq Seq(Char) /\ Factor \subseteq Nat
  BY StringAssumption
<1>3. stlstr_copy => Made("copy", <<>>, s)
  BY <1>1 DEF stlstr_copy, Made
<1>4. stlstr_reverse => Made("reverse", <<>>, Backwards(s))
  <2>1. Backwards(s) \in Seq(Char)
    BY <1>1, Turned
  <2> QED BY <2>1, Zenon DEF stlstr_reverse, Made, Backwards
<1>5. stlstr_to_lower => Made("lower", <<>>, Changed(s, Lower))
  <2>1. Changed(s, Lower) \in Seq(Char)
    BY <1>1, Alphabet, ChangedIs
  <2> QED BY <2>1, Zenon DEF stlstr_to_lower, Mapped, Made, Changed
<1>6. stlstr_to_upper => Made("upper", <<>>, Changed(s, UpperOf))
  <2>1. Changed(s, UpperOf) \in Seq(Char)
    BY <1>1, Alphabet, ChangedIs
  <2> QED BY <2>1, Zenon DEF stlstr_to_upper, Mapped, Made, Changed
<1>7. ASSUME NEW t \in Argument, NEW sbf \in BOOLEAN, stlstr_add(t, sbf)
      PROVE  Made("add", t, s \o t) \/ Made("added_to", t, t \o s)
  <2> HIDE DEF s
  <2>1. s \o t \in Seq(Char) /\ t \o s \in Seq(Char)
    BY <1>1, <1>2, ConcatProperties
  <2> QED BY <1>7, <2>1 DEF stlstr_add, Made, s
<1>8. ASSUME NEW count \in Factor, stlstr_multiply(count)
      PROVE  Made("multiply", count, Multiplied(s, count))
  <2>1. Makes("multiply", count, Multiplied(s, count))
    BY <1>8, Zenon DEF stlstr_multiply, Multiplied
  <2>2. Multiplied(s, count) \in Seq(Char)
    <3> HIDE DEF s
    <3>1. CASE count = 0
      BY <3>1 DEF Multiplied
    <3>2. CASE count # 0
      <4>1. count \in Nat /\ count >= 1
        BY <1>2, <3>2
      <4> QED BY <1>1, <3>2, <4>1, DoubledOf DEF Multiplied
    <3> QED BY <3>1, <3>2
  <2> QED BY <2>1, <2>2 DEF Made
<1>9. ASSUME NEW t \in Argument, NEW repl \in Replacement, repl.callback = "none", stlstr_replacing(t, repl)
      PROVE  LET built == Exchanged(s, t, repl)
             IN  /\ repl.callback = "none" /\ t # <<>> /\ built.fits /\ Len(built.text) <= built.alloced
                 /\ Made("replace", [search |-> t, repl |-> repl.text, built |-> built], built.text)
  <2> DEFINE built == Exchanged(s, t, repl)
  <2>1. t # <<>> /\ Makes("replace", [search |-> t, repl |-> repl.text, built |-> built], built.text)
    BY <1>9, Zenon DEF stlstr_replacing, Exchanged
  <2>2. built.text \in Seq(Char) /\ built.fits /\ Len(built.text) <= built.alloced
    <3> HIDE DEF s
    <3> DEFINE spans == Spans(s, t)
    <3>1. spans \in Seq(Nat \X Nat) /\ InOrder(spans, s) /\ Puts(repl)
      BY <1>1, <1>2, <2>1, SpansOf, PutsIn
    <3>2. built = stlstr_replacing_generic(s, repl, spans)
      BY DEF Exchanged
    <3> HIDE DEF spans, built
    <3> QED BY <1>1, <3>1, <3>2, BuilderRoom
  <2> HIDE DEF built
  <2>3. Made("replace", [search |-> t, repl |-> repl.text, built |-> built], built.text)
    BY <2>1, <2>2 DEF Made
  <2> QED BY <1>9, <2>1, <2>2, <2>3 DEF built
<1>10. \A t \in Argument : stlstr_split(t) => Lists("split_at", t, SplitAt(s, t))
  BY DEF stlstr_split
<1>11. stlstr_iterable => Lists("iterable", <<>>, Characters(s))
  BY DEF stlstr_iterable
<1> QED BY <1>3, <1>4, <1>5, <1>6, <1>7, <1>8, <1>9, <1>10, <1>11, Zenon DEF MakesString

-----------------------------------------------------------------------------
(* Splitting.                                                               *)

\* How far the string has been gone through with k pieces and what is behind them.
Through(me, spans, k) == IF k = Len(spans) + 1 THEN Len(me) ELSE Reached(spans, k)
Ending(me, spans, k) == IF k = Len(spans) + 1 THEN Len(me) ELSE spans[k][1]

\* The pieces are the parts of the string between the spans.
Parted(ss, me, spans) ==
  /\ ss \in Seq(Seq(Char)) /\ Len(ss) = Len(spans) + 1 /\ DOMAIN ss = 1..Len(spans) + 1
  /\ \A k \in 1..Len(spans) + 1 :
       /\ Reached(spans, k - 1) \in Nat /\ Ending(me, spans, k) \in Nat
       /\ Reached(spans, k - 1) <= Ending(me, spans, k) /\ Ending(me, spans, k) <= Len(me)
       /\ ss[k] = SubSeq(me, Reached(spans, k - 1) + 1, Ending(me, spans, k))

LEMMA BetweenIs ==
  ASSUME NEW me \in Seq(Char), NEW spans \in Seq(Nat \X Nat), InOrder(spans, me)
  PROVE  Parted(Between(me, spans), me, spans)
<1> DEFINE n == Len(spans)
           ss == Between(me, spans)
<1>1. /\ n \in Nat /\ Len(me) \in Nat
      /\ \A k \in 1..n : Inside(spans[k], me) /\ Reached(spans, k - 1) <= spans[k][1]
      /\ \A k \in 0..n : Reached(spans, k) \in 0..Len(me)
  BY OrderOf, LenProperties
<1>2. \A k \in 1..n : spans[k][1] \in Nat /\ spans[k][1] <= Len(me)
  <2> SUFFICES ASSUME NEW k \in 1..n PROVE spans[k][1] \in Nat /\ spans[k][1] <= Len(me)
    OBVIOUS
  <2> DEFINE sp == spans[k]
  <2>1. Inside(sp, me)
    BY <1>1
  <2> HIDE DEF sp
  <2>2. sp[1] \in Nat /\ EndOf(sp) \in Nat /\ sp[1] < EndOf(sp) /\ EndOf(sp) <= Len(me)
    BY <2>1, PieceOf DEF Inside
  <2> QED BY <1>1, <2>2 DEF sp
<1>3. \A k \in 1..n + 1 : /\ Reached(spans, k - 1) \in Nat /\ Ending(me, spans, k) \in Nat
                          /\ Reached(spans, k - 1) <= Ending(me, spans, k) /\ Ending(me, spans, k) <= Len(me)
  <2> SUFFICES ASSUME NEW k \in 1..n + 1
               PROVE  /\ Reached(spans, k - 1) \in Nat /\ Ending(me, spans, k) \in Nat
                      /\ Reached(spans, k - 1) <= Ending(me, spans, k) /\ Ending(me, spans, k) <= Len(me)
    OBVIOUS
  <2>1. k - 1 \in 0..n
    BY <1>1
  <2>2. CASE k = n + 1
    BY <1>1, <2>1, <2>2 DEF Ending
  <2>3. CASE k # n + 1
    <3>1. k \in 1..n
      BY <1>1, <2>3
    <3> QED BY <1>1, <1>2, <2>1, <2>3, <3>1 DEF Ending
  <2> QED BY <2>2, <2>3
<1> HIDE DEF n
<1>4. \A k \in 1..n + 1 : (IF k = 1 THEN 1 ELSE EndOf(spans[k - 1]) + 1) = Reached(spans, k - 1) + 1
  <2> SUFFICES ASSUME NEW k \in 1..n + 1
               PROVE  (IF k = 1 THEN 1 ELSE EndOf(spans[k - 1]) + 1) = Reached(spans, k - 1) + 1
    OBVIOUS
  <2>1. CASE k = 1
    BY <2>1 DEF Reached
  <2>2. CASE k # 1
    <3>1. k - 1 # 0
      BY <1>1, <2>2
    <3> QED BY <2>2, <3>1 DEF Reached
  <2> QED BY <2>1, <2>2
<1> DEFINE piece(k) == SubSeq(me, Reached(spans, k - 1) + 1, Ending(me, spans, k))
<1>5. ss = [k \in 1..n + 1 |-> piece(k)]
  BY <1>4 DEF Between, Ending, n
<1>6. \A k \in 1..n + 1 : piece(k) \in Seq(Char)
  <2> TAKE k \in 1..n + 1
  <2> DEFINE i == Reached(spans, k - 1)
             j == Ending(me, spans, k)
  <2>1. i \in Nat /\ j \in Nat /\ i <= j /\ j <= Len(me)
    BY <1>3
  <2> HIDE DEF i, j
  <2>2. SubSeq(me, i + 1, j) \in Seq(Char)
    BY <2>1, PartOf
  <2> QED BY <2>2 DEF i, j
<1> HIDE DEF piece, ss
<1>7. ss \in Seq(Seq(Char)) /\ Len(ss) = n + 1 /\ DOMAIN ss = 1..n + 1 /\ \A k \in 1..n + 1 : ss[k] = piece(k)
  <2> DEFINE S == Seq(Char)
             m == n + 1
             q == [k \in 1..m |-> piece(k)]
  <2>1. m \in Nat /\ \A k \in 1..m : piece(k) \in S
    BY <1>1, <1>6
  <2> HIDE DEF S, m
  <2>2. q \in Seq(S) /\ Len(q) = m /\ DOMAIN q = 1..m /\ \A k \in 1..m : q[k] = piece(k)
    BY <2>1
  <2>3. ss = q
    BY <1>5 DEF m
  <2> QED BY <2>2, <2>3 DEF S, m
<1> QED BY <1>3, <1>7 DEF Parted, piece, ss, n

\* With what was cut out put back between them, they are the string.
LEMMA WholeAgain ==
  ASSUME NEW me \in Seq(Char), NEW spans \in Seq(Nat \X Nat), InOrder(spans, me), NEW ss, Parted(ss, me, spans),
         NEW between, \A k \in 1..Len(spans) : between[k] = PieceAt(me, spans[k])
  PROVE  Interleaved(ss, between) = me
<1> DEFINE n == Len(spans)
           l == Len(me)
           R(k) == Through(me, spans, k)
           part(k) == IF k < Len(ss) THEN ss[k] \o between[k] ELSE ss[k]
           all == [k \in DOMAIN ss |-> part(k)]
<1>1. /\ n \in Nat /\ l \in Nat
      /\ \A k \in 1..n : Inside(spans[k], me) /\ Reached(spans, k - 1) <= spans[k][1]
      /\ \A k \in 0..n : Reached(spans, k) \in 0..l
  BY OrderOf, LenProperties
<1>2. DOMAIN ss = 1..n + 1 /\ Len(ss) = n + 1
  BY DEF Parted
<1>3. ASSUME NEW k \in 1..n + 1
      PROVE  /\ R(k - 1) \in Nat /\ R(k) \in Nat /\ R(k - 1) <= R(k) /\ R(k) <= l
             /\ part(k) = SubSeq(me, R(k - 1) + 1, R(k))
  <2> DEFINE i == Reached(spans, k - 1)
             e == Ending(me, spans, k)
  <2>1. i \in Nat /\ e \in Nat /\ i <= e /\ e <= l /\ ss[k] = SubSeq(me, i + 1, e)
    BY DEF Parted
  <2>2. k - 1 # n + 1 /\ R(k - 1) = i
    BY <1>1 DEF Through
  <2>3. CASE k = n + 1
    <3>1. e = l /\ R(k) = l /\ part(k) = ss[k]
      BY <1>1, <1>2, <2>3 DEF Ending, Through
    <3> QED BY <1>1, <2>1, <2>2, <3>1
  <2>4. CASE k # n + 1
    <3> DEFINE sp == spans[k]
    <3>1. k \in 1..n /\ Inside(sp, me)
      BY <1>1, <2>4
    <3>2. R(k) = EndOf(sp) /\ e = sp[1] /\ k < Len(ss) /\ between[k] = PieceAt(me, sp)
      BY <1>1, <1>2, <2>4, <3>1 DEF Through, Reached, Ending
    <3> HIDE DEF sp
    <3>3. sp[1] \in Nat /\ EndOf(sp) \in Nat /\ sp[1] < EndOf(sp) /\ EndOf(sp) <= l
          /\ PieceAt(me, sp) = SubSeq(me, sp[1] + 1, EndOf(sp))
      BY <3>1, PieceOf DEF Inside
    <3> DEFINE c == EndOf(sp)
    <3>4. part(k) = SubSeq(me, i + 1, e) \o SubSeq(me, e + 1, c)
      BY <2>1, <3>2, <3>3
    <3>5. i \in Nat /\ e \in Nat /\ c \in Nat /\ i <= e /\ e <= c /\ c <= l
      BY <2>1, <3>2, <3>3
    <3> HIDE DEF i, e, c, part
    <3>6. SubSeq(me, i + 1, e) \o SubSeq(me, e + 1, c) = SubSeq(me, i + 1, c)
      <4>1. i + 1 \in 1..Len(me) + 1 /\ e \in (i + 1) - 1..Len(me) /\ c \in e..Len(me)
        BY <1>1, <3>5
      <4> QED BY <4>1, ConcatAdjacentSubSeq
    <3>7. R(k) = c
      BY <3>2 DEF c
    <3>8. i <= c
      BY <3>5
    <3> HIDE DEF R
    <3> QED BY <2>2, <3>4, <3>5, <3>6, <3>7, <3>8
  <2> QED BY <2>3, <2>4
<1> HIDE DEF R, part
<1>4. all \in Seq(Seq(Char)) /\ Len(all) = n + 1 /\ \A k \in 1..n + 1 : all[k] = part(k)
  <2>1. \A k \in 1..n + 1 : part(k) \in Seq(Char)
    <3> TAKE k \in 1..n + 1
    <3> DEFINE i == R(k - 1)
               j == R(k)
    <3>1. i \in Nat /\ j \in Nat /\ i <= j /\ j <= Len(me) /\ part(k) = SubSeq(me, i + 1, j)
      BY <1>3 DEF l
    <3> HIDE DEF i, j
    <3>2. SubSeq(me, i + 1, j) \in Seq(Char)
      BY <3>1, PartOf
    <3> QED BY <3>1, <3>2
  <2> QED BY <1>1, <1>2, <2>1
<1>5. Interleaved(ss, between) = FlattenSeq(all)
  BY Zenon DEF Interleaved, all, part
<1> HIDE DEF all
<1>6. PICK f \in [1..n + 1 -> Seq(Char)] :
        /\ f[1] = all[1] /\ \A i \in 2..n + 1 : f[i] = f[i - 1] \o all[i]
        /\ FlattenSeq(all) = f[n + 1]
  <2>1. Len(all) # 0
    BY <1>1, <1>4
  <2>2. \E f \in [1..Len(all) -> Seq(Char)] :
        /\ f[1] = all[1] /\ \A i \in 2..Len(all) : f[i] = f[i - 1] \o all[i]
        /\ FlattenSeq(all) = f[Len(all)]
    BY <1>4, <2>1, FlattenedUpto
  <2> QED BY <1>4, <2>2
<1> DEFINE T0 == {k \in 0..n : f[k + 1] = SubSeq(me, 1, R(k + 1))}
<1>7. 0 \in T0
  <2>1. 1 \in 1..n + 1 /\ 0 \in 0..n /\ 1 - 1 = 0 /\ 0 + 1 = 1
    BY <1>1
  <2>2. R(0) = 0
    BY <1>1 DEF R, Through, Reached
  <2>3. part(1) = SubSeq(me, R(0) + 1, R(1))
    BY <1>3, <2>1
  <2> QED BY <1>4, <1>6, <2>1, <2>2, <2>3
<1>8. ASSUME NEW k \in 1..n, k - 1 \in T0 PROVE k \in T0
  <2>1. k \in 0..n /\ (k - 1) + 1 = k /\ k + 1 \in 2..n + 1 /\ k + 1 \in 1..n + 1 /\ (k + 1) - 1 = k /\ k \in 1..n + 1
    BY <1>1
  <2> DEFINE i == R(k)
             j == R(k + 1)
  <2>2. i \in Nat /\ j \in Nat /\ i <= j /\ j <= l /\ part(k + 1) = SubSeq(me, i + 1, j)
    BY <1>3, <2>1
  <2>3. f[k + 1] = SubSeq(me, 1, i) \o SubSeq(me, i + 1, j)
    BY <1>4, <1>6, <1>8, <2>1, <2>2
  <2> HIDE DEF i, j
  <2>4. SubSeq(me, 1, i) \o SubSeq(me, i + 1, j) = SubSeq(me, 1, j)
    <3>1. 1 \in 1..Len(me) + 1 /\ i \in (1 - 1)..Len(me) /\ j \in i..Len(me)
      BY <1>1, <2>2
    <3> QED BY <3>1, ConcatAdjacentSubSeq
  <2> QED BY <2>1, <2>3, <2>4 DEF j
<1>9. n \in T0
  <2>1. 0..n \subseteq T0
    <3> HIDE DEF T0
    <3> QED BY <1>1, <1>7, <1>8, Induction
  <2> QED BY <1>1, <2>1
<1>10. R(n + 1) = l
  BY DEF R, Through, n, l
<1>11. SubSeq(me, 1, l) = me
  BY SubSeqFull DEF l
<1> QED BY <1>5, <1>6, <1>9, <1>10, <1>11

\* The pieces of a string without a backslash are copied as they are.
LEMMA CopiesOf ==
  ASSUME NEW me \in Seq(Char), Plain(me), NEW spans \in Seq(Nat \X Nat), NEW ss, Parted(ss, me, spans)
  PROVE  Copies(ss) = ss
<1> DEFINE n == Len(spans)
<1>1. ss \in Seq(Seq(Char)) /\ DOMAIN ss = 1..n + 1
  BY DEF Parted
<1>2. \A k \in 1..n + 1 : stlstr_copy_and_escape(ss[k]) = ss[k]
  <2> TAKE k \in 1..n + 1
  <2> DEFINE i == Reached(spans, k - 1)
             j == Ending(me, spans, k)
             p == SubSeq(me, i + 1, j)
  <2>1. i \in Nat /\ j \in Nat /\ i <= j /\ j <= Len(me) /\ ss[k] = p
    BY DEF Parted
  <2> HIDE DEF i, j
  <2>2. p \in Seq(Char) /\ Plain(p)
    BY <2>1, PartOf, PlainPart
  <2> HIDE DEF p
  <2>3. stlstr_copy_and_escape(p) = p
    BY <2>2, CopyOf
  <2> QED BY <2>1, <2>3
<1>3. ss = [k \in 1..n + 1 |-> ss[k]]
  BY <1>1, LenProperties
<1> HIDE DEF n
<1> QED BY <1>1, <1>2, <1>3 DEF Copies

\* A place in a part is a place in the whole.
LEMMA AtPart ==
  ASSUME NEW s \in Seq(Char), NEW sub \in Seq(Char), sub # <<>>,
         NEW i \in Nat, NEW j \in Nat, i <= j, j <= Len(s),
         NEW x \in Nat, x >= 1, At(SubSeq(s, i + 1, j), sub, x)
  PROVE  At(s, sub, i + x) /\ i + x + Len(sub) - 1 <= j
<1> DEFINE p == SubSeq(s, i + 1, j)
           d == Len(sub)
           l == Len(s)
           a == i + 1
           e == x + d - 1
<1>1. d \in Nat /\ d >= 1 /\ l \in Nat
  BY LenProperties
<1>2. Len(p) = j - i /\ p \in Seq(Char)
  BY PartOf
<1>3. e <= j - i /\ SubSeq(p, x, e) = sub
  BY <1>2 DEF At
<1> HIDE DEF d
<1>4. a \in 1..l /\ j \in 1..l /\ x \in 1..j - a + 1 /\ e \in 1..j - a + 1
  BY <1>1, <1>3 DEF l
<1>5. a + x - 1 = i + x /\ a + e - 1 = i + x + d - 1 /\ i + x + d - 1 <= j /\ j <= l
  BY <1>1, <1>3
<1>6. SubSeq(p, x, e) = SubSeq(s, a + x - 1, a + e - 1)
  <2> HIDE DEF a, e, l
  <2>1. SubSeq(SubSeq(s, a, j), x, e) = SubSeq(s, a + x - 1, a + e - 1)
    BY <1>4, SubSeqOfSubSeq DEF l
  <2>2. p = SubSeq(s, a, j)
    BY DEF a
  <2> HIDE DEF p
  <2> QED BY <2>1, <2>2
<1>7. SubSeq(s, i + x, i + x + d - 1) = sub
  <2> HIDE DEF p, e, a
  <2> QED BY <1>3, <1>5, <1>6
<1>8. i + x + d - 1 <= l
  BY <1>1, <1>5
<1> QED BY <1>5, <1>7, <1>8 DEF At, d, l

\* The string split at another: with that between the pieces it is whole again,
\* and none of the pieces has it.
LEMMA SplitOf ==
  ASSUME NEW s \in Seq(Char), NEW delim \in Seq(Char), delim # <<>>, Plain(s)
  PROVE  LET ss == Copies(SplitAt(s, delim))
         IN  /\ Interleaved(ss, [k \in DOMAIN ss |-> delim]) = s
             /\ \A k \in DOMAIN ss : strstr(ss[k], delim, 1) = 0
<1> DEFINE spans == Spans(s, delim)
           ss == Between(s, spans)
           n == Len(spans)
           d == Len(delim)
<1>1. /\ spans \in Seq(Nat \X Nat) /\ InOrder(spans, s) /\ Firsts(s, delim, spans)
      /\ strstr(s, delim, Reached(spans, n) + 1) = 0
  BY SpansOf
<1>2. Copies(SplitAt(s, delim)) = Copies(ss)
  BY DEF SplitAt
<1> HIDE DEF spans
<1>3. Parted(ss, s, spans)
  BY <1>1, BetweenIs
<1> HIDE DEF ss
<1>4. Copies(ss) = ss
  BY <1>1, <1>3, CopiesOf
<1>5. n \in Nat /\ Len(ss) = n + 1 /\ DOMAIN ss = 1..n + 1 /\ d \in Nat /\ d >= 1
      /\ \A k \in 0..n : Reached(spans, k) \in 0..Len(s)
  BY <1>1, <1>3, LenProperties, OrderOf DEF Parted
<1> DEFINE between == [k \in DOMAIN ss |-> delim]
<1>6. Interleaved(ss, between) = s
  <2>1. \A k \in 1..n : between[k] = PieceAt(s, spans[k])
    <3> TAKE k \in 1..n
    <3> DEFINE i == Reached(spans, k - 1)
               j == strstr(s, delim, i + 1)
    <3>1. k \in 1..n + 1 /\ i \in Nat /\ i + 1 \in Nat /\ i + 1 >= 1
      <4>1. k - 1 \in 0..n
        BY <1>5
      <4> QED BY <1>5, <4>1
    <3>2. j # 0 /\ spans[k] = <<j - 1, d>>
      BY <1>1 DEF Firsts
    <3> HIDE DEF i
    <3>3. j \in Nat /\ SubSeq(s, j, j + d - 1) = delim
      BY <3>1, <3>2, FirstOf DEF At
    <3> HIDE DEF j
    <3> DEFINE sp == spans[k]
               q == j - 1
    <3>4. PieceAt(s, sp) = SubSeq(s, q + 1, q + d)
      <4>1. sp = <<q, d>>
        BY <3>2
      <4> HIDE DEF sp, q, d
      <4>2. sp[1] = q /\ sp[2] = d
        BY <4>1
      <4> QED BY <4>2 DEF PieceAt
    <3>5. (j - 1) + 1 = j /\ (j - 1) + d = j + d - 1
      BY <1>5, <3>3
    <3> HIDE DEF d
    <3> QED BY <1>5, <3>1, <3>3, <3>4, <3>5
  <2> HIDE DEF between
  <2> QED BY <1>1, <1>3, <2>1, WholeAgain
<1>7. ASSUME NEW k \in 1..n + 1 PROVE strstr(ss[k], delim, 1) = 0
  <2> DEFINE i == Reached(spans, k - 1)
             e == Ending(s, spans, k)
             p == SubSeq(s, i + 1, e)
             x == strstr(p, delim, 1)
             j == strstr(s, delim, i + 1)
  <2>1. i \in Nat /\ e \in Nat /\ i <= e /\ e <= Len(s) /\ ss[k] = p /\ i + 1 \in Nat /\ i + 1 >= 1
    BY <1>3 DEF Parted
  <2>2. k \in 1..n => j # 0 /\ e = j - 1
    <3>1. SUFFICES ASSUME k \in 1..n PROVE j # 0 /\ e = j - 1
      OBVIOUS
    <3>2. j # 0 /\ spans[k] = <<j - 1, d>>
      BY <1>1, <3>1 DEF Firsts
    <3>3. k # n + 1
      BY <1>5, <3>1
    <3> QED BY <3>2, <3>3 DEF Ending
  <2>3. k \notin 1..n => j = 0
    <3>1. k \notin 1..n => k - 1 = n
      BY <1>5
    <3> QED BY <1>1, <3>1
  <2> HIDE DEF i, e
  <2>4. SUFFICES ASSUME x # 0 PROVE FALSE
    BY <2>1
  <2>5. x \in Nat /\ x >= 1 /\ At(p, delim, x)
    <3>1. p \in Seq(Char)
      BY <2>1, PartOf
    <3> HIDE DEF p
    <3> QED BY <2>4, <3>1, FirstOf
  <2> HIDE DEF x
  <2>6. At(s, delim, i + x) /\ i + x + d - 1 <= e
    BY <2>1, <2>5, AtPart
  <2>7. i + x \in Nat /\ i + x >= i + 1
    BY <2>1, <2>5
  <2>8. j \in Nat /\ j # 0 /\ j <= i + x
    <3> DEFINE y == i + x
               z == i + 1
    <3>1. y \in Nat /\ y >= z /\ At(s, delim, y) /\ z \in Nat /\ z >= 1
      BY <2>1, <2>6, <2>7
    <3> HIDE DEF y, z
    <3>2. strstr(s, delim, z) \in Nat /\ strstr(s, delim, z) # 0 /\ strstr(s, delim, z) <= y
      BY <3>1, FirstOf
    <3> QED BY <3>2 DEF y, z
  <2> HIDE DEF j
  <2>9. e = j - 1
    BY <2>2, <2>3, <2>8
  <2> HIDE DEF d
  <2> QED BY <1>5, <2>1, <2>5, <2>6, <2>7, <2>8, <2>9
<1> QED BY <1>2, <1>4, <1>5, <1>6, <1>7

-----------------------------------------------------------------------------
(* What every call keeps.                                                   *)

\* Together with what regex and string are, what the properties say of the last
\* call: every call leaves the regex and the string as the next may find them.
StringInv ==
  /\ IsRegex(rgx) /\ IsString /\ call.nr \in 0..MaxCalls
  /\ LeavesNoMarks /\ ListsFit /\ BuilderFits /\ PiecesMakeWhole

Searches == {"matches", "matches_any", "search"}

\* Nothing is said of the other calls but that their lists fit.
LEMMA PlainCall ==
  ASSUME IsRegex(rgx'), IsString', call'.nr \in 0..MaxCalls, call'.peak <= Len(rgx'.states),
         call'.op \in Searches /\ call'.arg # <<>> => Unmarked(rgx'),
         call'.op \notin Collects \cup {"replace", "split_at"}
  PROVE  StringInv'
<1>1. LeavesNoMarks' /\ ListsFit'
  BY DEF LeavesNoMarks, Searches, ListsFit
<1>2. BuilderFits' /\ PiecesMakeWhole'
  BY DEF BuilderFits, PiecesMakeWhole, SpansInOrder, Collects
<1> QED BY <1>1, <1>2 DEF StringInv

LEMMA SubjectIs ==
  ASSUME NEW w \in Subject
  PROVE  w \in Seq(Char) /\ Len(w) \in Nat /\ DOMAIN w = 1..Len(w)
<1>1. w \in Seq(Char)
  BY RegexAssumption
<1> QED BY <1>1, LenProperties

LEMMA CallCounted ==
  ASSUME call.nr \in 0..MaxCalls, call.nr < MaxCalls, call'.nr = call.nr + 1
  PROVE  call'.nr \in 0..MaxCalls
BY RegexAssumption

LEMMA SearchKeeps ==
  ASSUME StringInv, NEW w \in Subject,
         (\E fuzzy \in BOOLEAN : stlrgx_matches(w, fuzzy)) \/ stlrgx_search(w), UNCHANGED str
  PROVE  StringInv'
<1>1. IsRegex(rgx) /\ IsString /\ call.nr \in 0..MaxCalls
  BY DEF StringInv
<1>2. (\E op \in Searches : Called(w, op)) /\ (w # <<>> => Unmarked(rgx'))
  BY <1>1, SubjectIs, SearchCalled DEF Searches
<1>3. PICK op \in Searches : Called(w, op)
  BY <1>2
<1>4. /\ IsRegex(rgx') /\ call.nr < MaxCalls /\ call'.nr = call.nr + 1 /\ call'.peak <= Len(rgx'.states)
      /\ call'.op = op /\ call'.arg = w
  BY <1>3 DEF Called
<1>5. IsString'
  BY <1>1 DEF IsString
<1>6. call'.nr \in 0..MaxCalls
  BY <1>1, <1>4, CallCounted
<1>7. op \notin Collects \cup {"replace", "split_at"}
  BY DEF Searches, Collects
<1> QED BY <1>2, <1>4, <1>5, <1>6, <1>7, PlainCall

\* The calls that collect: pieces and replacements are made of spans in order.
LEMMA CollectKeeps ==
  ASSUME StringInv, NEW w \in Subject,
         FindStep(w) \/ SplitStep(w) \/ \E repl \in Replacement : ReplaceStep(w, repl)
  PROVE  StringInv'
<1> DEFINE c == rgx_collect_matches(rgx, w).result
<1>1. IsRegex(rgx) /\ IsString /\ call.nr \in 0..MaxCalls /\ w \in Seq(Char) /\ Len(w) \in Nat
  BY SubjectIs DEF StringInv
<1>2. c \in Seq(Nat \X Nat) /\ InOrder(c, w)
  BY <1>1, CollectOf
<1>3. ASSUME NEW op \in Collects, NEW result, Collecting(op, w, rgx_collect_matches(rgx, w), result), result.spans = c,
             op = "split" /\ Plain(w) =>
               /\ Len(result.pieces) = Len(c) + 1
               /\ Interleaved(result.pieces, [k \in DOMAIN c |-> PieceAt(w, c[k])]) = w,
             op = "replacing" =>
               /\ result.built.fits /\ Len(result.built.text) <= result.built.alloced
               /\ result.repl.callback = "same" /\ Plain(w) => result.built.text = w
      PROVE  StringInv'
  <2>1. /\ Called(w, op) /\ call'.result = result /\ InOrder(c, w)
        /\ "g" \notin rgx.flags => Len(c) <= 1
    BY <1>1, <1>3, CollectCalled
  <2>2. /\ IsRegex(rgx') /\ rgx'.flags = rgx.flags /\ call.nr < MaxCalls /\ call'.nr = call.nr + 1
        /\ call'.peak <= Len(rgx'.states) /\ call'.op = op /\ call'.arg = w /\ UNCHANGED str
    BY <2>1 DEF Called
  <2>3. IsString' /\ call'.nr \in 0..MaxCalls
    BY <1>1, <2>2, CallCounted DEF IsString
  <2>4. op \notin Searches /\ op # "split_at" /\ op # "replace"
    BY DEF Searches, Collects
  <2>5. LeavesNoMarks' /\ ListsFit'
    BY <2>2, <2>4 DEF LeavesNoMarks, ListsFit, Searches
  <2>6. BuilderFits'
    BY <1>3, <2>1, <2>2, <2>4 DEF BuilderFits
  <2>7. SpansInOrder'
    BY <1>3, <2>1, <2>2 DEF SpansInOrder
  <2> HIDE DEF c
  <2>8. PiecesMakeWhole'
    BY <1>3, <2>1, <2>2, <2>4, <2>7 DEF PiecesMakeWhole
  <2> QED BY <2>2, <2>3, <2>5, <2>6, <2>8 DEF StringInv
<1>4. CASE FindStep(w)
  <2>1. Collecting("find", w, rgx_collect_matches(rgx, w), FoundIn(w, c)) /\ FoundIn(w, c).spans = c
    BY <1>4 DEF FindStep, FoundIn
  <2>2. "find" \in Collects
    BY DEF Collects
  <2> QED BY <1>3, <2>1, <2>2
<1>5. CASE SplitStep(w)
  <2> DEFINE ss == Between(w, c)
             result == [spans |-> c, pieces |-> Copies(ss)]
  <2>1. Collecting("split", w, rgx_collect_matches(rgx, w), result) /\ result.spans = c /\ result.pieces = Copies(ss)
    BY <1>5, Zenon DEF SplitStep
  <2>2. Parted(ss, w, c)
    BY <1>1, <1>2, BetweenIs
  <2> HIDE DEF c, ss, result
  <2>3. ASSUME Plain(w)
        PROVE  /\ Len(Copies(ss)) = Len(c) + 1
               /\ Interleaved(Copies(ss), [k \in DOMAIN c |-> PieceAt(w, c[k])]) = w
    <3>1. Copies(ss) = ss
      BY <1>1, <1>2, <2>2, <2>3, CopiesOf
    <3>2. Len(ss) = Len(c) + 1
      BY <2>2 DEF Parted
    <3> DEFINE between == [k \in DOMAIN c |-> PieceAt(w, c[k])]
    <3>3. \A k \in 1..Len(c) : between[k] = PieceAt(w, c[k])
      BY <1>2, LenProperties
    <3> HIDE DEF between
    <3>4. Interleaved(ss, between) = w
      BY <1>1, <1>2, <2>2, <3>3, WholeAgain
    <3> QED BY <3>1, <3>2, <3>4 DEF between
  <2>4. "split" \in Collects /\ "split" # "replacing"
    BY DEF Collects
  <2> QED BY <1>3, <2>1, <2>3, <2>4 DEF c
<1>6. ASSUME NEW repl \in Replacement, ReplaceStep(w, repl) PROVE StringInv'
  <2> DEFINE built == stlstr_replacing_generic(w, repl, c)
             result == [spans |-> c, repl |-> repl, built |-> built]
  <2>1. /\ Collecting("replacing", w, rgx_collect_matches(rgx, w), result)
        /\ result.spans = c /\ result.repl = repl /\ result.built = built
    BY <1>6, Zenon DEF ReplaceStep
  <2> HIDE DEF c, result
  <2>2. built.fits /\ Len(built.text) <= built.alloced
    BY <1>1, <1>2, PutsIn, BuilderRoom
  <2>3. repl.callback = "same" /\ Plain(w) => built.text = w
    BY <1>1, <1>2, SameBack
  <2> HIDE DEF built
  <2>4. "replacing" \in Collects /\ "replacing" # "split"
    BY DEF Collects
  <2> QED BY <1>3, <2>1, <2>2, <2>3, <2>4 DEF c
<1> QED BY <1>4, <1>5, <1>6

\* What a method without a regex returns, and what it leaves as it was.
Gave(op, arg, result) ==
  /\ rgx' = rgx /\ call.nr < MaxCalls /\ call'.nr = call.nr + 1 /\ call'.peak = 0
  /\ call'.op = op /\ call'.arg = arg /\ call'.result = result

LEMMA MadeIs ==
  ASSUME NEW op, NEW arg, NEW s, Made(op, arg, s)
  PROVE  /\ Gave(op, arg, str'.sb) /\ IsString' /\ str' = stlstr_cinit(s)
         /\ s \in Seq(Char) /\ str'.sb \in Seq(Char) /\ (Plain(s) => str'.sb = s)
<1>1. s \in Seq(Char) /\ Len(s) <= MaxLength /\ str' = stlstr_cinit(s) /\ Gives(op, arg, str'.sb) /\ call.nr < MaxCalls
  BY DEF Made, Makes
<1>2. /\ str' = [sb |-> str'.sb, length |-> str'.length] /\ str'.sb \in Seq(Char) /\ str'.sb \in Seq(Char \cup {NUL})
      /\ str'.length = Len(str'.sb) /\ str'.length <= MaxLength /\ (Plain(s) => str'.sb = s)
  BY <1>1, CinitOf
<1>3. Gave(op, arg, str'.sb)
  BY <1>1 DEF Gives, Gave
<1> QED BY <1>1, <1>2, <1>3 DEF IsString

LEMMA MadeKeeps ==
  ASSUME StringInv, NEW op, NEW arg, NEW s, Made(op, arg, s),
         op \notin Searches \cup Collects \cup {"split_at"},
         op = "replace" => arg.built.fits /\ Len(arg.built.text) <= arg.built.alloced
  PROVE  StringInv'
<1>1. IsRegex(rgx) /\ Len(rgx.states) \in Nat /\ call.nr \in 0..MaxCalls
  BY AutomatonOf DEF StringInv
<1>2. Gave(op, arg, str'.sb) /\ IsString'
  BY MadeIs
<1>3. /\ rgx' = rgx /\ call.nr < MaxCalls /\ call'.nr = call.nr + 1 /\ call'.peak = 0
      /\ call'.op = op /\ call'.arg = arg
  BY <1>2 DEF Gave
<1>4. IsRegex(rgx') /\ call'.nr \in 0..MaxCalls /\ call'.peak <= Len(rgx'.states)
  BY <1>1, <1>3, CallCounted
<1>5. LeavesNoMarks' /\ ListsFit'
  BY <1>3, <1>4 DEF LeavesNoMarks, ListsFit, Searches
<1>6. BuilderFits' /\ PiecesMakeWhole'
  BY <1>3 DEF BuilderFits, PiecesMakeWhole, SpansInOrder, Collects
<1> QED BY <1>2, <1>4, <1>5, <1>6 DEF StringInv

LEMMA ListsKeep ==
  ASSUME StringInv, (\E t \in Argument : Lists("split_at", t, SplitAt(Contents, t)))
                    \/ Lists("iterable", <<>>, Characters(Contents))
  PROVE  StringInv'
<1>1. IsRegex(rgx) /\ Len(rgx.states) \in Nat /\ call.nr \in 0..MaxCalls /\ IsString
  BY AutomatonOf DEF StringInv
<1>2. ASSUME NEW op, NEW arg, NEW ss, Lists(op, arg, ss)
      PROVE  /\ IsRegex(rgx') /\ IsString' /\ call'.nr \in 0..MaxCalls /\ call'.peak <= Len(rgx'.states)
             /\ call'.op = op /\ call'.arg = arg /\ call'.result = Copies(ss) /\ Contents' = Contents
  <2>1. /\ rgx' = rgx /\ str' = str /\ call.nr < MaxCalls /\ call'.nr = call.nr + 1 /\ call'.peak = 0
        /\ call'.op = op /\ call'.arg = arg /\ call'.result = Copies(ss)
    BY <1>2 DEF Lists, Gives
  <2> QED BY <1>1, <2>1, CallCounted DEF IsString, Contents
<1>3. CASE Lists("iterable", <<>>, Characters(Contents))
  <2>1. "iterable" \notin Searches /\ "iterable" \notin Collects \cup {"replace", "split_at"}
    BY DEF Searches, Collects
  <2> QED BY <1>2, <1>3, <2>1, PlainCall
<1>4. ASSUME NEW t \in Argument, Lists("split_at", t, SplitAt(Contents, t)) PROVE StringInv'
  <2> DEFINE ss == Copies(SplitAt(Contents, t))
  <2>1. /\ IsRegex(rgx') /\ IsString' /\ call'.nr \in 0..MaxCalls /\ call'.peak <= Len(rgx'.states)
        /\ call'.op = "split_at" /\ call'.arg = t /\ call'.result = ss /\ Contents' = Contents
    BY <1>2, <1>4
  <2>2. t # <<>> /\ Plain(Contents) =>
          /\ Interleaved(ss, [k \in DOMAIN ss |-> t]) = Contents
          /\ \A k \in DOMAIN ss : strstr(ss[k], t, 1) = 0
    <3>1. Contents \in Seq(Char) /\ t \in Seq(Char)
      BY <1>1, ContentsOf, StringAssumption
    <3> QED BY <3>1, SplitOf
  <2> HIDE DEF ss
  <2>3. "split_at" \notin Searches /\ "split_at" \notin Collects /\ "split_at" # "replace" /\ "split_at" # "split"
        /\ "split_at" # "replacing"
    BY DEF Searches, Collects
  <2>4. LeavesNoMarks' /\ ListsFit' /\ BuilderFits' /\ SpansInOrder'
    BY <2>1, <2>3 DEF LeavesNoMarks, ListsFit, BuilderFits, SpansInOrder, Searches
  <2>5. PiecesMakeWhole'
    BY <2>1, <2>2, <2>3, <2>4 DEF PiecesMakeWhole
  <2> QED BY <2>1, <2>4, <2>5 DEF StringInv
<1> QED BY <1>3, <1>4

\* The byte stored, and what was there before it and behind.
LEMMA SetIs ==
  ASSUME IsString, NEW i \in 1..MaxLength, NEW t \in Argument, stlstr_set_index(i, t)
  PROVE  \E x \in Char \cup {NUL} :
           /\ i \in 1..Len(Contents) /\ i \in 1..Len(str.sb)
           /\ str'.sb = [str.sb EXCEPT ![i] = x] /\ IsString' /\ (Plain(t) => x # "\\")
           /\ Gave("set", [index |-> i, char |-> x], <<>>)
<1> DEFINE x == IF t = <<>> THEN NUL ELSE t[1]
           sb == [str.sb EXCEPT ![i] = x]
<1>1. Contents \in Seq(Char) /\ Len(Contents) <= Len(str.sb) /\ Len(Contents) \in Nat /\ Len(str.sb) \in Nat
      /\ DOMAIN Contents = 1..Len(Contents)
  <2>1. str.sb \in Seq(Char \cup {NUL})
    BY DEF IsString
  <2> QED BY <2>1, CStrIs, ContentsOf, LenProperties DEF Contents
<1>2. i \in 1..Len(Contents) /\ i \in 1..Len(str.sb)
  BY <1>1 DEF stlstr_set_index
<1>3. x \in Char \cup {NUL}
  <2>1. t \in Seq(Char)
    BY StringAssumption
  <2>2. t # <<>> => 1 \in 1..Len(t)
    BY <2>1, EmptySeq
  <2> QED BY <2>1, <2>2, ElementOfSeq
<1>10. Plain(t) => x # "\\"
  <2>1. t \in Seq(Char) /\ NUL # "\\"
    BY StringAssumption DEF NUL
  <2>2. t # <<>> => 1 \in DOMAIN t
    BY <2>1, EmptySeq, LenProperties
  <2> QED BY <2>1, <2>2 DEF Plain
<1>4. str' = [str EXCEPT !.sb = sb] /\ Gives("set", [index |-> i, char |-> str'.sb[i]], <<>>) /\ call.nr < MaxCalls
  BY DEF stlstr_set_index
<1> HIDE DEF x
<1>5. sb \in Seq(Char \cup {NUL}) /\ Len(sb) = Len(str.sb) /\ sb[i] = x
  <2>1. str.sb \in Seq(Char \cup {NUL})
    BY DEF IsString
  <2> QED BY <1>2, <1>3, <2>1, ExceptSeq
<1> DEFINE y == str.sb
           l == str.length
<1>6. str = [sb |-> y, length |-> l] /\ l = Len(y) /\ l <= MaxLength
  BY DEF IsString
<1> HIDE DEF sb, y, l
<1>7. str' = [sb |-> sb, length |-> l]
  BY <1>4, <1>6
<1>8. str'.sb = sb /\ IsString'
  BY <1>5, <1>6, <1>7 DEF IsString, y
<1>9. Gave("set", [index |-> i, char |-> x], <<>>)
  <2> DEFINE arg == [index |-> i, char |-> x]
             none == <<>>
  <2>1. Gives("set", arg, none)
    BY <1>4, <1>5, <1>8
  <2> HIDE DEF arg, none
  <2>2. Gave("set", arg, none)
    BY <1>4, <2>1 DEF Gives, Gave
  <2> QED BY <2>2 DEF arg, none
<1> QED BY <1>2, <1>3, <1>8, <1>9, <1>10 DEF sb

LEMMA SetKeeps ==
  ASSUME StringInv, NEW i \in 1..MaxLength, NEW t \in Argument, stlstr_set_index(i, t)
  PROVE  StringInv'
<1>1. IsRegex(rgx) /\ Len(rgx.states) \in Nat /\ call.nr \in 0..MaxCalls /\ IsString
  BY AutomatonOf DEF StringInv
<1>2. PICK x \in Char \cup {NUL} : IsString' /\ Gave("set", [index |-> i, char |-> x], <<>>)
  BY <1>1, SetIs
<1>3. rgx' = rgx /\ call.nr < MaxCalls /\ call'.nr = call.nr + 1 /\ call'.peak = 0 /\ call'.op = "set"
  BY <1>2 DEF Gave
<1>4. "set" \notin Searches /\ "set" \notin Collects \cup {"replace", "split_at"}
  BY DEF Searches, Collects
<1> QED BY <1>1, <1>2, <1>3, <1>4, CallCounted, PlainCall

LEMMA StringStarts == StringInit => StringInv
<1> SUFFICES ASSUME StringInit PROVE StringInv
  OBVIOUS
<1>1. PICK p \in Pattern, f \in FlagSet : rgx = stlrgx_common_init(p, f)
  BY DEF StringInit, RegexInit
<1> DEFINE c == Compiled[p]
<1>2. rgx = [pattern |-> p, flags |-> f, states |-> c.states, start |-> c.start,
             listit |-> [s \in DOMAIN c.states |-> -1], listgen |-> 0]
  BY <1>1, Zenon DEF stlrgx_common_init
<1>3. [s \in DOMAIN c.states |-> -1] \in [DOMAIN c.states -> -1..0]
  OBVIOUS
<1>4. IsRegex(rgx)
  BY <1>2, <1>3 DEF IsRegex, States
<1>5. PICK w \in Word : str = stlstr_cinit(w)
  BY DEF StringInit
<1>6. w \in Seq(Char) /\ Len(w) <= MaxLength
  BY StringAssumption
<1>7. IsString
  BY <1>5, <1>6, CinitOf DEF IsString
<1>8. call.op = "none" /\ call.peak = 0 /\ call.nr = 0
  BY DEF StringInit, RegexInit, NoCall
<1>9. Len(rgx.states) \in Nat /\ MaxCalls \in Nat
  BY <1>4, AutomatonOf, RegexAssumption
<1>10. LeavesNoMarks /\ ListsFit /\ BuilderFits /\ PiecesMakeWhole
  BY <1>8, <1>9 DEF LeavesNoMarks, ListsFit, BuilderFits, PiecesMakeWhole, SpansInOrder, Collects
<1> QED BY <1>4, <1>7, <1>8, <1>9, <1>10 DEF StringInv

LEMMA StringsKeep == StringInv /\ [StringNext]_stringVars => StringInv'
<1> SUFFICES ASSUME StringInv, [StringNext]_stringVars PROVE StringInv'
  OBVIOUS
<1>1. CASE UNCHANGED stringVars
  BY <1>1 DEF stringVars, StringInv, IsString, LeavesNoMarks, ListsFit, BuilderFits, PiecesMakeWhole, SpansInOrder, Contents
<1>2. ASSUME NEW w \in Subject, CallsRegex(w) PROVE StringInv'
  BY <1>2, RegexSteps, SearchKeeps, CollectKeeps
<1>3. CASE MakesString
  <2>1. IsString
    BY DEF StringInv
  <2>2. ASSUME NEW op \in {"copy", "reverse", "lower", "upper", "add", "added_to", "multiply"}, NEW arg, NEW s, Made(op, arg, s)
        PROVE  StringInv'
    <3>1. op \notin Searches \cup Collects \cup {"split_at"} /\ op # "replace"
      BY DEF Searches, Collects
    <3> QED BY <2>2, <3>1, MadeKeeps
  <2>3. ASSUME NEW t \in Argument, NEW repl \in Replacement, NEW built, built.fits, Len(built.text) <= built.alloced,
               Made("replace", [search |-> t, repl |-> repl.text, built |-> built], built.text)
        PROVE  StringInv'
    <3> DEFINE arg == [search |-> t, repl |-> repl.text, built |-> built]
    <3>1. "replace" \notin Searches \cup Collects \cup {"split_at"}
      BY DEF Searches, Collects
    <3>2. arg.built = built
      OBVIOUS
    <3>3. Made("replace", arg, built.text)
      BY <2>3
    <3> HIDE DEF arg
    <3> QED BY <2>3, <3>1, <3>2, <3>3, MadeKeeps
  <2> QED BY <1>3, <2>1, <2>2, <2>3, StringSteps, ListsKeep, SetKeeps, Zenon
<1> QED BY <1>1, <1>2, <1>3 DEF StringNext

-----------------------------------------------------------------------------
(* Regexes and strings are well formed and nothing is written outside the   *)
(* buffers, whatever methods are called.                                    *)

THEOREM StringInvariant == StringSpec => []StringInv
BY StringStarts, StringsKeep, PTL DEF StringSpec

\* A regex keeps the automaton it was made with and marks none of its states
\* with a generation to come, and the length of a string is that of its buffer.
THEOREM StringTypeCorrect == StringSpec => []StringTypeOK
<1>1. StringInv => StringTypeOK
  BY DEF StringInv, StringTypeOK, IsRegex, IsString, States
<1> QED BY <1>1, StringInvariant, PTL

\* Matching and searching leave no state marked, whatever calls were made before:
\* the next call starts from the start states (regex.c:686, 845, 884).
THEOREM CallsLeaveNoMarks == StringSpec => []LeavesNoMarks
<1>1. StringInv => LeavesNoMarks
  BY DEF StringInv
<1> QED BY <1>1, StringInvariant, PTL

\* No list of states outgrows its array of state_count entries, although a state
\* may be listed twice, and what "replacing" writes is inside the block allocated
\* for it so far (regex.c:722, 753; stl_string.c:210-229).
THEOREM NothingWrittenOutside == StringSpec => []BuffersFit
<1>1. StringInv => BuffersFit
  BY DEF StringInv, BuffersFit
<1> QED BY <1>1, StringInvariant, PTL

\* The spans of the matches follow one another inside the string, the pieces that
\* "split" makes are what is between them, a match replaced by itself leaves the
\* string as it was, and no piece of a string split at another has that in it.
THEOREM NothingLost == StringSpec => []PiecesMakeWhole
<1>1. StringInv => PiecesMakeWhole
  BY DEF StringInv
<1> QED BY <1>1, StringInvariant, PTL

-----------------------------------------------------------------------------
(* Strings without backslashes: nothing in them is an escape.               *)

LEMMA PlainConcat ==
  ASSUME NEW s \in Seq(Char), NEW t \in Seq(Char), Plain(s), Plain(t)
  PROVE  Plain(s \o t) /\ s \o t \in Seq(Char)
<1>1. /\ s \o t \in Seq(Char) /\ Len(s \o t) = Len(s) + Len(t) /\ Len(s) \in Nat /\ Len(t) \in Nat
      /\ DOMAIN (s \o t) = 1..Len(s) + Len(t) /\ DOMAIN s = 1..Len(s) /\ DOMAIN t = 1..Len(t)
      /\ \A i \in 1..Len(s) + Len(t) : (s \o t)[i] = IF i <= Len(s) THEN s[i] ELSE t[i - Len(s)]
  <2>1. Len(s) \in Nat /\ Len(t) \in Nat /\ DOMAIN s = 1..Len(s) /\ DOMAIN t = 1..Len(t)
    BY LenProperties
  <2>2. /\ s \o t \in Seq(Char) /\ Len(s \o t) = Len(s) + Len(t)
        /\ \A i \in 1..Len(s) + Len(t) : (s \o t)[i] = IF i <= Len(s) THEN s[i] ELSE t[i - Len(s)]
    BY ConcatProperties
  <2> DEFINE r == s \o t
  <2> HIDE DEF r
  <2>3. DOMAIN r = 1..Len(r)
    BY <2>2, LenProperties DEF r
  <2> QED BY <2>1, <2>2, <2>3 DEF r
<1> DEFINE a == Len(s)
           b == Len(t)
           r == s \o t
<1> HIDE DEF a, b, r
<1>2. \A i \in 1..a + b : (i <= a => i \in 1..a) /\ (~(i <= a) => i - a \in 1..b)
  BY <1>1 DEF a, b
<1>3. \A i \in 1..a + b : r[i] # "\\"
  <2> TAKE i \in 1..a + b
  <2>1. CASE i <= a
    BY <1>1, <1>2, <2>1 DEF Plain, a, b, r
  <2>2. CASE ~(i <= a)
    BY <1>1, <1>2, <2>2 DEF Plain, a, b, r
  <2> QED BY <2>1, <2>2
<1> QED BY <1>1, <1>3 DEF Plain, a, b, r

LEMMA PlainTimes ==
  ASSUME NEW s \in Seq(Char), Plain(s), NEW n \in Nat, n >= 1
  PROVE  Plain(T!Repeated(s, n))
<1>1. PICK f : Times(f, s, n) /\ T!Repeated(s, n) = f[n]
  BY TimesOf
<1> DEFINE m == n - 1
           T0 == {k \in 0..m : Plain(f[k + 1])}
<1>2. m \in Nat /\ f[1] = s /\ \A i \in 1..n : f[i] \in Seq(Char)
  BY <1>1 DEF Times
<1>3. 0 \in T0
  BY <1>2
<1>4. ASSUME NEW k \in 1..m, k - 1 \in T0 PROVE k \in T0
  <2>1. k \in 0..m /\ (k - 1) + 1 = k /\ k + 1 \in 2..n /\ k \in 1..n /\ (k + 1) - 1 = k
    BY <1>2
  <2> DEFINE p == f[k]
  <2>2. p \in Seq(Char) /\ Plain(p) /\ f[k + 1] = p \o s
    BY <1>1, <1>2, <1>4, <2>1 DEF Times
  <2> HIDE DEF p
  <2>3. Plain(p \o s)
    BY <2>2, PlainConcat
  <2> QED BY <2>1, <2>2, <2>3
<1>5. 0..m \subseteq T0
  <2> HIDE DEF T0, m
  <2> QED BY <1>2, <1>3, <1>4, Induction
<1>6. m \in 0..m /\ m + 1 = n
  BY <1>2
<1> QED BY <1>1, <1>5, <1>6

\* A string has no NUL in it.
LEMMA Whole ==
  ASSUME NEW s \in Seq(Char)
  PROVE  CStr(s) = s
<1>1. \A i \in DOMAIN s : s[i] # NUL
  BY Alphabet, LenProperties
<1> QED BY <1>1 DEF CStr

\* What is made of plain strings holds what it was made of.
LEMMA MadeHolds ==
  ASSUME NEW op, NEW arg, NEW s, Made(op, arg, s), Plain(s)
  PROVE  Contents' = s /\ str'.sb = s /\ Gave(op, arg, s) /\ IsString'
<1>1. Gave(op, arg, str'.sb) /\ IsString' /\ s \in Seq(Char) /\ str'.sb = s
  BY MadeIs
<1>2. Contents' = CStr(str'.sb)
  BY DEF Contents
<1> QED BY <1>1, <1>2, Whole

\* A buffer without a backslash holds a string without one.
LEMMA PlainContents ==
  ASSUME IsString, Plain(str.sb)
  PROVE  Plain(Contents)
<1>1. Contents \in Seq(Char) /\ Len(Contents) <= Len(str.sb) /\ \A i \in 1..Len(Contents) : Contents[i] = str.sb[i]
  BY CStrIs DEF Contents, IsString
<1>2. DOMAIN Contents = 1..Len(Contents) /\ Len(Contents) \in Nat /\ DOMAIN str.sb = 1..Len(str.sb) /\ Len(str.sb) \in Nat
  BY <1>1, LenProperties DEF IsString
<1> QED BY <1>1, <1>2 DEF Plain

\* The letters of both cases, and the characters turned round.
LEMMA PlainLetters ==
  /\ \A ch \in DOMAIN Lower : Lower[ch] # "\\"
  /\ \A ch \in DOMAIN UpperOf : UpperOf[ch] # "\\"
<1>1. \A ch \in DOMAIN Lower : Lower[ch] # "\\" /\ ch # "\\"
  BY DEF Lower
<1>2. \A ch \in DOMAIN UpperOf : UpperOf[ch] \in DOMAIN Lower
  <2> SUFFICES ASSUME NEW ch \in Range(Lower) PROVE UpperOf[ch] \in DOMAIN Lower
    BY DEF UpperOf
  <2>1. \E u \in DOMAIN Lower : Lower[u] = ch
    BY DEF Range
  <2>2. (CHOOSE u \in DOMAIN Lower : Lower[u] = ch) \in DOMAIN Lower
    BY <2>1
  <2> QED BY <2>2 DEF UpperOf
<1> QED BY <1>1, <1>2

LEMMA PlainChanged ==
  ASSUME NEW s \in Seq(Char), Plain(s)
  PROVE  /\ Plain(Backwards(s)) /\ Plain(Changed(s, Lower)) /\ Plain(Changed(s, UpperOf))
<1>1. Len(s) \in Nat /\ DOMAIN s = 1..Len(s) /\ \A i \in 1..Len(s) : Len(s) - i + 1 \in 1..Len(s)
  BY LenProperties
<1>2. Plain(Backwards(s))
  BY <1>1 DEF Plain, Backwards
<1>3. ASSUME NEW case, \A ch \in DOMAIN case : case[ch] # "\\" PROVE Plain(Changed(s, case))
  BY <1>3 DEF Plain, Changed
<1> QED BY <1>2, <1>3, PlainLetters

\* Where a string ends.
LEMMA EndIs ==
  ASSUME NEW b \in Seq(Char \cup {NUL}), NEW n \in Nat, Ends(b, n)
  PROVE  Len(CStr(b)) = n
<1> DEFINE m == Len(CStr(b))
<1>1. m \in Nat /\ Ends(b, m) /\ Len(b) \in Nat
  BY CStrIs, LenProperties
<1> HIDE DEF m
<1>2. ~(m < n)
  <2>1. SUFFICES ASSUME m < n PROVE FALSE
    OBVIOUS
  <2>2. m + 1 \in 1..n /\ m < Len(b)
    BY <1>1, <2>1 DEF Ends
  <2> QED BY <1>1, <2>2 DEF Ends
<1>3. ~(n < m)
  <2>1. SUFFICES ASSUME n < m PROVE FALSE
    OBVIOUS
  <2>2. n + 1 \in 1..m /\ n < Len(b)
    BY <1>1, <2>1 DEF Ends
  <2> QED BY <1>1, <2>2 DEF Ends
<1> QED BY <1>1, <1>2, <1>3 DEF m

\* A character set in the string, or a NUL, which ends it.
LEMMA SetHolds ==
  ASSUME NEW b \in Seq(Char \cup {NUL}), NEW i \in 1..Len(CStr(b)), NEW x \in Char \cup {NUL}
  PROVE  CStr([b EXCEPT ![i] = x]) = IF x = NUL THEN SubSeq(CStr(b), 1, i - 1) ELSE [CStr(b) EXCEPT ![i] = x]
<1> DEFINE c == [b EXCEPT ![i] = x]
           n == Len(CStr(b))
           s == CStr(b)
           u == CStr(c)
<1>1. /\ s \in Seq(Char) /\ n \in Nat /\ n <= Len(b) /\ Ends(b, n) /\ Len(b) \in Nat
      /\ (\A j \in 1..n : s[j] = b[j]) /\ i \in 1..n
  BY CStrIs, LenProperties
<1> HIDE DEF s, n
<1>2. i \in 1..Len(b)
  BY <1>1
<1>3. c \in Seq(Char \cup {NUL}) /\ Len(c) = Len(b) /\ \A j \in 1..Len(b) : c[j] = IF j = i THEN x ELSE b[j]
  BY <1>2, ExceptSeq
<1> HIDE DEF c
<1>4. u \in Seq(Char) /\ (\A j \in 1..Len(u) : u[j] = c[j])
  BY <1>3, CStrIs
<1>5. CASE x = NUL
  <2> DEFINE p == i - 1
             v == SubSeq(s, 1, p)
  <2>1. p \in Nat /\ p < Len(b) /\ p + 1 = i /\ p <= n
    BY <1>1, <1>2
  <2>2. \A j \in 1..p : j \in 1..n /\ j \in 1..Len(b) /\ j # i
    BY <1>1, <2>1
  <2>3. Ends(c, p)
    BY <1>1, <1>2, <1>3, <1>5, <2>1, <2>2 DEF Ends
  <2>4. Len(u) = p
    BY <1>3, <2>1, <2>3, EndIs
  <2>5. v \in Seq(Char) /\ Len(v) = p /\ \A j \in 1..p : v[j] = s[j]
    <3>1. /\ SubSeq(s, 0 + 1, p) \in Seq(Char) /\ Len(SubSeq(s, 0 + 1, p)) = p - 0
          /\ \A j \in 1..p - 0 : SubSeq(s, 0 + 1, p)[j] = s[0 + j]
      <4>1. 0 \in Nat /\ 0 <= p /\ p <= Len(s)
        BY <2>1 DEF n, s
      <4> QED BY <1>1, <2>1, <4>1, PartOf
    <3>2. 0 + 1 = 1 /\ p - 0 = p /\ \A j \in 1..p : 0 + j = j
      BY <2>1
    <3> QED BY <3>1, <3>2
  <2> HIDE DEF p, v, u
  <2>6. \A j \in 1..p : u[j] = v[j]
    BY <1>1, <1>3, <1>4, <2>2, <2>4, <2>5
  <2>7. u = v
    BY <1>4, <2>4, <2>5, <2>6, SeqEqual
  <2> QED BY <1>5, <2>7 DEF u, v, p, c, s
<1>6. CASE x # NUL
  <2> DEFINE v == [s EXCEPT ![i] = x]
  <2>1. Ends(c, n)
    <3>1. \A j \in 1..n : j \in 1..Len(b)
      BY <1>1
    <3>2. \A j \in 1..n : c[j] # NUL
      BY <1>1, <1>3, <1>6, <3>1 DEF Ends
    <3>3. n < Len(c) => c[n + 1] = NUL
      <4>1. n < Len(b) => n + 1 \in 1..Len(b) /\ n + 1 # i
        BY <1>1
      <4> QED BY <1>1, <1>3, <4>1 DEF Ends
    <3> QED BY <1>1, <1>3, <3>2, <3>3 DEF Ends
  <2>2. Len(u) = n
    BY <1>1, <1>3, <2>1, EndIs
  <2>3. v \in Seq(Char) /\ Len(v) = n /\ \A j \in 1..n : v[j] = IF j = i THEN x ELSE s[j]
    <3>1. i \in 1..Len(s) /\ Len(s) = n /\ x \in Char
      BY <1>1, <1>6 DEF n, s
    <3> QED BY <1>1, <3>1, ExceptSeq
  <2> HIDE DEF v, u
  <2>4. \A j \in 1..n : u[j] = v[j]
    <3>1. \A j \in 1..n : j \in 1..Len(b)
      BY <1>1
    <3> QED BY <1>1, <1>3, <1>4, <2>2, <2>3, <3>1
  <2>5. u = v
    BY <1>1, <1>4, <2>2, <2>3, <2>4, SeqEqual
  <2> QED BY <1>6, <2>5 DEF u, v, c, s
<1> QED BY <1>5, <1>6

-----------------------------------------------------------------------------
(* Going through the string character by character comes to the same as     *)
(* going from span to span.                                                 *)

\* At place i, k spans are behind, and the string is gone through up to e.
Here(s, spans, i, k, e) ==
  /\ Reached(spans, k) <= e /\ i <= e /\ (e = i \/ e = Reached(spans, k))
  /\ k < Len(spans) => e <= spans[k + 1][1]
Going(s, spans, f, i) ==
  {r \in [made : Seq(Char), next : Nat] :
     \E k \in 0..Len(spans), e \in 0..Len(s) :
        /\ Here(s, spans, i, k, e) /\ r.next = e + 1
        /\ r.made = f[k].text \o SubSeq(s, Reached(spans, k) + 1, e)}

\* The spans are those of sub, and f is what "replacing" builds.
Replaces(s, sub, repl, spans, f) ==
  /\ spans \in Seq(Nat \X Nat) /\ InOrder(spans, s) /\ Firsts(s, sub, spans)
  /\ strstr(s, sub, Reached(spans, Len(spans)) + 1) = 0
  /\ Builds(f, s, repl, spans) /\ repl.callback = "none" /\ repl.text \in Seq(Char)

\* What is known of the next span from where the string is gone through.
Coming(s, sub, repl, spans, f, k) ==
  /\ Len(spans) \in Nat /\ Reached(spans, k) \in 0..Len(s) /\ f[k].text \in Seq(Char)
  /\ k < Len(spans) =>
       /\ k + 1 \in 1..Len(spans) /\ spans[k + 1][1] \in Nat /\ spans[k + 1][2] = Len(sub)
       /\ Reached(spans, k) <= spans[k + 1][1] /\ Reached(spans, k + 1) = spans[k + 1][1] + Len(sub)
       /\ Reached(spans, k + 1) <= Len(s) /\ At(s, sub, spans[k + 1][1] + 1)
       /\ f[k + 1].text = (f[k].text \o SubSeq(s, Reached(spans, k) + 1, spans[k + 1][1])) \o repl.text
  /\ \A x \in Nat : x >= Reached(spans, k) + 1 /\ At(s, sub, x) => k < Len(spans) /\ spans[k + 1][1] + 1 <= x
LEMMA NextSpan ==
  ASSUME NEW s \in Seq(Char), NEW sub \in Seq(Char), sub # <<>>, NEW repl, NEW spans, NEW f,
         Replaces(s, sub, repl, spans, f), NEW k \in 0..Len(spans)
  PROVE  Coming(s, sub, repl, spans, f, k)
<1> DEFINE n == Len(spans)
           a == Reached(spans, k)
           j == strstr(s, sub, a + 1)
           sp == spans[k + 1]
<1>1. /\ n \in Nat /\ Len(s) \in Nat
      /\ \A i \in 1..n : Inside(spans[i], s) /\ Reached(spans, i - 1) <= spans[i][1]
      /\ \A i \in 0..n : Reached(spans, i) \in 0..Len(s)
  BY OrderOf, LenProperties DEF Replaces
<1>2. a \in 0..Len(s) /\ a \in Nat /\ f[k].text \in Seq(Char) /\ f[k].cur = a
  <2>1. f[k] \in Builders(s) /\ f[k].cur = a
    BY DEF Replaces, Builds
  <2> QED BY <1>1, <2>1, BuilderOf
<1>3. /\ j \in Nat /\ (j # 0 => j >= a + 1 /\ At(s, sub, j))
      /\ \A x \in Nat : x >= a + 1 /\ At(s, sub, x) => j # 0 /\ j <= x
  <2> DEFINE z == a + 1
  <2>1. z \in Nat /\ z >= 1
    BY <1>2
  <2> HIDE DEF z
  <2>2. /\ strstr(s, sub, z) \in Nat /\ (strstr(s, sub, z) # 0 => strstr(s, sub, z) >= z /\ At(s, sub, strstr(s, sub, z)))
        /\ \A x \in Nat : x >= z /\ At(s, sub, x) => strstr(s, sub, z) # 0 /\ strstr(s, sub, z) <= x
    BY <2>1, FirstOf
  <2> QED BY <2>2 DEF z
<1>4. k < n => j # 0 /\ sp = <<j - 1, Len(sub)>> /\ k + 1 \in 1..n
  <2>1. k < n => k + 1 \in 1..n /\ (k + 1) - 1 = k
    BY <1>1
  <2> QED BY <2>1 DEF Replaces, Firsts
<1>5. k = n => j = 0
  BY DEF Replaces
<1>6. k < n => sp[1] = j - 1 /\ sp[2] = Len(sub) /\ sp[1] \in Nat /\ sp[1] + 1 = j
  BY <1>3, <1>4
<1>7. ASSUME k < n
      PROVE  /\ k + 1 \in 1..n /\ a <= sp[1] /\ Reached(spans, k + 1) = sp[1] + Len(sub)
             /\ Reached(spans, k + 1) <= Len(s) /\ At(s, sub, sp[1] + 1)
             /\ f[k + 1].text = (f[k].text \o SubSeq(s, a + 1, sp[1])) \o repl.text
  <2>1. k + 1 \in 1..n /\ (k + 1) - 1 = k /\ k + 1 # 0 /\ k + 1 \in 0..n
    BY <1>4, <1>7
  <2>2. a <= sp[1] /\ Reached(spans, k + 1) \in 0..Len(s)
    BY <1>1, <2>1
  <2>3. Reached(spans, k + 1) = sp[1] + Len(sub)
    BY <1>6, <1>7, <2>1 DEF Reached, EndOf
  <2>4. At(s, sub, sp[1] + 1)
    BY <1>3, <1>4, <1>6, <1>7
  <2>5. Out(repl, PieceAt(s, sp)) = repl.text
    BY DEF Replaces, Out
  <2> DEFINE m == k + 1
  <2>6. f[m].text = (f[m - 1].text \o SubSeq(s, f[m - 1].cur + 1, spans[m][1])) \o Out(repl, PieceAt(s, spans[m]))
    <3>1. m \in 1..Len(spans)
      BY <2>1
    <3> HIDE DEF m
    <3> QED BY <3>1 DEF Replaces, Builds
  <2>7. f[k + 1].text = (f[k].text \o SubSeq(s, a + 1, sp[1])) \o repl.text
    BY <1>2, <2>1, <2>5, <2>6
  <2> HIDE DEF sp, a
  <2> QED BY <1>1, <2>1, <2>2, <2>3, <2>4, <2>7
<1>8. \A x \in Nat : x >= a + 1 /\ At(s, sub, x) => k < n /\ sp[1] + 1 <= x
  <2>1. k = n \/ k < n
    BY <1>1
  <2> HIDE DEF sp, a, j, n
  <2> QED BY <1>3, <1>5, <1>6, <2>1
<1> QED BY <1>1, <1>2, <1>6, <1>7, <1>8 DEF Coming

LEMMA Regrouped == \A u, v, w \in Seq(Char) : (u \o v) \o w = u \o (v \o w)
<1> TAKE u \in Seq(Char), v \in Seq(Char), w \in Seq(Char)
<1> QED BY ConcatAssociative

LEMMA AfterIs ==
  ASSUME NEW s \in Seq(Char), NEW sub \in Seq(Char), sub # <<>>, NEW repl, NEW spans, NEW f,
         Replaces(s, sub, repl, spans, f), NEW i \in 1..Len(s), NEW r \in Going(s, spans, f, i - 1)
  PROVE  T!After(r, s, sub, repl.text, i) \in Going(s, spans, f, i)
<1> DEFINE l == Len(s)
           n == Len(spans)
           d == Len(sub)
<1>1. l \in Nat /\ d \in Nat /\ d >= 1 /\ i \in 1..l /\ s[i] \in Char /\ n \in Nat /\ repl.text \in Seq(Char)
  <2>1. l \in Nat /\ d \in Nat /\ d >= 1
    BY LenProperties
  <2>2. s[i] \in Char
    BY ElementOfSeq
  <2>3. n \in Nat /\ repl.text \in Seq(Char)
    BY LenProperties DEF Replaces
  <2> QED BY <2>1, <2>2, <2>3
<1>2. PICK k \in 0..n, e \in 0..l :
        /\ Here(s, spans, i - 1, k, e) /\ r.next = e + 1
        /\ r.made = f[k].text \o SubSeq(s, Reached(spans, k) + 1, e)
  BY DEF Going
<1>3. r \in [made : Seq(Char), next : Nat]
  BY DEF Going
<1> DEFINE a == Reached(spans, k)
           t == f[k].text
           g == spans[k + 1][1]
           part(x) == SubSeq(s, a + 1, x)
<1>4. /\ a \in 0..l /\ t \in Seq(Char)
      /\ k < n => /\ k + 1 \in 1..n /\ g \in Nat /\ a <= g /\ Reached(spans, k + 1) = g + d
                  /\ g + d <= l /\ At(s, sub, g + 1)
                  /\ f[k + 1].text = (t \o part(g)) \o repl.text
      /\ \A x \in Nat : x >= a + 1 /\ At(s, sub, x) => k < n /\ g + 1 <= x
  <2>1. Coming(s, sub, repl, spans, f, k)
    BY NextSpan
  <2> QED BY <2>1 DEF Coming
<1>5. /\ a <= e /\ i - 1 <= e /\ (e = i - 1 \/ e = a) /\ (k < n => e <= g)
      /\ r.next = e + 1 /\ r.made = t \o part(e)
  BY <1>2 DEF Here
<1>6. T!Occurs(s, sub, i) <=> At(s, sub, i)
  BY DEF T!Occurs, At
<1> HIDE DEF a, t, g, l, n, d
<1>7. CASE i <= e
  <2>1. i < r.next /\ ~(i >= r.next)
    BY <1>1, <1>5, <1>7
  <2>2. T!After(r, s, sub, repl.text, i) = r
    BY <2>1, Zenon DEF T!After
  <2>3. Here(s, spans, i, k, e)
    <3>1. e = a
      BY <1>1, <1>5, <1>7
    <3> QED BY <1>5, <1>7, <3>1 DEF Here, a, n, g
  <2> QED BY <1>2, <1>3, <2>2, <2>3 DEF Going, l, n
<1>8. CASE ~(i <= e)
  <2>1. e = i - 1 /\ r.next = i /\ ~(i < r.next) /\ i >= r.next
    BY <1>1, <1>5, <1>8
  <2>2. CASE At(s, sub, i)
    <3> DEFINE c == [made |-> r.made \o repl.text, next |-> i + Len(sub)]
    <3>1. T!After(r, s, sub, repl.text, i) = c
      BY <1>6, <2>1, <2>2, Zenon DEF T!After
    <3>2. k < n /\ g + 1 <= i
      <4>1. i \in Nat /\ i >= a + 1
        BY <1>1, <1>4, <1>5, <2>1
      <4> QED BY <1>4, <2>2, <4>1
    <3>3. g = e /\ g \in Nat
      <4>1. g \in Nat /\ e <= g
        BY <1>4, <1>5, <3>2
      <4>2. e = i - 1 /\ i \in Nat /\ g + 1 <= i
        BY <1>1, <2>1, <3>2
      <4> QED BY <4>1, <4>2
    <3> DEFINE h == g + d
               more == (t \o part(g)) \o repl.text
    <3>4. /\ k + 1 \in 0..n /\ h \in 0..l /\ i <= h /\ i + Len(sub) = h + 1 /\ Reached(spans, k + 1) = h
          /\ h \in Nat
      <4>1. k + 1 \in 0..n /\ h <= l /\ Reached(spans, k + 1) = h /\ h \in Nat
        BY <1>1, <1>4, <3>2, <3>3
      <4>2. i = g + 1
        BY <1>1, <2>1, <3>3
      <4>3. i <= h /\ i + d = h + 1
        BY <1>1, <3>3, <4>2
      <4> QED BY <1>1, <4>1, <4>3 DEF d
    <3>5. f[k + 1].text = more /\ r.made \o repl.text = more
      BY <1>4, <1>5, <3>2, <3>3
    <3>6. more \in Seq(Char)
      <4>1. r.made \in Seq(Char)
        BY <1>3
      <4>2. r.made \o repl.text \in Seq(Char)
        BY <1>1, <4>1, ConcatProperties
      <4> QED BY <3>5, <4>2
    <3> HIDE DEF h, more
    <3>7. SubSeq(s, h + 1, h) = <<>>
      BY <3>4, SubSeqEmpty
    <3>8. more \o SubSeq(s, h + 1, h) = more
      BY <3>6, <3>7, ConcatEmptySeq
    <3>9. Here(s, spans, i, k + 1, h)
      <4> DEFINE m == k + 1
      <4>1. m \in 0..Len(spans) /\ Reached(spans, m) = h
        BY <3>4 DEF n
      <4> HIDE DEF m
      <4>2. m < Len(spans) => Reached(spans, m) <= spans[m + 1][1]
        BY <4>1, NextSpan DEF Coming
      <4>3. Here(s, spans, i, m, h)
        BY <3>4, <4>1, <4>2 DEF Here
      <4> QED BY <4>3 DEF m
    <3>10. c = [made |-> more, next |-> h + 1]
      BY <3>4, <3>5
    <3> DEFINE m == k + 1
               x == h + 1
    <3>11. /\ c \in [made : Seq(Char), next : Nat] /\ c.next = h + 1 /\ c.made = more
      <4>1. x \in Nat /\ c = [made |-> more, next |-> x]
        BY <3>4, <3>10
      <4> HIDE DEF x, c
      <4>2. c \in [made : Seq(Char), next : Nat] /\ c.next = x /\ c.made = more
        BY <3>6, <4>1
      <4> QED BY <4>2 DEF x
    <3>12. m \in 0..Len(spans) /\ h \in 0..Len(s) /\ Here(s, spans, i, m, h) /\ Reached(spans, m) = h
           /\ f[m].text = more
      BY <3>4, <3>5, <3>9 DEF n, l
    <3> HIDE DEF c, m, x
    <3>13. c \in Going(s, spans, f, i)
      <4>1. c.made = f[m].text \o SubSeq(s, Reached(spans, m) + 1, h)
        BY <3>8, <3>11, <3>12
      <4> QED BY <3>11, <3>12, <4>1 DEF Going
    <3> QED BY <3>1, <3>13
  <2>3. CASE ~At(s, sub, i)
    <3> DEFINE c == [made |-> Append(r.made, s[i]), next |-> i + 1]
    <3>1. T!After(r, s, sub, repl.text, i) = c
      BY <1>6, <2>1, <2>3, Zenon DEF T!After
    <3>2. a \in Nat /\ e \in Nat /\ a <= e /\ i = e + 1 /\ i <= l /\ i \in 0..l /\ i - 1 = e /\ a + 1 <= i
      BY <1>1, <1>4, <1>5, <2>1
    <3>3. part(e) \in Seq(Char) /\ part(i) = part(e) \o <<s[i]>>
      <4>1. a + 1 \in 1..Len(s) /\ i \in a + 1..Len(s) /\ e <= Len(s)
        BY <1>1, <3>2 DEF l
      <4>2. part(e) \in Seq(Char)
        BY <3>2, <4>1, PartOf
      <4>3. part(i) = SubSeq(s, a + 1, i - 1) \o <<s[i]>>
        BY <4>1, SubSeqRecursiveSecond
      <4> QED BY <3>2, <4>2, <4>3
    <3> HIDE DEF part
    <3>4. Append(r.made, s[i]) = t \o part(i) /\ Append(r.made, s[i]) \in Seq(Char)
      <4> DEFINE ch == s[i]
                 p == part(e)
                 o == <<ch>>
      <4>1. ch \in Char /\ p \in Seq(Char) /\ o \in Seq(Char) /\ r.made = t \o p /\ r.made \in Seq(Char)
            /\ part(i) = p \o o /\ t \in Seq(Char)
        BY <1>1, <1>3, <1>4, <1>5, <3>3
      <4>2. Append(r.made, ch) = r.made \o o /\ Append(r.made, ch) \in Seq(Char)
        <5> HIDE DEF ch, p
        <5> QED BY <4>1, AppendIsConcat, AppendProperties
      <4> HIDE DEF ch, p, o
      <4>3. (t \o p) \o o = t \o (p \o o)
        <5>1. t \in Seq(Char) /\ p \in Seq(Char) /\ o \in Seq(Char)
          BY <4>1
        <5> QED BY <5>1, Regrouped, Zenon
      <4> QED BY <4>1, <4>2, <4>3 DEF ch
    <3>5. k < n => i <= g
      <4>1. SUFFICES ASSUME k < n PROVE i <= g
        OBVIOUS
      <4>2. g \in Nat /\ e <= g /\ At(s, sub, g + 1)
        BY <1>4, <1>5, <4>1
      <4>3. g # e
        BY <2>3, <3>2, <4>2
      <4> QED BY <3>2, <4>2, <4>3
    <3>6. Here(s, spans, i, k, i)
      <4>1. a <= i /\ i <= i
        BY <3>2
      <4> QED BY <3>5, <4>1 DEF Here, a, g, n
    <3> DEFINE q == Append(r.made, s[i])
               x == i + 1
    <3>7. c = [made |-> q, next |-> x] /\ x \in Nat /\ q \in Seq(Char)
      BY <3>2, <3>4
    <3> HIDE DEF c, q, x
    <3>8. c \in [made : Seq(Char), next : Nat] /\ c.next = x /\ c.made = q
      BY <3>7
    <3>9. c \in Going(s, spans, f, i)
      BY <3>2, <3>4, <3>6, <3>8 DEF Going, n, l, q, x, t, a, part
    <3> QED BY <3>1, <3>9
  <2> QED BY <2>2, <2>3
<1> QED BY <1>7, <1>8

\* Replacing puts its text where the documentation has it.
LEMMA ReplacedOf ==
  ASSUME NEW s \in Seq(Char), NEW sub \in Seq(Char), sub # <<>>, NEW repl, NEW spans, NEW f,
         Replaces(s, sub, repl, spans, f)
  PROVE  T!Replaced(s, sub, repl.text) = f[Len(spans)].text \o SubSeq(s, Reached(spans, Len(spans)) + 1, Len(s))
<1> DEFINE l == Len(s)
           n == Len(spans)
           x == [made |-> <<>>, next |-> 1]
           More(i, r) == T!After(r, s, sub, repl.text, i)
           X == [i \in 0..l |-> Going(s, spans, f, i)]
           S == [made : Seq(Char), next : Nat]
           step == [p \in (1..l) \X S |-> More(p[1], p[2])]
           Body(g) == [i \in 0..l |-> IF i = 0 THEN x ELSE More(i, g[i - 1])]
           upto == CHOOSE g : g = Body(g)
<1>1. l \in Nat /\ n \in Nat /\ n \in 0..n /\ 0 \in 0..n /\ 0 \in 0..l /\ l \in 0..l
  <2>1. l \in Nat /\ n \in Nat
    BY LenProperties DEF Replaces
  <2> HIDE DEF l, n
  <2> QED BY <2>1
<1>2. /\ \A i \in 0..l : X[i] = Going(s, spans, f, i)
      /\ \A i \in 1..l : i - 1 \in 0..l /\ i \in 0..l
  OBVIOUS
<1>3. x \in X[0]
  <2>1. Reached(spans, 0) = 0 /\ f[0].text = <<>>
    BY DEF Reached, Replaces, Builds
  <2>2. 0 < n => 0 <= spans[0 + 1][1]
    BY <1>1, <2>1, NextSpan DEF Coming
  <2>3. Here(s, spans, 0, 0, 0)
    BY <2>1, <2>2 DEF Here
  <2>4. SubSeq(s, 0 + 1, 0) = <<>>
    BY <1>1, SubSeqEmpty
  <2>5. <<>> \o SubSeq(s, 0 + 1, 0) = <<>>
    BY <2>4
  <2>6. x \in S /\ x.next = 0 + 1 /\ x.made = f[0].text \o SubSeq(s, Reached(spans, 0) + 1, 0)
    BY <2>1, <2>5
  <2> HIDE DEF x
  <2>7. x \in Going(s, spans, f, 0)
    BY <1>1, <2>3, <2>6 DEF Going
  <2> QED BY <1>1, <1>2, <2>7
<1> HIDE DEF X
<1>4. \A i \in 1..l : \A r \in X[i - 1] : More(i, r) \in X[i] /\ step[<<i, r>>] = More(i, r)
  <2> SUFFICES ASSUME NEW i \in 1..l, NEW r \in X[i - 1]
               PROVE  More(i, r) \in X[i] /\ step[<<i, r>>] = More(i, r)
    OBVIOUS
  <2>1. r \in Going(s, spans, f, i - 1)
    BY <1>2
  <2>2. r \in S
    BY <2>1 DEF Going
  <2>3. step[<<i, r>>] = More(i, r)
    BY <2>2
  <2> HIDE DEF S, step
  <2>4. More(i, r) \in Going(s, spans, f, i)
    BY <2>1, AfterIs
  <2> QED BY <1>2, <2>3, <2>4
<1> HIDE DEF More, step, S, x
<1>5. Leads(l, X, step)
  BY <1>4 DEF Leads
<1>6. upto = Body(upto)
  <2>1. PICK g : Loops(g, l, X, x, step)
    BY <1>1, <1>3, <1>5, Loop
  <2>2. \A i \in 0..l : i = 0 \/ (i \in 1..l /\ g[i - 1] \in X[i - 1])
    BY <1>1, <2>1 DEF Loops
  <2>3. \A i \in 0..l : (IF i = 0 THEN x ELSE step[<<i, g[i - 1]>>]) = (IF i = 0 THEN x ELSE More(i, g[i - 1]))
    BY <1>4, <2>2
  <2>4. g = Body(g)
    BY <2>1, <2>3 DEF Loops
  <2> QED BY <2>4
<1> HIDE DEF upto
<1>7. upto[0] = x /\ \A i \in 1..l : upto[i] = More(i, upto[i - 1])
  BY <1>1, <1>6
<1>8. upto[l] \in Going(s, spans, f, l)
  <2>1. ASSUME NEW i \in 1..l, upto[i - 1] \in X[i - 1] PROVE upto[i] \in X[i]
    <3>1. More(i, upto[i - 1]) \in X[i]
      BY <1>4, <2>1
    <3> QED BY <1>7, <3>1
  <2> HIDE DEF l
  <2>2. \A i \in 0..l : upto[i] \in X[i]
    BY <1>1, <1>3, <1>7, <2>1, Along
  <2> QED BY <1>1, <1>2, <2>2
<1>9. T!Replaced(s, sub, repl.text) = upto[l].made
  BY Zenon DEF T!Replaced, More, x, upto, l
<1>10. PICK k \in 0..n, e \in 0..l :
         Here(s, spans, l, k, e) /\ upto[l].made = f[k].text \o SubSeq(s, Reached(spans, k) + 1, e)
  BY <1>8 DEF Going
<1>11. e = l /\ k = n
  <2>1. e = l
    BY <1>1, <1>10 DEF Here
  <2>2. ~(k < n)
    <3>1. SUFFICES ASSUME k < n PROVE FALSE
      OBVIOUS
    <3> DEFINE g == spans[k + 1][1]
               d == Len(sub)
    <3>2. g \in Nat /\ Reached(spans, k + 1) = g + d /\ Reached(spans, k + 1) <= l
      <4>1. Coming(s, sub, repl, spans, f, k)
        BY NextSpan
      <4> QED BY <3>1, <4>1 DEF Coming
    <3>3. e <= g
      BY <1>10, <3>1 DEF Here
    <3>4. d \in Nat /\ d >= 1
      BY LenProperties
    <3> HIDE DEF g, d, l
    <3> QED BY <1>1, <2>1, <3>2, <3>3, <3>4
  <2> HIDE DEF n
  <2> QED BY <1>1, <2>1, <2>2
<1> QED BY <1>9, <1>10, <1>11 DEF l, n

\* With nothing in it that could be an escape.
LEMMA PlainBuilt ==
  ASSUME NEW s \in Seq(Char), NEW sub \in Seq(Char), sub # <<>>, NEW repl, NEW spans, NEW f,
         Replaces(s, sub, repl, spans, f), Plain(s), Plain(repl.text)
  PROVE  Plain(f[Len(spans)].text \o SubSeq(s, Reached(spans, Len(spans)) + 1, Len(s)))
<1> DEFINE n == Len(spans)
           T0 == {k \in 0..n : Plain(f[k].text)}
<1>1. n \in Nat /\ Len(s) \in Nat /\ repl.text \in Seq(Char)
  BY LenProperties DEF Replaces
<1>2. 0 \in T0
  <2>1. f[0].text = <<>>
    BY DEF Replaces, Builds
  <2>2. Plain(f[0].text)
    BY <2>1 DEF Plain
  <2> QED BY <1>1, <2>2
<1>3. ASSUME NEW k \in 1..n, k - 1 \in T0 PROVE k \in T0
  <2> DEFINE j == k - 1
  <2>1. j \in 0..n /\ j < n /\ j + 1 = k /\ k \in 0..n
    BY <1>1
  <2> DEFINE a == Reached(spans, j)
             g == spans[k][1]
             t == f[j].text
             p == SubSeq(s, a + 1, g)
  <2>2. Plain(t)
    BY <1>3
  <2> HIDE DEF j
  <2>3. Coming(s, sub, repl, spans, f, j)
    BY <2>1, NextSpan
  <2>4. t \in Seq(Char) /\ a \in 0..Len(s) /\ g \in Nat /\ a <= g /\ g + Len(sub) <= Len(s) /\ f[k].text = (t \o p) \o repl.text
    BY <2>1, <2>3 DEF Coming
  <2>5. a \in Nat /\ g <= Len(s)
    <3> DEFINE d == Len(sub)
    <3>1. d \in Nat
      BY LenProperties
    <3> HIDE DEF d, g, a
    <3> QED BY <1>1, <2>4, <3>1 DEF d
  <2> HIDE DEF a, g, t
  <2>6. Plain(p) /\ p \in Seq(Char)
    BY <2>4, <2>5, PartOf, PlainPart
  <2> HIDE DEF p
  <2>7. Plain(t \o p) /\ t \o p \in Seq(Char)
    BY <2>2, <2>4, <2>6, PlainConcat DEF t
  <2>8. Plain((t \o p) \o repl.text)
    <3> DEFINE q == t \o p
    <3> HIDE DEF q
    <3>1. Plain(q \o repl.text)
      BY <1>1, <2>7, PlainConcat DEF q
    <3> QED BY <3>1 DEF q
  <2> QED BY <2>1, <2>4, <2>8
<1>4. 0..n \subseteq T0
  <2> HIDE DEF T0, n
  <2> QED BY <1>1, <1>2, <1>3, Induction
<1> DEFINE a == Reached(spans, n)
           t == f[n].text
           p == SubSeq(s, a + 1, Len(s))
<1>5. Plain(t) /\ n \in 0..n
  BY <1>1, <1>4
<1>6. t \in Seq(Char) /\ a \in 0..Len(s)
  <2>1. Coming(s, sub, repl, spans, f, n)
    BY <1>5, NextSpan
  <2> QED BY <2>1 DEF Coming
<1> HIDE DEF a, t
<1>7. Plain(p) /\ p \in Seq(Char)
  <2>1. a \in Nat /\ a <= Len(s) /\ Len(s) <= Len(s)
    BY <1>1, <1>6
  <2> QED BY <1>1, <2>1, PartOf, PlainPart
<1> HIDE DEF p
<1>8. Plain(t \o p)
  BY <1>5, <1>6, <1>7, PlainConcat
<1> QED BY <1>8 DEF t, p, a, n

-----------------------------------------------------------------------------
(* Strings go the way of the sequences of characters they stand for.        *)

\* If nothing that is passed to a string can be taken for an escape, neither can
\* anything in it.
PlainInv == StringInv /\ Plain(str.sb)

\* What a call comes to: the operation, its argument, and what is held afterwards.
Came(op, arg, s) == call'.op = op /\ call'.arg = arg /\ Contents' = s /\ Plain(str'.sb)

LEMMA MadeCame ==
  ASSUME NEW op, NEW arg, NEW s, Made(op, arg, s), Plain(s)
  PROVE  Came(op, arg, s)
BY MadeHolds DEF Gave, Came

LEMMA PlainStarts == PlainInputs /\ StringInit => PlainInv
<1> SUFFICES ASSUME PlainInputs, StringInit PROVE PlainInv
  OBVIOUS
<1>1. PICK w \in Word : str = stlstr_cinit(w)
  BY DEF StringInit
<1>2. w \in Seq(Char) /\ Len(w) <= MaxLength /\ Plain(w)
  BY StringAssumption DEF PlainInputs
<1>3. str.sb = w
  BY <1>1, <1>2, CinitOf
<1> QED BY <1>2, <1>3, StringStarts DEF PlainInv

\* A regex leaves the string alone.
LEMMA RegexCame ==
  ASSUME PlainInv, NEW w \in Subject, CallsRegex(w)
  PROVE  \E op \in Searches \cup Collects : Came(op, w, Contents)
<1>1. IsRegex(rgx) /\ Plain(str.sb)
  BY DEF PlainInv, StringInv
<1>2. ASSUME NEW op \in Searches \cup Collects, call'.op = op, call'.arg = w, UNCHANGED str
      PROVE  \E o \in Searches \cup Collects : Came(o, w, Contents)
  BY <1>1, <1>2 DEF Came, Contents
<1>3. CASE ((\E fuzzy \in BOOLEAN : stlrgx_matches(w, fuzzy)) \/ stlrgx_search(w)) /\ UNCHANGED str
  <2>1. \E op \in Searches : Called(w, op)
    BY <1>1, <1>3, SubjectIs, SearchCalled DEF Searches
  <2> QED BY <1>2, <2>1 DEF Called
<1>4. ASSUME NEW op \in Collects, NEW ran, NEW result, Collecting(op, w, ran, result)
      PROVE  \E o \in Searches \cup Collects : Came(o, w, Contents)
  <2>1. call'.op = op /\ call'.arg = w /\ UNCHANGED str
    BY <1>4, Zenon DEF Collecting, Answers
  <2> QED BY <1>2, <2>1
<1>5. CASE FindStep(w)
  BY <1>4, <1>5 DEF FindStep, Collects
<1>6. CASE SplitStep(w)
  BY <1>4, <1>6 DEF SplitStep, Collects
<1>7. CASE \E repl \in Replacement : ReplaceStep(w, repl)
  BY <1>4, <1>7 DEF ReplaceStep, Collects
<1> QED BY <1>3, <1>5, <1>6, <1>7, RegexSteps

\* What the methods that make strings come to.
LEMMA StringCame ==
  ASSUME PlainInputs, PlainInv, MakesString
  PROVE  \/ \E op \in {"copy", "split_at", "iterable"} : \E arg : Came(op, arg, Contents)
         \/ Came("reverse", <<>>, T!Reverse(Contents))
         \/ Came("lower", <<>>, Changed(Contents, Lower))
         \/ Came("upper", <<>>, Changed(Contents, UpperOf))
         \/ \E t \in Argument : Came("add", t, Contents \o t) \/ Came("added_to", t, t \o Contents)
         \/ \E count \in Factor : Came("multiply", count, T!Repeated(Contents, count))
         \/ \E t \in Argument, repl \in Replacement : \E built :
              Came("replace", [search |-> t, repl |-> repl.text, built |-> built], T!Replaced(Contents, t, repl.text))
         \/ \E i \in 1..MaxLength, x \in Char \cup {NUL} :
              Came("set", [index |-> i, char |-> x],
                   IF x = NUL THEN SubSeq(Contents, 1, i - 1) ELSE [Contents EXCEPT ![i] = x])
<1> DEFINE s == Contents
<1>1. IsString /\ Plain(str.sb) /\ str.sb \in Seq(Char \cup {NUL})
  BY DEF PlainInv, StringInv, IsString
<1>2. s \in Seq(Char) /\ Plain(s)
  BY <1>1, ContentsOf, PlainContents
<1>3. ASSUME NEW t \in Argument PROVE t \in Seq(Char) /\ Plain(t)
  BY StringAssumption DEF PlainInputs
<1>4. ASSUME NEW op, NEW arg, NEW ss, Lists(op, arg, ss) PROVE Came(op, arg, s)
  BY <1>1, <1>4 DEF Lists, Gives, Came, Contents
<1>5. Made("reverse", <<>>, Backwards(s)) => Came("reverse", <<>>, T!Reverse(s))
  BY <1>2, MadeCame, PlainChanged, Turned
<1>6. /\ Made("copy", <<>>, s) => Came("copy", <<>>, s)
      /\ Made("lower", <<>>, Changed(s, Lower)) => Came("lower", <<>>, Changed(s, Lower))
      /\ Made("upper", <<>>, Changed(s, UpperOf)) => Came("upper", <<>>, Changed(s, UpperOf))
  BY <1>2, MadeCame, PlainChanged
<1>7. ASSUME NEW t \in Argument
      PROVE  /\ Made("add", t, s \o t) => Came("add", t, s \o t)
             /\ Made("added_to", t, t \o s) => Came("added_to", t, t \o s)
  <2> HIDE DEF s
  <2>1. Plain(s \o t) /\ Plain(t \o s)
    BY <1>2, <1>3, PlainConcat
  <2> QED BY <2>1, MadeCame
<1>8. ASSUME NEW count \in Factor, Made("multiply", count, Multiplied(s, count))
      PROVE  Came("multiply", count, T!Repeated(s, count))
  <2> HIDE DEF s
  <2>1. count \in Nat
    BY StringAssumption
  <2>2. Multiplied(s, count) = T!Repeated(s, count) /\ Plain(T!Repeated(s, count))
    <3>1. CASE count = 0
      <4> DEFINE ss == [i \in 1..count |-> s]
      <4>1. ss = <<>> /\ Len(ss) = 0
        BY <3>1
      <4>2. T!Repeated(s, count) = FlattenSeq(ss)
        BY Zenon DEF T!Repeated, T!FlattenSeq, FlattenSeq
      <4> HIDE DEF ss
      <4>3. FlattenSeq(ss) = <<>>
        BY <4>1 DEF FlattenSeq
      <4> QED BY <3>1, <4>2, <4>3 DEF Multiplied, Plain
    <3>2. CASE count # 0
      <4>1. count >= 1
        BY <2>1, <3>2
      <4> QED BY <1>2, <2>1, <3>2, <4>1, DoubledOf, PlainTimes DEF Multiplied
    <3> QED BY <3>1, <3>2
  <2> QED BY <1>8, <2>2, MadeCame
<1>9. ASSUME NEW t \in Argument, NEW repl \in Replacement, NEW built, built = Exchanged(s, t, repl),
             repl.callback = "none", t # <<>>,
             Made("replace", [search |-> t, repl |-> repl.text, built |-> built], built.text)
      PROVE  Came("replace", [search |-> t, repl |-> repl.text, built |-> built], T!Replaced(s, t, repl.text))
  <2> HIDE DEF s
  <2> DEFINE spans == Spans(s, t)
             arg == [search |-> t, repl |-> repl.text, built |-> built]
  <2>1. /\ spans \in Seq(Nat \X Nat) /\ InOrder(spans, s) /\ Firsts(s, t, spans)
        /\ strstr(s, t, Reached(spans, Len(spans)) + 1) = 0
    BY <1>2, <1>3, <1>9, SpansOf
  <2>2. built = stlstr_replacing_generic(s, repl, spans)
    BY <1>9 DEF Exchanged
  <2> HIDE DEF spans, arg
  <2>3. Puts(repl) /\ repl.text \in Seq(Char) /\ Plain(repl.text)
    BY PutsIn DEF PlainInputs
  <2>4. PICK f : /\ Builds(f, s, repl, spans)
                 /\ built.text = f[Len(spans)].text \o SubSeq(s, f[Len(spans)].cur + 1, Len(s))
    BY <1>2, <2>1, <2>2, <2>3, BuiltOf
  <2>5. Replaces(s, t, repl, spans, f)
    BY <1>9, <2>1, <2>3, <2>4 DEF Replaces
  <2>6. f[Len(spans)].cur = Reached(spans, Len(spans))
    <3>1. Len(spans) \in Nat
      BY <2>1, LenProperties
    <3>2. Len(spans) \in 0..Len(spans)
      BY <3>1
    <3> QED BY <2>4, <3>2 DEF Builds
  <2>7. built.text = T!Replaced(s, t, repl.text)
    <3> DEFINE whole == f[Len(spans)].text \o SubSeq(s, Reached(spans, Len(spans)) + 1, Len(s))
    <3>1. T!Replaced(s, t, repl.text) = whole
      BY <1>2, <1>3, <1>9, <2>5, ReplacedOf
    <3>2. built.text = whole
      BY <2>4, <2>6
    <3> QED BY <3>1, <3>2
  <2>8. Plain(built.text)
    BY <1>2, <1>3, <1>9, <2>3, <2>4, <2>5, <2>6, PlainBuilt
  <2>9. Came("replace", arg, built.text)
    BY <1>9, <2>8, MadeCame DEF arg
  <2> QED BY <2>7, <2>9 DEF arg
<1>10. ASSUME NEW i \in 1..MaxLength, NEW t \in Argument, stlstr_set_index(i, t)
       PROVE  \E x \in Char \cup {NUL} :
                Came("set", [index |-> i, char |-> x], IF x = NUL THEN SubSeq(s, 1, i - 1) ELSE [s EXCEPT ![i] = x])
  <2>1. PICK x \in Char \cup {NUL} :
          /\ i \in 1..Len(s) /\ i \in 1..Len(str.sb)
          /\ str'.sb = [str.sb EXCEPT ![i] = x] /\ x # "\\"
          /\ Gave("set", [index |-> i, char |-> x], <<>>)
    BY <1>1, <1>3, <1>10, SetIs
  <2>2. Contents' = IF x = NUL THEN SubSeq(s, 1, i - 1) ELSE [s EXCEPT ![i] = x]
    <3> DEFINE b == str.sb
    <3>1. Contents' = CStr([b EXCEPT ![i] = x]) /\ Contents = CStr(b)
      BY <2>1 DEF Contents
    <3>2. b \in Seq(Char \cup {NUL}) /\ i \in 1..Len(CStr(b))
      BY <1>1, <2>1 DEF Contents
    <3> HIDE DEF b
    <3>3. CStr([b EXCEPT ![i] = x]) = IF x = NUL THEN SubSeq(CStr(b), 1, i - 1) ELSE [CStr(b) EXCEPT ![i] = x]
      BY <3>2, SetHolds
    <3> HIDE DEF s
    <3>4. s = CStr(b)
      BY <3>1 DEF s
    <3> QED BY <3>1, <3>3, <3>4
  <2>3. Plain(str'.sb)
    BY <1>1, <2>1 DEF Plain
  <2> QED BY <2>1, <2>2, <2>3 DEF Came, Gave
<1> HIDE DEF s
<1>11. \/ Made("copy", <<>>, s) \/ Made("reverse", <<>>, Backwards(s))
       \/ Made("lower", <<>>, Changed(s, Lower)) \/ Made("upper", <<>>, Changed(s, UpperOf))
       \/ \E t \in Argument : Made("add", t, s \o t) \/ Made("added_to", t, t \o s)
       \/ \E count \in Factor : Made("multiply", count, Multiplied(s, count))
       \/ \E t \in Argument, repl \in Replacement : \E built :
            /\ built = Exchanged(s, t, repl) /\ repl.callback = "none" /\ t # <<>>
            /\ Made("replace", [search |-> t, repl |-> repl.text, built |-> built], built.text)
       \/ \E op \in {"split_at", "iterable"} : \E arg, ss : Lists(op, arg, ss)
       \/ \E i \in 1..MaxLength, t \in Argument : stlstr_set_index(i, t)
  BY <1>1, StringSteps, Zenon DEF s
<1>12. /\ "copy" \in {"copy", "split_at", "iterable"}
       /\ \A op \in {"split_at", "iterable"} : op \in {"copy", "split_at", "iterable"}
  OBVIOUS
<1> QED BY <1>4, <1>5, <1>6, <1>7, <1>8, <1>9, <1>10, <1>11, <1>12, Zenon DEF s

\* Whatever is called, the string holds afterwards what is documented.
LEMMA TextStep == PlainInputs /\ PlainInv /\ [StringNext]_stringVars => [T!Next]_<<Contents, call>> /\ Plain(str.sb)'
<1> SUFFICES ASSUME PlainInputs, PlainInv, [StringNext]_stringVars
             PROVE  [T!Next]_<<Contents, call>> /\ Plain(str.sb)'
  OBVIOUS
<1>1. CASE UNCHANGED stringVars
  BY <1>1 DEF stringVars, Contents, PlainInv
<1>2. ASSUME NEW op, NEW arg, NEW s, Came(op, arg, s)
      PROVE  call'.op = op /\ call'.arg = arg /\ Contents' = s /\ Plain(str.sb)'
  BY <1>2 DEF Came
<1>3. ASSUME NEW op, op \notin {"reverse", "lower", "upper", "add", "added_to", "multiply", "set", "replace"},
             NEW arg, Came(op, arg, Contents)
      PROVE  T!Next /\ Plain(str.sb)'
  <2>1. call'.op = op /\ call'.arg = arg /\ Contents' = Contents /\ Plain(str.sb)'
    BY <1>2, <1>3
  <2>2. T!Next
    BY <1>3, <2>1 DEF T!Next, T!Computes
  <2> QED BY <2>1, <2>2
<1>4. ASSUME NEW w \in Subject, CallsRegex(w) PROVE T!Next /\ Plain(str.sb)'
  <2>1. PICK op \in Searches \cup Collects : Came(op, w, Contents)
    BY <1>4, RegexCame
  <2>2. op \notin {"reverse", "lower", "upper", "add", "added_to", "multiply", "set", "replace"}
    BY DEF Searches, Collects
  <2> QED BY <1>3, <2>1, <2>2
<1>5. ASSUME NEW op \in {"copy", "split_at", "iterable"}, NEW arg, Came(op, arg, Contents) PROVE T!Next /\ Plain(str.sb)'
  BY <1>3, <1>5
<1>6. CASE Came("reverse", <<>>, T!Reverse(Contents))
  BY <1>2, <1>6 DEF T!Next, T!Computes
<1>7. CASE Came("lower", <<>>, Changed(Contents, Lower))
  <2>1. T!Cased(Contents, Lower) = Changed(Contents, Lower)
    BY DEF T!Cased, Changed
  <2> QED BY <1>2, <1>7, <2>1 DEF T!Next, T!Computes
<1>8. CASE Came("upper", <<>>, Changed(Contents, UpperOf))
  <2>1. T!Cased(Contents, UpperOf) = Changed(Contents, UpperOf)
    BY DEF T!Cased, Changed
  <2> QED BY <1>2, <1>8, <2>1 DEF T!Next, T!Computes
<1>9. ASSUME NEW t \in Argument, Came("add", t, Contents \o t) \/ Came("added_to", t, t \o Contents)
      PROVE  T!Next /\ Plain(str.sb)'
  <2>1. CASE Came("add", t, Contents \o t)
    <3>1. call'.op = "add" /\ call'.arg = t /\ Contents' = Contents \o t /\ Plain(str.sb)'
      BY <1>2, <2>1
    <3>2. Contents' = Contents \o call'.arg
      BY <3>1
    <3>3. T!Next
      BY <3>1, <3>2, Zenon DEF T!Next, T!Computes
    <3> QED BY <3>1, <3>3
  <2>2. CASE Came("added_to", t, t \o Contents)
    <3>1. call'.op = "added_to" /\ call'.arg = t /\ Contents' = t \o Contents /\ Plain(str.sb)'
      BY <1>2, <2>2
    <3>2. Contents' = call'.arg \o Contents
      BY <3>1
    <3>3. T!Next
      BY <3>1, <3>2, Zenon DEF T!Next, T!Computes
    <3> QED BY <3>1, <3>3
  <2> QED BY <1>9, <2>1, <2>2
<1>10. ASSUME NEW count \in Factor, Came("multiply", count, T!Repeated(Contents, count))
       PROVE  T!Next /\ Plain(str.sb)'
  BY <1>2, <1>10 DEF T!Next, T!Computes
<1>11. ASSUME NEW t \in Argument, NEW repl \in Replacement, NEW built,
              Came("replace", [search |-> t, repl |-> repl.text, built |-> built], T!Replaced(Contents, t, repl.text))
       PROVE  T!Next /\ Plain(str.sb)'
  <2> DEFINE arg == [search |-> t, repl |-> repl.text, built |-> built]
  <2>1. arg.search = t /\ arg.repl = repl.text
    OBVIOUS
  <2>2. Came("replace", arg, T!Replaced(Contents, t, repl.text))
    BY <1>11
  <2> HIDE DEF arg
  <2>3. call'.op = "replace" /\ call'.arg = arg /\ Contents' = T!Replaced(Contents, arg.search, arg.repl) /\ Plain(str.sb)'
    BY <1>2, <2>1, <2>2
  <2> QED BY <2>3 DEF T!Next, T!Computes
<1>12. ASSUME NEW i \in 1..MaxLength, NEW x \in Char \cup {NUL},
              Came("set", [index |-> i, char |-> x],
                   IF x = NUL THEN SubSeq(Contents, 1, i - 1) ELSE [Contents EXCEPT ![i] = x])
       PROVE  T!Next /\ Plain(str.sb)'
  <2> DEFINE arg == [index |-> i, char |-> x]
  <2>1. arg.index = i /\ arg.char = x
    OBVIOUS
  <2> HIDE DEF arg
  <2>2. /\ call'.op = "set" /\ call'.arg = arg /\ Plain(str.sb)'
        /\ Contents' = IF x = NUL THEN SubSeq(Contents, 1, i - 1) ELSE [Contents EXCEPT ![i] = x]
    BY <1>2, <1>12 DEF arg
  <2> QED BY <2>1, <2>2 DEF T!Next, T!Computes
<1>13. CASE MakesString
  BY <1>5, <1>6, <1>7, <1>8, <1>9, <1>10, <1>11, <1>12, <1>13, StringCame
<1> QED BY <1>1, <1>4, <1>13 DEF StringNext

LEMMA PlainKeeps == PlainInputs /\ PlainInv /\ [StringNext]_stringVars => PlainInv'
BY TextStep, StringsKeep DEF PlainInv

\* A string implements the sequence of characters that it stands for: what every
\* method makes of it, through escaping, doubling, reallocating and the search
\* for spans (stl_string.c:116-153, 169-280, 503-528), is what the documentation
\* of the method says, for all words, arguments and lengths.
THEOREM StringImplementsText == PlainInputs => (StringSpec => ImplementsText)
<1> SUFFICES ASSUME PlainInputs PROVE StringSpec => ImplementsText
  OBVIOUS
<1>1. StringInit => PlainInv
  BY PlainStarts
<1>2. PlainInv /\ [StringNext]_stringVars => PlainInv' /\ [T!Next]_<<Contents, call>>
  BY PlainKeeps, TextStep
<1> QED BY <1>1, <1>2, PTL DEF StringSpec, ImplementsText, T!Spec
=============================================================================

--------------------------- MODULE RuntimeProofs ----------------------------
(***************************************************************************)
(* Theorems about Runtime, for any number of events and callbacks.         *)
(***************************************************************************)
EXTENDS Runtime, FiniteSetTheorems, SequenceTheorems, TLAPS

\* arr_append: one element more, and none twice if the list did not hold it.
LEMMA AppendElements ==
  ASSUME NEW S, NEW s \in Seq(S), NEW x \in S
  PROVE  /\ Append(s, x) \in Seq(S)
         /\ ToSet(Append(s, x)) = ToSet(s) \cup {x}
         /\ IsInjective(s) /\ x \notin ToSet(s) => IsInjective(Append(s, x))
<1>1. /\ Append(s, x) \in Seq(S) /\ Len(Append(s, x)) = Len(s) + 1
      /\ \A k \in 1..Len(s) : Append(s, x)[k] = s[k]
      /\ Append(s, x)[Len(s) + 1] = x
  BY AppendProperties
<1>2. DOMAIN s = 1..Len(s) /\ Len(s) \in Nat /\ DOMAIN Append(s, x) = 1..(Len(s) + 1)
  BY <1>1
<1>3. ToSet(Append(s, x)) = ToSet(s) \cup {x}
  BY <1>1, <1>2 DEF ToSet
<1>4. IsInjective(s) /\ x \notin ToSet(s) => IsInjective(Append(s, x))
  BY <1>1, <1>2 DEF ToSet, IsInjective
<1> QED BY <1>1, <1>3, <1>4

\* arr_insert at 0, the same.
LEMMA ConsElements ==
  ASSUME NEW S, NEW s \in Seq(S), NEW x \in S
  PROVE  /\ Cons(x, s) \in Seq(S)
         /\ ToSet(Cons(x, s)) = ToSet(s) \cup {x}
         /\ IsInjective(s) /\ x \notin ToSet(s) => IsInjective(Cons(x, s))
         /\ Cons(x, s) # <<>>
<1> DEFINE t == Cons(x, s)
<1>1. /\ t \in Seq(S) /\ Len(t) = Len(s) + 1
      /\ t[1] = x /\ \A k \in 1..Len(s) : t[k + 1] = s[k]
  BY ConcatProperties, <<x>> \in Seq(S), Len(<<x>>) = 1, <<x>>[1] = x DEF Cons
<1>2. DOMAIN s = 1..Len(s) /\ Len(s) \in Nat /\ DOMAIN t = 1..(Len(s) + 1)
  BY <1>1
<1>3. \A k \in 2..(Len(s) + 1) : k - 1 \in 1..Len(s) /\ t[k] = s[k - 1]
  BY <1>1, <1>2
<1> HIDE DEF t
<1>4. ToSet(t) = ToSet(s) \cup {x}
  <2>1. \A y \in ToSet(t) : y \in ToSet(s) \cup {x}
    <3> SUFFICES ASSUME NEW k \in 1..(Len(s) + 1) PROVE t[k] \in ToSet(s) \cup {x}
      BY <1>2 DEF ToSet
    <3>1. CASE k = 1  BY <3>1, <1>1
    <3>2. CASE k # 1  BY <3>2, <1>2, <1>3 DEF ToSet
    <3> QED BY <3>1, <3>2
  <2>2. \A k \in 1..Len(s) : s[k] \in ToSet(t)
    BY <1>1, <1>2, \A k \in 1..Len(s) : k + 1 \in 1..(Len(s) + 1) DEF ToSet
  <2>3. x \in ToSet(t)
    BY <1>1, <1>2, 1 \in 1..(Len(s) + 1) DEF ToSet
  <2> QED BY <2>1, <2>2, <2>3, <1>2 DEF ToSet
<1>5. ASSUME IsInjective(s), x \notin ToSet(s) PROVE IsInjective(t)
  <2> SUFFICES ASSUME NEW k \in 1..(Len(s) + 1), NEW m \in 1..(Len(s) + 1), t[k] = t[m]
               PROVE  k = m
    BY <1>2 DEF IsInjective
  <2>1. \A j \in 2..(Len(s) + 1) : t[j] # t[1]
    <3> TAKE j \in 2..(Len(s) + 1)
    <3>1. j - 1 \in 1..Len(s) /\ t[j] = s[j - 1]
      BY <1>3
    <3>2. s[j - 1] \in ToSet(s)
      BY <3>1, <1>2 DEF ToSet
    <3> QED BY <3>1, <3>2, <1>1, <1>5
  <2>2. CASE k = 1 \/ m = 1
    BY <2>1, <2>2, <1>2
  <2>3. CASE k # 1 /\ m # 1
    <3>1. k - 1 \in 1..Len(s) /\ m - 1 \in 1..Len(s) /\ s[k - 1] = s[m - 1]
      BY <2>3, <1>2, <1>3
    <3> QED BY <3>1, <1>2, <1>5 DEF IsInjective
  <2> QED BY <2>2, <2>3
<1>6. t # <<>>
  BY <1>1, <1>2, Len(<<>>) = 0
<1> QED BY <1>1, <1>4, <1>5, <1>6 DEF t

\* arr_remove at an index: of a list with no element twice, that one goes.
LEMMA RemoveAtElements ==
  ASSUME NEW S, NEW s \in Seq(S), NEW n \in 1..Len(s), IsInjective(s)
  PROVE  /\ RemoveAt(s, n) \in Seq(S)
         /\ ToSet(RemoveAt(s, n)) = ToSet(s) \ {s[n]}
         /\ IsInjective(RemoveAt(s, n))
<1> DEFINE a == SubSeq(s, 1, n - 1)
           b == SubSeq(s, n + 1, Len(s))
           t == RemoveAt(s, n)
<1>0. Len(s) \in Nat /\ DOMAIN s = 1..Len(s) /\ n \in Nat /\ 1 <= n /\ n <= Len(s)
  OBVIOUS
<1>1. a \in Seq(S) /\ Len(a) = n - 1 /\ \A k \in 1..(n - 1) : a[k] = s[k]
  BY <1>0, SubSeqProperties
<1>2. b \in Seq(S) /\ Len(b) = Len(s) - n /\ \A k \in 1..(Len(s) - n) : b[k] = s[n + k]
  <2>1. /\ b \in Seq(S) /\ Len(b) = IF n + 1 <= Len(s) THEN Len(s) - (n + 1) + 1 ELSE 0
        /\ \A k \in 1..(Len(s) - (n + 1) + 1) : b[k] = s[n + 1 + k - 1]
    BY <1>0, n + 1 \in Int, Len(s) \in Int, \A k \in (n + 1)..Len(s) : s[k] \in S,
       SubSeqProperties
  <2>2. Len(s) - (n + 1) + 1 = Len(s) - n /\ \A k \in 1..(Len(s) - n) : n + 1 + k - 1 = n + k
    BY <1>0
  <2>3. b \in Seq(S) /\ Len(b) = Len(s) - n
    <3> HIDE DEF b
    <3>1. CASE n + 1 <= Len(s)  BY <3>1, <2>1, <2>2
    <3>2. CASE n = Len(s)  BY <3>2, <2>1, <1>0
    <3>3. n + 1 <= Len(s) \/ n = Len(s)
      <4> DEFINE l == Len(s)
      <4>1. n \in Int /\ l \in Int /\ n <= l  BY <1>0
      <4> HIDE DEF l
      <4>2. n + 1 <= l \/ n = l  BY ONLY <4>1
      <4> QED BY <4>2 DEF l
    <3> QED BY <3>1, <3>2, <3>3
  <2> HIDE DEF b
  <2> QED BY <2>1, <2>2, <2>3
<1> HIDE DEF a, b
<1>3. /\ t \in Seq(S) /\ Len(t) = Len(s) - 1
      /\ \A k \in 1..(Len(s) - 1) : t[k] = IF k <= n - 1 THEN a[k] ELSE b[k - (n - 1)]
  <2>1. t = a \o b
    BY DEF RemoveAt, a, b
  <2>2. Len(a) + Len(b) = Len(s) - 1
    BY <1>0, <1>1, <1>2
  <2>3. /\ a \o b \in Seq(S) /\ Len(a \o b) = Len(a) + Len(b)
        /\ \A k \in 1..(Len(a) + Len(b)) :
             (a \o b)[k] = IF k <= Len(a) THEN a[k] ELSE b[k - Len(a)]
    BY <1>1, <1>2, ConcatProperties
  <2> HIDE DEF t
  <2> QED BY <2>1, <2>2, <2>3, <1>1
<1> HIDE DEF t
<1>4. \A k \in 1..(n - 1) : t[k] = s[k]
  BY <1>0, <1>1, <1>3
<1>5. \A k \in n..(Len(s) - 1) : t[k] = s[k + 1]
  <2> TAKE k \in n..(Len(s) - 1)
  <2>1. k - (n - 1) \in 1..(Len(s) - n) /\ ~(k <= n - 1) /\ k \in 1..(Len(s) - 1)
        /\ n + (k - (n - 1)) = k + 1
    BY <1>0
  <2> QED BY <2>1, <1>2, <1>3
<1>6. DOMAIN t = 1..(Len(s) - 1)
  BY <1>3, <1>0
<1>7. IsInjective(t)
  <2> SUFFICES ASSUME NEW k \in 1..(Len(s) - 1), NEW m \in 1..(Len(s) - 1), t[k] = t[m]
               PROVE  k = m
    BY <1>6 DEF IsInjective
  <2> DEFINE p(j) == IF j < n THEN j ELSE j + 1
  <2>1. t[k] = s[p(k)] /\ p(k) \in 1..Len(s)
    BY <1>0, <1>4, <1>5
  <2>2. t[m] = s[p(m)] /\ p(m) \in 1..Len(s)
    BY <1>0, <1>4, <1>5
  <2>3. p(k) = p(m)
    BY <2>1, <2>2, <1>0 DEF IsInjective
  <2> QED BY <2>3, <1>0
<1>8. ToSet(t) = ToSet(s) \ {s[n]}
  <2>1. ASSUME NEW k \in 1..(Len(s) - 1) PROVE t[k] \in ToSet(s) \ {s[n]}
    <3> DEFINE p == IF k < n THEN k ELSE k + 1
    <3>1. t[k] = s[p] /\ p \in 1..Len(s) /\ p # n
      BY <1>0, <1>4, <1>5
    <3>2. s[p] # s[n]
      BY <3>1, <1>0 DEF IsInjective
    <3> QED BY <3>1, <3>2, <1>0 DEF ToSet
  <2>2. ASSUME NEW k \in 1..Len(s), k # n PROVE s[k] \in ToSet(t)
    <3> DEFINE p == IF k < n THEN k ELSE k - 1
    <3>1. p \in 1..(Len(s) - 1) /\ t[p] = s[k]
      BY <2>2, <1>0, <1>4, <1>5
    <3> QED BY <3>1, <1>6 DEF ToSet
  <2> QED BY <2>1, <2>2, <1>0, <1>6 DEF ToSet
<1> QED BY <1>3, <1>7, <1>8 DEF t

\* arr_remove at the last index, as rt_poll does.
LEMMA FrontElements ==
  ASSUME NEW S, NEW s \in Seq(S), s # <<>>, IsInjective(s)
  PROVE  /\ Last(s) \in ToSet(s) /\ Last(s) \in S
         /\ Front(s) \in Seq(S)
         /\ ToSet(Front(s)) = ToSet(s) \ {Last(s)}
         /\ IsInjective(Front(s))
<1>1. Len(s) \in Nat \ {0} /\ DOMAIN s = 1..Len(s)
  BY EmptySeq
<1>2. /\ Front(s) \in Seq(S) /\ Len(Front(s)) = Len(s) - 1
      /\ \A k \in 1..(Len(s) - 1) : Front(s)[k] = s[k]
  BY <1>1, SubSeqProperties DEF Front
<1>3. DOMAIN Front(s) = 1..(Len(s) - 1)
  BY <1>2, <1>1
<1>4. Last(s) \in ToSet(s) /\ Last(s) \in S
  BY <1>1 DEF Last, ToSet
<1>5. ToSet(Front(s)) = ToSet(s) \ {Last(s)}
  BY <1>1, <1>2, <1>3 DEF Last, ToSet, IsInjective
<1>6. IsInjective(Front(s))
  BY <1>1, <1>2, <1>3 DEF IsInjective
<1> QED BY <1>2, <1>4, <1>5, <1>6

\* rt_make: both lists are empty.
LEMMA EmptyElements == ToSet(<<>>) = {} /\ IsInjective(<<>>)
BY DEF ToSet, IsInjective

-----------------------------------------------------------------------------
\* The interpreter has an event in hand exactly while it calls one.
CurrentIsCalled == current # NULL <=> mode \in {"call", "halted"}

\* What a fresh event starts from, and what its thread may still do to it.
EventsAreFresh ==
  /\ \A e \in Event : fire[e] => e \in alive /\ thread[e] = "done"
  /\ \A e \in alive : callback[e] \in Callback

\* The inductive invariant.
IInv == TypeOK /\ OnePlace /\ CurrentIsCalled /\ EventsAreFresh /\ ThreadOwnsEvent

\* No event yet.
LEMMA InitInductive == Init => IInv
<1> SUFFICES ASSUME Init PROVE IInv
  OBVIOUS
<1> USE EventAssumption DEF Init
<1>1. TypeOK
  <2>1. <<>> \in Seq(Event)
    OBVIOUS
  <2>2. roots \in [Callback -> Nat] /\ i \in Nat \ {0}
    OBVIOUS
  <2>3. /\ thread \in [Event -> {"none", "started", "asleep", "done"}]
        /\ time \in [Event -> {"live", "freed"}] /\ fire \in [Event -> BOOLEAN]
        /\ callback \in [Event -> Callback \cup {NULL}]
    OBVIOUS
  <2> QED BY <2>1, <2>2, <2>3 DEF TypeOK
<1>2. OnePlace
  BY EmptyElements DEF OnePlace, Waiting
<1>3. CurrentIsCalled /\ EventsAreFresh /\ ThreadOwnsEvent
  BY DEF CurrentIsCalled, EventsAreFresh, ThreadOwnsEvent
<1> QED BY <1>1, <1>2, <1>3 DEF IInv

\* Meta.timeout: the event is new to both lists.
LEMMA RegisterInductive ==
  ASSUME IInv, NEW e \in Event, NEW c \in Callback, Register(e, c)
  PROVE  IInv'
<1> USE EventAssumption, CallbackAssumption DEF IInv, Register
<1>1. e \notin ToSet(events) /\ e \notin ToSet(queue) /\ current # e
  BY DEF OnePlace, Waiting, TypeOK
<1>2. /\ events' \in Seq(Event) /\ ToSet(events') = ToSet(events) \cup {e}
      /\ IsInjective(events')
  BY <1>1, AppendElements DEF TypeOK, OnePlace
<1>3. mode' \in {"script", "next", "call"} /\ (mode' = mode \/ mode = "script") /\ thrown' \in BOOLEAN
  BY DEF AfterCall, Executing, TypeOK
<1>4. TypeOK'
  BY <1>2, <1>3 DEF TypeOK
<1>5. OnePlace'
  BY <1>1, <1>2 DEF OnePlace, Waiting, TypeOK
<1>6. CurrentIsCalled'
  BY <1>3 DEF CurrentIsCalled, AfterCall, Executing
<1>7. EventsAreFresh'
  BY DEF EventsAreFresh, TypeOK
<1>8. ThreadOwnsEvent'
  BY <1>2 DEF ThreadOwnsEvent, TypeOK
<1> QED BY <1>4, <1>5, <1>6, <1>7, <1>8

\* rt_scan at an event that has fired.
LEMMA QueueFiredInductive == ASSUME IInv, QueueFired PROVE IInv'
<1> USE EventAssumption DEF IInv, QueueFired
<1>1. i \in 1..Len(events) /\ events[i] \in ToSet(events) /\ events[i] \in Event
  BY DEF TypeOK, ToSet
<1>2. /\ events' \in Seq(Event) /\ ToSet(events') = ToSet(events) \ {events[i]}
      /\ IsInjective(events')
  BY <1>1, RemoveAtElements DEF TypeOK, OnePlace
<1>3. events[i] \notin ToSet(queue)
  BY <1>1 DEF OnePlace
<1>4. /\ queue' \in Seq(Event) /\ ToSet(queue') = ToSet(queue) \cup {events[i]}
      /\ IsInjective(queue')
  <2>1. queue \in Seq(Event) /\ IsInjective(queue) /\ queue' = Cons(events[i], queue)
    BY DEF TypeOK, OnePlace
  <2> HIDE DEF IInv, QueueFired
  <2> DEFINE e == events[i]
             q == Cons(e, queue)
  <2>2. e \in Event /\ e \notin ToSet(queue) /\ queue' = q
    BY <1>1, <1>3, <2>1
  <2> HIDE DEF e
  <2>3. q \in Seq(Event) /\ ToSet(q) = ToSet(queue) \cup {e} /\ IsInjective(q)
    BY <2>1, <2>2, ConsElements
  <2> HIDE DEF q
  <2> QED BY <2>2, <2>3 DEF e
<1>5. TypeOK'
  BY <1>2, <1>4 DEF TypeOK
<1>6. OnePlace'
  BY <1>1, <1>2, <1>4 DEF OnePlace, Waiting
<1>7. CurrentIsCalled' /\ EventsAreFresh'
  BY DEF CurrentIsCalled, EventsAreFresh
<1>8. ThreadOwnsEvent'
  BY <1>1, <1>2 DEF ThreadOwnsEvent, EventsAreFresh
<1> QED BY <1>5, <1>6, <1>7, <1>8

\* rt_poll, and rt_next that returns the event.
LEMMA PollInductive == ASSUME IInv, Poll PROVE IInv'
<1> USE EventAssumption DEF IInv, Poll
<1>1. /\ Last(queue) \in ToSet(queue) /\ Last(queue) \in Event
      /\ queue' \in Seq(Event) /\ ToSet(queue') = ToSet(queue) \ {Last(queue)}
      /\ IsInjective(queue')
  <2>1. queue \in Seq(Event) /\ queue # <<>> /\ IsInjective(queue) /\ queue' = Front(queue)
    BY DEF TypeOK, OnePlace
  <2> HIDE DEF IInv, Poll
  <2> QED BY <2>1, FrontElements
<1>2. current = NULL
  BY DEF CurrentIsCalled
<1>3. Last(queue) \in alive /\ fire[Last(queue)] /\ Last(queue) \notin ToSet(events)
  BY <1>1, <1>2 DEF OnePlace, Waiting
<1>4. roots' \in [Callback -> Nat]
  BY <1>3 DEF TypeOK, EventsAreFresh
<1>5. TypeOK'
  BY <1>1, <1>4 DEF TypeOK
<1>6. OnePlace'
  <2>1. Waiting' = Waiting \ {Last(queue)} /\ Waiting = alive
    BY <1>1, <1>2, <1>3 DEF OnePlace, Waiting, TypeOK
  <2>2. IsInjective(events') /\ ToSet(events') \cap ToSet(queue') = {}
    BY <1>1 DEF OnePlace
  <2>3. \A e \in ToSet(queue') : fire'[e]
    BY <1>1 DEF OnePlace
  <2> QED BY <2>1, <2>2, <2>3, <1>1, <1>3 DEF OnePlace
<1>7. CurrentIsCalled' /\ EventsAreFresh' /\ ThreadOwnsEvent'
  BY <1>1 DEF CurrentIsCalled, EventsAreFresh, ThreadOwnsEvent
<1> QED BY <1>5, <1>6, <1>7

\* free(event), when the callback has returned.
LEMMA CallReturnsInductive == ASSUME IInv, CallReturns PROVE IInv'
<1> USE EventAssumption DEF IInv, CallReturns
<1>1. current \in Event /\ current \in alive /\ current \notin Waiting
  BY DEF CurrentIsCalled, TypeOK, OnePlace, Waiting
<1>2. TypeOK'
  BY <1>1 DEF TypeOK
<1>3. OnePlace'
  <2>1. NULL \notin alive' /\ Waiting' = Waiting /\ Waiting = alive'
    BY <1>1 DEF OnePlace, Waiting, TypeOK
  <2>2. \A e \in ToSet(queue) : e # current /\ fire'[e]
    BY <1>1 DEF OnePlace, Waiting, TypeOK
  <2> QED BY <2>1, <2>2 DEF OnePlace
<1>4. CurrentIsCalled'
  BY DEF CurrentIsCalled
<1>5. EventsAreFresh'
  BY <1>1 DEF EventsAreFresh, TypeOK
<1>6. ThreadOwnsEvent'
  BY <1>1 DEF ThreadOwnsEvent, TypeOK
<1> QED BY <1>2, <1>3, <1>4, <1>5, <1>6

\* Every step of the interpreter, of a timer thread, and of the collector.
LEMMA StepInductive == ASSUME IInv, [Next]_vars PROVE IInv'
<1> USE EventAssumption DEF IInv
<1>1. CASE ScriptCalls \/ OverloadRaises \/ ScriptEnds \/ StartScan \/ PassOver \/ EndScan \/ Nap
           \/ CallStops
  <2>1. UNCHANGED <<store, thread, time, roots, current>>
    BY <1>1 DEF ScriptCalls, OverloadRaises, ScriptEnds, StartScan, PassOver, EndScan, Nap, CallStops
  <2>2. /\ mode' \in {"script", "next", "scan", "poll", "over", "halted"}
        /\ (mode' = "halted") <=> (mode = "call")
        /\ mode \in {"script", "next", "scan", "poll", "call"}
    BY <1>1 DEF AfterCall,
       ScriptCalls, OverloadRaises, ScriptEnds, StartScan, PassOver, EndScan, Nap, CallStops
  <2>3. i' \in Nat \ {0}
    BY <1>1 DEF TypeOK, AfterCall,
       ScriptCalls, OverloadRaises, ScriptEnds, StartScan, PassOver, EndScan, Nap, CallStops
  <2>4. thrown' \in BOOLEAN
    BY <1>1 DEF TypeOK, AfterCall,
       ScriptCalls, OverloadRaises, ScriptEnds, StartScan, PassOver, EndScan, Nap, CallStops
  <2> QED BY <2>1, <2>2, <2>3, <2>4 DEF TypeOK, OnePlace, Waiting, CurrentIsCalled, EventsAreFresh,
             ThreadOwnsEvent, store
<1>2. CASE QueueFired  BY <1>2, QueueFiredInductive
<1>3. CASE Poll  BY <1>3, PollInductive
<1>4. CASE CallReturns  BY <1>4, CallReturnsInductive
<1>5. ASSUME NEW e \in Event, Sleep(e) PROVE IInv'
  BY <1>5 DEF Sleep, TypeOK, OnePlace, Waiting, CurrentIsCalled, EventsAreFresh, ThreadOwnsEvent,
     store, interp
<1>6. ASSUME NEW e \in Event, Fire(e) PROVE IInv'
  <2>1. e \in ToSet(events) /\ e \in alive /\ e # current
    BY <1>6 DEF Fire, ThreadOwnsEvent, OnePlace, Waiting
  <2>2. TypeOK' /\ CurrentIsCalled'
    BY <1>6 DEF Fire, TypeOK, CurrentIsCalled, interp
  <2>3. OnePlace'
    BY <1>6, <2>1 DEF Fire, TypeOK, OnePlace, Waiting, interp
  <2>4. EventsAreFresh' /\ ThreadOwnsEvent'
    BY <1>6, <2>1 DEF Fire, TypeOK, EventsAreFresh, ThreadOwnsEvent, interp
  <2> QED BY <2>2, <2>3, <2>4
<1>7. ASSUME NEW e \in Event, CollectTime(e) PROVE IInv'
  BY <1>7 DEF CollectTime, TypeOK, OnePlace, Waiting, CurrentIsCalled, EventsAreFresh,
     ThreadOwnsEvent, store, interp
<1>8. ASSUME NEW e \in Event, NEW c \in Callback, Register(e, c) PROVE IInv'
  BY <1>8, RegisterInductive
<1>9. CASE UNCHANGED vars
  BY <1>9 DEF vars, store, interp, TypeOK, OnePlace, Waiting, CurrentIsCalled, EventsAreFresh,
     ThreadOwnsEvent
<1> QED BY <1>1, <1>2, <1>3, <1>4, <1>5, <1>6, <1>7, <1>8, <1>9 DEF Next, Interpreter

\* The inductive invariant holds in every state of runtime.c.
THEOREM Inductive == Spec => []IInv
BY InitInductive, StepInductive, PTL DEF Spec

\* An event that is allocated waits, is queued, or is being called, and never
\* two of these.
THEOREM EventsInOnePlace == Spec => []OnePlace
<1>1. IInv => OnePlace
  BY DEF IInv
<1> QED BY <1>1, Inductive, PTL

\* No timer thread is left with an event that rt_next has freed: what it writes
\* when its time is over is still waiting (runtime.c:82-110).
THEOREM ThreadsOwnTheirEvents == Spec => []ThreadOwnsEvent
<1>1. IInv => ThreadOwnsEvent
  BY DEF IInv
<1> QED BY <1>1, Inductive, PTL

\* Every variable keeps its type: rt_next takes away a root that is there.
THEOREM TypeCorrect == Spec => []TypeOK
<1>1. IInv => TypeOK
  BY DEF IInv
<1> QED BY <1>1, Inductive, PTL

-----------------------------------------------------------------------------
(* The roots.                                                              *)

Waiters(c) == {e \in Waiting : callback[e] = c}

\* The callbacks' entries in the root list follow the events that wait: one is
\* added with an event, one is taken away with the event rt_next returns, and
\* freeing an event, which waits no more, does not touch them.
LEMMA RootsStep ==
  ASSUME IInv, IInv', RootsExact, [Next]_vars
  PROVE  RootsExact'
<1> USE EventAssumption, CallbackAssumption
<1>1. /\ Waiting = alive \ {current} /\ Waiting' = alive' \ {current'}
      /\ alive \subseteq Event /\ current \in Event \cup {NULL}
      /\ callback \in [Event -> Callback \cup {NULL}] /\ roots \in [Callback -> Nat]
  BY DEF IInv, OnePlace, TypeOK
<1>2. \A c \in Callback : IsFiniteSet(Waiters(c)) /\ Waiters(c) \subseteq Event
  BY <1>1, FS_Subset DEF Waiters
<1>3. \A c \in Callback : roots[c] = Cardinality(Waiters(c))
  BY DEF RootsExact, Waiters
<1>4. SUFFICES ASSUME NEW c \in Callback PROVE roots'[c] = Cardinality(Waiters(c)')
  BY DEF RootsExact, Waiters
<1>5. CASE UNCHANGED <<alive, current, callback, roots>>
  BY <1>5, <1>1, <1>3 DEF Waiters
<1>6. ASSUME NEW e \in Event, NEW d \in Callback, Register(e, d)
      PROVE  roots'[c] = Cardinality(Waiters(c)')
  <2>1. /\ e \notin alive /\ alive' = alive \cup {e} /\ current' = current /\ current # e
        /\ callback' = [callback EXCEPT ![e] = d] /\ roots' = [roots EXCEPT ![d] = @ + 1]
    BY <1>6 DEF Register, IInv, OnePlace
  <2>2. e \notin Waiters(c)
    BY <2>1, <1>1 DEF Waiters
  <2>3. CASE c = d
    <3>1. Waiters(c)' = Waiters(c) \cup {e}
      BY <2>1, <2>3, <1>1 DEF Waiters
    <3>2. Cardinality(Waiters(c) \cup {e}) = Cardinality(Waiters(c)) + 1
      BY <2>2, <1>2, FS_AddElement
    <3>3. roots'[c] = roots[c] + 1
      BY <2>1, <2>3, <1>1
    <3> QED BY <3>1, <3>2, <3>3, <1>3
  <2>4. CASE c # d
    <3>1. Waiters(c)' = Waiters(c)
      BY <2>1, <2>4, <1>1 DEF Waiters
    <3> QED BY <3>1, <2>1, <2>4, <1>1, <1>3
  <2> QED BY <2>3, <2>4
<1>7. CASE Poll
  <2> DEFINE l == Last(queue)
  <2>1. /\ current = NULL /\ current' = l /\ alive' = alive /\ callback' = callback
        /\ l \in alive /\ l \in Event /\ callback[l] \in Callback
        /\ roots' = [roots EXCEPT ![callback[l]] = IF @ = 0 THEN 0 ELSE @ - 1]
    BY <1>7, <1>1 DEF Poll, IInv, CurrentIsCalled, OnePlace, EventsAreFresh, TypeOK
  <2> HIDE DEF l
  <2>2. CASE c = callback[l]
    <3>1. Waiters(c)' = Waiters(c) \ {l} /\ l \in Waiters(c)
      BY <2>1, <2>2, <1>1 DEF Waiters
    <3>2. Cardinality(Waiters(c) \ {l}) = Cardinality(Waiters(c)) - 1
      BY <3>1, <1>2, FS_RemoveElement
    <3>3. Cardinality(Waiters(c)) # 0
      BY <3>1, <1>2, FS_EmptySet
    <3> QED BY <3>1, <3>2, <3>3, <2>1, <2>2, <1>1, <1>3
  <2>3. CASE c # callback[l]
    <3>1. Waiters(c)' = Waiters(c)
      BY <2>1, <2>3, <1>1 DEF Waiters
    <3> QED BY <3>1, <2>1, <2>3, <1>1, <1>3
  <2> QED BY <2>2, <2>3
<1>8. CASE CallReturns
  <2>1. /\ current' = NULL /\ alive' = alive \ {current} /\ roots' = roots
        /\ callback' = [callback EXCEPT ![current] = NULL]
    BY <1>8 DEF CallReturns
  <2>2. Waiters(c)' = Waiters(c)
    BY <2>1, <1>1 DEF Waiters
  <2> QED BY <2>1, <2>2, <1>3
<1> QED
  BY <1>5, <1>6, <1>7, <1>8 DEF Next, Interpreter, vars, store, interp, ScriptCalls, OverloadRaises,
     ScriptEnds, StartScan, QueueFired, PassOver, EndScan, Nap, CallStops, Sleep, Fire, CollectTime

\* A callback is entered in the roots once for every event that waits to call
\* it: neither freed while a timeout is due, nor kept for good.
THEOREM RootsAlwaysExact == Spec => []RootsExact
<1>1. Init => RootsExact
  <2> SUFFICES ASSUME Init, NEW c \in Callback PROVE roots[c] = Cardinality(Waiters(c))
    BY DEF RootsExact, Waiters
  <2>1. Waiters(c) = {}
    BY EmptyElements DEF Init, Waiters, Waiting
  <2> QED BY <2>1, FS_EmptySet DEF Init
<1>2. IInv /\ IInv' /\ RootsExact /\ [Next]_vars => RootsExact'
  BY RootsStep
<1> QED BY <1>1, <1>2, Inductive, PTL DEF Spec

-----------------------------------------------------------------------------
(* The refinement.                                                         *)

SState == [e \in Event |->
            IF e = current THEN "called"
            ELSE IF e \notin alive THEN "idle"
            ELSE IF fire[e] THEN "due" ELSE "waiting"]
SStatus == CASE mode = "over" -> "ended" [] mode = "halted" -> "stopped" [] OTHER -> "running"

\* The timeouts of a program that has not started are idle.
LEMMA ServiceInit == Init => Service!Init
BY EventAssumption DEF Init, Service!Init

\* Every step of runtime.c is a request, an expiry, a call, the end of a call
\* or of the program, or is invisible to the program.
LEMMA ServiceStep ==
  ASSUME IInv, [Next]_vars
  PROVE  [Service!Next]_(Service!vars)
<1> USE EventAssumption
<1> SUFFICES Service!Next \/ (SState' = SState /\ SStatus' = SStatus)
  BY DEF Service!vars, SState, SStatus
<1>1. CASE UNCHANGED <<alive, fire, current>> /\ SStatus' = SStatus
  BY <1>1 DEF SState
<1>2. ASSUME NEW e \in Event, NEW c \in Callback, Register(e, c) PROVE Service!Next
  <2>1. e \notin alive /\ e # current /\ ~fire[e] /\ alive' = alive \cup {e}
        /\ fire' = fire /\ current' = current
    BY <1>2 DEF Register, IInv, OnePlace, EventsAreFresh
  <2>2. SState[e] = "idle" /\ SState' = [SState EXCEPT ![e] = "waiting"]
    BY <2>1 DEF SState
  <2>3. SStatus = "running" /\ SStatus' = "running"
    BY <1>2 DEF SStatus, Register, Executing, AfterCall
  <2>4. Service!Request(e)
    BY <2>2, <2>3 DEF Service!Request, SState, SStatus
  <2> QED BY <2>4 DEF Service!Next
<1>3. ASSUME NEW e \in Event, Fire(e) PROVE Service!Next
  <2>1. e \in alive /\ e # current /\ ~fire[e] /\ alive' = alive /\ current' = current
        /\ fire' = [fire EXCEPT ![e] = TRUE] /\ fire \in [Event -> BOOLEAN] /\ mode' = mode
    BY <1>3 DEF Fire, IInv, ThreadOwnsEvent, OnePlace, Waiting, EventsAreFresh, TypeOK, interp
  <2>2. SState[e] = "waiting" /\ SState' = [SState EXCEPT ![e] = "due"] /\ SStatus' = SStatus
    BY <2>1 DEF SState, SStatus
  <2>3. Service!Expire(e)
    BY <2>2 DEF Service!Expire, SState, SStatus
  <2> QED BY <2>3 DEF Service!Next
<1>4. CASE Poll
  <2>1. Last(queue) \in ToSet(queue) /\ Last(queue) \in Event
    BY <1>4, FrontElements DEF Poll, IInv, TypeOK, OnePlace
  <2>2. PICK l \in Event :
          /\ l = Last(queue) /\ current = NULL /\ l \in alive /\ fire[l] /\ current' = l
          /\ alive' = alive /\ fire' = fire /\ mode = "poll" /\ mode' = "call"
    BY <1>4, <2>1 DEF Poll, IInv, CurrentIsCalled, OnePlace, Waiting, TypeOK
  <2>3. /\ SState[l] = "due" /\ SState' = [SState EXCEPT ![l] = "called"]
        /\ \A f \in Event : SState[f] # "called"
    BY <2>2 DEF SState
  <2>4. SStatus = "running" /\ SStatus' = "running"
    BY <2>2 DEF SStatus
  <2>5. Service!Call(l)
    BY <2>3, <2>4 DEF Service!Call, SState, SStatus
  <2> QED BY <2>5 DEF Service!Next
<1>5. CASE CallReturns
  <2>1. PICK e \in Event :
          /\ current = e /\ current' = NULL /\ alive' = alive \ {e}
          /\ fire' = [fire EXCEPT ![e] = FALSE] /\ fire \in [Event -> BOOLEAN]
          /\ mode = "call" /\ mode' = "next"
    BY <1>5 DEF CallReturns, IInv, CurrentIsCalled, TypeOK
  <2>2. SState[e] = "called" /\ SState' = [SState EXCEPT ![e] = "idle"]
    BY <2>1 DEF SState
  <2>3. SStatus = "running" /\ SStatus' = "running"
    BY <2>1 DEF SStatus
  <2>4. Service!Finish(e)
    BY <2>2, <2>3 DEF Service!Finish, SState, SStatus
  <2> QED BY <2>4 DEF Service!Next
<1>6. CASE CallStops
  <2>1. /\ current \in Event /\ UNCHANGED <<alive, fire, current>>
        /\ mode = "call" /\ mode' = "halted"
    BY <1>6 DEF CallStops, IInv, CurrentIsCalled, TypeOK, store
  <2>2. SState[current] = "called" /\ SState' = SState
    BY <2>1 DEF SState
  <2>3. SStatus = "running" /\ SStatus' = "stopped"
    BY <2>1 DEF SStatus
  <2>4. Service!Stop(current)
    BY <2>2, <2>3 DEF Service!Stop, SState, SStatus
  <2>5. \E e \in Event : Service!Stop(e)
    BY <2>1, <2>4
  <2> QED BY <2>5 DEF Service!Next
<1>7. CASE StartScan /\ mode' = "over"
  <2>1. events = <<>> /\ queue = <<>> /\ current = NULL /\ mode = "next"
        /\ UNCHANGED <<alive, fire, current>>
    BY <1>7 DEF StartScan, IInv, CurrentIsCalled, store
  <2>2. alive = {}
    BY <2>1, EmptyElements DEF IInv, OnePlace, Waiting, TypeOK
  <2>3. SState' = SState /\ \A e \in Event : SState[e] = "idle"
    BY <2>1, <2>2 DEF SState
  <2>4. SStatus = "running" /\ SStatus' = "ended"
    BY <1>7, <2>1 DEF SStatus
  <2>5. Service!End
    BY <2>3, <2>4 DEF Service!End, SState, SStatus
  <2> QED BY <2>5 DEF Service!Next
<1>8. CASE \/ ScriptCalls \/ OverloadRaises \/ ScriptEnds \/ QueueFired \/ PassOver \/ EndScan
           \/ Nap \/ (StartScan /\ mode' # "over")
  <2>1. UNCHANGED <<alive, fire, current>>
    BY <1>8 DEF ScriptCalls, OverloadRaises, ScriptEnds, QueueFired, PassOver, EndScan, Nap,
       StartScan, store
  <2>2. {mode, mode'} \subseteq {"script", "next", "scan", "poll"}
    BY <1>8 DEF ScriptCalls, OverloadRaises, ScriptEnds, QueueFired, PassOver, EndScan, Nap,
       StartScan, AfterCall
  <2>3. SStatus' = SStatus
    BY <2>2 DEF SStatus
  <2> QED BY <2>1, <2>3, <1>1
<1>9. ASSUME NEW e \in Event, Sleep(e) \/ CollectTime(e)
      PROVE  UNCHANGED <<alive, fire, current>> /\ SStatus' = SStatus
  BY <1>9 DEF Sleep, CollectTime, store, interp, SStatus
<1>10. UNCHANGED vars => UNCHANGED <<alive, fire, current>> /\ SStatus' = SStatus
  BY DEF vars, store, interp, SStatus
<1> QED BY <1>1, <1>2, <1>3, <1>4, <1>5, <1>6, <1>7, <1>8, <1>9, <1>10 DEF Next, Interpreter

\* runtime.c keeps the promise of Meta.timeout, for any number of timeouts:
\* each is called once, after its time, and never beside another.
THEOREM RefinesService == Spec => ServiceSpec
BY ServiceInit, ServiceStep, Inductive, PTL DEF Spec, ServiceSpec, Service!Spec
=============================================================================

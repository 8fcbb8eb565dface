------------------------------- MODULE Runtime ------------------------------
(***************************************************************************)
(* interpreter/runtime.c and the poll at the end of mach_execute: a timer  *)
(* thread for each Meta.timeout, the list of waiting events, the queue of  *)
(* those that fired, and the interpreter's loop over them when the         *)
(* outermost frame has finished.  The threads share the events with the    *)
(* interpreter and take no lock.  An event is the address of its rt_event, *)
(* which is used again once it is freed.  The collector is on.             *)
(***************************************************************************)
EXTENDS Integers, Sequences, FiniteSets, SequencesExt

CONSTANTS Event,         \* addresses of rt_events
          Callback,      \* functions given to Meta.timeout
          NULL,
          BOXED_TIMES    \* the program gives times that are objects of the heap

ASSUME EventAssumption == IsFiniteSet(Event) /\ NULL \notin Event
ASSUME CallbackAssumption == NULL \notin Callback
ASSUME TimesAssumption == BOXED_TIMES \in BOOLEAN

VARIABLES
  events,     \* rt->events
  queue,      \* rt->event_queue
  alive,      \* the events allocated and not freed
  fire,       \* [Event -> BOOLEAN]
  callback,   \* [Event -> Callback or NULL]
  thread,     \* [Event -> {"none", "started", "asleep", "done"}]
  time,       \* [Event -> {"live", "freed"}]: the object event->data refers to
  roots,      \* [Callback -> Nat]: entries in the collector's roots
  mode,       \* where the interpreter's thread is
  i,          \* the loop variable of rt_scan, from 1
  current,    \* the event being called
  thrown      \* the outermost frame's thrown is set

store == <<events, queue, alive, fire, callback>>
interp == <<mode, i, current, thrown>>
vars == <<store, thread, time, roots, interp>>

TypeOK ==
  /\ events \in Seq(Event) /\ queue \in Seq(Event)
  /\ alive \subseteq Event
  /\ fire \in [Event -> BOOLEAN]
  /\ callback \in [Event -> Callback \cup {NULL}]
  /\ thread \in [Event -> {"none", "started", "asleep", "done"}]
  /\ time \in [Event -> {"live", "freed"}]
  /\ roots \in [Callback -> Nat]
  /\ mode \in {"script", "next", "scan", "poll", "call", "over", "halted"}
  /\ i \in Nat \ {0}
  /\ current \in Event \cup {NULL}
  /\ thrown \in BOOLEAN

Init ==
  /\ events = <<>> /\ queue = <<>>
  /\ alive = {}
  /\ fire = [e \in Event |-> FALSE]
  /\ callback = [e \in Event |-> NULL]
  /\ thread = [e \in Event |-> "none"]
  /\ time = [e \in Event |-> "live"]
  /\ roots = [c \in Callback |-> 0]
  /\ mode = "script" /\ i = 1 /\ current = NULL /\ thrown = FALSE

-----------------------------------------------------------------------------
(* The program: the script, and after it the callbacks.                    *)

Executing == mode \in {"script", "call"}

\* CALL_FUNC looks at the frame's thrown when the call is over.  An exception
\* that it finds there is caught in the script, or ends it.
AfterCall ==
  IF mode = "script" /\ thrown
  THEN thrown' = FALSE /\ mode' \in {"script", "next"}
  ELSE UNCHANGED <<thrown, mode>>

\* Meta.timeout
Register(e, c) ==
  /\ Executing /\ e \notin alive
  /\ alive' = alive \cup {e}
  /\ events' = Append(events, e)
  /\ callback' = [callback EXCEPT ![e] = c]
  /\ roots' = [roots EXCEPT ![c] = @ + 1]
  /\ thread' = [thread EXCEPT ![e] = "started"]
  /\ AfterCall
  /\ UNCHANGED <<queue, fire, time, i, current>>

\* Any other call the script makes
ScriptCalls ==
  /\ mode = "script" /\ thrown
  /\ AfterCall
  /\ UNCHANGED <<store, thread, time, roots, i, current>>

\* An operator or an index overload raises: its caller does not look.
OverloadRaises ==
  /\ mode = "script"
  /\ thrown' = TRUE
  /\ UNCHANGED <<store, thread, time, roots, mode, i, current>>

\* The script reaches its end, or an error that nothing catches.
ScriptEnds ==
  /\ mode = "script"
  /\ mode' = "next"
  /\ UNCHANGED <<store, thread, time, roots, i, current, thrown>>

\* The collector frees a number nothing refers to any more but an event.
CollectTime(e) ==
  /\ BOXED_TIMES /\ Executing
  /\ e \in alive /\ time[e] = "live"
  /\ time' = [time EXCEPT ![e] = "freed"]
  /\ UNCHANGED <<store, thread, roots, interp>>

-----------------------------------------------------------------------------
(* The timer threads: rt_example_threaded.                                 *)

Sleep(e) ==
  /\ thread[e] = "started"
  /\ thread' = [thread EXCEPT ![e] = "asleep"]
  /\ UNCHANGED <<store, time, roots, interp>>

Fire(e) ==
  /\ thread[e] = "asleep"
  /\ fire' = [fire EXCEPT ![e] = TRUE]
  /\ thread' = [thread EXCEPT ![e] = "done"]
  /\ UNCHANGED <<events, queue, alive, callback, time, roots, interp>>

-----------------------------------------------------------------------------
(* The interpreter's loop: rt_next, rt_scan, rt_poll and the call.         *)

\* A broken StartScan: the scan leaves out the first event.
StartScanLate ==
  /\ mode = "next"
  /\ IF events # <<>> \/ queue # <<>> THEN mode' = "scan" /\ i' = 2
                                      ELSE mode' = "over" /\ i' = i
  /\ UNCHANGED <<store, thread, time, roots, current, thrown>>

StartScan ==
  /\ mode = "next"
  /\ IF events # <<>> \/ queue # <<>> THEN mode' = "scan" /\ i' = 1
                                      ELSE mode' = "over" /\ i' = i
  /\ UNCHANGED <<store, thread, time, roots, current, thrown>>

\* A broken QueueFired: the event stays in rt->events.
QueueFiredTwice ==
  /\ mode = "scan" /\ i <= Len(events) /\ fire[events[i]]
  /\ queue' = Cons(events[i], queue)
  /\ i' = i + 1
  /\ UNCHANGED <<events, alive, fire, callback, thread, time, roots, mode, current, thrown>>

\* A broken QueueFired: it does not look at fire.
QueueAny ==
  /\ mode = "scan" /\ i <= Len(events)
  /\ events' = RemoveAt(events, i)
  /\ queue' = Cons(events[i], queue)
  /\ i' = i + 1
  /\ UNCHANGED <<alive, fire, callback, thread, time, roots, mode, current, thrown>>

\* The entry after the one removed takes its place, and is passed over.
QueueFired ==
  /\ mode = "scan" /\ i <= Len(events) /\ fire[events[i]]
  /\ events' = RemoveAt(events, i)
  /\ queue' = Cons(events[i], queue)
  /\ i' = i + 1
  /\ UNCHANGED <<alive, fire, callback, thread, time, roots, mode, current, thrown>>

PassOver ==
  /\ mode = "scan" /\ i <= Len(events) /\ ~fire[events[i]]
  /\ i' = i + 1
  /\ UNCHANGED <<store, thread, time, roots, mode, current, thrown>>

EndScan ==
  /\ mode = "scan" /\ i > Len(events)
  /\ mode' = "poll"
  /\ i' = 1
  /\ UNCHANGED <<store, thread, time, roots, current, thrown>>

\* A broken Poll: the event stays in the queue.
PollPeek ==
  /\ mode = "poll" /\ queue # <<>>
  /\ current' = Last(queue)
  /\ roots' = [roots EXCEPT ![callback[Last(queue)]] = IF @ = 0 THEN 0 ELSE @ - 1]
  /\ mode' = "call"
  /\ UNCHANGED <<store, thread, time, i, thrown>>

\* A broken Poll: the callback stays a root.
PollRooted ==
  /\ mode = "poll" /\ queue # <<>>
  /\ current' = Last(queue)
  /\ queue' = Front(queue)
  /\ mode' = "call"
  /\ UNCHANGED <<events, alive, fire, callback, thread, time, roots, i, thrown>>

\* A broken Poll: the root list is not searched, the count just drops.
PollUnchecked ==
  /\ mode = "poll" /\ queue # <<>>
  /\ current' = Last(queue)
  /\ queue' = Front(queue)
  /\ roots' = [roots EXCEPT ![callback[Last(queue)]] = @ - 2]
  /\ mode' = "call"
  /\ UNCHANGED <<events, alive, fire, callback, thread, time, i, thrown>>

\* rt_next takes the callback's root away before it is called.
Poll ==
  /\ mode = "poll" /\ queue # <<>>
  /\ current' = Last(queue)
  /\ queue' = Front(queue)
  /\ roots' = [roots EXCEPT ![callback[Last(queue)]] = IF @ = 0 THEN 0 ELSE @ - 1]
  /\ mode' = "call"
  /\ UNCHANGED <<events, alive, fire, callback, thread, time, i, thrown>>

Nap ==
  /\ mode = "poll" /\ queue = <<>>
  /\ mode' = "next"
  /\ UNCHANGED <<store, thread, time, roots, i, current, thrown>>

\* The callback returns and the event is freed.
CallReturns ==
  /\ mode = "call" /\ ~thrown
  /\ alive' = alive \ {current}
  /\ fire' = [fire EXCEPT ![current] = FALSE]
  /\ callback' = [callback EXCEPT ![current] = NULL]
  /\ thread' = [thread EXCEPT ![current] = "none"]
  /\ time' = [time EXCEPT ![current] = "live"]
  /\ mode' = "next" /\ current' = NULL
  /\ UNCHANGED <<events, queue, roots, i, thrown>>

\* It raises, or the script left an exception in the frame that nobody looked
\* at: the interpreter stops with the other events waiting.
CallStops ==
  /\ mode = "call"
  /\ mode' = "halted" /\ thrown' = TRUE
  /\ UNCHANGED <<store, thread, time, roots, i, current>>

-----------------------------------------------------------------------------
Interpreter ==
  \/ ScriptCalls \/ OverloadRaises \/ ScriptEnds
  \/ StartScan \/ QueueFired \/ PassOver \/ EndScan \/ Poll \/ Nap
  \/ CallReturns \/ CallStops

Next ==
  \/ Interpreter
  \/ \E e \in Event : \/ Sleep(e) \/ Fire(e) \/ CollectTime(e)
                      \/ \E c \in Callback : Register(e, c)

\* The interpreter's loop runs, a thread wakes up in time, and the script and
\* the callbacks end: the program's part, without which nothing is polled.
Fairness ==
  /\ WF_vars(StartScan \/ QueueFired \/ PassOver \/ EndScan \/ Poll \/ Nap)
  /\ WF_vars(ScriptEnds) /\ WF_vars(CallReturns \/ (thrown /\ CallStops))
  /\ \A e \in Event : WF_vars(Sleep(e) \/ Fire(e))

Spec == Init /\ [][Next]_vars

FairSpec == Spec /\ Fairness

-----------------------------------------------------------------------------
Waiting == ToSet(events) \cup ToSet(queue)

\* An event that is allocated is in exactly one place: waiting, queued, or
\* being called.  Those in the queue, and the one called, have fired.
OnePlace ==
  /\ IsInjective(events) /\ IsInjective(queue)
  /\ ToSet(events) \cap ToSet(queue) = {}
  /\ Waiting = alive \ {current}
  /\ current # NULL => current \in alive /\ fire[current]
  /\ \A e \in ToSet(queue) : fire[e]

\* A timer thread that has yet to write its event writes into one that is
\* allocated and waiting: rt_next frees none under it.
ThreadOwnsEvent ==
  \A e \in Event : thread[e] \in {"started", "asleep"} => e \in ToSet(events)

\* A callback is a root once for each event that waits to call it, and for no
\* other, so it is neither freed before its call nor kept for good after it.
RootsExact ==
  \A c \in Callback :
    roots[c] = Cardinality({e \in Waiting : callback[e] = c})

\* A thread reads its time in an object the collector has not freed: the
\* thread may start after the interpreter has gone on.
TimeIsLive == \A e \in Event : thread[e] = "started" => time[e] = "live"

\* runtime.c keeps the promise of Meta.timeout.
Service == INSTANCE TimerService WITH
  state <- [e \in Event |->
             IF e = current THEN "called"
             ELSE IF e \notin alive THEN "idle"
             ELSE IF fire[e] THEN "due" ELSE "waiting"],
  status <- CASE mode = "over" -> "ended" [] mode = "halted" -> "stopped"
              [] OTHER -> "running"
ServiceSpec == Service!Spec

\* A timeout whose time has come is called, unless the interpreter stops: the
\* entries rt_scan passes over are not passed over for ever.
DueIsCalled ==
  \A e \in Event : (e \in alive /\ fire[e]) ~> (current = e \/ mode = "halted")

\* A program that does not ask for timeouts for ever comes to its end.
Ends ==
  \/ []<><<\E e \in Event, c \in Callback : Register(e, c)>>_vars
  \/ <>(mode \in {"over", "halted"})
=============================================================================

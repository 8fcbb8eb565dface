---------------------------- MODULE TimerService ----------------------------
(***************************************************************************)
(* What Meta.timeout promises a program: the callback of a timeout is      *)
(* called once, after its time has come, one callback at a time; the       *)
(* program ends when no timeout is left, or stops at a callback that       *)
(* raises.                                                                 *)
(***************************************************************************)
CONSTANT Event

VARIABLES state,     \* [Event -> {"idle", "waiting", "due", "called"}]
          status     \* "running", "ended" or "stopped"

vars == <<state, status>>

Init ==
  /\ state = [e \in Event |-> "idle"]
  /\ status = "running"

Request(e) ==
  /\ status = "running" /\ state[e] = "idle"
  /\ state' = [state EXCEPT ![e] = "waiting"]
  /\ UNCHANGED status

\* Time does not stop with the program.
Expire(e) ==
  /\ state[e] = "waiting"
  /\ state' = [state EXCEPT ![e] = "due"]
  /\ UNCHANGED status

Call(e) ==
  /\ status = "running" /\ state[e] = "due"
  /\ \A f \in Event : state[f] # "called"
  /\ state' = [state EXCEPT ![e] = "called"]
  /\ UNCHANGED status

Finish(e) ==
  /\ status = "running" /\ state[e] = "called"
  /\ state' = [state EXCEPT ![e] = "idle"]
  /\ UNCHANGED status

Stop(e) ==
  /\ status = "running" /\ state[e] = "called"
  /\ status' = "stopped"
  /\ UNCHANGED state

End ==
  /\ status = "running"
  /\ \A e \in Event : state[e] = "idle"
  /\ status' = "ended"
  /\ UNCHANGED state

Next ==
  \/ End
  \/ \E e \in Event : Request(e) \/ Expire(e) \/ Call(e) \/ Finish(e) \/ Stop(e)

Spec == Init /\ [][Next]_vars
=============================================================================

------------------------------ MODULE TaskPool ------------------------------
(***************************************************************************)
(* What the scheduler promises of a task, without threads, queue, counters *)
(* or timers.  A submitted task waits until somebody takes it and then runs *)
(* to its end; a suspendable one may go back to waiting in between.  A task *)
(* revoked while it waits is dropped, one revoked after it was taken either *)
(* runs all the same or is given up; it never runs twice.  The pool closes  *)
(* only when it is empty of every task that counts.                         *)
(***************************************************************************)
CONSTANTS
  Tasks,
  Suspendable   \* the tasks that may be suspended and that do not keep the
                \* pool open

VARIABLES
  state,    \* task -> absent, waiting, taken, running, dropped
  revoked,  \* the tasks whose abort was asked for
  closed

Init ==
  /\ state = [t \in Tasks |-> "absent"]
  /\ revoked = {}
  /\ closed = FALSE

Move(t, from, to) ==
  /\ state[t] = from
  /\ state' = [state EXCEPT ![t] = to]
  /\ UNCHANGED closed

(* The cell of a finished task may hold a new one: its revocation ended.   *)
(* Once the pool is closed only a task still running can submit another.   *)
Submit(t) ==
  /\ closed => \E s \in Tasks : state[s] = "running"
  /\ Move(t, "absent", "waiting")
  /\ revoked' = revoked \ {t}

Revoke(t) ==
  /\ state[t] # "absent"
  /\ revoked' = revoked \cup {t}
  /\ UNCHANGED <<state, closed>>

Take(t)     == t \notin revoked /\ Move(t, "waiting", "taken")
               /\ UNCHANGED revoked
Drop(t)     == t \in revoked /\ Move(t, "waiting", "dropped")
               /\ UNCHANGED revoked
Run(t)      == Move(t, "taken", "running") /\ UNCHANGED revoked
GiveUp(t)   == t \in revoked /\ Move(t, "taken", "absent")
               /\ UNCHANGED revoked
Suspend(t)  == t \in Suspendable /\ Move(t, "running", "waiting")
               /\ UNCHANGED revoked
Complete(t) == Move(t, "running", "absent") /\ UNCHANGED revoked

Close ==
  /\ ~closed
  /\ \A t \in Tasks \ Suspendable : state[t] = "absent"
  /\ closed' = TRUE
  /\ UNCHANGED <<state, revoked>>

Next ==
  \/ \E t \in Tasks :
       \/ Submit(t) \/ Revoke(t) \/ Take(t) \/ Drop(t) \/ Run(t)
       \/ GiveUp(t) \/ Suspend(t) \/ Complete(t)
  \/ Close

Spec == Init /\ [][Next]_<<state, revoked, closed>>
=============================================================================

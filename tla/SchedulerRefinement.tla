------------------------ MODULE SchedulerRefinement ------------------------
(***************************************************************************)
(* The scheduler implements TaskPool.  A task's abstract state is read off *)
(* from where its pointer is: at a thread past drainTasks' check for       *)
(* ABORTED it is taken, in its handler it is running, dropped by that check *)
(* it is nowhere, and anywhere else it waits.                              *)
(***************************************************************************)
EXTENDS Scheduler

Owner(t, steps) == \E th \in Threads : myCurrentTask[th] = t /\ pc[th] \in steps

InHandler(t) ==
  \/ Owner(t, {"body", "push", "balance", "add", "register"})
  \/ Owner(t, {"release"}) /\ entered[t] > 0

Taken(t) ==
  \/ Owner(t, {"create", "created", "enter", "activate"})
  \/ Owner(t, {"release"}) /\ entered[t] = 0

Waiting(t) ==
  \/ \E i \in 1..Len(myTaskQueue) : myTaskQueue[i] = t
  \/ timer[t] # "none"
  \/ \E th \in Threads : arg[th] = t
  \/ Owner(t, {"decr", "check"})

TaskState(t) ==
  CASE ~Live(t)     -> "absent"
    [] Waiting(t)   -> "waiting"
    [] Taken(t)     -> "taken"
    [] InHandler(t) -> "running"
    [] OTHER        -> "dropped"

TP == INSTANCE TaskPool WITH
        Tasks       <- Tasks,
        Suspendable <- Coroutines,
        state       <- [t \in Tasks |-> TaskState(t)],
        revoked     <- {t \in Tasks : aborted[t] # "no"},
        closed      <- pc[Main] \in {"join", "destroy", "exited"}

(* Each step of the threads, the timers and the program is a step of the   *)
(* task pool or invisible in it: a task's handler runs once, to its end,   *)
(* an abort before drainTasks' check drops it, and the process ends only   *)
(* when no held task is left.                                              *)
ImplementsTaskPool == TP!Spec
=============================================================================

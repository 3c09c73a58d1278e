--------------------------- MODULE PromiseBridge ---------------------------
(***************************************************************************)
(* Promises made and settled by native code (src/globals/promise.cpp) and  *)
(* the callbacks that native code attaches to them (src/object.cpp).       *)
(*                                                                         *)
(* createPromise() protects the two settlement functions of a new promise  *)
(* from the garbage collector and gives them to an executor, which calls   *)
(* one at once, keeps them for other tasks, or throws.  Every call of one  *)
(* settles the promise if it is the first, and unprotects both.  resolve() *)
(* and reject() make a promise that is settled and has no such functions.  *)
(*                                                                         *)
(* The callers are tasks on the threads of the pool; each makes one call.  *)
(* A caller that is a coroutine would go through a helper task; no code of *)
(* the repository creates a coroutine, and that path is left out.          *)
(***************************************************************************)
EXTENDS Naturals, Sequences, FiniteSets

CONSTANTS
  Callers,       \* the tasks that call into the bridge
  ThreadCounts   \* the sizes of the thread pool explored

ASSUME ThreadCountsAssumption == ThreadCounts \subseteq Nat \ {0}

VARIABLES
  threads,    \* size of the pool
  queue,      \* the task queue, first in first out
  active,     \* what the threads are running
  call,       \* caller -> "none", or the call it makes: "create" "ready" "settle"
  at,         \* caller -> where it is in its call
  promise,    \* "none" "pending" "resolved" "rejected"
  protected,  \* protection count of the settlement functions
  data,       \* PromiseData of then(): "none", "both" or "resolveOnly" for
              \* the callbacks given, "freed"
  reactions   \* history: number of callbacks run

pool == <<threads, queue, active>>
caller == <<call, at>>
then == <<data, reactions>>
vars == <<pool, caller, promise, protected, then>>

Caller(x) == <<"caller", x>>
Job == <<"job", "then">>
Runnables == {"caller"} \X Callers \cup {Job}

Init ==
  /\ threads \in ThreadCounts
  /\ queue = <<>>
  /\ active = {}
  /\ call = [x \in Callers |-> "none"]
  /\ at = [x \in Callers |-> "outside"]
  /\ promise = "none" /\ protected = 0
  /\ data = "none" /\ reactions = 0

-----------------------------------------------------------------------------
(* The pool: a free thread takes the first task. *)
Take ==
  /\ queue # <<>> /\ Cardinality(active) < threads
  /\ active' = active \cup {Head(queue)}
  /\ queue' = Tail(queue)
  /\ UNCHANGED <<threads, caller, promise, protected, then>>

(* A caller is scheduled. *)
Schedule(x) ==
  /\ at[x] = "outside"
  /\ at' = [at EXCEPT ![x] = "start"]
  /\ queue' = Append(queue, Caller(x))
  /\ UNCHANGED <<threads, active, call, promise, protected, then>>

(* The caller is at a step of its call, or returns. *)
Goes(x, where) ==
  /\ at' = [at EXCEPT ![x] = where]
  /\ active' = IF where = "returned" THEN active \ {Caller(x)} ELSE active
  /\ UNCHANGED threads

(* One promise is made, and settled by the tasks that were given its       *)
(* settlement functions.                                                   *)
Unmade == \A x \in Callers : call[x] \notin {"create", "ready"}
HasFunctions == promise # "none" /\ \E x \in Callers : call[x] = "create"

Begin(x) ==
  /\ Caller(x) \in active /\ at[x] = "start"
  /\ \/ \E op \in {"create", "ready"} :
          Unmade /\ call' = [call EXCEPT ![x] = op] /\ Goes(x, "begin")
     \/ HasFunctions /\ call' = [call EXCEPT ![x] = "settle"] /\ Goes(x, "settle")
     \/ UNCHANGED call /\ Goes(x, "returned")
  /\ UNCHANGED <<queue, promise, protected, then>>

-----------------------------------------------------------------------------
(* createPromise(): the constructor runs the executor, with its functions  *)
(* protected.  The executor keeps them, or a call of one follows: its own, *)
(* or the rejection of what it threw.                                      *)
Create(x) ==
  /\ Caller(x) \in active /\ at[x] = "begin" /\ call[x] = "create"
  /\ promise' = "pending"
  /\ protected' = protected + 1
  /\ Goes(x, "returned") \/ Goes(x, "settle")
  /\ UNCHANGED <<queue, call, then>>

(* resolve(), reject() *)
Ready(x) ==
  /\ Caller(x) \in active /\ at[x] = "begin" /\ call[x] = "ready"
  /\ promise' \in {"resolved", "rejected"}
  /\ Goes(x, "returned")
  /\ UNCHANGED <<queue, call, protected, then>>

(* The first settlement settles, and queues the job of a callback that is  *)
(* attached.                                                               *)
SettlePromise ==
  \/ /\ promise = "pending"
     /\ promise' \in {"resolved", "rejected"}
     /\ queue' = IF data = "none" THEN queue ELSE Append(queue, Job)
  \/ promise # "pending" /\ UNCHANGED <<promise, queue>>

(* Mutant: unprotect before the settlement function is called. *)
SettleUnprotected(x) ==
  /\ Caller(x) \in active /\ at[x] = "settle"
  /\ IF protected > 0
     THEN /\ protected' = protected - 1
          /\ UNCHANGED <<pool, at, promise>>
     ELSE SettlePromise /\ Goes(x, "unprotect") /\ UNCHANGED protected
  /\ UNCHANGED <<call, then>>

(* A settlement function is called. *)
Settle(x) ==
  /\ Caller(x) \in active /\ at[x] = "settle"
  /\ SettlePromise
  /\ Goes(x, "unprotect")
  /\ UNCHANGED <<call, protected, then>>

(* Every call unprotects, the second one too.  An executor may throw, or   *)
(* make another call, when it has settled the promise.                     *)
Unprotect(x) ==
  /\ Caller(x) \in active /\ at[x] = "unprotect"
  /\ protected' = IF protected = 0 THEN 0 ELSE protected - 1
  /\ Goes(x, "returned") \/ (call[x] = "create" /\ Goes(x, "settle"))
  /\ UNCHANGED <<queue, call, promise, then>>

-----------------------------------------------------------------------------
(* Mutant: the job does not wait for the settlement. *)
ThenEager ==
  /\ promise # "none" /\ data = "none"
  /\ data' \in {"both", "resolveOnly"}
  /\ queue' = Append(queue, Job)
  /\ UNCHANGED <<threads, active, caller, promise, protected, reactions>>

(* then(), of native code, with a callback for both outcomes or for one.   *)
Then ==
  /\ promise # "none" /\ data = "none"
  /\ data' \in {"both", "resolveOnly"}
  /\ queue' = IF promise = "pending" THEN queue ELSE Append(queue, Job)
  /\ UNCHANGED <<threads, active, caller, promise, protected, reactions>>

(* The job: the callback that runs frees the data.  A promise that is      *)
(* rejected without a callback for it leaves them allocated.               *)
React ==
  /\ Job \in active
  /\ active' = active \ {Job}
  /\ IF promise = "rejected" /\ data = "resolveOnly" THEN UNCHANGED then
     ELSE data' = "freed" /\ reactions' = reactions + 1
  /\ UNCHANGED <<threads, queue, caller, promise, protected>>

-----------------------------------------------------------------------------
Step(x) ==
  Schedule(x) \/ Begin(x) \/ Create(x) \/ Ready(x) \/ Settle(x) \/ Unprotect(x)

Next == Take \/ Then \/ React \/ \E x \in Callers : Step(x)

Spec == Init /\ [][Next]_vars

-----------------------------------------------------------------------------
Settled == promise \in {"resolved", "rejected"}

TypeOK ==
  /\ threads \in ThreadCounts
  /\ queue \in Seq(Runnables)
  /\ active \subseteq Runnables
  /\ call \in [Callers -> {"none", "create", "ready", "settle"}]
  /\ at \in [Callers -> {"outside", "start", "begin", "settle", "unprotect", "returned"}]
  /\ promise \in {"none", "pending", "resolved", "rejected"}
  /\ data \in {"none", "both", "resolveOnly", "freed"} /\ reactions \in Nat
  /\ protected \in Nat

(* The callback of then() runs after the promise is settled, once, on data *)
(* that are not yet freed, on whatever thread and however early its job is *)
(* taken: also while the task that settled is still in its call            *)
(* (Object::then).  The variables have their types.                        *)
ReactsOnce ==
  /\ TypeOK
  /\ reactions <= 1 /\ (data = "freed" => reactions = 1 /\ Settled)
  /\ Job \in active => data \in {"both", "resolveOnly"} /\ Settled

(* The settlement functions are protected from the garbage collector while *)
(* the promise is pending, and no longer once it is settled and the calls  *)
(* that were under way are over: the first call gives the protection back, *)
(* and no other, a throwing executor's or another task's, gives it back    *)
(* too early (CreatePromiseExecutor).                                      *)
PendingProtected ==
  /\ promise = "pending" => protected > 0
  /\ Settled /\ (\A x \in Callers : at[x] # "unprotect") => protected = 0
=============================================================================

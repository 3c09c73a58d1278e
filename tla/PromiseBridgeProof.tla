------------------------- MODULE PromiseBridgeProof -------------------------
(***************************************************************************)
(* Proofs about the promise bridge, for any set of callers and any size of *)
(* the thread pool.                                                        *)
(***************************************************************************)
EXTENDS PromiseBridge, TLAPS

(* The job of then() exists once, from the moment when both a callback and *)
(* an outcome are there and until it has run.                              *)
JobReady == data \in {"both", "resolveOnly"} /\ Settled

JobInv ==
  /\ promise = "none" => data = "none"
  /\ reactions = IF data = "freed" THEN 1 ELSE 0
  /\ data = "freed" => Settled
  /\ Job \in active => JobReady
  /\ \A i \in 1..Len(queue) : queue[i] = Job =>
       /\ JobReady /\ Job \notin active
       /\ \A j \in 1..Len(queue) : queue[j] = Job => i = j

(* One caller makes the promise; settlement functions exist, and a caller  *)
(* is past one, only once there is something to settle.  The protection is *)
(* one, and outlives the settlement only until the first caller that is    *)
(* past it unprotects.                                                     *)
Making(x) == call[x] \in {"create", "ready"}

ProtectInv ==
  /\ \A x, y \in Callers : Making(x) /\ Making(y) => x = y
  /\ \A x \in Callers :
       /\ at[x] \in {"outside", "start"} => call[x] = "none"
       /\ at[x] = "begin" => Making(x) /\ promise = "none"
       /\ at[x] = "settle" => promise # "none"
       /\ at[x] = "unprotect" => Settled
  /\ promise # "none" => \E x \in Callers : Making(x)
  /\ promise = "none" => protected = 0
  /\ promise = "pending" => protected = 1
  /\ Settled => protected = 0 \/ (protected = 1 /\ \E x \in Callers : at[x] = "unprotect")

-----------------------------------------------------------------------------
(* The tasks of the pool: callers, none of which is the job. *)
LEMMA Kinds ==
  /\ Job \in Runnables
  /\ \A x \in Callers : Caller(x) \in Runnables /\ Caller(x) # Job
  BY DEF Caller, Job, Runnables

(* Every step keeps the types. *)
LEMMA TypeNext == TypeOK /\ [Next]_vars => TypeOK'
<1> SUFFICES ASSUME TypeOK, [Next]_vars
             PROVE  TypeOK'
  OBVIOUS
<1> USE DEF TypeOK, vars, pool, caller, then
<1>1. ASSUME Take PROVE TypeOK'
  BY <1>1 DEF Take
<1>2. ASSUME Then PROVE TypeOK'
  BY <1>2, Kinds DEF Then
<1>3. ASSUME React PROVE TypeOK'
  BY <1>3 DEF React
<1>4. ASSUME NEW x \in Callers, Schedule(x) PROVE TypeOK'
  BY <1>4, Kinds DEF Schedule
<1>5. ASSUME NEW x \in Callers, Begin(x) PROVE TypeOK'
  BY <1>5 DEF Begin, Goes
<1>6. ASSUME NEW x \in Callers, Create(x) PROVE TypeOK'
  BY <1>6 DEF Create, Goes
<1>7. ASSUME NEW x \in Callers, Ready(x) PROVE TypeOK'
  BY <1>7 DEF Ready, Goes
<1>8. ASSUME NEW x \in Callers, Settle(x) PROVE TypeOK'
  <2>1. queue' \in Seq(Runnables)
    <3>1. queue \in Seq(Runnables) /\ Job \in Runnables
      BY Kinds
    <3>2. queue' = queue \/ queue' = Append(queue, Job)
      BY <1>8 DEF Settle, SettlePromise
    <3>. QED
      BY <3>1, <3>2, SMTT(30)
  <2>. QED
    BY <1>8, <2>1 DEF Settle, SettlePromise, Goes
<1>9. ASSUME NEW x \in Callers, Unprotect(x) PROVE TypeOK'
  BY <1>9 DEF Unprotect, Goes
<1>10. CASE UNCHANGED vars
  BY <1>10
<1>. QED
  BY <1>1, <1>2, <1>3, <1>4, <1>5, <1>6, <1>7, <1>8, <1>9, <1>10 DEF Next, Step

(* A step that puts at most a caller in the queue, and leaves the promise  *)
(* and its callbacks alone.                                                *)
LEMMA KeepsJob ==
  ASSUME TypeOK, JobInv, UNCHANGED <<promise, data, reactions>>,
         Job \in active' => Job \in active,
         \/ queue' = queue
         \/ \E r \in Runnables \ {Job} : queue' = Append(queue, r)
  PROVE  JobInv'
<1>1. CASE queue' = queue
  BY <1>1 DEF JobInv, JobReady, Settled
<1>2. ASSUME NEW r \in Runnables \ {Job}, queue' = Append(queue, r)
      PROVE  JobInv'
  <2>1. /\ Len(queue') = Len(queue) + 1
        /\ \A i \in 1..Len(queue) : queue'[i] = queue[i]
        /\ queue'[Len(queue) + 1] # Job
    BY <1>2 DEF TypeOK
  <2>2. \A i \in 1..Len(queue') : queue'[i] = Job => i \in 1..Len(queue) /\ queue[i] = Job
    BY <2>1 DEF TypeOK
  <2>. QED
    BY <2>1, <2>2 DEF JobInv, JobReady, Settled
<1>. QED
  BY <1>1, <1>2

(* A step that queues the job when there was none. *)
LEMMA QueuesJob ==
  ASSUME TypeOK, JobInv, queue' = Append(queue, Job), ~JobReady, JobReady',
         Job \in active' => Job \in active, reactions' = reactions, data # "freed"
  PROVE  JobInv'
<1>1. /\ Job \notin active
      /\ \A i \in 1..Len(queue) : queue[i] # Job
  BY DEF JobInv
<1>2. /\ Len(queue') = Len(queue) + 1
      /\ \A i \in 1..Len(queue) : queue'[i] = queue[i]
  BY Kinds DEF TypeOK
<1>3. \A i \in 1..Len(queue') : queue'[i] = Job => i = Len(queue) + 1
  BY <1>1, <1>2 DEF TypeOK
<1>. QED
  BY <1>1, <1>3 DEF JobInv, JobReady, Settled

(* The job is queued once, by then() or by the settlement, whichever is    *)
(* second.                                                                 *)
LEMMA JobNext == TypeOK /\ JobInv /\ ProtectInv /\ [Next]_vars => JobInv'
<1> SUFFICES ASSUME TypeOK, JobInv, ProtectInv, [Next]_vars
             PROVE  JobInv'
  OBVIOUS
<1> USE DEF vars, pool, caller, then
<1>1. ASSUME Take PROVE JobInv'
  <2>1. /\ Len(queue') = Len(queue) - 1
        /\ \A i \in 1..Len(queue') : i + 1 \in 1..Len(queue) /\ queue'[i] = queue[i + 1]
    BY <1>1 DEF Take, TypeOK
  <2>2. 1 \in 1..Len(queue) /\ Head(queue) = queue[1]
    BY <1>1 DEF Take, TypeOK
  <2>3. Job \in active' => Job \in active \/ queue[1] = Job
    BY <1>1, <2>2 DEF Take
  <2>4. ASSUME NEW i \in 1..Len(queue'), queue'[i] = Job
        PROVE  /\ JobReady' /\ Job \notin active'
               /\ \A j \in 1..Len(queue') : queue'[j] = Job => i = j
    <3>1. i + 1 \in 1..Len(queue) /\ queue[i + 1] = Job /\ i + 1 # 1
      BY <2>1, <2>4
    <3>2. Job \notin active /\ queue[1] # Job
      BY <2>2, <3>1 DEF JobInv
    <3>3. \A j \in 1..Len(queue') : queue'[j] = Job => i + 1 = j + 1
      BY <2>1, <3>1 DEF JobInv
    <3>. QED
      BY <1>1, <2>3, <3>1, <3>2, <3>3 DEF Take, JobInv, JobReady, Settled
  <2>. QED
    BY <1>1, <2>2, <2>3, <2>4 DEF Take, JobInv, JobReady, Settled
<1>2. ASSUME Then PROVE JobInv'
  <2>1. CASE promise = "pending"
    BY <1>2, <2>1 DEF Then, JobInv, JobReady, Settled
  <2>2. CASE promise # "pending"
    BY <1>2, <2>2, QueuesJob DEF Then, JobReady, Settled, TypeOK
  <2>. QED
    BY <2>1, <2>2
<1>3. ASSUME React PROVE JobInv'
  BY <1>3 DEF React, TypeOK, JobInv, JobReady, Settled
<1>4. ASSUME NEW x \in Callers, Schedule(x) PROVE JobInv'
  BY <1>4, Kinds, KeepsJob DEF Schedule
<1>5. ASSUME NEW x \in Callers, Begin(x) PROVE JobInv'
  BY <1>5, Kinds, KeepsJob DEF Begin, Goes
<1>6. ASSUME NEW x \in Callers, Create(x) PROVE JobInv'
  <2>1. promise = "none"
    BY <1>6 DEF Create, ProtectInv
  <2>2. Job \in active' => Job \in active
    BY <1>6 DEF Create, Goes
  <2>. QED
    BY <1>6, <2>1, <2>2 DEF Create, JobInv, JobReady, Settled
<1>7. ASSUME NEW x \in Callers, Ready(x) PROVE JobInv'
  <2>1. promise = "none"
    BY <1>7 DEF Ready, ProtectInv
  <2>2. Job \in active' => Job \in active
    BY <1>7 DEF Ready, Goes
  <2>. QED
    BY <1>7, <2>1, <2>2 DEF Ready, JobInv, JobReady, Settled
<1>8. ASSUME NEW x \in Callers, Settle(x) PROVE JobInv'
  <2>1. active' = active /\ UNCHANGED then
    BY <1>8 DEF Settle, Goes
  <2>2. CASE promise # "pending" \/ data = "none"
    BY <1>8, <2>1, <2>2 DEF Settle, SettlePromise, JobInv, JobReady, Settled
  <2>3. CASE promise = "pending" /\ data # "none"
    BY <1>8, <2>1, <2>3, QueuesJob DEF Settle, SettlePromise, TypeOK, JobInv, JobReady, Settled
  <2>. QED
    BY <2>2, <2>3
<1>9. ASSUME NEW x \in Callers, Unprotect(x) PROVE JobInv'
  BY <1>9, Kinds, KeepsJob DEF Unprotect, Goes
<1>10. CASE UNCHANGED vars
  BY <1>10, KeepsJob
<1>. QED
  BY <1>1, <1>2, <1>3, <1>4, <1>5, <1>6, <1>7, <1>8, <1>9, <1>10 DEF Next, Step

(* A protection is given up only once the promise is settled, and by the   *)
(* first caller that is past a settlement.                                 *)
LEMMA ProtectNext == TypeOK /\ ProtectInv /\ [Next]_vars => ProtectInv'
<1> SUFFICES ASSUME TypeOK, ProtectInv, [Next]_vars
             PROVE  ProtectInv'
  OBVIOUS
<1> USE DEF TypeOK, vars, pool, caller, then, ProtectInv, Settled, Making
<1>1. ASSUME Take PROVE ProtectInv'
  BY <1>1 DEF Take
<1>2. ASSUME Then PROVE ProtectInv'
  BY <1>2 DEF Then
<1>3. ASSUME React PROVE ProtectInv'
  BY <1>3 DEF React
<1>4. ASSUME NEW x \in Callers, Schedule(x) PROVE ProtectInv'
  <2>1. \A y \in Callers : at'[y] = "unprotect" <=> at[y] = "unprotect"
    BY <1>4 DEF Schedule
  <2>. QED
    BY <1>4, <2>1 DEF Schedule
<1>5. ASSUME NEW x \in Callers, Begin(x) PROVE ProtectInv'
  <2>1. \A y \in Callers : at'[y] = "unprotect" <=> at[y] = "unprotect"
    BY <1>5 DEF Begin, Goes
  <2>2. UNCHANGED <<promise, protected>>
    BY <1>5 DEF Begin
  <2>3. CASE Unmade /\ \E op \in {"create", "ready"} : call' = [call EXCEPT ![x] = op] /\ Goes(x, "begin")
    <3>1. promise = "none"
      BY <2>3 DEF Unmade
    <3>. QED
      BY <2>1, <2>2, <2>3, <3>1 DEF Unmade, Goes
  <2>4. CASE HasFunctions /\ call' = [call EXCEPT ![x] = "settle"] /\ Goes(x, "settle")
    <3>1. /\ at' = [at EXCEPT ![x] = "settle"] /\ promise # "none"
          /\ \A y \in Callers : y # x => call'[y] = call[y]
          /\ ~ Making(x)'
      BY <2>4 DEF HasFunctions, Goes
    <3>2. PICK y \in Callers : call[y] = "create"
      BY <2>4 DEF HasFunctions
    <3>3. CASE y = x
      BY <1>5, <3>2, <3>3 DEF Begin
    <3>4. CASE y # x
      BY <2>1, <2>2, <3>1, <3>2, <3>4
    <3>. QED
      BY <3>3, <3>4
  <2>5. CASE UNCHANGED call /\ Goes(x, "returned")
    BY <2>1, <2>2, <2>5 DEF Goes
  <2>. QED
    BY <1>5, <2>3, <2>4, <2>5 DEF Begin
<1>6. ASSUME NEW x \in Callers, Create(x) PROVE ProtectInv'
  BY <1>6 DEF Create, Goes
<1>7. ASSUME NEW x \in Callers, Ready(x) PROVE ProtectInv'
  <2>1. /\ at[x] = "begin" /\ at' = [at EXCEPT ![x] = "returned"]
        /\ Settled' /\ UNCHANGED <<call, protected>>
    BY <1>7 DEF Ready, Goes
  <2>2. promise = "none" /\ protected = 0
    BY <2>1
  <2>3. \A y \in Callers : at'[y] = "begin" => FALSE
    BY <2>1
  <2>. QED
    BY <2>1, <2>2, <2>3
<1>8. ASSUME NEW x \in Callers, Settle(x) PROVE ProtectInv'
  <2>1. at' = [at EXCEPT ![x] = "unprotect"] /\ UNCHANGED <<call, protected>>
    BY <1>8 DEF Settle, Goes
  <2>2. Settled' /\ (promise # "pending" => promise' = promise) /\ promise # "none"
    BY <1>8 DEF Settle, SettlePromise
  <2>. QED
    BY <2>1, <2>2
<1>9. ASSUME NEW x \in Callers, Unprotect(x) PROVE ProtectInv'
  BY <1>9 DEF Unprotect, Goes
<1>10. CASE UNCHANGED vars
  BY <1>10
<1>. QED
  BY <1>1, <1>2, <1>3, <1>4, <1>5, <1>6, <1>7, <1>8, <1>9, <1>10 DEF Next, Step

-----------------------------------------------------------------------------
BridgeInv == TypeOK /\ JobInv /\ ProtectInv

(* The invariant holds before any call is made. *)
LEMMA BridgeInit == Init => BridgeInv
  BY DEF Init, BridgeInv, TypeOK, JobInv, ProtectInv, Settled, JobReady, Making

(* The invariant that the two theorems below are read off from. *)
LEMMA BridgeCorrect == Spec => []BridgeInv
<1>1. BridgeInv /\ [Next]_vars => BridgeInv'
  BY TypeNext, JobNext, ProtectNext DEF BridgeInv
<1>. QED
  BY BridgeInit, <1>1, PTL DEF Spec

(* The callbacks of then() run at most once, after the settlement, on data *)
(* not yet freed: for any number of callers and threads.                   *)
THEOREM ReactsCorrect == Spec => []ReactsOnce
<1>1. BridgeInv => ReactsOnce
  BY DEF BridgeInv, JobInv, JobReady, Settled, ReactsOnce
<1>. QED
  BY BridgeCorrect, <1>1, PTL

(* The settlement functions are protected while the promise is pending and *)
(* until the first settlement is over, for any number of callers that      *)
(* settle and unprotect in any order, and of executors that throw.         *)
THEOREM ProtectCorrect == Spec => []PendingProtected
<1>1. BridgeInv => PendingProtected
  BY DEF BridgeInv, ProtectInv, PendingProtected
<1>. QED
  BY BridgeCorrect, <1>1, PTL
=============================================================================

--------------------------- MODULE SchedulerProof ---------------------------
(***************************************************************************)
(* Proofs about the scheduler for any number of threads and tasks.         *)
(***************************************************************************)
EXTENDS SchedulerRefinement, FiniteSetTheorems, WellFoundedInduction, TLAPS

(* Where a thread is tells which task pointers it has, and only the main   *)
(* thread evaluates the module and ends the process.                       *)
HasTask(th) ==
  \/ pc[th] \in {"decr", "check", "create", "created", "enter", "activate",
                 "body", "release"}
  \/ pc[th] \in {"push", "balance", "add", "register"} /\ back[th] = "body"

Control ==
  /\ \A th \in Threads :
       /\ HasTask(th) => myCurrentTask[th] \in Tasks
       /\ ~HasTask(th) => myCurrentTask[th] = NoTask
       /\ pc[th] = "push" => arg[th] \in Tasks
       /\ pc[th] # "push" => arg[th] = NoTask
  /\ \A p \in Pool :
       /\ pc[p] \notin {"eval", "join", "destroy", "exited"}
       /\ back[p] \notin {"eval", "init"}
  /\ pc[Main] # "none"

(* Types.  Each action keeps every variable in its type; the only argument *)
(* beyond that is that timeout ids stay below the number of tasks created. *)
LEMMA ControlInit == Init => TypeOK /\ Control
  BY ThreadsAssumption, BoundsAssumption
  DEF Init, TypeOK, Control, HasTask, Threads, Statuses, Steps

(* Every step keeps the types. *)
LEMMA TypeNext == TypeOK /\ Control /\ [Next]_vars => TypeOK'
<1>. SUFFICES ASSUME TypeOK, Control, [Next]_vars PROVE TypeOK'
  OBVIOUS
<1>. USE BoundsAssumption, TasksAssumption
     DEF TypeOK, Control, HasTask, Goto, Statuses, Steps, Threads, taskVars,
         countVars, poolVars, callVars, otherVars
<1>1. ASSUME NEW th \in Threads, NEW t \in Tasks, ScheduleTask(th, t)
      PROVE TypeOK'
  BY <1>1 DEF ScheduleTask, NewTask, CountTask, InProgram
<1>2. ASSUME NEW th \in Threads, NEW t \in Tasks, SetTimeout(th, t)
      PROVE TypeOK'
  BY <1>2 DEF SetTimeout, NewTask, InProgram
<1>3. ASSUME NEW th \in Threads, NEW id \in DOMAIN globalTimeouts,
             ClearTimeout(th, id)
      PROVE TypeOK'
  <2>. DEFINE t == globalTimeouts[id]
  <2>1. t \in Tasks
    OBVIOUS
  <2>2. CASE status[t] = "FREE"
    BY <1>3, <2>2 DEF ClearTimeout
  <2>3. CASE status[t] # "FREE"
    <3>1. /\ status' = [status EXCEPT ![t] = "ABORTED"]
          /\ timer' = [timer EXCEPT ![t] = IF @ = "armed" THEN "due" ELSE @]
          /\ aborted' \in { [aborted EXCEPT ![t] = x] :
                             x \in {"no", "early", "late"} }
      BY <1>3, <2>1, <2>3 DEF ClearTimeout
    <3>2. timer' \in [Tasks -> {"none", "armed", "due"}]
      BY <2>1, <3>1
    <3>3. aborted' \in [Tasks -> {"no", "early", "late"}]
      <4>1. PICK x \in {"no", "early", "late"} :
              aborted' = [aborted EXCEPT ![t] = x]
        BY <3>1
      <4>. QED
        BY <2>1, <4>1, SMTT(30)
    <3>. QED
      BY <1>3, <3>1, <3>2, <3>3 DEF ClearTimeout
  <2>. QED
    BY <2>2, <2>3
<1>4. ASSUME NEW th \in Threads, Yield(th)
      PROVE TypeOK'
  BY <1>4 DEF Yield
<1>5. ASSUME NEW th \in Threads, Finish(th)
      PROVE TypeOK'
  BY <1>5 DEF Finish
<1>6. ASSUME NEW th \in Threads, Pause(th) \/ Resume(th)
      PROVE TypeOK'
  BY <1>6 DEF Pause, Resume
<1>7. ASSUME NEW t \in Tasks, Expire(t)
      PROVE TypeOK'
  BY <1>7 DEF Expire
<1>8. ASSUME NEW th \in Threads, Push(th)
      PROVE TypeOK'
  BY <1>8 DEF Push
<1>9. ASSUME NEW th \in Threads, Balance(th)
      PROVE TypeOK'
  BY <1>9 DEF Balance
<1>10. ASSUME NEW th \in Threads, NEW p \in Pool, StartThread(th, p)
      PROVE TypeOK'
  <2>1. pc' = [pc EXCEPT ![th] = "register", ![p] = "init"]
    BY <1>10 DEF StartThread
  <2>2. pc' \in [Threads -> Steps]
    BY <2>1
  <2>3. starting' \in [Threads -> SUBSET Pool]
    BY <1>10 DEF StartThread
  <2>. QED
    BY <1>10, <2>2, <2>3 DEF StartThread
<1>10a. ASSUME NEW th \in Threads, RegisterThread(th)
      PROVE TypeOK'
  BY <1>10a DEF RegisterThread
<1>11. ASSUME NEW th \in Threads, EnterDispatcher(th)
      PROVE TypeOK'
  BY <1>11 DEF EnterDispatcher
<1>12. ASSUME NEW th \in Threads, NEW t \in Tasks, PollTimer(th, t)
      PROVE TypeOK'
  BY <1>12 DEF PollTimer, CountTask
<1>13. ASSUME NEW th \in Threads, PollNothing(th)
      PROVE TypeOK'
  BY <1>13 DEF PollNothing
<1>14. ASSUME NEW th \in Threads, TestQueued(th)
      PROVE TypeOK'
  BY <1>14 DEF TestQueued
<1>15. ASSUME NEW th \in Threads, TestStopped(th)
      PROVE TypeOK'
  BY <1>15 DEF TestStopped
<1>16. ASSUME NEW th \in Threads, Pop(th)
      PROVE TypeOK'
  BY <1>16 DEF Pop
<1>17. ASSUME NEW th \in Threads, EndDrain(th)
      PROVE TypeOK'
  BY <1>17 DEF EndDrain
<1>18. ASSUME NEW th \in Threads, Uncount(th)
      PROVE TypeOK'
  BY <1>18 DEF Uncount
<1>19. ASSUME NEW th \in Threads, DropAborted(th)
      PROVE TypeOK'
  BY <1>19 DEF DropAborted
<1>20. ASSUME NEW th \in Threads, PassCheck(th)
      PROVE TypeOK'
  BY <1>20 DEF PassCheck
<1>21. ASSUME NEW th \in Threads, CheckInactive(th)
      PROVE TypeOK'
  BY <1>21 DEF CheckInactive
<1>22. ASSUME NEW th \in Threads, Create(th)
      PROVE TypeOK'
  BY <1>22 DEF Create
<1>23. ASSUME NEW th \in Threads, Enter(th)
      PROVE TypeOK'
  BY <1>23 DEF Enter
<1>24. ASSUME NEW th \in Threads, Activate(th)
      PROVE TypeOK'
  BY <1>24 DEF Activate
<1>25. ASSUME NEW th \in Threads, Requeue(th)
      PROVE TypeOK'
  BY <1>25 DEF Requeue
<1>26. ASSUME NEW th \in Threads, Recount(th)
      PROVE TypeOK'
  BY <1>26 DEF Recount
<1>27. ASSUME NEW th \in Threads, Delete(th)
      PROVE TypeOK'
  BY <1>27 DEF Delete
<1>28. ASSUME NEW th \in Threads, EndTask(th)
      PROVE TypeOK'
  BY <1>28 DEF EndTask
<1>29. ASSUME Start \/ TestHeld \/ Join \/ Destroy
      PROVE TypeOK'
  BY <1>29 DEF Start, TestHeld, Join, Destroy
<1>30. CASE UNCHANGED vars
  BY <1>30 DEF vars
<1>. QED
  BY <1>1, <1>2, <1>3, <1>4, <1>5, <1>6, <1>7, <1>8, <1>9, <1>10,
     <1>10a, <1>11, <1>12, <1>13, <1>14, <1>15, <1>16, <1>17, <1>18, <1>19, <1>20, <1>21,
     <1>22, <1>23, <1>24, <1>25, <1>26, <1>27, <1>28, <1>29, <1>30
     DEF Next, ThreadStep, ProgramStep, MainStep

(* Every step keeps what a thread must have at its next operation. *)
LEMMA ControlNext == TypeOK /\ Control /\ [Next]_vars => Control'
<1>. SUFFICES ASSUME TypeOK, Control, [Next]_vars PROVE Control'
  OBVIOUS
<1>. USE ThreadsAssumption, TasksAssumption
     DEF TypeOK, Control, HasTask, Goto, Steps, Threads, taskVars, countVars,
         poolVars, callVars, otherVars
<1>1. ASSUME NEW th \in Threads, NEW t \in Tasks, ScheduleTask(th, t)
      PROVE Control'
  BY <1>1 DEF ScheduleTask, NewTask, CountTask, InProgram
<1>2. ASSUME NEW th \in Threads, NEW t \in Tasks, SetTimeout(th, t)
      PROVE Control'
  BY <1>2 DEF SetTimeout, NewTask, InProgram
<1>3. ASSUME NEW th \in Threads, NEW id \in DOMAIN globalTimeouts,
             ClearTimeout(th, id)
      PROVE Control'
  BY <1>3 DEF ClearTimeout
<1>4. ASSUME NEW th \in Threads, Yield(th)
      PROVE Control'
  BY <1>4 DEF Yield
<1>5. ASSUME NEW th \in Threads, Finish(th)
      PROVE Control'
  BY <1>5 DEF Finish
<1>6. ASSUME NEW th \in Threads, Pause(th) \/ Resume(th)
      PROVE Control'
  BY <1>6 DEF Pause, Resume
<1>7. ASSUME NEW t \in Tasks, Expire(t)
      PROVE Control'
  BY <1>7 DEF Expire
<1>8. ASSUME NEW th \in Threads, Push(th)
      PROVE Control'
  BY <1>8 DEF Push
<1>9. ASSUME NEW th \in Threads, Balance(th)
      PROVE Control'
  BY <1>9 DEF Balance
<1>10. ASSUME NEW th \in Threads, NEW p \in Pool, StartThread(th, p)
      PROVE Control'
  BY <1>10 DEF StartThread
<1>10a. ASSUME NEW th \in Threads, RegisterThread(th)
      PROVE Control'
  BY <1>10a DEF RegisterThread
<1>11. ASSUME NEW th \in Threads, EnterDispatcher(th)
      PROVE Control'
  BY <1>11 DEF EnterDispatcher
<1>12. ASSUME NEW th \in Threads, NEW t \in Tasks, PollTimer(th, t)
      PROVE Control'
  BY <1>12 DEF PollTimer, CountTask
<1>13. ASSUME NEW th \in Threads, PollNothing(th)
      PROVE Control'
  BY <1>13 DEF PollNothing
<1>14. ASSUME NEW th \in Threads, TestQueued(th)
      PROVE Control'
  BY <1>14 DEF TestQueued
<1>15. ASSUME NEW th \in Threads, TestStopped(th)
      PROVE Control'
  BY <1>15 DEF TestStopped
<1>16. ASSUME NEW th \in Threads, Pop(th)
      PROVE Control'
  BY <1>16 DEF Pop
<1>17. ASSUME NEW th \in Threads, EndDrain(th)
      PROVE Control'
  BY <1>17 DEF EndDrain
<1>18. ASSUME NEW th \in Threads, Uncount(th)
      PROVE Control'
  BY <1>18 DEF Uncount
<1>19. ASSUME NEW th \in Threads, DropAborted(th)
      PROVE Control'
  BY <1>19 DEF DropAborted
<1>20. ASSUME NEW th \in Threads, PassCheck(th)
      PROVE Control'
  BY <1>20 DEF PassCheck
<1>21. ASSUME NEW th \in Threads, CheckInactive(th)
      PROVE Control'
  BY <1>21 DEF CheckInactive
<1>22. ASSUME NEW th \in Threads, Create(th)
      PROVE Control'
  BY <1>22 DEF Create
<1>23. ASSUME NEW th \in Threads, Enter(th)
      PROVE Control'
  BY <1>23 DEF Enter
<1>24. ASSUME NEW th \in Threads, Activate(th)
      PROVE Control'
  BY <1>24 DEF Activate
<1>25. ASSUME NEW th \in Threads, Requeue(th)
      PROVE Control'
  BY <1>25 DEF Requeue
<1>26. ASSUME NEW th \in Threads, Recount(th)
      PROVE Control'
  BY <1>26 DEF Recount
<1>27. ASSUME NEW th \in Threads, Delete(th)
      PROVE Control'
  BY <1>27 DEF Delete
<1>28. ASSUME NEW th \in Threads, EndTask(th)
      PROVE Control'
  BY <1>28 DEF EndTask
<1>29. ASSUME Start \/ TestHeld \/ Join \/ Destroy
      PROVE Control'
  BY <1>29 DEF Start, TestHeld, Join, Destroy
<1>30. CASE UNCHANGED vars
  BY <1>30 DEF vars
<1>. QED
  BY <1>1, <1>2, <1>3, <1>4, <1>5, <1>6, <1>7, <1>8, <1>9, <1>10,
     <1>10a, <1>11, <1>12, <1>13, <1>14, <1>15, <1>16, <1>17, <1>18, <1>19, <1>20, <1>21,
     <1>22, <1>23, <1>24, <1>25, <1>26, <1>27, <1>28, <1>29, <1>30
     DEF Next, ThreadStep, ProgramStep, MainStep

(* The scheduler's variables keep their types in every execution. *)
THEOREM TypeCorrect == Spec => []TypeOK
  BY ControlInit, TypeNext, ControlNext, PTL DEF Spec

-----------------------------------------------------------------------------
(* Counting threads. *)
Among(f, v) == {x \in Threads : f[x] = v}

(* There are finitely many threads. *)
LEMMA FiniteThreads == IsFiniteSet(Threads)
  BY ThreadsAssumption, FS_AddElement DEF Threads

(* The threads at one operation can be counted. *)
LEMMA AmongFinite ==
  ASSUME NEW f, NEW v
  PROVE  IsFiniteSet(Among(f, v)) /\ Cardinality(Among(f, v)) \in Nat
<1>1. Among(f, v) \in SUBSET Threads
  BY DEF Among
<1>. QED
  BY <1>1, FiniteThreads, FS_Subset, FS_CardinalityType

(* Only thread th takes a step. *)
Moves(th) == \A x \in Threads \ {th} : pc'[x] = pc[x]

(* A step of one thread changes the count of an operation by that thread only. *)
LEMMA MoveThread ==
  ASSUME NEW th \in Threads, NEW v, Moves(th)
  PROVE  Cardinality(Among(pc', v)) - Cardinality(Among(pc, v)) =
           (IF pc'[th] = v THEN 1 ELSE 0) - (IF pc[th] = v THEN 1 ELSE 0)
<1>1. /\ IsFiniteSet(Among(pc, v)) /\ IsFiniteSet(Among(pc', v))
      /\ Cardinality(Among(pc, v)) \in Nat
  BY AmongFinite
<1>2. CASE pc'[th] = v /\ pc[th] # v
  <2>1. Among(pc', v) = Among(pc, v) \cup {th} /\ th \notin Among(pc, v)
    BY <1>2 DEF Among, Moves
  <2>. QED
    BY <1>1, <1>2, <2>1, FS_AddElement
<1>3. CASE pc'[th] # v /\ pc[th] = v
  <2>1. Among(pc', v) = Among(pc, v) \ {th} /\ th \in Among(pc, v)
    BY <1>3 DEF Among, Moves
  <2>. QED
    BY <1>1, <1>3, <2>1, FS_RemoveElement
<1>4. CASE pc'[th] = v <=> pc[th] = v
  <2>1. Among(pc', v) = Among(pc, v)
    BY <1>4 DEF Among, Moves
  <2>2. Cardinality(Among(pc', v)) - Cardinality(Among(pc, v)) = 0
    BY <1>1, <2>1
  <2>3. (IF pc'[th] = v THEN 1 ELSE 0) - (IF pc[th] = v THEN 1 ELSE 0) = 0
    BY <1>4
  <2>. QED
    BY <2>2, <2>3
<1>. QED
  BY <1>2, <1>3, <1>4

(* What a thread at a step adds to the difference between myTaskCount and  *)
(* the length of the queue.                                                *)
Skew(step) == IF step \in {"push", "decr"} THEN 1
              ELSE IF step = "incr" THEN -1 ELSE 0

(* The account of queued tasks, in terms of Among. *)
LEMMA CountingForm ==
  CountAccounting <=>
    myTaskCount = Len(myTaskQueue) + Cardinality(Among(pc, "push"))
                  + Cardinality(Among(pc, "decr"))
                  - Cardinality(Among(pc, "incr"))
  BY DEF CountAccounting, At, Among

(* The same, after a step. *)
LEMMA CountingFormNext ==
  CountAccounting' <=>
    myTaskCount' = Len(myTaskQueue') + Cardinality(Among(pc', "push"))
                   + Cardinality(Among(pc', "decr"))
                   - Cardinality(Among(pc', "incr"))
  BY DEF CountAccounting, At, Among

(* One thread moves, and the counter changes by what the move is worth. *)
LEMMA CountMove ==
  ASSUME TypeOK, TypeOK', CountAccounting,
         NEW th \in Threads, Moves(th),
         myTaskCount' - Len(myTaskQueue') =
           myTaskCount - Len(myTaskQueue) + Skew(pc'[th]) - Skew(pc[th])
  PROVE  CountAccounting'
<1>. DEFINE d(v) == (IF pc'[th] = v THEN 1 ELSE 0)
                    - (IF pc[th] = v THEN 1 ELSE 0)
<1>1. PICK n1 \in Nat, n2 \in Nat, n3 \in Nat :
        /\ n1 = Cardinality(Among(pc, "push"))
        /\ n2 = Cardinality(Among(pc, "decr"))
        /\ n3 = Cardinality(Among(pc, "incr"))
  BY AmongFinite
<1>2. PICK m1 \in Nat, m2 \in Nat, m3 \in Nat :
        /\ m1 = Cardinality(Among(pc', "push"))
        /\ m2 = Cardinality(Among(pc', "decr"))
        /\ m3 = Cardinality(Among(pc', "incr"))
  BY AmongFinite
<1>3. m1 - n1 = d("push") /\ m2 - n2 = d("decr") /\ m3 - n3 = d("incr")
  BY <1>1, <1>2, MoveThread
<1>4. /\ Len(myTaskQueue) \in Nat /\ Len(myTaskQueue') \in Nat
      /\ myTaskCount \in Int /\ myTaskCount' \in Int
  BY DEF TypeOK
<1>5. Skew(pc'[th]) - Skew(pc[th]) = (m1 - n1) + (m2 - n2) - (m3 - n3)
  BY <1>3 DEF Skew
<1>6. Skew(pc'[th]) \in Int /\ Skew(pc[th]) \in Int
  BY DEF Skew
<1>7. myTaskCount = Len(myTaskQueue) + n1 + n2 - n3
  BY <1>1, CountingForm
<1>8. myTaskCount' = Len(myTaskQueue') + m1 + m2 - m3
  BY <1>4, <1>5, <1>6, <1>7, SMTT(30)
<1>. QED
  BY <1>2, <1>8, CountingFormNext

(* A thread moves between two steps at which count and queue agree. *)
LEMMA CountStay ==
  ASSUME TypeOK, TypeOK', CountAccounting,
         NEW th \in Threads, Moves(th),
         Skew(pc'[th]) = 0, Skew(pc[th]) = 0,
         myTaskCount' = myTaskCount, myTaskQueue' = myTaskQueue
  PROVE  CountAccounting'
<1>1. myTaskCount \in Int /\ Len(myTaskQueue) \in Nat
  BY DEF TypeOK
<1>2. myTaskCount' - Len(myTaskQueue') =
        myTaskCount - Len(myTaskQueue) + Skew(pc'[th]) - Skew(pc[th])
  BY <1>1
<1>. QED
  BY <1>2, CountMove

(* Every step keeps the account of queued tasks. *)
LEMMA CountNext ==
  TypeOK /\ TypeOK' /\ Control /\ CountAccounting /\ [Next]_vars
    => CountAccounting'
<1>. SUFFICES ASSUME TypeOK, TypeOK', Control, CountAccounting, [Next]_vars
              PROVE CountAccounting'
  OBVIOUS
<1>. USE DEF Goto, taskVars, countVars, poolVars, callVars, otherVars
<1>1. ASSUME NEW th \in Threads, NEW t \in Tasks, ScheduleTask(th, t)
      PROVE CountAccounting'
  <2>1. /\ Moves(th) /\ Skew(pc'[th]) = 1 /\ Skew(pc[th]) = 0
        /\ myTaskCount' = myTaskCount + 1
        /\ Len(myTaskQueue') = Len(myTaskQueue)
        /\ myTaskCount \in Int /\ Len(myTaskQueue) \in Nat
    BY <1>1 DEF ScheduleTask, CountTask, InProgram, Moves, Skew, TypeOK
  <2>2. myTaskCount' - Len(myTaskQueue') =
          myTaskCount - Len(myTaskQueue) + Skew(pc'[th]) - Skew(pc[th])
    BY <2>1
  <2>. QED
    BY <2>1, <2>2, CountMove
<1>2. ASSUME NEW th \in Threads, NEW t \in Tasks, SetTimeout(th, t)
      PROVE CountAccounting'
  <2>1. pc' = pc /\ myTaskCount' = myTaskCount /\ myTaskQueue' = myTaskQueue
    BY <1>2 DEF SetTimeout
  <2>. QED
    BY <2>1, CountingForm, CountingFormNext
<1>3. ASSUME NEW th \in Threads, NEW id \in DOMAIN globalTimeouts,
             ClearTimeout(th, id)
      PROVE CountAccounting'
  <2>1. pc' = pc /\ myTaskCount' = myTaskCount /\ myTaskQueue' = myTaskQueue
    BY <1>3 DEF ClearTimeout
  <2>. QED
    BY <2>1, CountingForm, CountingFormNext
<1>4. ASSUME NEW th \in Threads, Yield(th)
      PROVE CountAccounting'
  <2>1. /\ Moves(th) /\ Skew(pc'[th]) = 0 /\ Skew(pc[th]) = 0
        /\ myTaskCount' = myTaskCount /\ myTaskQueue' = myTaskQueue
    BY <1>4 DEF Yield, Moves, Skew, TypeOK
  <2>. QED
    BY <2>1, CountStay
<1>5. ASSUME NEW th \in Threads, Finish(th)
      PROVE CountAccounting'
  <2>1. /\ Moves(th) /\ Skew(pc'[th]) = 0 /\ Skew(pc[th]) = 0
        /\ myTaskCount' = myTaskCount /\ myTaskQueue' = myTaskQueue
    BY <1>5 DEF Finish, Moves, Skew, TypeOK
  <2>. QED
    BY <2>1, CountStay
<1>6. ASSUME NEW th \in Threads, Pause(th) \/ Resume(th)
      PROVE CountAccounting'
  <2>1. pc' = pc /\ myTaskCount' = myTaskCount /\ myTaskQueue' = myTaskQueue
    BY <1>6 DEF Pause, Resume
  <2>. QED
    BY <2>1, CountingForm, CountingFormNext
<1>7. ASSUME NEW t \in Tasks, Expire(t)
      PROVE CountAccounting'
  <2>1. pc' = pc /\ myTaskCount' = myTaskCount /\ myTaskQueue' = myTaskQueue
    BY <1>7 DEF Expire
  <2>. QED
    BY <2>1, CountingForm, CountingFormNext
<1>8. ASSUME NEW th \in Threads, Push(th)
      PROVE CountAccounting'
  <2>1. /\ Moves(th) /\ Skew(pc'[th]) = 0 /\ Skew(pc[th]) = 1
        /\ myTaskCount' = myTaskCount
        /\ Len(myTaskQueue') = Len(myTaskQueue) + 1
        /\ myTaskCount \in Int /\ Len(myTaskQueue) \in Nat
    BY <1>8 DEF Push, Moves, Skew, TypeOK
  <2>2. myTaskCount' - Len(myTaskQueue') =
          myTaskCount - Len(myTaskQueue) + Skew(pc'[th]) - Skew(pc[th])
    BY <2>1
  <2>. QED
    BY <2>1, <2>2, CountMove
<1>9. ASSUME NEW th \in Threads, Balance(th)
      PROVE CountAccounting'
  <2>1. /\ Moves(th) /\ Skew(pc'[th]) = 0 /\ Skew(pc[th]) = 0
        /\ myTaskCount' = myTaskCount /\ myTaskQueue' = myTaskQueue
    BY <1>9 DEF Balance, Moves, Skew, TypeOK
  <2>. QED
    BY <2>1, CountStay
<1>10. ASSUME NEW th \in Threads, NEW p \in Pool, StartThread(th, p)
      PROVE CountAccounting'
  <2>1. ASSUME NEW v \in {"push", "decr", "incr"}
        PROVE Among(pc', v) = Among(pc, v)
    BY <1>10 DEF StartThread, TypeOK, Among
  <2>2. myTaskCount' = myTaskCount /\ myTaskQueue' = myTaskQueue
    BY <1>10 DEF StartThread
  <2>. QED
    BY <2>1, <2>2, CountingForm, CountingFormNext
<1>10a. ASSUME NEW th \in Threads, RegisterThread(th)
      PROVE CountAccounting'
  <2>1. ASSUME NEW v \in {"push", "decr", "incr"}
        PROVE Among(pc', v) = Among(pc, v)
    BY <1>10a DEF RegisterThread, TypeOK, Among
  <2>2. myTaskCount' = myTaskCount /\ myTaskQueue' = myTaskQueue
    BY <1>10a DEF RegisterThread
  <2>. QED
    BY <2>1, <2>2, CountingForm, CountingFormNext
<1>11. ASSUME NEW th \in Threads, EnterDispatcher(th)
      PROVE CountAccounting'
  <2>1. /\ Moves(th) /\ Skew(pc'[th]) = 0 /\ Skew(pc[th]) = 0
        /\ myTaskCount' = myTaskCount /\ myTaskQueue' = myTaskQueue
    BY <1>11 DEF EnterDispatcher, Moves, Skew, TypeOK
  <2>. QED
    BY <2>1, CountStay
<1>12. ASSUME NEW th \in Threads, NEW t \in Tasks, PollTimer(th, t)
      PROVE CountAccounting'
  <2>1. /\ Moves(th) /\ Skew(pc'[th]) = 1 /\ Skew(pc[th]) = 0
        /\ myTaskCount' = myTaskCount + 1
        /\ Len(myTaskQueue') = Len(myTaskQueue)
        /\ myTaskCount \in Int /\ Len(myTaskQueue) \in Nat
    BY <1>12 DEF PollTimer, CountTask, Moves, Skew, TypeOK
  <2>2. myTaskCount' - Len(myTaskQueue') =
          myTaskCount - Len(myTaskQueue) + Skew(pc'[th]) - Skew(pc[th])
    BY <2>1
  <2>. QED
    BY <2>1, <2>2, CountMove
<1>13. ASSUME NEW th \in Threads, PollNothing(th)
      PROVE CountAccounting'
  <2>1. /\ Moves(th) /\ Skew(pc'[th]) = 0 /\ Skew(pc[th]) = 0
        /\ myTaskCount' = myTaskCount /\ myTaskQueue' = myTaskQueue
    BY <1>13 DEF PollNothing, Moves, Skew, TypeOK
  <2>. QED
    BY <2>1, CountStay
<1>14. ASSUME NEW th \in Threads, TestQueued(th)
      PROVE CountAccounting'
  <2>1. /\ Moves(th) /\ Skew(pc'[th]) = 0 /\ Skew(pc[th]) = 0
        /\ myTaskCount' = myTaskCount /\ myTaskQueue' = myTaskQueue
    BY <1>14 DEF TestQueued, Moves, Skew, TypeOK
  <2>. QED
    BY <2>1, CountStay
<1>15. ASSUME NEW th \in Threads, TestStopped(th)
      PROVE CountAccounting'
  <2>1. /\ Moves(th) /\ Skew(pc'[th]) = 0 /\ Skew(pc[th]) = 0
        /\ myTaskCount' = myTaskCount /\ myTaskQueue' = myTaskQueue
    BY <1>15 DEF TestStopped, Moves, Skew, TypeOK
  <2>. QED
    BY <2>1, CountStay
<1>16. ASSUME NEW th \in Threads, Pop(th)
      PROVE CountAccounting'
  <2>1. /\ Moves(th) /\ Skew(pc'[th]) = 1 /\ Skew(pc[th]) = 0
        /\ myTaskCount' = myTaskCount
        /\ Len(myTaskQueue') = Len(myTaskQueue) - 1
        /\ myTaskCount \in Int /\ Len(myTaskQueue) \in Nat
    BY <1>16 DEF Pop, Moves, Skew, TypeOK
  <2>2. myTaskCount' - Len(myTaskQueue') =
          myTaskCount - Len(myTaskQueue) + Skew(pc'[th]) - Skew(pc[th])
    BY <2>1
  <2>. QED
    BY <2>1, <2>2, CountMove
<1>17. ASSUME NEW th \in Threads, EndDrain(th)
      PROVE CountAccounting'
  <2>1. /\ Moves(th) /\ Skew(pc'[th]) = 0 /\ Skew(pc[th]) = 0
        /\ myTaskCount' = myTaskCount /\ myTaskQueue' = myTaskQueue
    BY <1>17 DEF EndDrain, Moves, Skew, TypeOK
  <2>. QED
    BY <2>1, CountStay
<1>18. ASSUME NEW th \in Threads, Uncount(th)
      PROVE CountAccounting'
  <2>1. /\ Moves(th) /\ Skew(pc'[th]) = 0 /\ Skew(pc[th]) = 1
        /\ myTaskCount' = myTaskCount - 1
        /\ Len(myTaskQueue') = Len(myTaskQueue)
        /\ myTaskCount \in Int /\ Len(myTaskQueue) \in Nat
    BY <1>18 DEF Uncount, Moves, Skew, TypeOK
  <2>2. myTaskCount' - Len(myTaskQueue') =
          myTaskCount - Len(myTaskQueue) + Skew(pc'[th]) - Skew(pc[th])
    BY <2>1
  <2>. QED
    BY <2>1, <2>2, CountMove
<1>19. ASSUME NEW th \in Threads, DropAborted(th)
      PROVE CountAccounting'
  <2>1. /\ Moves(th) /\ Skew(pc'[th]) = 0 /\ Skew(pc[th]) = 0
        /\ myTaskCount' = myTaskCount /\ myTaskQueue' = myTaskQueue
    BY <1>19 DEF DropAborted, Moves, Skew, TypeOK
  <2>. QED
    BY <2>1, CountStay
<1>20. ASSUME NEW th \in Threads, PassCheck(th)
      PROVE CountAccounting'
  <2>1. /\ Moves(th) /\ Skew(pc'[th]) = 0 /\ Skew(pc[th]) = 0
        /\ myTaskCount' = myTaskCount /\ myTaskQueue' = myTaskQueue
    BY <1>20 DEF PassCheck, Moves, Skew, TypeOK
  <2>. QED
    BY <2>1, CountStay
<1>21. ASSUME NEW th \in Threads, CheckInactive(th)
      PROVE CountAccounting'
  <2>1. /\ Moves(th) /\ Skew(pc'[th]) = 0 /\ Skew(pc[th]) = 0
        /\ myTaskCount' = myTaskCount /\ myTaskQueue' = myTaskQueue
    BY <1>21 DEF CheckInactive, Moves, Skew, TypeOK
  <2>. QED
    BY <2>1, CountStay
<1>22. ASSUME NEW th \in Threads, Create(th)
      PROVE CountAccounting'
  <2>1. /\ Moves(th) /\ Skew(pc'[th]) = 0 /\ Skew(pc[th]) = 0
        /\ myTaskCount' = myTaskCount /\ myTaskQueue' = myTaskQueue
    BY <1>22 DEF Create, Moves, Skew, TypeOK
  <2>. QED
    BY <2>1, CountStay
<1>23. ASSUME NEW th \in Threads, Enter(th)
      PROVE CountAccounting'
  <2>1. /\ Moves(th) /\ Skew(pc'[th]) = 0 /\ Skew(pc[th]) = 0
        /\ myTaskCount' = myTaskCount /\ myTaskQueue' = myTaskQueue
    BY <1>23 DEF Enter, Moves, Skew, TypeOK
  <2>. QED
    BY <2>1, CountStay
<1>24. ASSUME NEW th \in Threads, Activate(th)
      PROVE CountAccounting'
  <2>1. /\ Moves(th) /\ Skew(pc'[th]) = 0 /\ Skew(pc[th]) = 0
        /\ myTaskCount' = myTaskCount /\ myTaskQueue' = myTaskQueue
    BY <1>24 DEF Activate, Moves, Skew, TypeOK
  <2>. QED
    BY <2>1, CountStay
<1>25. ASSUME NEW th \in Threads, Requeue(th)
      PROVE CountAccounting'
  <2>1. /\ Moves(th) /\ Skew(pc'[th]) = -1 /\ Skew(pc[th]) = 0
        /\ myTaskCount' = myTaskCount
        /\ Len(myTaskQueue') = Len(myTaskQueue) + 1
        /\ myTaskCount \in Int /\ Len(myTaskQueue) \in Nat
    BY <1>25 DEF Requeue, Moves, Skew, TypeOK
  <2>2. myTaskCount' - Len(myTaskQueue') =
          myTaskCount - Len(myTaskQueue) + Skew(pc'[th]) - Skew(pc[th])
    BY <2>1
  <2>. QED
    BY <2>1, <2>2, CountMove
<1>26. ASSUME NEW th \in Threads, Recount(th)
      PROVE CountAccounting'
  <2>1. /\ Moves(th) /\ Skew(pc'[th]) = 0 /\ Skew(pc[th]) = -1
        /\ myTaskCount' = myTaskCount + 1
        /\ Len(myTaskQueue') = Len(myTaskQueue)
        /\ myTaskCount \in Int /\ Len(myTaskQueue) \in Nat
    BY <1>26 DEF Recount, Moves, Skew, TypeOK
  <2>2. myTaskCount' - Len(myTaskQueue') =
          myTaskCount - Len(myTaskQueue) + Skew(pc'[th]) - Skew(pc[th])
    BY <2>1
  <2>. QED
    BY <2>1, <2>2, CountMove
<1>27. ASSUME NEW th \in Threads, Delete(th)
      PROVE CountAccounting'
  <2>1. /\ Moves(th) /\ Skew(pc'[th]) = 0 /\ Skew(pc[th]) = 0
        /\ myTaskCount' = myTaskCount /\ myTaskQueue' = myTaskQueue
    BY <1>27 DEF Delete, Moves, Skew, TypeOK
  <2>. QED
    BY <2>1, CountStay
<1>28. ASSUME NEW th \in Threads, EndTask(th)
      PROVE CountAccounting'
  <2>1. /\ Moves(th) /\ Skew(pc'[th]) = 0 /\ Skew(pc[th]) = 0
        /\ myTaskCount' = myTaskCount /\ myTaskQueue' = myTaskQueue
    BY <1>28 DEF EndTask, Moves, Skew, TypeOK
  <2>. QED
    BY <2>1, CountStay
<1>29. ASSUME Start \/ TestHeld \/ Join \/ Destroy
      PROVE CountAccounting'
  <2>1. /\ Moves(Main) /\ Skew(pc'[Main]) = 0 /\ Skew(pc[Main]) = 0
        /\ myTaskCount' = myTaskCount /\ myTaskQueue' = myTaskQueue
    BY <1>29, SMTT(30)
    DEF Start, TestHeld, Join, Destroy, Moves, Skew, TypeOK
  <2>. QED
    BY <2>1, CountStay DEF Threads
<1>30. CASE UNCHANGED vars
  BY <1>30 DEF vars, CountAccounting, At
<1>. QED
  BY <1>1, <1>2, <1>3, <1>4, <1>5, <1>6, <1>7, <1>8, <1>9, <1>10,
     <1>10a, <1>11, <1>12, <1>13, <1>14, <1>15, <1>16, <1>17, <1>18, <1>19, <1>20, <1>21,
     <1>22, <1>23, <1>24, <1>25, <1>26, <1>27, <1>28, <1>29, <1>30
     DEF Next, ThreadStep, ProgramStep, MainStep

(* The scheduler's count of queued tasks is exact up to threads caught     *)
(* between changing the queue and the count, for any number of threads.    *)
THEOREM CountCorrect == Spec => []CountAccounting
<1>1. Init => CountAccounting
  <2>. SUFFICES ASSUME Init PROVE CountAccounting
    OBVIOUS
  <2>1. At("push") = {} /\ At("decr") = {} /\ At("incr") = {}
    BY DEF Init, At
  <2>. QED
    <3>1. /\ Cardinality(At("push")) = 0 /\ Cardinality(At("decr")) = 0
          /\ Cardinality(At("incr")) = 0
      BY <2>1, FS_EmptySet
    <3>2. myTaskCount = 0 /\ Len(myTaskQueue) = 0
      BY DEF Init
    <3>. QED
      BY <3>1, <3>2 DEF CountAccounting
<1>. QED
  BY <1>1, ControlInit, TypeNext, ControlNext, CountNext, PTL DEF Spec

-----------------------------------------------------------------------------
(* Counting the threads at work on a task. *)
WorkStep(step, ret) ==
  \/ step \in {"decr", "check", "create", "created", "enter", "activate",
               "body", "release", "incr", "fin"}
  \/ step \in {"push", "balance", "add", "register"} /\ ret = "body"

WorkAmong(f, g) == {x \in Threads : WorkStep(f[x], g[x])}

(* The threads at work can be counted. *)
LEMMA WorkFinite ==
  ASSUME NEW f, NEW g
  PROVE  IsFiniteSet(WorkAmong(f, g)) /\ Cardinality(WorkAmong(f, g)) \in Nat
<1>1. WorkAmong(f, g) \in SUBSET Threads
  BY DEF WorkAmong
<1>. QED
  BY <1>1, FiniteThreads, FS_Subset, FS_CardinalityType

(* The account of active tasks, in terms of WorkAmong. *)
LEMMA WorkForm ==
  ActiveAccounting <=> myActiveTaskCount = Cardinality(WorkAmong(pc, back))
  BY DEF ActiveAccounting, Working, WorkAmong, WorkStep

(* The same, after a step. *)
LEMMA WorkFormNext ==
  ActiveAccounting' <=>
    myActiveTaskCount' = Cardinality(WorkAmong(pc', back'))
  BY DEF ActiveAccounting, Working, WorkAmong, WorkStep

(* No thread starts or ends its work on a task. *)
KeepsWork ==
  /\ myActiveTaskCount' = myActiveTaskCount
  /\ \A x \in Threads :
       WorkStep(pc'[x], back'[x]) <=> WorkStep(pc[x], back[x])

(* A step that nobody starts or ends work in keeps the account of active tasks. *)
LEMMA KeepsActive ==
  ASSUME ActiveAccounting, KeepsWork
  PROVE  ActiveAccounting'
<1>1. WorkAmong(pc', back') = WorkAmong(pc, back)
  BY DEF WorkAmong, KeepsWork
<1>. QED
  BY <1>1, WorkForm, WorkFormNext DEF KeepsWork

(* Every step keeps the account of active tasks. *)
LEMMA ActiveNext ==
  TypeOK /\ ActiveAccounting /\ [Next]_vars => ActiveAccounting'
<1>. SUFFICES ASSUME TypeOK, ActiveAccounting, [Next]_vars
              PROVE  ActiveAccounting'
  OBVIOUS
<1>1. ASSUME NEW th \in Threads, NEW t \in Tasks, ScheduleTask(th, t)
      PROVE ActiveAccounting'
  <2>1. KeepsWork
    BY <1>1, ThreadsAssumption DEF ScheduleTask, NewTask, CountTask,
      InProgram, KeepsWork, WorkStep, Goto, TypeOK, Threads, countVars,
      callVars, otherVars
  <2>. QED
    BY <2>1, KeepsActive
<1>2. ASSUME NEW th \in Threads, NEW t \in Tasks, SetTimeout(th, t)
      PROVE ActiveAccounting'
  <2>1. KeepsWork
    BY <1>2, ThreadsAssumption DEF SetTimeout, NewTask, InProgram, KeepsWork,
      WorkStep, Goto, TypeOK, Threads, countVars, callVars, otherVars
  <2>. QED
    BY <2>1, KeepsActive
<1>3. ASSUME NEW th \in Threads, NEW id \in DOMAIN globalTimeouts,
             ClearTimeout(th, id)
      PROVE ActiveAccounting'
  <2>1. KeepsWork
    BY <1>3, ThreadsAssumption DEF ClearTimeout, KeepsWork, WorkStep, Goto,
      TypeOK, Threads, countVars, callVars, otherVars
  <2>. QED
    BY <2>1, KeepsActive
<1>4. ASSUME NEW th \in Threads, Yield(th)
      PROVE ActiveAccounting'
  <2>1. KeepsWork
    BY <1>4, ThreadsAssumption DEF Yield, KeepsWork, WorkStep, Goto, TypeOK,
      Threads, countVars, callVars, otherVars
  <2>. QED
    BY <2>1, KeepsActive
<1>5. ASSUME NEW th \in Threads, Finish(th)
      PROVE ActiveAccounting'
  <2>1. KeepsWork
    BY <1>5, ThreadsAssumption DEF Finish, KeepsWork, WorkStep, Goto, TypeOK,
      Threads, countVars, callVars, otherVars
  <2>. QED
    BY <2>1, KeepsActive
<1>6. ASSUME NEW th \in Threads, Pause(th) \/ Resume(th)
      PROVE ActiveAccounting'
  <2>1. KeepsWork
    BY <1>6, ThreadsAssumption DEF Pause, Resume, KeepsWork, WorkStep, Goto,
      TypeOK, Threads, countVars, callVars, otherVars
  <2>. QED
    BY <2>1, KeepsActive
<1>7. ASSUME NEW t \in Tasks, Expire(t)
      PROVE ActiveAccounting'
  <2>1. KeepsWork
    BY <1>7, ThreadsAssumption DEF Expire, KeepsWork, WorkStep, Goto, TypeOK,
      Threads, countVars, callVars, otherVars
  <2>. QED
    BY <2>1, KeepsActive
<1>8. ASSUME NEW th \in Threads, Push(th)
      PROVE ActiveAccounting'
  <2>1. KeepsWork
    BY <1>8, ThreadsAssumption DEF Push, KeepsWork, WorkStep, Goto, TypeOK,
      Threads, countVars, callVars, otherVars
  <2>. QED
    BY <2>1, KeepsActive
<1>9. ASSUME NEW th \in Threads, Balance(th)
      PROVE ActiveAccounting'
  <2>1. KeepsWork
    BY <1>9, ThreadsAssumption DEF Balance, KeepsWork, WorkStep, Goto, TypeOK,
      Threads, countVars, callVars, otherVars
  <2>. QED
    BY <2>1, KeepsActive
<1>10. ASSUME NEW th \in Threads, NEW p \in Pool, StartThread(th, p)
      PROVE ActiveAccounting'
  <2>1. KeepsWork
    BY <1>10, ThreadsAssumption DEF StartThread, KeepsWork, WorkStep, Goto,
      TypeOK, Threads, countVars, callVars, otherVars
  <2>. QED
    BY <2>1, KeepsActive
<1>10a. ASSUME NEW th \in Threads, RegisterThread(th)
      PROVE ActiveAccounting'
  <2>1. KeepsWork
    BY <1>10a, ThreadsAssumption DEF RegisterThread, KeepsWork, WorkStep, Goto,
      TypeOK, Threads, countVars, callVars, otherVars
  <2>. QED
    BY <2>1, KeepsActive
<1>11. ASSUME NEW th \in Threads, EnterDispatcher(th)
      PROVE ActiveAccounting'
  <2>1. KeepsWork
    BY <1>11, ThreadsAssumption DEF EnterDispatcher, KeepsWork, WorkStep,
      Goto, TypeOK, Threads, countVars, callVars, otherVars
  <2>. QED
    BY <2>1, KeepsActive
<1>12. ASSUME NEW th \in Threads, NEW t \in Tasks, PollTimer(th, t)
      PROVE ActiveAccounting'
  <2>1. KeepsWork
    BY <1>12, ThreadsAssumption DEF PollTimer, CountTask, KeepsWork, WorkStep,
      Goto, TypeOK, Threads, countVars, callVars, otherVars
  <2>. QED
    BY <2>1, KeepsActive
<1>13. ASSUME NEW th \in Threads, PollNothing(th)
      PROVE ActiveAccounting'
  <2>1. KeepsWork
    BY <1>13, ThreadsAssumption DEF PollNothing, KeepsWork, WorkStep, Goto,
      TypeOK, Threads, countVars, callVars, otherVars
  <2>. QED
    BY <2>1, KeepsActive
<1>14. ASSUME NEW th \in Threads, TestQueued(th)
      PROVE ActiveAccounting'
  <2>1. KeepsWork
    BY <1>14, ThreadsAssumption DEF TestQueued, KeepsWork, WorkStep, Goto,
      TypeOK, Threads, countVars, callVars, otherVars
  <2>. QED
    BY <2>1, KeepsActive
<1>15. ASSUME NEW th \in Threads, TestStopped(th)
      PROVE ActiveAccounting'
  <2>1. KeepsWork
    BY <1>15, ThreadsAssumption DEF TestStopped, KeepsWork, WorkStep, Goto,
      TypeOK, Threads, countVars, callVars, otherVars
  <2>. QED
    BY <2>1, KeepsActive
<1>16. ASSUME NEW th \in Threads, Pop(th)
      PROVE ActiveAccounting'
  <2>1. /\ ~WorkStep(pc[th], back[th]) /\ WorkStep(pc'[th], back'[th])
        /\ \A x \in Threads \ {th} : pc'[x] = pc[x] /\ back'[x] = back[x]
        /\ myActiveTaskCount' = myActiveTaskCount + 1
    BY <1>16 DEF Pop, WorkStep, Goto, TypeOK, callVars
  <2>2. /\ WorkAmong(pc', back') = WorkAmong(pc, back) \cup {th}
        /\ th \notin WorkAmong(pc, back)
    BY <2>1 DEF WorkAmong
  <2>3. Cardinality(WorkAmong(pc', back')) = Cardinality(WorkAmong(pc, back))
    + 1
    BY <2>2, WorkFinite, FS_AddElement
  <2>. QED
    BY <2>1, <2>3, WorkForm, WorkFormNext
<1>17. ASSUME NEW th \in Threads, EndDrain(th)
      PROVE ActiveAccounting'
  <2>1. KeepsWork
    BY <1>17, ThreadsAssumption DEF EndDrain, KeepsWork, WorkStep, Goto,
      TypeOK, Threads, countVars, callVars, otherVars
  <2>. QED
    BY <2>1, KeepsActive
<1>18. ASSUME NEW th \in Threads, Uncount(th)
      PROVE ActiveAccounting'
  <2>1. KeepsWork
    BY <1>18, ThreadsAssumption DEF Uncount, KeepsWork, WorkStep, Goto,
      TypeOK, Threads, countVars, callVars, otherVars
  <2>. QED
    BY <2>1, KeepsActive
<1>19. ASSUME NEW th \in Threads, DropAborted(th)
      PROVE ActiveAccounting'
  <2>1. KeepsWork
    BY <1>19, ThreadsAssumption DEF DropAborted, KeepsWork, WorkStep, Goto,
      TypeOK, Threads, countVars, callVars, otherVars
  <2>. QED
    BY <2>1, KeepsActive
<1>20. ASSUME NEW th \in Threads, PassCheck(th)
      PROVE ActiveAccounting'
  <2>1. KeepsWork
    BY <1>20, ThreadsAssumption DEF PassCheck, KeepsWork, WorkStep, Goto,
      TypeOK, Threads, countVars, callVars, otherVars
  <2>. QED
    BY <2>1, KeepsActive
<1>21. ASSUME NEW th \in Threads, CheckInactive(th)
      PROVE ActiveAccounting'
  <2>1. KeepsWork
    BY <1>21, ThreadsAssumption DEF CheckInactive, KeepsWork, WorkStep, Goto,
      TypeOK, Threads, countVars, callVars, otherVars
  <2>. QED
    BY <2>1, KeepsActive
<1>22. ASSUME NEW th \in Threads, Create(th)
      PROVE ActiveAccounting'
  <2>1. KeepsWork
    BY <1>22, ThreadsAssumption DEF Create, KeepsWork, WorkStep, Goto, TypeOK,
      Threads, countVars, callVars, otherVars
  <2>. QED
    BY <2>1, KeepsActive
<1>23. ASSUME NEW th \in Threads, Enter(th)
      PROVE ActiveAccounting'
  <2>1. KeepsWork
    BY <1>23, ThreadsAssumption DEF Enter, KeepsWork, WorkStep, Goto, TypeOK,
      Threads, countVars, callVars, otherVars
  <2>. QED
    BY <2>1, KeepsActive
<1>24. ASSUME NEW th \in Threads, Activate(th)
      PROVE ActiveAccounting'
  <2>1. KeepsWork
    BY <1>24, ThreadsAssumption DEF Activate, KeepsWork, WorkStep, Goto,
      TypeOK, Threads, countVars, callVars, otherVars
  <2>. QED
    BY <2>1, KeepsActive
<1>25. ASSUME NEW th \in Threads, Requeue(th)
      PROVE ActiveAccounting'
  <2>1. KeepsWork
    BY <1>25, ThreadsAssumption DEF Requeue, KeepsWork, WorkStep, Goto,
      TypeOK, Threads, countVars, callVars, otherVars
  <2>. QED
    BY <2>1, KeepsActive
<1>26. ASSUME NEW th \in Threads, Recount(th)
      PROVE ActiveAccounting'
  <2>1. KeepsWork
    BY <1>26, ThreadsAssumption DEF Recount, KeepsWork, WorkStep, Goto,
      TypeOK, Threads, countVars, callVars, otherVars
  <2>. QED
    BY <2>1, KeepsActive
<1>27. ASSUME NEW th \in Threads, Delete(th)
      PROVE ActiveAccounting'
  <2>1. KeepsWork
    BY <1>27, ThreadsAssumption DEF Delete, KeepsWork, WorkStep, Goto, TypeOK,
      Threads, countVars, callVars, otherVars
  <2>. QED
    BY <2>1, KeepsActive
<1>28. ASSUME NEW th \in Threads, EndTask(th)
      PROVE ActiveAccounting'
  <2>1. /\ WorkStep(pc[th], back[th]) /\ ~WorkStep(pc'[th], back'[th])
        /\ \A x \in Threads \ {th} : pc'[x] = pc[x] /\ back'[x] = back[x]
        /\ myActiveTaskCount' = myActiveTaskCount - 1
    BY <1>28 DEF EndTask, WorkStep, Goto, TypeOK, callVars
  <2>2. /\ WorkAmong(pc', back') = WorkAmong(pc, back) \ {th}
        /\ th \in WorkAmong(pc, back)
    BY <2>1 DEF WorkAmong
  <2>3. Cardinality(WorkAmong(pc', back')) = Cardinality(WorkAmong(pc, back))
    - 1
    BY <2>2, WorkFinite, FS_RemoveElement
  <2>. QED
    BY <2>1, <2>3, WorkForm, WorkFormNext
<1>29. ASSUME Start \/ TestHeld \/ Join \/ Destroy
      PROVE ActiveAccounting'
  <2>1. KeepsWork
    BY <1>29, ThreadsAssumption DEF Start, TestHeld, Join, Destroy, KeepsWork,
      WorkStep, Goto, TypeOK, Threads, countVars, callVars, otherVars
  <2>. QED
    BY <2>1, KeepsActive
<1>30. CASE UNCHANGED vars
  BY <1>30, KeepsActive DEF KeepsWork, vars, countVars, callVars
<1>. QED
  BY <1>1, <1>2, <1>3, <1>4, <1>5, <1>6, <1>7, <1>8, <1>9, <1>10,
     <1>10a, <1>11, <1>12, <1>13, <1>14, <1>15, <1>16, <1>17, <1>18, <1>19, <1>20, <1>21,
     <1>22, <1>23, <1>24, <1>25, <1>26, <1>27, <1>28, <1>29, <1>30
     DEF Next, ThreadStep, ProgramStep, MainStep

(* The count of active tasks is the number of threads at work on one, for  *)
(* any number of threads.                                                  *)
THEOREM ActiveCorrect == Spec => []ActiveAccounting
<1>1. Init => ActiveAccounting
  <2>. SUFFICES ASSUME Init PROVE ActiveAccounting
    OBVIOUS
  <2>1. WorkAmong(pc, back) = {}
    BY DEF Init, WorkAmong, WorkStep
  <2>. QED
    BY <2>1, WorkForm, FS_EmptySet DEF Init
<1>. QED
  BY <1>1, ControlInit, TypeNext, ControlNext, ActiveNext, PTL DEF Spec

-----------------------------------------------------------------------------
(***************************************************************************)
(* Who holds a task: no task pointer is in two places, none that the       *)
(* scheduler follows dangles, and so the hold count is the number of       *)
(* tasks.                                                                  *)
(***************************************************************************)

(* The two ownership invariants need each other: a task is allocated in a  *)
(* free cell, which no place may still point to, and deleted by its only   *)
(* holder, so that no other place is left pointing to it.                  *)
Owned == Exclusive /\ NoDangling

(* No task changes hands and none is deleted. *)
KeepsTasks ==
  /\ myTaskQueue' = myTaskQueue
  /\ myCurrentTask' = myCurrentTask
  /\ arg' = arg
  /\ \A t \in Tasks : timer'[t] = "none" <=> timer[t] = "none"
  /\ \A t \in Tasks : status[t] # "FREE" => status'[t] # "FREE"

(* A step that moves no task pointer keeps who owns what. *)
LEMMA KeepsOwned ==
  ASSUME TypeOK, Owned, KeepsTasks
  PROVE  Owned'
<1>. USE DEF Owned, KeepsTasks, TypeOK
<1>1. QueueExclusive'
  BY DEF Exclusive, QueueExclusive
<1>2. ThreadExclusive'
  BY DEF Exclusive, ThreadExclusive
<1>3. TimerExclusive'
  BY DEF Exclusive, TimerExclusive
<1>4. NoDangling'
  BY DEF NoDangling, Live
<1>. QED
  BY <1>1, <1>2, <1>3, <1>4 DEF Exclusive

(* Every step keeps each task in one place, and what is followed alive. *)
LEMMA OwnedNext == TypeOK /\ Control /\ Owned /\ [Next]_vars => Owned'
<1>. SUFFICES ASSUME TypeOK, Control, Owned, [Next]_vars PROVE Owned'
  OBVIOUS
<1>0. /\ \A x \in Threads : /\ myCurrentTask[x] \in Tasks \cup {NoTask}
                             /\ arg[x] \in Tasks \cup {NoTask}
      /\ \A i \in 1..Len(myTaskQueue) : myTaskQueue[i] \in Tasks
      /\ Len(myTaskQueue) \in Nat
  BY DEF TypeOK
<1>1. ASSUME NEW th \in Threads, NEW t \in Tasks, ScheduleTask(th, t)
      PROVE Owned'
  <2>0. /\ status[t] = "FREE"
        /\ \A u \in Tasks :
             status'[u] = IF u = t THEN "INACTIVE" ELSE status[u]
        /\ \A x \in Threads :
             arg'[x] = IF x = th THEN t ELSE arg[x]
        /\ arg[th] = NoTask
        /\ UNCHANGED <<timer, myTaskQueue, myCurrentTask>>
    BY <1>1 DEF ScheduleTask, NewTask, CountTask, InProgram, TypeOK, Control,
      HasTask, Goto, taskVars, countVars, poolVars, callVars, otherVars
  <2>1. QueueExclusive'
    BY <1>0, <2>0, TasksAssumption DEF Owned, Exclusive, QueueExclusive,
      ThreadExclusive, TimerExclusive, NoDangling, Live
  <2>2. ThreadExclusive'
    BY <1>0, <2>0, TasksAssumption DEF Owned, Exclusive, QueueExclusive,
      ThreadExclusive, TimerExclusive, NoDangling, Live
  <2>3. TimerExclusive'
    BY <1>0, <2>0, TasksAssumption DEF Owned, Exclusive, QueueExclusive,
      ThreadExclusive, TimerExclusive, NoDangling, Live
  <2>4. NoDangling'
    BY <1>0, <2>0, TasksAssumption DEF Owned, Exclusive, QueueExclusive,
      ThreadExclusive, TimerExclusive, NoDangling, Live
  <2>. QED
    BY <2>1, <2>2, <2>3, <2>4 DEF Owned, Exclusive
<1>2. ASSUME NEW th \in Threads, NEW t \in Tasks, SetTimeout(th, t)
      PROVE Owned'
  <2>0. /\ status[t] = "FREE"
        /\ \A u \in Tasks :
             status'[u] = IF u = t THEN "INACTIVE" ELSE status[u]
        /\ \A u \in Tasks :
             timer'[u] = IF u = t THEN "armed" ELSE timer[u]
        /\ UNCHANGED <<arg, myTaskQueue, myCurrentTask>>
    BY <1>2 DEF SetTimeout, NewTask, InProgram, TypeOK, Control, HasTask,
      Goto, taskVars, countVars, poolVars, callVars, otherVars
  <2>1. QueueExclusive'
    BY <1>0, <2>0, TasksAssumption DEF Owned, Exclusive, QueueExclusive,
      ThreadExclusive, TimerExclusive, NoDangling, Live
  <2>2. ThreadExclusive'
    BY <1>0, <2>0, TasksAssumption DEF Owned, Exclusive, QueueExclusive,
      ThreadExclusive, TimerExclusive, NoDangling, Live
  <2>3. TimerExclusive'
    BY <1>0, <2>0, TasksAssumption DEF Owned, Exclusive, QueueExclusive,
      ThreadExclusive, TimerExclusive, NoDangling, Live
  <2>4. NoDangling'
    BY <1>0, <2>0, TasksAssumption DEF Owned, Exclusive, QueueExclusive,
      ThreadExclusive, TimerExclusive, NoDangling, Live
  <2>. QED
    BY <2>1, <2>2, <2>3, <2>4 DEF Owned, Exclusive
<1>3. ASSUME NEW th \in Threads, NEW id \in DOMAIN globalTimeouts,
             ClearTimeout(th, id)
      PROVE Owned'
  <2>1. KeepsTasks
    BY <1>3 DEF ClearTimeout, KeepsTasks, TypeOK, Control, HasTask, Goto,
      InProgram, vars, taskVars, countVars, poolVars, callVars, otherVars
  <2>. QED
    BY <2>1, KeepsOwned
<1>4. ASSUME NEW th \in Threads, Yield(th)
      PROVE Owned'
  <2>1. KeepsTasks
    BY <1>4 DEF Yield, KeepsTasks, TypeOK, Control, HasTask, Goto, InProgram,
      vars, taskVars, countVars, poolVars, callVars, otherVars
  <2>. QED
    BY <2>1, KeepsOwned
<1>5. ASSUME NEW th \in Threads, Finish(th)
      PROVE Owned'
  <2>1. KeepsTasks
    BY <1>5 DEF Finish, KeepsTasks, TypeOK, Control, HasTask, Goto, InProgram,
      vars, taskVars, countVars, poolVars, callVars, otherVars
  <2>. QED
    BY <2>1, KeepsOwned
<1>6. ASSUME NEW th \in Threads, Pause(th) \/ Resume(th)
      PROVE Owned'
  <2>1. KeepsTasks
    BY <1>6 DEF Pause, Resume, KeepsTasks, TypeOK, Control, HasTask, Goto,
      InProgram, vars, taskVars, countVars, poolVars, callVars, otherVars
  <2>. QED
    BY <2>1, KeepsOwned
<1>7. ASSUME NEW t \in Tasks, Expire(t)
      PROVE Owned'
  <2>1. KeepsTasks
    BY <1>7 DEF Expire, KeepsTasks, TypeOK, Control, HasTask, Goto, InProgram,
      vars, taskVars, countVars, poolVars, callVars, otherVars
  <2>. QED
    BY <2>1, KeepsOwned
<1>8. ASSUME NEW th \in Threads, Push(th)
      PROVE Owned'
  <2>0. /\ arg[th] \in Tasks
        /\ \A x \in Threads :
             arg'[x] = IF x = th THEN NoTask ELSE arg[x]
        /\ UNCHANGED <<status, timer, myCurrentTask>>
    BY <1>8 DEF Push, TypeOK, Control, HasTask, Goto, taskVars, countVars,
      poolVars, callVars, otherVars
  <2>5. myTaskQueue' = Append(myTaskQueue, arg[th])
    BY <1>8 DEF Push
  <2>6. /\ Len(myTaskQueue') = Len(myTaskQueue) + 1
        /\ \A i \in 1..Len(myTaskQueue) : myTaskQueue'[i] = myTaskQueue[i]
        /\ myTaskQueue'[Len(myTaskQueue) + 1] = arg[th]
    BY <2>0, <2>5 DEF TypeOK
  <2>1. QueueExclusive'
    BY <1>0, <2>0, <2>6, TasksAssumption DEF Owned, Exclusive, QueueExclusive,
      ThreadExclusive, TimerExclusive, NoDangling, Live
  <2>2. ThreadExclusive'
    BY <1>0, <2>0, <2>6, TasksAssumption DEF Owned, Exclusive, QueueExclusive,
      ThreadExclusive, TimerExclusive, NoDangling, Live
  <2>3. TimerExclusive'
    BY <1>0, <2>0, <2>6, TasksAssumption DEF Owned, Exclusive, QueueExclusive,
      ThreadExclusive, TimerExclusive, NoDangling, Live
  <2>4. NoDangling'
    BY <1>0, <2>0, <2>6, TasksAssumption DEF Owned, Exclusive, QueueExclusive,
      ThreadExclusive, TimerExclusive, NoDangling, Live
  <2>. QED
    BY <2>1, <2>2, <2>3, <2>4 DEF Owned, Exclusive
<1>9. ASSUME NEW th \in Threads, Balance(th)
      PROVE Owned'
  <2>1. KeepsTasks
    BY <1>9 DEF Balance, KeepsTasks, TypeOK, Control, HasTask, Goto,
      InProgram, vars, taskVars, countVars, poolVars, callVars, otherVars
  <2>. QED
    BY <2>1, KeepsOwned
<1>10. ASSUME NEW th \in Threads, NEW p \in Pool, StartThread(th, p)
      PROVE Owned'
  <2>1. KeepsTasks
    BY <1>10 DEF StartThread, KeepsTasks, TypeOK, Control, HasTask, Goto,
      InProgram, vars, taskVars, countVars, poolVars, callVars, otherVars
  <2>. QED
    BY <2>1, KeepsOwned
<1>10a. ASSUME NEW th \in Threads, RegisterThread(th)
      PROVE Owned'
  <2>1. KeepsTasks
    BY <1>10a DEF RegisterThread, KeepsTasks, TypeOK, Control, HasTask, Goto,
      InProgram, vars, taskVars, countVars, poolVars, callVars, otherVars
  <2>. QED
    BY <2>1, KeepsOwned
<1>11. ASSUME NEW th \in Threads, EnterDispatcher(th)
      PROVE Owned'
  <2>1. KeepsTasks
    BY <1>11 DEF EnterDispatcher, KeepsTasks, TypeOK, Control, HasTask, Goto,
      InProgram, vars, taskVars, countVars, poolVars, callVars, otherVars
  <2>. QED
    BY <2>1, KeepsOwned
<1>12. ASSUME NEW th \in Threads, NEW t \in Tasks, PollTimer(th, t)
      PROVE Owned'
  <2>0. /\ timer[t] # "none"
        /\ \A u \in Tasks :
             timer'[u] = IF u = t THEN "none" ELSE timer[u]
        /\ \A x \in Threads :
             arg'[x] = IF x = th THEN t ELSE arg[x]
        /\ arg[th] = NoTask
        /\ UNCHANGED <<status, myTaskQueue, myCurrentTask>>
    BY <1>12 DEF PollTimer, CountTask, TypeOK, Control, HasTask, Goto,
      taskVars, countVars, poolVars, callVars, otherVars
  <2>1. QueueExclusive'
    BY <1>0, <2>0, TasksAssumption DEF Owned, Exclusive, QueueExclusive,
      ThreadExclusive, TimerExclusive, NoDangling, Live
  <2>2. ThreadExclusive'
    BY <1>0, <2>0, TasksAssumption DEF Owned, Exclusive, QueueExclusive,
      ThreadExclusive, TimerExclusive, NoDangling, Live
  <2>3. TimerExclusive'
    BY <1>0, <2>0, TasksAssumption DEF Owned, Exclusive, QueueExclusive,
      ThreadExclusive, TimerExclusive, NoDangling, Live
  <2>4. NoDangling'
    BY <1>0, <2>0, TasksAssumption DEF Owned, Exclusive, QueueExclusive,
      ThreadExclusive, TimerExclusive, NoDangling, Live
  <2>. QED
    BY <2>1, <2>2, <2>3, <2>4 DEF Owned, Exclusive
<1>13. ASSUME NEW th \in Threads, PollNothing(th)
      PROVE Owned'
  <2>1. KeepsTasks
    BY <1>13 DEF PollNothing, KeepsTasks, TypeOK, Control, HasTask, Goto,
      InProgram, vars, taskVars, countVars, poolVars, callVars, otherVars
  <2>. QED
    BY <2>1, KeepsOwned
<1>14. ASSUME NEW th \in Threads, TestQueued(th)
      PROVE Owned'
  <2>1. KeepsTasks
    BY <1>14 DEF TestQueued, KeepsTasks, TypeOK, Control, HasTask, Goto,
      InProgram, vars, taskVars, countVars, poolVars, callVars, otherVars
  <2>. QED
    BY <2>1, KeepsOwned
<1>15. ASSUME NEW th \in Threads, TestStopped(th)
      PROVE Owned'
  <2>1. KeepsTasks
    BY <1>15 DEF TestStopped, KeepsTasks, TypeOK, Control, HasTask, Goto,
      InProgram, vars, taskVars, countVars, poolVars, callVars, otherVars
  <2>. QED
    BY <2>1, KeepsOwned
<1>16. ASSUME NEW th \in Threads, Pop(th)
      PROVE Owned'
  <2>0. /\ \A x \in Threads :
             myCurrentTask'[x] = IF x = th THEN Head(myTaskQueue) ELSE
               myCurrentTask[x]
        /\ myCurrentTask[th] = NoTask
        /\ UNCHANGED <<status, timer, arg>>
    BY <1>16 DEF Pop, TypeOK, Control, HasTask, Goto, taskVars, countVars,
      poolVars, callVars, otherVars
  <2>5. myTaskQueue # << >> /\ myTaskQueue' = Tail(myTaskQueue)
    BY <1>16 DEF Pop
  <2>6. /\ Len(myTaskQueue) # 0
        /\ Len(myTaskQueue') = Len(myTaskQueue) - 1
        /\ \A i \in 1..Len(myTaskQueue') :
             myTaskQueue'[i] = myTaskQueue[i + 1]
        /\ Head(myTaskQueue) = myTaskQueue[1]
    BY <2>0, <2>5 DEF TypeOK
  <2>7. \A i \in 1..Len(myTaskQueue') :
          i + 1 \in 1..Len(myTaskQueue) /\ i + 1 # 1 /\ 1 \in
            1..Len(myTaskQueue)
    BY <1>0, <2>6
  <2>8. \A i \in 1..Len(myTaskQueue') :
          /\ myTaskQueue'[i] # Head(myTaskQueue)
          /\ \A x \in Threads : myTaskQueue'[i] \notin {myCurrentTask[x],
            arg[x]}
          /\ timer[myTaskQueue'[i]] = "none"
    BY <2>6, <2>7 DEF Owned, Exclusive, QueueExclusive
  <2>9. \A i, j \in 1..Len(myTaskQueue') :
          myTaskQueue'[i] = myTaskQueue'[j] => i + 1 = j + 1
    BY <2>6, <2>7 DEF Owned, Exclusive, QueueExclusive
  <2>10. \A i, j \in 1..Len(myTaskQueue') :
           myTaskQueue'[i] = myTaskQueue'[j] => i = j
    BY <2>9
  <2>1. QueueExclusive'
    BY <2>0, <2>8, <2>10 DEF QueueExclusive
  <2>2. ThreadExclusive'
    BY <1>0, <2>0, <2>6, TasksAssumption DEF Owned, Exclusive, QueueExclusive,
      ThreadExclusive, TimerExclusive, NoDangling, Live
  <2>3. TimerExclusive'
    BY <1>0, <2>0, <2>6, TasksAssumption DEF Owned, Exclusive, QueueExclusive,
      ThreadExclusive, TimerExclusive, NoDangling, Live
  <2>4. NoDangling'
    BY <1>0, <2>0, <2>6, TasksAssumption DEF Owned, Exclusive, QueueExclusive,
      ThreadExclusive, TimerExclusive, NoDangling, Live
  <2>. QED
    BY <2>1, <2>2, <2>3, <2>4 DEF Owned, Exclusive
<1>17. ASSUME NEW th \in Threads, EndDrain(th)
      PROVE Owned'
  <2>1. KeepsTasks
    BY <1>17 DEF EndDrain, KeepsTasks, TypeOK, Control, HasTask, Goto,
      InProgram, vars, taskVars, countVars, poolVars, callVars, otherVars
  <2>. QED
    BY <2>1, KeepsOwned
<1>18. ASSUME NEW th \in Threads, Uncount(th)
      PROVE Owned'
  <2>1. KeepsTasks
    BY <1>18 DEF Uncount, KeepsTasks, TypeOK, Control, HasTask, Goto,
      InProgram, vars, taskVars, countVars, poolVars, callVars, otherVars
  <2>. QED
    BY <2>1, KeepsOwned
<1>19. ASSUME NEW th \in Threads, DropAborted(th)
      PROVE Owned'
  <2>0. /\ \A x \in Threads :
             myCurrentTask'[x] = IF x = th THEN NoTask ELSE myCurrentTask[x]
        /\ UNCHANGED <<status, timer, arg, myTaskQueue>>
    BY <1>19 DEF DropAborted, TypeOK, Control, HasTask, Goto, taskVars,
      countVars, poolVars, callVars, otherVars
  <2>1. QueueExclusive'
    BY <1>0, <2>0, TasksAssumption DEF Owned, Exclusive, QueueExclusive,
      ThreadExclusive, TimerExclusive, NoDangling, Live
  <2>2. ThreadExclusive'
    BY <1>0, <2>0, TasksAssumption DEF Owned, Exclusive, QueueExclusive,
      ThreadExclusive, TimerExclusive, NoDangling, Live
  <2>3. TimerExclusive'
    BY <1>0, <2>0, TasksAssumption DEF Owned, Exclusive, QueueExclusive,
      ThreadExclusive, TimerExclusive, NoDangling, Live
  <2>4. NoDangling'
    BY <1>0, <2>0, TasksAssumption DEF Owned, Exclusive, QueueExclusive,
      ThreadExclusive, TimerExclusive, NoDangling, Live
  <2>. QED
    BY <2>1, <2>2, <2>3, <2>4 DEF Owned, Exclusive
<1>20. ASSUME NEW th \in Threads, PassCheck(th)
      PROVE Owned'
  <2>1. KeepsTasks
    BY <1>20 DEF PassCheck, KeepsTasks, TypeOK, Control, HasTask, Goto,
      InProgram, vars, taskVars, countVars, poolVars, callVars, otherVars
  <2>. QED
    BY <2>1, KeepsOwned
<1>21. ASSUME NEW th \in Threads, CheckInactive(th)
      PROVE Owned'
  <2>1. KeepsTasks
    BY <1>21 DEF CheckInactive, KeepsTasks, TypeOK, Control, HasTask, Goto,
      InProgram, vars, taskVars, countVars, poolVars, callVars, otherVars
  <2>. QED
    BY <2>1, KeepsOwned
<1>22. ASSUME NEW th \in Threads, Create(th)
      PROVE Owned'
  <2>1. KeepsTasks
    BY <1>22 DEF Create, KeepsTasks, TypeOK, Control, HasTask, Goto,
      InProgram, vars, taskVars, countVars, poolVars, callVars, otherVars
  <2>. QED
    BY <2>1, KeepsOwned
<1>23. ASSUME NEW th \in Threads, Enter(th)
      PROVE Owned'
  <2>1. KeepsTasks
    BY <1>23 DEF Enter, KeepsTasks, TypeOK, Control, HasTask, Goto, InProgram,
      vars, taskVars, countVars, poolVars, callVars, otherVars
  <2>. QED
    BY <2>1, KeepsOwned
<1>24. ASSUME NEW th \in Threads, Activate(th)
      PROVE Owned'
  <2>1. KeepsTasks
    BY <1>24 DEF Activate, KeepsTasks, TypeOK, Control, HasTask, Goto,
      InProgram, vars, taskVars, countVars, poolVars, callVars, otherVars
  <2>. QED
    BY <2>1, KeepsOwned
<1>25. ASSUME NEW th \in Threads, Requeue(th)
      PROVE Owned'
  <2>0. /\ myCurrentTask[th] \in Tasks
        /\ \A x \in Threads :
             myCurrentTask'[x] = IF x = th THEN NoTask ELSE myCurrentTask[x]
        /\ UNCHANGED <<status, timer, arg>>
    BY <1>25 DEF Requeue, TypeOK, Control, HasTask, Goto, taskVars, countVars,
      poolVars, callVars, otherVars
  <2>5. myTaskQueue' = Append(myTaskQueue, myCurrentTask[th])
    BY <1>25 DEF Requeue
  <2>6. /\ Len(myTaskQueue') = Len(myTaskQueue) + 1
        /\ \A i \in 1..Len(myTaskQueue) : myTaskQueue'[i] = myTaskQueue[i]
        /\ myTaskQueue'[Len(myTaskQueue) + 1] = myCurrentTask[th]
    BY <2>0, <2>5 DEF TypeOK
  <2>1. QueueExclusive'
    BY <1>0, <2>0, <2>6, TasksAssumption DEF Owned, Exclusive, QueueExclusive,
      ThreadExclusive, TimerExclusive, NoDangling, Live
  <2>2. ThreadExclusive'
    BY <1>0, <2>0, <2>6, TasksAssumption DEF Owned, Exclusive, QueueExclusive,
      ThreadExclusive, TimerExclusive, NoDangling, Live
  <2>3. TimerExclusive'
    BY <1>0, <2>0, <2>6, TasksAssumption DEF Owned, Exclusive, QueueExclusive,
      ThreadExclusive, TimerExclusive, NoDangling, Live
  <2>4. NoDangling'
    BY <1>0, <2>0, <2>6, TasksAssumption DEF Owned, Exclusive, QueueExclusive,
      ThreadExclusive, TimerExclusive, NoDangling, Live
  <2>. QED
    BY <2>1, <2>2, <2>3, <2>4 DEF Owned, Exclusive
<1>26. ASSUME NEW th \in Threads, Recount(th)
      PROVE Owned'
  <2>1. KeepsTasks
    BY <1>26 DEF Recount, KeepsTasks, TypeOK, Control, HasTask, Goto,
      InProgram, vars, taskVars, countVars, poolVars, callVars, otherVars
  <2>. QED
    BY <2>1, KeepsOwned
<1>27. ASSUME NEW th \in Threads, Delete(th)
      PROVE Owned'
  <2>0. /\ myCurrentTask[th] \in Tasks
        /\ \A u \in Tasks :
             status'[u] = IF u = myCurrentTask[th] THEN "FREE" ELSE status[u]
        /\ \A x \in Threads :
             myCurrentTask'[x] = IF x = th THEN NoTask ELSE myCurrentTask[x]
        /\ UNCHANGED <<timer, arg, myTaskQueue>>
    BY <1>27 DEF Delete, TypeOK, Control, HasTask, Goto, taskVars, countVars,
      poolVars, callVars, otherVars
  <2>1. QueueExclusive'
    BY <1>0, <2>0, TasksAssumption DEF Owned, Exclusive, QueueExclusive,
      ThreadExclusive, TimerExclusive, NoDangling, Live
  <2>2. ThreadExclusive'
    BY <1>0, <2>0, TasksAssumption DEF Owned, Exclusive, QueueExclusive,
      ThreadExclusive, TimerExclusive, NoDangling, Live
  <2>3. TimerExclusive'
    BY <1>0, <2>0, TasksAssumption DEF Owned, Exclusive, QueueExclusive,
      ThreadExclusive, TimerExclusive, NoDangling, Live
  <2>4. NoDangling'
    BY <1>0, <2>0, TasksAssumption DEF Owned, Exclusive, QueueExclusive,
      ThreadExclusive, TimerExclusive, NoDangling, Live
  <2>. QED
    BY <2>1, <2>2, <2>3, <2>4 DEF Owned, Exclusive
<1>28. ASSUME NEW th \in Threads, EndTask(th)
      PROVE Owned'
  <2>1. KeepsTasks
    BY <1>28 DEF EndTask, KeepsTasks, TypeOK, Control, HasTask, Goto,
      InProgram, vars, taskVars, countVars, poolVars, callVars, otherVars
  <2>. QED
    BY <2>1, KeepsOwned
<1>29. ASSUME Start \/ TestHeld \/ Join \/ Destroy
      PROVE Owned'
  <2>1. KeepsTasks
    BY <1>29 DEF Start, TestHeld, Join, Destroy, KeepsTasks, TypeOK, Control,
      HasTask, Goto, InProgram, vars, taskVars, countVars, poolVars, callVars,
      otherVars
  <2>. QED
    BY <2>1, KeepsOwned
<1>30. CASE UNCHANGED vars
  BY <1>30, KeepsOwned DEF KeepsTasks, vars, taskVars, callVars
<1>. QED
  BY <1>1, <1>2, <1>3, <1>4, <1>5, <1>6, <1>7, <1>8, <1>9, <1>10,
     <1>10a, <1>11, <1>12, <1>13, <1>14, <1>15, <1>16, <1>17, <1>18, <1>19, <1>20, <1>21,
     <1>22, <1>23, <1>24, <1>25, <1>26, <1>27, <1>28, <1>29, <1>30
     DEF Next, ThreadStep, ProgramStep, MainStep

(* No step makes a pointer dangle or two of it. *)
LEMMA OwnedInit == Init => Owned
  BY TasksAssumption DEF Init, Owned, Exclusive, QueueExclusive,
    ThreadExclusive, TimerExclusive, NoDangling, Live

(* A task pointer is in one place at a time, in the queue, with a thread   *)
(* or with a timer, for any number of threads and tasks.                   *)
THEOREM ExclusiveCorrect == Spec => []Exclusive
<1>1. Owned => Exclusive
  BY DEF Owned
<1>. QED
  BY <1>1, ControlInit, TypeNext, ControlNext, OwnedInit, OwnedNext, PTL DEF
    Spec

(* No pointer the scheduler will follow is to a deleted task, for any      *)
(* number of threads and tasks, although cells are re-used.                *)
THEOREM NoDanglingCorrect == Spec => []NoDangling
<1>1. Owned => NoDangling
  BY DEF Owned
<1>. QED
  BY <1>1, ControlInit, TypeNext, ControlNext, OwnedInit, OwnedNext, PTL DEF
    Spec

-----------------------------------------------------------------------------
(* Counting holds. *)
Held(f) == {u \in Tasks : f[u] # "FREE" /\ Holds(u)}

(* The live tasks that hold the process can be counted. *)
LEMMA HeldFinite ==
  ASSUME NEW f
  PROVE  IsFiniteSet(Held(f)) /\ Cardinality(Held(f)) \in Nat
<1>1. Held(f) \in SUBSET Tasks
  BY DEF Held
<1>. QED
  BY <1>1, TasksAssumption, FS_Subset, FS_CardinalityType

(* The account of holds, in terms of Held. *)
LEMMA HeldForm == HoldAccounting <=> myHoldCount = Cardinality(Held(status))
  BY DEF HoldAccounting, Held, Live

(* The same, after a step. *)
LEMMA HeldFormNext ==
  HoldAccounting' <=> myHoldCount' = Cardinality(Held(status'))
  BY DEF HoldAccounting, Held, Live, Holds

(* No task is created or deleted. *)
KeepsHolds ==
  /\ myHoldCount' = myHoldCount
  /\ \A u \in Tasks : status'[u] = "FREE" <=> status[u] = "FREE"

(* A step that neither creates nor deletes a task keeps the account of holds. *)
LEMMA KeepsHeld ==
  ASSUME HoldAccounting, KeepsHolds
  PROVE  HoldAccounting'
<1>1. Held(status') = Held(status)
  BY DEF Held, KeepsHolds
<1>. QED
  BY <1>1, HeldForm, HeldFormNext DEF KeepsHolds

(* A task is created, in the free cell t. *)
LEMMA HoldNew ==
  ASSUME HoldAccounting, TypeOK, NEW t \in Tasks, NewTask(t)
  PROVE  HoldAccounting'
<1>1. /\ \A u \in Tasks : status'[u] = IF u = t THEN "INACTIVE" ELSE status[u]
      /\ status[t] = "FREE"
      /\ myHoldCount' = IF Holds(t) THEN myHoldCount + 1 ELSE myHoldCount
  BY DEF NewTask, TypeOK
<1>2. CASE Holds(t)
  <2>1. Held(status') = Held(status) \cup {t} /\ t \notin Held(status)
    BY <1>1, <1>2 DEF Held
  <2>2. Cardinality(Held(status')) = Cardinality(Held(status)) + 1
    BY <2>1, HeldFinite, FS_AddElement
  <2>. QED
    BY <1>1, <1>2, <2>2, HeldForm, HeldFormNext
<1>3. CASE ~Holds(t)
  <2>1. Held(status') = Held(status)
    BY <1>1, <1>3 DEF Held
  <2>. QED
    BY <1>1, <1>3, <2>1, HeldForm, HeldFormNext
<1>. QED
  BY <1>2, <1>3

(* Deleting a task releases its one hold. *)
LEMMA HoldDelete ==
  ASSUME HoldAccounting, TypeOK, Control, Owned,
         NEW th \in Threads, Delete(th)
  PROVE  HoldAccounting'
<1>. DEFINE t == myCurrentTask[th]
<1>1. t \in Tasks /\ status[t] # "FREE"
  BY TasksAssumption DEF Delete, Control, HasTask, Owned, NoDangling, Live
<1>2. /\ \A u \in Tasks : status'[u] = IF u = t THEN "FREE" ELSE status[u]
      /\ myHoldCount' = IF Holds(t) THEN myHoldCount - 1 ELSE myHoldCount
  BY DEF Delete, TypeOK
<1>. HIDE DEF t
<1>3. CASE Holds(t)
  <2>1. Held(status') = Held(status) \ {t} /\ t \in Held(status)
    BY <1>1, <1>2, <1>3 DEF Held
  <2>2. Cardinality(Held(status')) = Cardinality(Held(status)) - 1
    BY <2>1, HeldFinite, FS_RemoveElement
  <2>. QED
    BY <1>2, <1>3, <2>2, HeldForm, HeldFormNext
<1>4. CASE ~Holds(t)
  <2>1. Held(status') = Held(status)
    BY <1>1, <1>2, <1>4 DEF Held
  <2>. QED
    BY <1>2, <1>4, <2>1, HeldForm, HeldFormNext
<1>. QED
  BY <1>3, <1>4

(* Every step keeps the account of holds. *)
LEMMA HoldNext ==
  TypeOK /\ Control /\ Owned /\ HoldAccounting /\ [Next]_vars =>
    HoldAccounting'
<1>. SUFFICES ASSUME TypeOK, Control, Owned, HoldAccounting, [Next]_vars
              PROVE  HoldAccounting'
  OBVIOUS
<1>0. \A x \in Threads :
        HasTask(x) => /\ myCurrentTask[x] \in Tasks
                      /\ status[myCurrentTask[x]] # "FREE"
  BY TasksAssumption DEF Control, Owned, NoDangling, Live
<1>1. ASSUME NEW th \in Threads, NEW t \in Tasks, ScheduleTask(th, t)
      PROVE HoldAccounting'
  BY <1>1, HoldNew DEF ScheduleTask
<1>2. ASSUME NEW th \in Threads, NEW t \in Tasks, SetTimeout(th, t)
      PROVE HoldAccounting'
  BY <1>2, HoldNew DEF SetTimeout
<1>3. ASSUME NEW th \in Threads, NEW id \in DOMAIN globalTimeouts,
             ClearTimeout(th, id)
      PROVE HoldAccounting'
  <2>1. KeepsHolds
    BY <1>0, <1>3 DEF ClearTimeout, KeepsHolds, TypeOK, HasTask, taskVars,
      countVars, poolVars, callVars, otherVars
  <2>. QED
    BY <2>1, KeepsHeld
<1>4. ASSUME NEW th \in Threads, Yield(th)
      PROVE HoldAccounting'
  <2>1. KeepsHolds
    BY <1>0, <1>4 DEF Yield, KeepsHolds, TypeOK, HasTask, taskVars, countVars,
      poolVars, callVars, otherVars
  <2>. QED
    BY <2>1, KeepsHeld
<1>5. ASSUME NEW th \in Threads, Finish(th)
      PROVE HoldAccounting'
  <2>1. KeepsHolds
    BY <1>0, <1>5 DEF Finish, KeepsHolds, TypeOK, HasTask, taskVars,
      countVars, poolVars, callVars, otherVars
  <2>. QED
    BY <2>1, KeepsHeld
<1>6. ASSUME NEW th \in Threads, Pause(th) \/ Resume(th)
      PROVE HoldAccounting'
  <2>1. KeepsHolds
    BY <1>0, <1>6 DEF Pause, Resume, KeepsHolds, TypeOK, HasTask, taskVars,
      countVars, poolVars, callVars, otherVars
  <2>. QED
    BY <2>1, KeepsHeld
<1>7. ASSUME NEW t \in Tasks, Expire(t)
      PROVE HoldAccounting'
  <2>1. KeepsHolds
    BY <1>0, <1>7 DEF Expire, KeepsHolds, TypeOK, HasTask, taskVars,
      countVars, poolVars, callVars, otherVars
  <2>. QED
    BY <2>1, KeepsHeld
<1>8. ASSUME NEW th \in Threads, Push(th)
      PROVE HoldAccounting'
  <2>1. KeepsHolds
    BY <1>0, <1>8 DEF Push, KeepsHolds, TypeOK, HasTask, taskVars, countVars,
      poolVars, callVars, otherVars
  <2>. QED
    BY <2>1, KeepsHeld
<1>9. ASSUME NEW th \in Threads, Balance(th)
      PROVE HoldAccounting'
  <2>1. KeepsHolds
    BY <1>0, <1>9 DEF Balance, KeepsHolds, TypeOK, HasTask, taskVars,
      countVars, poolVars, callVars, otherVars
  <2>. QED
    BY <2>1, KeepsHeld
<1>10. ASSUME NEW th \in Threads, NEW p \in Pool, StartThread(th, p)
      PROVE HoldAccounting'
  <2>1. KeepsHolds
    BY <1>0, <1>10 DEF StartThread, KeepsHolds, TypeOK, HasTask, taskVars,
      countVars, poolVars, callVars, otherVars
  <2>. QED
    BY <2>1, KeepsHeld
<1>10a. ASSUME NEW th \in Threads, RegisterThread(th)
      PROVE HoldAccounting'
  <2>1. KeepsHolds
    BY <1>0, <1>10a DEF RegisterThread, KeepsHolds, TypeOK, HasTask, taskVars,
      countVars, poolVars, callVars, otherVars
  <2>. QED
    BY <2>1, KeepsHeld
<1>11. ASSUME NEW th \in Threads, EnterDispatcher(th)
      PROVE HoldAccounting'
  <2>1. KeepsHolds
    BY <1>0, <1>11 DEF EnterDispatcher, KeepsHolds, TypeOK, HasTask, taskVars,
      countVars, poolVars, callVars, otherVars
  <2>. QED
    BY <2>1, KeepsHeld
<1>12. ASSUME NEW th \in Threads, NEW t \in Tasks, PollTimer(th, t)
      PROVE HoldAccounting'
  <2>1. KeepsHolds
    BY <1>0, <1>12 DEF PollTimer, CountTask, KeepsHolds, TypeOK, HasTask,
      taskVars, countVars, poolVars, callVars, otherVars
  <2>. QED
    BY <2>1, KeepsHeld
<1>13. ASSUME NEW th \in Threads, PollNothing(th)
      PROVE HoldAccounting'
  <2>1. KeepsHolds
    BY <1>0, <1>13 DEF PollNothing, KeepsHolds, TypeOK, HasTask, taskVars,
      countVars, poolVars, callVars, otherVars
  <2>. QED
    BY <2>1, KeepsHeld
<1>14. ASSUME NEW th \in Threads, TestQueued(th)
      PROVE HoldAccounting'
  <2>1. KeepsHolds
    BY <1>0, <1>14 DEF TestQueued, KeepsHolds, TypeOK, HasTask, taskVars,
      countVars, poolVars, callVars, otherVars
  <2>. QED
    BY <2>1, KeepsHeld
<1>15. ASSUME NEW th \in Threads, TestStopped(th)
      PROVE HoldAccounting'
  <2>1. KeepsHolds
    BY <1>0, <1>15 DEF TestStopped, KeepsHolds, TypeOK, HasTask, taskVars,
      countVars, poolVars, callVars, otherVars
  <2>. QED
    BY <2>1, KeepsHeld
<1>16. ASSUME NEW th \in Threads, Pop(th)
      PROVE HoldAccounting'
  <2>1. KeepsHolds
    BY <1>0, <1>16 DEF Pop, KeepsHolds, TypeOK, HasTask, taskVars, countVars,
      poolVars, callVars, otherVars
  <2>. QED
    BY <2>1, KeepsHeld
<1>17. ASSUME NEW th \in Threads, EndDrain(th)
      PROVE HoldAccounting'
  <2>1. KeepsHolds
    BY <1>0, <1>17 DEF EndDrain, KeepsHolds, TypeOK, HasTask, taskVars,
      countVars, poolVars, callVars, otherVars
  <2>. QED
    BY <2>1, KeepsHeld
<1>18. ASSUME NEW th \in Threads, Uncount(th)
      PROVE HoldAccounting'
  <2>1. KeepsHolds
    BY <1>0, <1>18 DEF Uncount, KeepsHolds, TypeOK, HasTask, taskVars,
      countVars, poolVars, callVars, otherVars
  <2>. QED
    BY <2>1, KeepsHeld
<1>19. ASSUME NEW th \in Threads, DropAborted(th)
      PROVE HoldAccounting'
  <2>1. KeepsHolds
    BY <1>0, <1>19 DEF DropAborted, KeepsHolds, TypeOK, HasTask, taskVars,
      countVars, poolVars, callVars, otherVars
  <2>. QED
    BY <2>1, KeepsHeld
<1>20. ASSUME NEW th \in Threads, PassCheck(th)
      PROVE HoldAccounting'
  <2>1. KeepsHolds
    BY <1>0, <1>20 DEF PassCheck, KeepsHolds, TypeOK, HasTask, taskVars,
      countVars, poolVars, callVars, otherVars
  <2>. QED
    BY <2>1, KeepsHeld
<1>21. ASSUME NEW th \in Threads, CheckInactive(th)
      PROVE HoldAccounting'
  <2>1. KeepsHolds
    BY <1>0, <1>21 DEF CheckInactive, KeepsHolds, TypeOK, HasTask, taskVars,
      countVars, poolVars, callVars, otherVars
  <2>. QED
    BY <2>1, KeepsHeld
<1>22. ASSUME NEW th \in Threads, Create(th)
      PROVE HoldAccounting'
  <2>1. KeepsHolds
    BY <1>0, <1>22 DEF Create, KeepsHolds, TypeOK, HasTask, taskVars,
      countVars, poolVars, callVars, otherVars
  <2>. QED
    BY <2>1, KeepsHeld
<1>23. ASSUME NEW th \in Threads, Enter(th)
      PROVE HoldAccounting'
  <2>1. KeepsHolds
    BY <1>0, <1>23 DEF Enter, KeepsHolds, TypeOK, HasTask, taskVars,
      countVars, poolVars, callVars, otherVars
  <2>. QED
    BY <2>1, KeepsHeld
<1>24. ASSUME NEW th \in Threads, Activate(th)
      PROVE HoldAccounting'
  <2>1. KeepsHolds
    BY <1>0, <1>24 DEF Activate, KeepsHolds, TypeOK, HasTask, taskVars,
      countVars, poolVars, callVars, otherVars
  <2>. QED
    BY <2>1, KeepsHeld
<1>25. ASSUME NEW th \in Threads, Requeue(th)
      PROVE HoldAccounting'
  <2>1. KeepsHolds
    BY <1>0, <1>25 DEF Requeue, KeepsHolds, TypeOK, HasTask, taskVars,
      countVars, poolVars, callVars, otherVars
  <2>. QED
    BY <2>1, KeepsHeld
<1>26. ASSUME NEW th \in Threads, Recount(th)
      PROVE HoldAccounting'
  <2>1. KeepsHolds
    BY <1>0, <1>26 DEF Recount, KeepsHolds, TypeOK, HasTask, taskVars,
      countVars, poolVars, callVars, otherVars
  <2>. QED
    BY <2>1, KeepsHeld
<1>27. ASSUME NEW th \in Threads, Delete(th)
      PROVE HoldAccounting'
  BY <1>27, HoldDelete
<1>28. ASSUME NEW th \in Threads, EndTask(th)
      PROVE HoldAccounting'
  <2>1. KeepsHolds
    BY <1>0, <1>28 DEF EndTask, KeepsHolds, TypeOK, HasTask, taskVars,
      countVars, poolVars, callVars, otherVars
  <2>. QED
    BY <2>1, KeepsHeld
<1>29. ASSUME Start \/ TestHeld \/ Join \/ Destroy
      PROVE HoldAccounting'
  <2>1. KeepsHolds
    BY <1>0, <1>29 DEF Start, TestHeld, Join, Destroy, KeepsHolds, TypeOK,
      HasTask, taskVars, countVars, poolVars, callVars, otherVars
  <2>. QED
    BY <2>1, KeepsHeld
<1>30. CASE UNCHANGED vars
  BY <1>30, KeepsHeld DEF KeepsHolds, vars, taskVars, countVars
<1>. QED
  BY <1>1, <1>2, <1>3, <1>4, <1>5, <1>6, <1>7, <1>8, <1>9, <1>10,
     <1>10a, <1>11, <1>12, <1>13, <1>14, <1>15, <1>16, <1>17, <1>18, <1>19, <1>20, <1>21,
     <1>22, <1>23, <1>24, <1>25, <1>26, <1>27, <1>28, <1>29, <1>30
     DEF Next, ThreadStep, ProgramStep, MainStep

(* No task holds the process at the start. *)
LEMMA HoldInit == Init => HoldAccounting
<1>. SUFFICES ASSUME Init PROVE HoldAccounting
  OBVIOUS
<1>1. Held(status) = {}
  BY DEF Init, Held
<1>. QED
  BY <1>1, HeldForm, FS_EmptySet DEF Init

(* The hold count is the number of live tasks that hold the process, for   *)
(* any number of threads and tasks.                                        *)
THEOREM HoldCorrect == Spec => []HoldAccounting
  BY HoldInit, ControlInit, TypeNext, ControlNext, OwnedInit, OwnedNext, HoldNext,
    PTL DEF Spec

(* All that the scheduler counts is right in every reachable state: the    *)
(* task count, the hold count and the active threads (scheduler.cpp, the   *)
(* atomics of class Scheduler).                                            *)
THEOREM AccountingCorrect == Spec => []Accounting
  BY TypeCorrect, CountCorrect, HoldCorrect, ActiveCorrect, PTL DEF Accounting
-----------------------------------------------------------------------------
(***************************************************************************)
(* What happens to a task in the end: the process does not leave one       *)
(* behind, a plain task runs at most once, and one cancelled in time does  *)
(* not run.                                                                *)
(***************************************************************************)

(* A thread that has a task has one that was not deleted. *)
LEMMA TaskLive ==
  ASSUME Control, Owned
  PROVE  \A x \in Threads :
           HasTask(x) => /\ myCurrentTask[x] \in Tasks
                         /\ status[myCurrentTask[x]] # "FREE"
  BY TasksAssumption DEF Control, Owned, NoDangling, Live

-----------------------------------------------------------------------------
(* Once the main thread has left joinPool no thread has a task, so that    *)
(* none can create another.                                                *)
Ending == {"join", "destroy", "exited"}

KeepsExit ==
  /\ pc'[Main] \in Ending => pc[Main] \in Ending
  /\ \A u \in Tasks : status[u] = "FREE" => status'[u] = "FREE"

(* A step that does not end the process and creates no task keeps ExitClean. *)
LEMMA KeepsExitClean ==
  ASSUME ExitClean, KeepsExit
  PROVE  ExitClean'
  BY DEF ExitClean, KeepsExit, Ending

(* Every step keeps ExitClean when every task takes a hold. *)
LEMMA ExitNext ==
  ASSUME TypeOK, Control, Owned, HoldAccounting, ExitClean, [Next]_vars,
         Coroutines = {}
  PROVE  ExitClean'
<1>0. \A x \in Threads :
        HasTask(x) => /\ myCurrentTask[x] \in Tasks
                      /\ status[myCurrentTask[x]] # "FREE"
  BY TaskLive
<1>1. ASSUME NEW th \in Threads, NEW t \in Tasks, ScheduleTask(th, t)
      PROVE ExitClean'
  <2>1. pc[Main] \notin Ending
    BY <1>0, <1>1, ThreadsAssumption DEF ScheduleTask, InProgram, ExitClean,
      Ending, Control, HasTask, Threads
  <2>2. pc'[Main] \notin Ending
    BY <1>1, <2>1 DEF ScheduleTask, CountTask, Goto, TypeOK, Ending, Threads
  <2>. QED
    BY <2>2 DEF ExitClean, Ending
<1>2. ASSUME NEW th \in Threads, NEW t \in Tasks, SetTimeout(th, t)
      PROVE ExitClean'
  <2>1. pc[Main] \notin Ending
    BY <1>0, <1>2, ThreadsAssumption DEF SetTimeout, InProgram, ExitClean,
      Ending, Control, HasTask, Threads
  <2>2. pc'[Main] \notin Ending
    BY <1>2, <2>1 DEF SetTimeout, CountTask, Goto, TypeOK, Ending, Threads
  <2>. QED
    BY <2>2 DEF ExitClean, Ending
<1>3. ASSUME NEW th \in Threads, NEW id \in DOMAIN globalTimeouts,
             ClearTimeout(th, id)
      PROVE ExitClean'
  <2>1. KeepsExit
    BY <1>0, <1>3, ThreadsAssumption DEF ClearTimeout, KeepsExit, Ending,
      Goto, TypeOK, Control, HasTask, Threads, taskVars, countVars, poolVars,
      callVars, otherVars
  <2>. QED
    BY <2>1, KeepsExitClean
<1>4. ASSUME NEW th \in Threads, Yield(th)
      PROVE ExitClean'
  <2>1. KeepsExit
    BY <1>0, <1>4, ThreadsAssumption DEF Yield, KeepsExit, Ending, Goto,
      TypeOK, Control, HasTask, Threads, taskVars, countVars, poolVars,
      callVars, otherVars
  <2>. QED
    BY <2>1, KeepsExitClean
<1>5. ASSUME NEW th \in Threads, Finish(th)
      PROVE ExitClean'
  <2>1. KeepsExit
    BY <1>0, <1>5, ThreadsAssumption DEF Finish, KeepsExit, Ending, Goto,
      TypeOK, Control, HasTask, Threads, taskVars, countVars, poolVars,
      callVars, otherVars
  <2>. QED
    BY <2>1, KeepsExitClean
<1>6. ASSUME NEW th \in Threads, Pause(th) \/ Resume(th)
      PROVE ExitClean'
  <2>1. KeepsExit
    BY <1>0, <1>6, ThreadsAssumption DEF Pause, Resume, KeepsExit, Ending,
      Goto, TypeOK, Control, HasTask, Threads, taskVars, countVars, poolVars,
      callVars, otherVars
  <2>. QED
    BY <2>1, KeepsExitClean
<1>7. ASSUME NEW t \in Tasks, Expire(t)
      PROVE ExitClean'
  <2>1. KeepsExit
    BY <1>0, <1>7, ThreadsAssumption DEF Expire, KeepsExit, Ending, Goto,
      TypeOK, Control, HasTask, Threads, taskVars, countVars, poolVars,
      callVars, otherVars
  <2>. QED
    BY <2>1, KeepsExitClean
<1>8. ASSUME NEW th \in Threads, Push(th)
      PROVE ExitClean'
  <2>1. KeepsExit
    BY <1>0, <1>8, ThreadsAssumption DEF Push, KeepsExit, Ending, Goto,
      TypeOK, Control, HasTask, Threads, taskVars, countVars, poolVars,
      callVars, otherVars
  <2>. QED
    BY <2>1, KeepsExitClean
<1>9. ASSUME NEW th \in Threads, Balance(th)
      PROVE ExitClean'
  <2>1. KeepsExit
    BY <1>0, <1>9, ThreadsAssumption DEF Balance, KeepsExit, Ending, Goto,
      TypeOK, Control, HasTask, Threads, taskVars, countVars, poolVars,
      callVars, otherVars
  <2>. QED
    BY <2>1, KeepsExitClean
<1>10. ASSUME NEW th \in Threads, NEW p \in Pool, StartThread(th, p)
      PROVE ExitClean'
  <2>1. KeepsExit
    BY <1>0, <1>10, ThreadsAssumption DEF StartThread, KeepsExit, Ending, Goto,
      TypeOK, Control, HasTask, Threads, taskVars, countVars, poolVars,
      callVars, otherVars
  <2>. QED
    BY <2>1, KeepsExitClean
<1>10a. ASSUME NEW th \in Threads, RegisterThread(th)
      PROVE ExitClean'
  <2>1. KeepsExit
    BY <1>0, <1>10a, ThreadsAssumption DEF RegisterThread, KeepsExit, Ending, Goto,
      TypeOK, Control, HasTask, Threads, taskVars, countVars, poolVars,
      callVars, otherVars
  <2>. QED
    BY <2>1, KeepsExitClean
<1>11. ASSUME NEW th \in Threads, EnterDispatcher(th)
      PROVE ExitClean'
  <2>1. KeepsExit
    BY <1>0, <1>11, ThreadsAssumption DEF EnterDispatcher, KeepsExit, Ending,
      Goto, TypeOK, Control, HasTask, Threads, taskVars, countVars, poolVars,
      callVars, otherVars
  <2>. QED
    BY <2>1, KeepsExitClean
<1>12. ASSUME NEW th \in Threads, NEW t \in Tasks, PollTimer(th, t)
      PROVE ExitClean'
  <2>1. KeepsExit
    BY <1>0, <1>12, ThreadsAssumption DEF PollTimer, CountTask, KeepsExit,
      Ending, Goto, TypeOK, Control, HasTask, Threads, taskVars, countVars,
      poolVars, callVars, otherVars
  <2>. QED
    BY <2>1, KeepsExitClean
<1>13. ASSUME NEW th \in Threads, PollNothing(th)
      PROVE ExitClean'
  <2>1. KeepsExit
    BY <1>0, <1>13, ThreadsAssumption DEF PollNothing, KeepsExit, Ending,
      Goto, TypeOK, Control, HasTask, Threads, taskVars, countVars, poolVars,
      callVars, otherVars
  <2>. QED
    BY <2>1, KeepsExitClean
<1>14. ASSUME NEW th \in Threads, TestQueued(th)
      PROVE ExitClean'
  <2>1. KeepsExit
    BY <1>0, <1>14, ThreadsAssumption DEF TestQueued, KeepsExit, Ending, Goto,
      TypeOK, Control, HasTask, Threads, taskVars, countVars, poolVars,
      callVars, otherVars
  <2>. QED
    BY <2>1, KeepsExitClean
<1>15. ASSUME NEW th \in Threads, TestStopped(th)
      PROVE ExitClean'
  <2>1. KeepsExit
    BY <1>0, <1>15, ThreadsAssumption DEF TestStopped, KeepsExit, Ending,
      Goto, TypeOK, Control, HasTask, Threads, taskVars, countVars, poolVars,
      callVars, otherVars
  <2>. QED
    BY <2>1, KeepsExitClean
<1>16. ASSUME NEW th \in Threads, Pop(th)
      PROVE ExitClean'
  <2>1. KeepsExit
    BY <1>0, <1>16, ThreadsAssumption DEF Pop, KeepsExit, Ending, Goto,
      TypeOK, Control, HasTask, Threads, taskVars, countVars, poolVars,
      callVars, otherVars
  <2>. QED
    BY <2>1, KeepsExitClean
<1>17. ASSUME NEW th \in Threads, EndDrain(th)
      PROVE ExitClean'
  <2>1. KeepsExit
    BY <1>0, <1>17, ThreadsAssumption DEF EndDrain, KeepsExit, Ending, Goto,
      TypeOK, Control, HasTask, Threads, taskVars, countVars, poolVars,
      callVars, otherVars
  <2>. QED
    BY <2>1, KeepsExitClean
<1>18. ASSUME NEW th \in Threads, Uncount(th)
      PROVE ExitClean'
  <2>1. KeepsExit
    BY <1>0, <1>18, ThreadsAssumption DEF Uncount, KeepsExit, Ending, Goto,
      TypeOK, Control, HasTask, Threads, taskVars, countVars, poolVars,
      callVars, otherVars
  <2>. QED
    BY <2>1, KeepsExitClean
<1>19. ASSUME NEW th \in Threads, DropAborted(th)
      PROVE ExitClean'
  <2>1. KeepsExit
    BY <1>0, <1>19, ThreadsAssumption DEF DropAborted, KeepsExit, Ending,
      Goto, TypeOK, Control, HasTask, Threads, taskVars, countVars, poolVars,
      callVars, otherVars
  <2>. QED
    BY <2>1, KeepsExitClean
<1>20. ASSUME NEW th \in Threads, PassCheck(th)
      PROVE ExitClean'
  <2>1. KeepsExit
    BY <1>0, <1>20, ThreadsAssumption DEF PassCheck, KeepsExit, Ending, Goto,
      TypeOK, Control, HasTask, Threads, taskVars, countVars, poolVars,
      callVars, otherVars
  <2>. QED
    BY <2>1, KeepsExitClean
<1>21. ASSUME NEW th \in Threads, CheckInactive(th)
      PROVE ExitClean'
  <2>1. KeepsExit
    BY <1>0, <1>21, ThreadsAssumption DEF CheckInactive, KeepsExit, Ending,
      Goto, TypeOK, Control, HasTask, Threads, taskVars, countVars, poolVars,
      callVars, otherVars
  <2>. QED
    BY <2>1, KeepsExitClean
<1>22. ASSUME NEW th \in Threads, Create(th)
      PROVE ExitClean'
  <2>1. KeepsExit
    BY <1>0, <1>22, ThreadsAssumption DEF Create, KeepsExit, Ending, Goto,
      TypeOK, Control, HasTask, Threads, taskVars, countVars, poolVars,
      callVars, otherVars
  <2>. QED
    BY <2>1, KeepsExitClean
<1>23. ASSUME NEW th \in Threads, Enter(th)
      PROVE ExitClean'
  <2>1. KeepsExit
    BY <1>0, <1>23, ThreadsAssumption DEF Enter, KeepsExit, Ending, Goto,
      TypeOK, Control, HasTask, Threads, taskVars, countVars, poolVars,
      callVars, otherVars
  <2>. QED
    BY <2>1, KeepsExitClean
<1>24. ASSUME NEW th \in Threads, Activate(th)
      PROVE ExitClean'
  <2>1. KeepsExit
    BY <1>0, <1>24, ThreadsAssumption DEF Activate, KeepsExit, Ending, Goto,
      TypeOK, Control, HasTask, Threads, taskVars, countVars, poolVars,
      callVars, otherVars
  <2>. QED
    BY <2>1, KeepsExitClean
<1>25. ASSUME NEW th \in Threads, Requeue(th)
      PROVE ExitClean'
  <2>1. KeepsExit
    BY <1>0, <1>25, ThreadsAssumption DEF Requeue, KeepsExit, Ending, Goto,
      TypeOK, Control, HasTask, Threads, taskVars, countVars, poolVars,
      callVars, otherVars
  <2>. QED
    BY <2>1, KeepsExitClean
<1>26. ASSUME NEW th \in Threads, Recount(th)
      PROVE ExitClean'
  <2>1. KeepsExit
    BY <1>0, <1>26, ThreadsAssumption DEF Recount, KeepsExit, Ending, Goto,
      TypeOK, Control, HasTask, Threads, taskVars, countVars, poolVars,
      callVars, otherVars
  <2>. QED
    BY <2>1, KeepsExitClean
<1>27. ASSUME NEW th \in Threads, Delete(th)
      PROVE ExitClean'
  <2>1. KeepsExit
    BY <1>0, <1>27, ThreadsAssumption DEF Delete, KeepsExit, Ending, Goto,
      TypeOK, Control, HasTask, Threads, taskVars, countVars, poolVars,
      callVars, otherVars
  <2>. QED
    BY <2>1, KeepsExitClean
<1>28. ASSUME NEW th \in Threads, EndTask(th)
      PROVE ExitClean'
  <2>1. KeepsExit
    BY <1>0, <1>28, ThreadsAssumption DEF EndTask, KeepsExit, Ending, Goto,
      TypeOK, Control, HasTask, Threads, taskVars, countVars, poolVars,
      callVars, otherVars
  <2>. QED
    BY <2>1, KeepsExitClean
<1>29. ASSUME Start \/ TestHeld \/ Join \/ Destroy
      PROVE ExitClean'
  <2>1. CASE TestHeld /\ myHoldCount = 0
    <3>1. Held(status) = {}
      BY <2>1, HeldForm, HeldFinite, FS_EmptySet
    <3>2. \A u \in Tasks : status[u] = "FREE"
      BY <3>1 DEF Held, Holds
    <3>. QED
      BY <2>1, <3>2 DEF TestHeld, otherVars, taskVars, ExitClean
  <2>2. CASE ~(TestHeld /\ myHoldCount = 0)
    <3>1. KeepsExit
      BY <1>29, <2>2 DEF Start, TestHeld, Join, Destroy, KeepsExit, Ending,
        TypeOK, Goto, Threads, otherVars, taskVars
    <3>. QED
      BY <3>1, KeepsExitClean
  <2>. QED
    BY <2>1, <2>2
<1>30. CASE UNCHANGED vars
  BY <1>30, KeepsExitClean DEF KeepsExit, vars, taskVars
<1>. QED
  BY <1>1, <1>2, <1>3, <1>4, <1>5, <1>6, <1>7, <1>8, <1>9, <1>10,
     <1>10a, <1>11, <1>12, <1>13, <1>14, <1>15, <1>16, <1>17, <1>18, <1>19, <1>20, <1>21,
     <1>22, <1>23, <1>24, <1>25, <1>26, <1>27, <1>28, <1>29, <1>30
     DEF Next, ThreadStep, ProgramStep, MainStep

(* joinPool returns only when no task exists, for any number of threads    *)
(* and tasks, as long as every task is of the holding kind.                *)
THEOREM ExitCorrect ==
  ASSUME Coroutines = {}
  PROVE  Spec => []ExitClean
<1>1. Init => ExitClean
  BY ThreadsAssumption DEF Init, ExitClean, Threads
<1>2. Init => HoldAccounting
  BY HoldInit
<1>3. TypeOK /\ Control /\ Owned /\ HoldAccounting /\ ExitClean /\ [Next]_vars
  => ExitClean'
  BY ExitNext
<1>. QED
  BY <1>1, <1>2, <1>3, ControlInit, TypeNext, ControlNext, OwnedInit,
    OwnedNext, HoldNext, PTL DEF Spec

-----------------------------------------------------------------------------
(* The scheduler is destroyed only when every thread has left, although    *)
(* join_all knows only the threads of the group.                           *)

(* age orders the threads by who started whom. *)
StartedBefore(age) ==
  \A th \in Threads : \A p \in starting[th] : age[th] < age[p]

(* A thread that is not in the group has a starter, which is about to add  *)
(* it, and no thread is its own starter, over any number of others.        *)
Started ==
  /\ \A th \in Threads : pc[th] # "register" => starting[th] = {}
  /\ \A th \in Threads : \A p \in starting[th] : p \in Pool /\ pc[p] # "none"
  /\ \A p \in Pool : \/ pc[p] = "none" \/ p \in myThreadGroup
                     \/ \E th \in Threads : p \in starting[th]
  /\ \E age \in [Threads -> Nat] : StartedBefore(age)

(* The initial states have started no thread. *)
LEMMA StartedInit == Init => Started /\ NoneOutlives
<1>. SUFFICES ASSUME Init PROVE Started /\ NoneOutlives
  OBVIOUS
<1>1. [x \in Threads |-> 0] \in [Threads -> Nat]
  OBVIOUS
<1>2. StartedBefore([x \in Threads |-> 0])
  BY DEF Init, StartedBefore
<1>3. \E age \in [Threads -> Nat] : StartedBefore(age)
  BY <1>1, <1>2
<1>4. NoneOutlives
  BY ThreadsAssumption DEF Init, NoneOutlives, Threads
<1>. QED
  BY <1>3, <1>4, ThreadsAssumption DEF Init, Started, Threads

(* A step that starts and registers nothing, and moves one thread. *)
SameStarts ==
  /\ starting' = starting /\ myThreadGroup' = myThreadGroup
  /\ \A x \in Threads : /\ pc'[x] = "register" <=> pc[x] = "register"
                        /\ pc'[x] = "none" <=> pc[x] = "none"

(* Such a step keeps who started whom. *)
LEMMA SameStarted ==
  ASSUME Started, SameStarts
  PROVE  Started'
<1>1. PICK age \in [Threads -> Nat] : StartedBefore(age)
  BY DEF Started
<1>2. StartedBefore(age)'
  BY <1>1 DEF StartedBefore, SameStarts
<1>3. \E a \in [Threads -> Nat] : StartedBefore(a)'
  BY <1>2
<1>4. /\ \A x \in Threads : pc'[x] # "register" => starting'[x] = {}
      /\ \A x \in Threads : \A p \in starting'[x] : p \in Pool /\ pc'[p] # "none"
      /\ \A p \in Pool : \/ pc'[p] = "none" \/ p \in myThreadGroup'
                         \/ \E x \in Threads : p \in starting'[x]
  BY DEF Started, SameStarts, Threads
<1>. QED
  BY <1>3, <1>4 DEF Started

(* A thread that has left, or that nobody started, stays where it is, and  *)
(* the main thread does not get past join_all.                             *)
StaysOut ==
  /\ pc'[Main] \in {"destroy", "exited"} => pc[Main] \in {"destroy", "exited"}
  /\ \A p \in Pool : pc[p] \in {"none", "left"} => pc'[p] = pc[p]

(* Such a step keeps NoneOutlives. *)
LEMMA OutlivesStays ==
  ASSUME NoneOutlives, StaysOut
  PROVE  NoneOutlives'
  BY DEF NoneOutlives, StaysOut

(* What StartThread does to the order of starts. *)
LEMMA StartOrders ==
  ASSUME TypeOK, Started, NEW th \in Threads, NEW p \in Pool,
         StartThread(th, p)
  PROVE  Started'
<1>0. /\ pc[th] = "add" /\ pc[p] = "none" /\ th # p /\ p \in Threads
      /\ pc' = [pc EXCEPT ![th] = "register", ![p] = "init"]
      /\ starting' = [starting EXCEPT ![th] = {p}]
      /\ myThreadGroup' = myThreadGroup
  BY DEF StartThread, Threads
<1>1. /\ pc'[th] = "register" /\ pc'[p] = "init"
      /\ \A x \in Threads : x # th /\ x # p => pc'[x] = pc[x]
      /\ starting'[th] = {p}
      /\ \A x \in Threads : x # th => starting'[x] = starting[x]
      /\ \A x \in Threads : p \notin starting[x]
  BY <1>0 DEF TypeOK, Started
<1>1a. starting[p] = {}
  BY <1>0 DEF Started
<1>2. PICK age \in [Threads -> Nat] : StartedBefore(age)
  BY DEF Started
<1>3. PICK later \in [Threads -> Nat] :
        later = [age EXCEPT ![p] = age[th] + 1]
  <2>1. [age EXCEPT ![p] = age[th] + 1] \in [Threads -> Nat]
    BY <1>0, <1>2
  <2>. QED
    BY <2>1
<1>4. StartedBefore(later)'
  <2>. SUFFICES ASSUME NEW x \in Threads, NEW q \in starting'[x]
                PROVE  later[x] < later[q]
    BY DEF StartedBefore
  <2>1. CASE x = th
    <3>1. q = p /\ later[q] = age[th] + 1 /\ later[x] = age[th]
      BY <1>0, <1>1, <1>2, <1>3, <2>1
    <3>. QED
      BY <1>2, <3>1
  <2>2. CASE x # th
    <3>1. q \in starting[x] /\ q # p /\ x # p /\ q \in Threads
      BY <1>1, <1>1a, <2>2 DEF TypeOK, Threads
    <3>2. later[x] = age[x] /\ later[q] = age[q]
      BY <1>2, <1>3, <3>1
    <3>. QED
      BY <1>2, <3>1, <3>2 DEF StartedBefore
  <2>. QED
    BY <2>1, <2>2
<1>5. \E a \in [Threads -> Nat] : StartedBefore(a)'
  BY <1>4
<1>6. ASSUME NEW x \in Threads
      PROVE  /\ pc'[x] # "register" => starting'[x] = {}
             /\ \A q \in starting'[x] : q \in Pool /\ pc'[q] # "none"
  BY <1>0, <1>1 DEF Started, TypeOK, Threads
<1>7. ASSUME NEW q \in Pool
      PROVE  \/ pc'[q] = "none" \/ q \in myThreadGroup'
             \/ \E x \in Threads : q \in starting'[x]
  <2>1. CASE q = p
    BY <1>1, <2>1
  <2>2. CASE q # p /\ \E x \in Threads : q \in starting[x]
    <3>1. PICK x \in Threads : q \in starting[x]
      BY <2>2
    <3>2. x # th
      BY <1>0, <3>1 DEF Started
    <3>. QED
      BY <1>1, <3>1, <3>2
  <2>3. CASE q # p /\ (pc[q] = "none" \/ q \in myThreadGroup)
    BY <1>0, <1>1, <2>3 DEF Threads
  <2>. QED
    BY <2>1, <2>2, <2>3 DEF Started
<1>. QED
  BY <1>5, <1>6, <1>7 DEF Started

(* RegisterThread puts into the group what its thread had started. *)
LEMMA RegisterOrders ==
  ASSUME TypeOK, Started, NEW th \in Threads, RegisterThread(th)
  PROVE  Started'
<1>1. /\ starting'[th] = {} /\ myThreadGroup' = myThreadGroup \cup starting[th]
      /\ \A x \in Threads : x # th => starting'[x] = starting[x]
      /\ pc[th] = "register" /\ pc'[th] = "balance"
      /\ \A x \in Threads : x # th => pc'[x] = pc[x]
  BY DEF RegisterThread, Goto, TypeOK
<1>2. PICK age \in [Threads -> Nat] : StartedBefore(age)
  BY DEF Started
<1>3. StartedBefore(age)'
  BY <1>1, <1>2 DEF StartedBefore
<1>4. \E a \in [Threads -> Nat] : StartedBefore(a)'
  BY <1>3
<1>5. ASSUME NEW x \in Threads
      PROVE  /\ pc'[x] # "register" => starting'[x] = {}
             /\ \A q \in starting'[x] : q \in Pool /\ pc'[q] # "none"
  BY <1>1 DEF Started, Threads
<1>6. ASSUME NEW q \in Pool
      PROVE  \/ pc'[q] = "none" \/ q \in myThreadGroup'
             \/ \E x \in Threads : q \in starting'[x]
  <2>1. CASE \E x \in Threads : q \in starting[x]
    BY <1>1, <2>1
  <2>2. CASE pc[q] = "none" \/ q \in myThreadGroup
    BY <1>1, <2>2 DEF Threads
  <2>. QED
    BY <2>1, <2>2 DEF Started
<1>. QED
  BY <1>4, <1>5, <1>6 DEF Started

(* When every thread of the group has left, nobody can be adding another:  *)
(* of the threads outside the group the first that was started has a       *)
(* starter outside it too, which was started before.                       *)
LEMMA JoinJoinsAll ==
  ASSUME Started, Join
  PROVE  \A p \in Pool : pc[p] \in {"none", "left"}
<1>. DEFINE Loose == {p \in Pool : pc[p] \notin {"none", "left"}}
<1>1. SUFFICES ASSUME Loose # {} PROVE FALSE
  OBVIOUS
<1>2. PICK age \in [Threads -> Nat] : StartedBefore(age)
  BY DEF Started
<1>3. ASSUME NEW p \in Loose
      PROVE  \E q \in Loose : age[q] < age[p]
  <2>1. p \notin myThreadGroup /\ pc[p] # "none" /\ p \in Pool
    BY DEF Join
  <2>2. PICK q \in Threads : p \in starting[q]
    BY <2>1 DEF Started
  <2>3. pc[q] = "register" /\ q # Main
    BY <2>2 DEF Started, Join
  <2>4. q \in Loose
    BY <2>3 DEF Threads
  <2>. QED
    BY <1>2, <2>2, <2>4 DEF StartedBefore
<1>4. PICK Ages : Ages = {age[p] : p \in Loose}
  OBVIOUS
<1>5. Ages \subseteq Nat /\ Ages # {}
  BY <1>1, <1>2, <1>4 DEF Threads
<1>6. PICK R : R = {ss \in Nat \X Nat : ss[1] < ss[2]}
  OBVIOUS
<1>7. IsWellFoundedOn(R, Nat)
  BY <1>6, NatLessThanWellFounded DEF OpToRel
<1>8. PICK a \in Ages : \A b \in Ages : ~ (<<b, a>> \in R)
  BY <1>5, <1>7, WFMin
<1>9. \A b \in Ages : ~ (b < a)
  BY <1>5, <1>6, <1>8
<1>10. PICK p \in Loose : age[p] = a
  BY <1>4, <1>8
<1>11. PICK q \in Loose : age[q] < age[p]
  BY <1>3
<1>12. age[q] \in Ages
  BY <1>4
<1>. QED
  BY <1>9, <1>10, <1>11, <1>12

(* The steps that neither start, register nor join. *)
LEMMA OtherSteps ==
  ASSUME TypeOK, Control, [Next]_vars,
         ~ \E th \in Threads : \/ \E p \in Pool : StartThread(th, p)
                               \/ RegisterThread(th),
         ~ Join
  PROVE  SameStarts /\ StaysOut
<1>. USE ThreadsAssumption
     DEF SameStarts, StaysOut, TypeOK, Threads, Goto, poolVars, otherVars
<1>1. ASSUME NEW th \in Threads,
             \/ Push(th) \/ Balance(th) \/ EnterDispatcher(th)
             \/ PollNothing(th) \/ TestQueued(th) \/ TestStopped(th)
      PROVE  SameStarts /\ StaysOut
  BY <1>1 DEF Push, Balance, EnterDispatcher, PollNothing, TestQueued,
    TestStopped
<1>2. ASSUME NEW th \in Threads,
             \/ Pop(th) \/ EndDrain(th) \/ Uncount(th) \/ DropAborted(th)
             \/ PassCheck(th) \/ CheckInactive(th) \/ Create(th)
      PROVE  SameStarts /\ StaysOut
  BY <1>2 DEF Pop, EndDrain, Uncount, DropAborted, PassCheck, CheckInactive,
    Create
<1>3. ASSUME NEW th \in Threads,
             \/ Enter(th) \/ Activate(th) \/ Requeue(th) \/ Recount(th)
             \/ Delete(th) \/ EndTask(th)
      PROVE  SameStarts /\ StaysOut
  BY <1>3 DEF Enter, Activate, Requeue, Recount, Delete, EndTask
<1>4. ASSUME NEW th \in Threads, NEW t \in Tasks, PollTimer(th, t)
      PROVE  SameStarts /\ StaysOut
  BY <1>4 DEF PollTimer, CountTask
<1>5. ASSUME NEW th \in Threads, NEW t \in Tasks,
             ScheduleTask(th, t) \/ SetTimeout(th, t)
      PROVE  SameStarts /\ StaysOut
  BY <1>5 DEF ScheduleTask, SetTimeout, CountTask, InProgram
<1>6. ASSUME NEW th \in Threads,
             \/ \E id \in DOMAIN globalTimeouts : ClearTimeout(th, id)
             \/ Yield(th) \/ Finish(th) \/ Pause(th) \/ Resume(th)
      PROVE  SameStarts /\ StaysOut
  BY <1>6 DEF ClearTimeout, Yield, Finish, Pause, Resume
<1>7. CASE Start \/ TestHeld \/ Destroy
  BY <1>7 DEF Start, TestHeld, Destroy
<1>8. CASE \E t \in Tasks : Expire(t)
  BY <1>8 DEF Expire
<1>9. CASE UNCHANGED vars
  BY <1>9 DEF vars
<1>. QED
  BY <1>1, <1>2, <1>3, <1>4, <1>5, <1>6, <1>7, <1>8, <1>9
  DEF Next, ThreadStep, ProgramStep, MainStep

(* Every step keeps both. *)
LEMMA OutlivesNext ==
  ASSUME TypeOK, Control, Started, NoneOutlives, [Next]_vars
  PROVE  Started' /\ NoneOutlives'
<1>1. CASE \E th \in Threads : \E p \in Pool : StartThread(th, p)
  <2>1. PICK th \in Threads, p \in Pool : StartThread(th, p)
    BY <1>1
  <2>2. Started'
    BY <2>1, StartOrders
  <2>3. /\ pc[th] = "add" /\ pc[p] = "none"
        /\ pc' = [pc EXCEPT ![th] = "register", ![p] = "init"]
    BY <2>1 DEF StartThread
  <2>4. pc'[Main] \in {"destroy", "exited"} =>
          /\ pc[Main] \in {"destroy", "exited"} /\ th \in Pool
    BY <2>3, ThreadsAssumption DEF TypeOK, Threads
  <2>. QED
    BY <2>2, <2>3, <2>4 DEF NoneOutlives
<1>2. CASE \E th \in Threads : RegisterThread(th)
  <2>1. PICK th \in Threads : RegisterThread(th)
    BY <1>2
  <2>2. StaysOut
    BY <2>1 DEF RegisterThread, StaysOut, Goto, TypeOK, Threads
  <2>. QED
    BY <2>1, <2>2, RegisterOrders, OutlivesStays
<1>3. CASE Join
  <2>1. \A p \in Pool : pc[p] \in {"none", "left"} /\ pc'[p] = pc[p]
    BY <1>3, JoinJoinsAll, ThreadsAssumption DEF Join, Goto, TypeOK, Threads
  <2>2. SameStarts
    BY <1>3 DEF Join, SameStarts, Goto, TypeOK, Threads, otherVars, poolVars
  <2>. QED
    BY <2>1, <2>2, SameStarted DEF NoneOutlives
<1>4. CASE /\ ~ \E th \in Threads : \/ \E p \in Pool : StartThread(th, p)
                                    \/ RegisterThread(th)
           /\ ~ Join
  BY <1>4, OtherSteps, SameStarted, OutlivesStays
<1>. QED
  BY <1>1, <1>2, <1>3, <1>4

(* join_all and ~Scheduler leave no thread behind, in the group or not     *)
(* (scheduler.cpp:51-54 and 138-141), for any number of threads.           *)
THEOREM OutlivesCorrect == Spec => []NoneOutlives
<1>1. TypeOK /\ Control /\ Started /\ NoneOutlives /\ [Next]_vars
        => Started' /\ NoneOutlives'
  BY OutlivesNext
<1>. QED
  BY <1>1, StartedInit, ControlInit, TypeNext, ControlNext, PTL DEF Spec

-----------------------------------------------------------------------------
(* A thread that has called the handler of its task. *)
Ran(th) ==
  \/ pc[th] \in {"body", "release"}
  \/ pc[th] \in {"push", "balance", "add", "register"} /\ back[th] = "body"

(* A plain task whose handler was called exists only until the thread that *)
(* called it deletes it, and it is never PENDING, so it is not requeued.   *)
RanOnce(t) ==
  /\ status[t] # "PENDING"
  /\ entered[t] \in {0, 1}
  /\ entered[t] = 1 /\ status[t] # "FREE" =>
       \E x \in Threads : myCurrentTask[x] = t /\ Ran(x)

(* A task aborted before a thread took it stays ABORTED, and the thread    *)
(* that takes it goes no further than the check for that.                  *)
Cancelled(t) ==
  aborted[t] = "early" =>
    /\ entered[t] = 0
    /\ status[t] = "ABORTED"
    /\ \A x \in Threads : myCurrentTask[x] = t => pc[x] \in {"decr", "check"}

Runs ==
  /\ \A t \in Tasks \ Coroutines : RanOnce(t) /\ Cancelled(t)
  /\ \A t \in Coroutines : aborted[t] = "no"
  /\ \A id \in DOMAIN globalTimeouts : globalTimeouts[id] \notin Coroutines

(* Threads move, without leaving the handler or passing the check. *)
KeepsRuns ==
  /\ UNCHANGED <<status, entered, aborted, globalTimeouts, myCurrentTask>>
  /\ \A x \in Threads :
       /\ Ran(x) => Ran(x)'
       /\ HasTask(x) /\ pc[x] \in {"decr", "check"} => pc'[x] \in {"decr",
         "check"}

(* A step that calls no handler and aborts no task keeps what is known of runs. *)
LEMMA KeepsRunsInv ==
  ASSUME Runs, Control, KeepsRuns
  PROVE  Runs'
<1>1. ASSUME NEW t \in Tasks \ Coroutines PROVE RanOnce(t)'
  BY DEF Runs, KeepsRuns, RanOnce
<1>2. ASSUME NEW t \in Tasks \ Coroutines PROVE Cancelled(t)'
  BY TasksAssumption DEF Runs, KeepsRuns, Cancelled, Control
<1>. QED
  BY <1>1, <1>2 DEF Runs, KeepsRuns

(* Every step keeps what is known of runs. *)
LEMMA RunsNext ==
  TypeOK /\ Control /\ Owned /\ Runs /\ [Next]_vars => Runs'
<1>. SUFFICES ASSUME TypeOK, Control, Owned, Runs, [Next]_vars
              PROVE  Runs'
  OBVIOUS
<1>0. /\ \A x \in Threads :
           HasTask(x) => /\ myCurrentTask[x] \in Tasks
                         /\ status[myCurrentTask[x]] # "FREE"
      /\ \A x, y \in Threads :
           HasTask(x) /\ myCurrentTask[x] = myCurrentTask[y] => x = y
      /\ \A x \in Threads : ~HasTask(x) => myCurrentTask[x] = NoTask
  BY TaskLive, TasksAssumption DEF Owned, Exclusive, ThreadExclusive, Control
<1>1. ASSUME NEW th \in Threads, NEW t \in Tasks, ScheduleTask(th, t)
      PROVE Runs'
  <2>1. ASSUME NEW s \in Tasks \ Coroutines PROVE RanOnce(s)'
    <3>1. /\ status' = [status EXCEPT ![t] = "INACTIVE"]
          /\ entered' = [entered EXCEPT ![t] = 0]
          /\ myCurrentTask' = myCurrentTask
      BY <1>1 DEF ScheduleTask, NewTask
    <3>2. \A x \in Threads : Ran(x) => Ran(x)'
      BY <1>1 DEF ScheduleTask, CountTask, InProgram, Ran, Goto, TypeOK
    <3>3. CASE s = t
      BY <3>1, <3>3 DEF RanOnce, TypeOK
    <3>4. CASE s # t
      <4>1. RanOnce(s) /\ status'[s] = status[s] /\ entered'[s] = entered[s]
        BY <3>1, <3>4 DEF Runs, TypeOK
      <4>. QED
        BY <3>1, <3>2, <4>1 DEF RanOnce
    <3>. QED
      BY <3>3, <3>4
  <2>2. ASSUME NEW s \in Tasks \ Coroutines PROVE Cancelled(s)'
    BY <1>0, <1>1, TasksAssumption DEF ScheduleTask, NewTask, CountTask,
      InProgram, InProgram, Runs, Cancelled, RanOnce, Ran, HasTask, Goto,
      TypeOK, Control, taskVars, countVars, poolVars, callVars, otherVars
  <2>3. /\ \A s \in Coroutines : aborted'[s] = "no"
        /\ \A i \in DOMAIN globalTimeouts' : 
             globalTimeouts'[i] \notin Coroutines
    BY <1>1, TasksAssumption DEF ScheduleTask, NewTask, CountTask, InProgram,
      Runs, TypeOK, taskVars, countVars, poolVars, callVars, otherVars
  <2>. QED
    BY <2>1, <2>2, <2>3 DEF Runs
<1>2. ASSUME NEW th \in Threads, NEW t \in Tasks, SetTimeout(th, t)
      PROVE Runs'
  <2>1. ASSUME NEW s \in Tasks \ Coroutines PROVE RanOnce(s)'
    BY <1>0, <1>2, TasksAssumption DEF SetTimeout, NewTask, InProgram,
      InProgram, Runs, RanOnce, Ran, HasTask, Goto, TypeOK, Control, taskVars,
      countVars, poolVars, callVars, otherVars
  <2>2. ASSUME NEW s \in Tasks \ Coroutines PROVE Cancelled(s)'
    BY <1>0, <1>2, TasksAssumption DEF SetTimeout, NewTask, InProgram,
      InProgram, Runs, Cancelled, RanOnce, Ran, HasTask, Goto, TypeOK,
      Control, taskVars, countVars, poolVars, callVars, otherVars
  <2>3. /\ \A s \in Coroutines : aborted'[s] = "no"
        /\ \A i \in DOMAIN globalTimeouts' : 
             globalTimeouts'[i] \notin Coroutines
    BY <1>2, TasksAssumption DEF SetTimeout, NewTask, InProgram, Runs, TypeOK,
      taskVars, countVars, poolVars, callVars, otherVars
  <2>. QED
    BY <2>1, <2>2, <2>3 DEF Runs
<1>3. ASSUME NEW th \in Threads, NEW id \in DOMAIN globalTimeouts,
             ClearTimeout(th, id)
      PROVE Runs'
  <2>1. ASSUME NEW s \in Tasks \ Coroutines PROVE RanOnce(s)'
    BY <1>0, <1>3, TasksAssumption DEF ClearTimeout, InProgram, Runs, RanOnce,
      Ran, HasTask, Goto, TypeOK, Control, taskVars, countVars, poolVars,
      callVars, otherVars
  <2>2. ASSUME NEW s \in Tasks \ Coroutines PROVE Cancelled(s)'
    BY <1>0, <1>3, TasksAssumption DEF ClearTimeout, InProgram, Runs,
      Cancelled, RanOnce, Ran, HasTask, Goto, TypeOK, Control, taskVars,
      countVars, poolVars, callVars, otherVars
  <2>3. /\ \A s \in Coroutines : aborted'[s] = "no"
        /\ \A i \in DOMAIN globalTimeouts' : 
             globalTimeouts'[i] \notin Coroutines
    BY <1>3, TasksAssumption DEF ClearTimeout, Runs, TypeOK, taskVars,
      countVars, poolVars, callVars, otherVars
  <2>. QED
    BY <2>1, <2>2, <2>3 DEF Runs
<1>4. ASSUME NEW th \in Threads, Yield(th)
      PROVE Runs'
  <2>1. ASSUME NEW s \in Tasks \ Coroutines PROVE RanOnce(s)'
    BY <1>0, <1>4, TasksAssumption DEF Yield, InProgram, Runs, RanOnce, Ran,
      HasTask, Goto, TypeOK, Control, taskVars, countVars, poolVars, callVars,
      otherVars
  <2>2. ASSUME NEW s \in Tasks \ Coroutines PROVE Cancelled(s)'
    BY <1>0, <1>4, TasksAssumption DEF Yield, InProgram, Runs, Cancelled,
      RanOnce, Ran, HasTask, Goto, TypeOK, Control, taskVars, countVars,
      poolVars, callVars, otherVars
  <2>3. /\ \A s \in Coroutines : aborted'[s] = "no"
        /\ \A i \in DOMAIN globalTimeouts' : 
             globalTimeouts'[i] \notin Coroutines
    BY <1>4, TasksAssumption DEF Yield, Runs, TypeOK, taskVars, countVars,
      poolVars, callVars, otherVars
  <2>. QED
    BY <2>1, <2>2, <2>3 DEF Runs
<1>5. ASSUME NEW th \in Threads, Finish(th)
      PROVE Runs'
  <2>1. ASSUME NEW s \in Tasks \ Coroutines PROVE RanOnce(s)'
    BY <1>0, <1>5, TasksAssumption DEF Finish, InProgram, Runs, RanOnce, Ran,
      HasTask, Goto, TypeOK, Control, taskVars, countVars, poolVars, callVars,
      otherVars
  <2>2. ASSUME NEW s \in Tasks \ Coroutines PROVE Cancelled(s)'
    BY <1>0, <1>5, TasksAssumption DEF Finish, InProgram, Runs, Cancelled,
      RanOnce, Ran, HasTask, Goto, TypeOK, Control, taskVars, countVars,
      poolVars, callVars, otherVars
  <2>3. /\ \A s \in Coroutines : aborted'[s] = "no"
        /\ \A i \in DOMAIN globalTimeouts' : 
             globalTimeouts'[i] \notin Coroutines
    BY <1>5, TasksAssumption DEF Finish, Runs, TypeOK, taskVars, countVars,
      poolVars, callVars, otherVars
  <2>. QED
    BY <2>1, <2>2, <2>3 DEF Runs
<1>6. ASSUME NEW th \in Threads, Pause(th) \/ Resume(th)
      PROVE Runs'
  <2>1. KeepsRuns
    BY <1>6, ThreadsAssumption DEF Pause, Resume, KeepsRuns, Ran, HasTask,
      Goto, TypeOK, Control, Threads, taskVars, countVars, poolVars, callVars,
      otherVars
  <2>. QED
    BY <2>1, KeepsRunsInv
<1>7. ASSUME NEW t \in Tasks, Expire(t)
      PROVE Runs'
  <2>1. KeepsRuns
    BY <1>7, ThreadsAssumption DEF Expire, KeepsRuns, Ran, HasTask, Goto,
      TypeOK, Control, Threads, taskVars, countVars, poolVars, callVars,
      otherVars
  <2>. QED
    BY <2>1, KeepsRunsInv
<1>8. ASSUME NEW th \in Threads, Push(th)
      PROVE Runs'
  <2>1. KeepsRuns
    BY <1>8, ThreadsAssumption DEF Push, KeepsRuns, Ran, HasTask, Goto,
      TypeOK, Control, Threads, taskVars, countVars, poolVars, callVars,
      otherVars
  <2>. QED
    BY <2>1, KeepsRunsInv
<1>9. ASSUME NEW th \in Threads, Balance(th)
      PROVE Runs'
  <2>1. KeepsRuns
    BY <1>9, ThreadsAssumption DEF Balance, KeepsRuns, Ran, HasTask, Goto,
      TypeOK, Control, Threads, taskVars, countVars, poolVars, callVars,
      otherVars
  <2>. QED
    BY <2>1, KeepsRunsInv
<1>10. ASSUME NEW th \in Threads, NEW p \in Pool, StartThread(th, p)
      PROVE Runs'
  <2>1. KeepsRuns
    BY <1>10, ThreadsAssumption DEF StartThread, KeepsRuns, Ran, HasTask, Goto,
      TypeOK, Control, Threads, taskVars, countVars, poolVars, callVars,
      otherVars
  <2>. QED
    BY <2>1, KeepsRunsInv
<1>10a. ASSUME NEW th \in Threads, RegisterThread(th)
      PROVE Runs'
  <2>1. KeepsRuns
    BY <1>10a, ThreadsAssumption DEF RegisterThread, KeepsRuns, Ran, HasTask, Goto,
      TypeOK, Control, Threads, taskVars, countVars, poolVars, callVars,
      otherVars
  <2>. QED
    BY <2>1, KeepsRunsInv
<1>11. ASSUME NEW th \in Threads, EnterDispatcher(th)
      PROVE Runs'
  <2>1. KeepsRuns
    BY <1>11, ThreadsAssumption DEF EnterDispatcher, KeepsRuns, Ran, HasTask,
      Goto, TypeOK, Control, Threads, taskVars, countVars, poolVars, callVars,
      otherVars
  <2>. QED
    BY <2>1, KeepsRunsInv
<1>12. ASSUME NEW th \in Threads, NEW t \in Tasks, PollTimer(th, t)
      PROVE Runs'
  <2>1. KeepsRuns
    BY <1>12, ThreadsAssumption DEF PollTimer, CountTask, KeepsRuns, Ran,
      HasTask, Goto, TypeOK, Control, Threads, taskVars, countVars, poolVars,
      callVars, otherVars
  <2>. QED
    BY <2>1, KeepsRunsInv
<1>13. ASSUME NEW th \in Threads, PollNothing(th)
      PROVE Runs'
  <2>1. KeepsRuns
    BY <1>13, ThreadsAssumption DEF PollNothing, KeepsRuns, Ran, HasTask,
      Goto, TypeOK, Control, Threads, taskVars, countVars, poolVars, callVars,
      otherVars
  <2>. QED
    BY <2>1, KeepsRunsInv
<1>14. ASSUME NEW th \in Threads, TestQueued(th)
      PROVE Runs'
  <2>1. KeepsRuns
    BY <1>14, ThreadsAssumption DEF TestQueued, KeepsRuns, Ran, HasTask, Goto,
      TypeOK, Control, Threads, taskVars, countVars, poolVars, callVars,
      otherVars
  <2>. QED
    BY <2>1, KeepsRunsInv
<1>15. ASSUME NEW th \in Threads, TestStopped(th)
      PROVE Runs'
  <2>1. KeepsRuns
    BY <1>15, ThreadsAssumption DEF TestStopped, KeepsRuns, Ran, HasTask,
      Goto, TypeOK, Control, Threads, taskVars, countVars, poolVars, callVars,
      otherVars
  <2>. QED
    BY <2>1, KeepsRunsInv
<1>16. ASSUME NEW th \in Threads, Pop(th)
      PROVE Runs'
  <2>0. /\ ~Ran(th) /\ pc'[th] = "decr"
        /\ \A x \in Threads : x # th => /\ pc'[x] = pc[x]
                                       /\ myCurrentTask'[x] = myCurrentTask[x]
        /\ UNCHANGED <<status, entered, aborted, globalTimeouts, back>>
    BY <1>0, <1>16 DEF Pop, HasTask, Ran, Goto, TypeOK, taskVars, callVars,
      otherVars
  <2>1. ASSUME NEW s \in Tasks \ Coroutines PROVE RanOnce(s)'
    BY <2>0 DEF Runs, RanOnce, Ran
  <2>2. ASSUME NEW s \in Tasks \ Coroutines PROVE Cancelled(s)'
    BY <2>0, TasksAssumption DEF Runs, Cancelled
  <2>. QED
    BY <2>0, <2>1, <2>2 DEF Runs
<1>17. ASSUME NEW th \in Threads, EndDrain(th)
      PROVE Runs'
  <2>1. KeepsRuns
    BY <1>17, ThreadsAssumption DEF EndDrain, KeepsRuns, Ran, HasTask, Goto,
      TypeOK, Control, Threads, taskVars, countVars, poolVars, callVars,
      otherVars
  <2>. QED
    BY <2>1, KeepsRunsInv
<1>18. ASSUME NEW th \in Threads, Uncount(th)
      PROVE Runs'
  <2>1. KeepsRuns
    BY <1>18, ThreadsAssumption DEF Uncount, KeepsRuns, Ran, HasTask, Goto,
      TypeOK, Control, Threads, taskVars, countVars, poolVars, callVars,
      otherVars
  <2>. QED
    BY <2>1, KeepsRunsInv
<1>19. ASSUME NEW th \in Threads, DropAborted(th)
      PROVE Runs'
  <2>0. /\ ~Ran(th) /\ myCurrentTask'[th] = NoTask
        /\ \A x \in Threads : x # th => /\ pc'[x] = pc[x]
                                       /\ myCurrentTask'[x] = myCurrentTask[x]
        /\ UNCHANGED <<status, entered, aborted, globalTimeouts, back>>
    BY <1>0, <1>19 DEF DropAborted, HasTask, Ran, Goto, TypeOK, taskVars,
      callVars, otherVars
  <2>1. ASSUME NEW s \in Tasks \ Coroutines PROVE RanOnce(s)'
    BY <2>0 DEF Runs, RanOnce, Ran
  <2>2. ASSUME NEW s \in Tasks \ Coroutines PROVE Cancelled(s)'
    BY <2>0, TasksAssumption DEF Runs, Cancelled
  <2>. QED
    BY <2>0, <2>1, <2>2 DEF Runs
<1>20. ASSUME NEW th \in Threads, PassCheck(th)
      PROVE Runs'
  <2>0. /\ ~Ran(th) /\ status[myCurrentTask[th]] # "ABORTED"
        /\ myCurrentTask' = myCurrentTask
        /\ \A x \in Threads : x # th => /\ pc'[x] = pc[x]
                                       /\ myCurrentTask'[x] = myCurrentTask[x]
        /\ UNCHANGED <<status, entered, aborted, globalTimeouts, back>>
    BY <1>0, <1>20 DEF PassCheck, HasTask, Ran, Goto, TypeOK, taskVars,
      callVars, otherVars
  <2>1. ASSUME NEW s \in Tasks \ Coroutines PROVE RanOnce(s)'
    BY <2>0 DEF Runs, RanOnce, Ran
  <2>2. ASSUME NEW s \in Tasks \ Coroutines PROVE Cancelled(s)'
    BY <2>0, TasksAssumption DEF Runs, Cancelled
  <2>. QED
    BY <2>0, <2>1, <2>2 DEF Runs
<1>21. ASSUME NEW th \in Threads, CheckInactive(th)
      PROVE Runs'
  <2>1. KeepsRuns
    BY <1>21, ThreadsAssumption DEF CheckInactive, KeepsRuns, Ran, HasTask,
      Goto, TypeOK, Control, Threads, taskVars, countVars, poolVars, callVars,
      otherVars
  <2>. QED
    BY <2>1, KeepsRunsInv
<1>22. ASSUME NEW th \in Threads, Create(th)
      PROVE Runs'
  <2>. DEFINE t == myCurrentTask[th]
  <2>0. /\ t \in Tasks /\ status[t] # "FREE" /\ ~Ran(th)
        /\ pc[th] = "created" /\ pc'[th] = "enter"
        /\ \A u \in Tasks : status'[u] = IF u = t THEN "CREATED" ELSE
          status[u]
        /\ \A x \in Threads : x # th => pc'[x] = pc[x]
        /\ UNCHANGED <<entered, aborted, globalTimeouts, myCurrentTask, back>>
    BY <1>0, <1>22 DEF Create, HasTask, Ran, Goto, TypeOK, callVars
  <2>1. ASSUME NEW s \in Tasks \ Coroutines PROVE RanOnce(s)'
    <3>1. CASE s = t
      <4>1. entered[s] = 0
        BY <1>0, <2>0, <3>1 DEF Runs, RanOnce, HasTask
      <4>. QED
        BY <2>0, <3>1, <4>1 DEF RanOnce
    <3>2. CASE s # t
      BY <2>0, <3>2 DEF Runs, RanOnce, Ran
    <3>. QED
      BY <3>1, <3>2
  <2>2. ASSUME NEW s \in Tasks \ Coroutines PROVE Cancelled(s)'
    BY <2>0 DEF Runs, Cancelled
  <2>. QED
    BY <2>0, <2>1, <2>2 DEF Runs
<1>23. ASSUME NEW th \in Threads, Enter(th)
      PROVE Runs'
  <2>1. KeepsRuns
    BY <1>23, ThreadsAssumption DEF Enter, KeepsRuns, Ran, HasTask, Goto,
      TypeOK, Control, Threads, taskVars, countVars, poolVars, callVars,
      otherVars
  <2>. QED
    BY <2>1, KeepsRunsInv
<1>24. ASSUME NEW th \in Threads, Activate(th)
      PROVE Runs'
  <2>. DEFINE t == myCurrentTask[th]
  <2>0. /\ t \in Tasks /\ status[t] # "FREE" /\ ~Ran(th)
        /\ pc[th] = "activate" /\ pc'[th] = "body"
        /\ \A u \in Tasks : status'[u] = IF u = t THEN "ACTIVE" ELSE status[u]
        /\ t \notin Coroutines => entered'[t] = entered[t] + 1
        /\ \A u \in Tasks : u # t => entered'[u] = entered[u]
        /\ \A x \in Threads : x # th => pc'[x] = pc[x]
        /\ UNCHANGED <<aborted, globalTimeouts, myCurrentTask, back>>
    BY <1>0, <1>24 DEF Activate, HasTask, Ran, Goto, TypeOK, callVars
  <2>1. ASSUME NEW s \in Tasks \ Coroutines PROVE RanOnce(s)'
    <3>1. CASE s = t
      <4>1. entered[s] = 0
        BY <1>0, <2>0, <3>1 DEF Runs, RanOnce, HasTask
      <4>. QED
        BY <2>0, <3>1, <4>1 DEF RanOnce, Ran
    <3>2. CASE s # t
      BY <2>0, <3>2 DEF Runs, RanOnce, Ran
    <3>. QED
      BY <3>1, <3>2
  <2>2. ASSUME NEW s \in Tasks \ Coroutines PROVE Cancelled(s)'
    <3>1. CASE s = t
      BY <2>0, <3>1 DEF Runs, Cancelled
    <3>2. CASE s # t
      BY <2>0, <3>2 DEF Runs, Cancelled
    <3>. QED
      BY <3>1, <3>2
  <2>. QED
    BY <2>0, <2>1, <2>2 DEF Runs
<1>25. ASSUME NEW th \in Threads, Requeue(th)
      PROVE Runs'
  <2>1. ASSUME NEW s \in Tasks \ Coroutines PROVE RanOnce(s)'
    <3>1. /\ status' = status /\ entered' = entered
          /\ status[myCurrentTask[th]] = "PENDING"
          /\ \A x \in Threads : x # th => myCurrentTask'[x] = myCurrentTask[x]
      BY <1>25 DEF Requeue, taskVars, TypeOK
    <3>2. \A x \in Threads : x # th /\ Ran(x) => Ran(x)'
      BY <1>25 DEF Requeue, Ran, Goto, TypeOK, callVars
    <3>3. RanOnce(s) /\ myCurrentTask[th] # s
      BY <3>1 DEF Runs, RanOnce
    <3>. QED
      BY <3>1, <3>2, <3>3 DEF RanOnce
  <2>2. ASSUME NEW s \in Tasks \ Coroutines PROVE Cancelled(s)'
    BY <1>0, <1>25, TasksAssumption DEF Requeue, InProgram, Runs, Cancelled,
      RanOnce, Ran, HasTask, Goto, TypeOK, Control, taskVars, countVars,
      poolVars, callVars, otherVars
  <2>3. /\ \A s \in Coroutines : aborted'[s] = "no"
        /\ \A i \in DOMAIN globalTimeouts' : 
             globalTimeouts'[i] \notin Coroutines
    BY <1>25, TasksAssumption DEF Requeue, Runs, TypeOK, taskVars, countVars,
      poolVars, callVars, otherVars
  <2>. QED
    BY <2>1, <2>2, <2>3 DEF Runs
<1>26. ASSUME NEW th \in Threads, Recount(th)
      PROVE Runs'
  <2>1. KeepsRuns
    BY <1>26, ThreadsAssumption DEF Recount, KeepsRuns, Ran, HasTask, Goto,
      TypeOK, Control, Threads, taskVars, countVars, poolVars, callVars,
      otherVars
  <2>. QED
    BY <2>1, KeepsRunsInv
<1>27. ASSUME NEW th \in Threads, Delete(th)
      PROVE Runs'
  <2>. DEFINE t == myCurrentTask[th]
  <2>0. /\ t \in Tasks /\ status[t] # "FREE"
        /\ pc[th] = "release" /\ pc'[th] = "fin"
        /\ \A u \in Tasks : status'[u] = IF u = t THEN "FREE" ELSE status[u]
        /\ \A x \in Threads : x # th => /\ pc'[x] = pc[x]
                                       /\ myCurrentTask'[x] = myCurrentTask[x]
        /\ myCurrentTask'[th] = NoTask
        /\ UNCHANGED <<entered, aborted, globalTimeouts, back>>
    BY <1>0, <1>27 DEF Delete, HasTask, Goto, TypeOK, callVars
  <2>1. ASSUME NEW s \in Tasks \ Coroutines PROVE RanOnce(s)'
    BY <2>0 DEF Runs, RanOnce, Ran
  <2>2. ASSUME NEW s \in Tasks \ Coroutines PROVE Cancelled(s)'
    <3>1. CASE s = t
      BY <2>0, <3>1 DEF Runs, Cancelled
    <3>2. CASE s # t
      BY <2>0, <3>2, TasksAssumption DEF Runs, Cancelled
    <3>. QED
      BY <3>1, <3>2
  <2>. QED
    BY <2>0, <2>1, <2>2 DEF Runs
<1>28. ASSUME NEW th \in Threads, EndTask(th)
      PROVE Runs'
  <2>1. KeepsRuns
    BY <1>28, ThreadsAssumption DEF EndTask, KeepsRuns, Ran, HasTask, Goto,
      TypeOK, Control, Threads, taskVars, countVars, poolVars, callVars,
      otherVars
  <2>. QED
    BY <2>1, KeepsRunsInv
<1>29. ASSUME Start \/ TestHeld \/ Join \/ Destroy
      PROVE Runs'
  <2>1. KeepsRuns
    BY <1>29, ThreadsAssumption DEF Start, TestHeld, Join, Destroy, KeepsRuns,
      Ran, HasTask, Goto, TypeOK, Control, Threads, taskVars, countVars,
      poolVars, callVars, otherVars
  <2>. QED
    BY <2>1, KeepsRunsInv
<1>30. CASE UNCHANGED vars
  BY <1>30, KeepsRunsInv DEF KeepsRuns, Ran, vars, taskVars, callVars
<1>. QED
  BY <1>1, <1>2, <1>3, <1>4, <1>5, <1>6, <1>7, <1>8, <1>9, <1>10,
     <1>10a, <1>11, <1>12, <1>13, <1>14, <1>15, <1>16, <1>17, <1>18, <1>19, <1>20, <1>21,
     <1>22, <1>23, <1>24, <1>25, <1>26, <1>27, <1>28, <1>29, <1>30
     DEF Next, ThreadStep, ProgramStep, MainStep

(* Nothing has run at the start. *)
LEMMA RunsInit == Init => Runs
  BY TasksAssumption DEF Init, Runs, RanOnce, Cancelled

(* The handler of a plain task is called at most once, for any number of   *)
(* threads and tasks.                                                      *)
THEOREM RunOnceCorrect == Spec => []RunOnce
<1>1. Runs => RunOnce
  BY DEF Runs, RanOnce, RunOnce
<1>. QED
  BY <1>1, ControlInit, TypeNext, ControlNext, OwnedInit, OwnedNext, RunsInit,
    RunsNext, PTL DEF Spec

(* A timeout cleared before a thread took its task never runs, for any     *)
(* number of threads and tasks.                                            *)
THEOREM CancelCorrect == Spec => []CancelledNeverRuns
<1>1. Runs => CancelledNeverRuns
  BY DEF Runs, Cancelled, CancelledNeverRuns
<1>. QED
  BY <1>1, ControlInit, TypeNext, ControlNext, OwnedInit, OwnedNext, RunsInit,
    RunsNext, PTL DEF Spec

-----------------------------------------------------------------------------
(***************************************************************************)
(* The scheduler implements TaskPool.                                      *)
(***************************************************************************)

Unstarted == {"INACTIVE", "PENDING", "ABORTED"}

(* How the status of a task, the abort it was asked for and the calls of   *)
(* its handler go together, wherever its pointer is.                       *)
TaskFate(t) ==
  /\ status[t] = "ABORTED" => aborted[t] # "no"
  /\ status[t] = "PENDING" => t \in Coroutines /\ entered[t] > 0

WaitingFate(t) == status[t] \in Unstarted /\ (aborted[t] # "no" => status[t] = "ABORTED")

QueueFate == \A i \in 1..Len(myTaskQueue) : WaitingFate(myTaskQueue[i])

TimerFate == \A t \in Tasks : timer[t] # "none" => WaitingFate(t)

ThreadFate(th) ==
  LET t == myCurrentTask[th] IN
  /\ pc[th] = "push" => WaitingFate(arg[th])
  /\ pc[th] \in {"decr", "check"} => WaitingFate(t)
  /\ pc[th] = "create" => status[t] \in Unstarted
  /\ pc[th] = "created" => status[t] \in {"INACTIVE", "ABORTED"}
  /\ pc[th] \in {"enter", "activate"} => status[t] \in {"CREATED", "PENDING", "ABORTED"}
  /\ pc[th] = "body" \/ (pc[th] \in {"push", "balance", "add", "register"} /\ back[th] = "body") =>
       entered[t] > 0
  /\ pc[th] = "release" => entered[t] > 0 \/ aborted[t] # "no"

Fate ==
  /\ \A t \in Tasks : TaskFate(t)
  /\ QueueFate
  /\ TimerFate
  /\ \A th \in Threads : ThreadFate(th)

-----------------------------------------------------------------------------
(* What the invariants of the other modules say of the task pointers. *)
Places ==
  /\ \A x \in Threads :
       /\ HasTask(x) => myCurrentTask[x] \in Tasks /\ status[myCurrentTask[x]] # "FREE"
       /\ ~HasTask(x) => myCurrentTask[x] = NoTask
       /\ pc[x] = "push" => arg[x] \in Tasks /\ status[arg[x]] # "FREE"
       /\ pc[x] # "push" => arg[x] = NoTask
  /\ \A x, y \in Threads :
       /\ HasTask(x) /\ myCurrentTask[x] = myCurrentTask[y] => x = y
       /\ pc[x] = "push" /\ arg[x] = arg[y] => x = y
       /\ pc[x] = "push" => arg[x] # myCurrentTask[y]
  /\ \A i \in 1..Len(myTaskQueue) :
       /\ myTaskQueue[i] \in Tasks
       /\ status[myTaskQueue[i]] # "FREE" /\ timer[myTaskQueue[i]] = "none"
       /\ \A x \in Threads : myTaskQueue[i] # myCurrentTask[x] /\ myTaskQueue[i] # arg[x]
       /\ \A j \in 1..Len(myTaskQueue) : myTaskQueue[i] = myTaskQueue[j] => i = j
  /\ \A t \in Tasks : timer[t] # "none" =>
       /\ status[t] # "FREE"
       /\ \A x \in Threads : t # myCurrentTask[x] /\ t # arg[x]
  /\ Len(myTaskQueue) \in Nat

(* They follow from where threads are and from who owns a task. *)
LEMMA PlacesHold ==
  ASSUME TypeOK, Control, Owned
  PROVE  Places
<1>1. \A x \in Threads :
        /\ HasTask(x) => myCurrentTask[x] \in Tasks /\ status[myCurrentTask[x]] # "FREE"
        /\ ~HasTask(x) => myCurrentTask[x] = NoTask
        /\ pc[x] = "push" => arg[x] \in Tasks /\ status[arg[x]] # "FREE"
        /\ pc[x] # "push" => arg[x] = NoTask
  BY TasksAssumption DEF Control, Owned, NoDangling, Live
<1>2. \A x, y \in Threads :
        /\ HasTask(x) /\ myCurrentTask[x] = myCurrentTask[y] => x = y
        /\ pc[x] = "push" /\ arg[x] = arg[y] => x = y
        /\ pc[x] = "push" => arg[x] # myCurrentTask[y]
  BY <1>1, TasksAssumption DEF Owned, Exclusive, ThreadExclusive
<1>3. \A i \in 1..Len(myTaskQueue) :
        /\ myTaskQueue[i] \in Tasks
        /\ status[myTaskQueue[i]] # "FREE" /\ timer[myTaskQueue[i]] = "none"
        /\ \A x \in Threads : myTaskQueue[i] # myCurrentTask[x] /\ myTaskQueue[i] # arg[x]
        /\ \A j \in 1..Len(myTaskQueue) : myTaskQueue[i] = myTaskQueue[j] => i = j
  <2>1. \A i \in 1..Len(myTaskQueue) : myTaskQueue[i] \in Tasks
    BY DEF TypeOK
  <2>. QED
    BY <2>1 DEF Owned, Exclusive, QueueExclusive, NoDangling, Live
<1>4. \A t \in Tasks : timer[t] # "none" =>
        /\ status[t] # "FREE"
        /\ \A x \in Threads : t # myCurrentTask[x] /\ t # arg[x]
  BY TasksAssumption DEF Owned, Exclusive, TimerExclusive, NoDangling, Live
<1>5. Len(myTaskQueue) \in Nat
  BY DEF TypeOK
<1>. QED
  BY <1>1, <1>2, <1>3, <1>4, <1>5 DEF Places

(* Types that the provers use again and again. *)
LEMMA Typed ==
  ASSUME TypeOK
  PROVE  /\ \A t \in Tasks : /\ status[t] \in Statuses /\ entered[t] \in Nat
                             /\ timer[t] \in {"none", "armed", "due"}
                             /\ aborted[t] \in {"no", "early", "late"}
         /\ \A th \in Threads : pc[th] \in Steps /\ back[th] \in {"eval", "body", "drain", "init"}
         /\ \A id \in DOMAIN globalTimeouts : globalTimeouts[id] \in Tasks
  BY DEF TypeOK

(* Every step keeps the fate of every task. *)
LEMMA FateNext ==
  ASSUME TypeOK, Control, Owned, Runs, Fate, [Next]_vars
  PROVE  Fate'
<1>0. Places
  BY PlacesHold
<1>1. ASSUME NEW th \in Threads, NEW t \in Tasks, ScheduleTask(th, t)
      PROVE Fate'
  <2>1. \A s \in Tasks : TaskFate(s)'
    BY <1>0, <1>1, Typed, TasksAssumption
      DEF ScheduleTask, NewTask, CountTask, InProgram, Goto, Places,
        HasTask, TypeOK, taskVars, countVars, poolVars, callVars, otherVars,
      Fate, TaskFate, Runs, ThreadFate, Unstarted, RanOnce
  <2>2. QueueFate'
    BY <1>0, <1>1, Typed, TasksAssumption
      DEF ScheduleTask, NewTask, CountTask, InProgram, Goto, Places,
        HasTask, TypeOK, taskVars, countVars, poolVars, callVars, otherVars,
      Fate, QueueFate, WaitingFate, Unstarted
  <2>3. TimerFate'
    BY <1>0, <1>1, Typed, TasksAssumption
      DEF ScheduleTask, NewTask, CountTask, InProgram, Goto, Places,
        HasTask, TypeOK, taskVars, countVars, poolVars, callVars, otherVars,
      Fate, TimerFate, WaitingFate, Unstarted
  <2>4. ASSUME NEW x \in Threads PROVE ThreadFate(x)'
    BY <1>0, <1>1, Typed, TasksAssumption, ThreadsAssumption
      DEF ScheduleTask, NewTask, CountTask, InProgram, Goto, Places,
        HasTask, TypeOK, taskVars, countVars, poolVars, callVars, otherVars,
      Fate, ThreadFate, TaskFate, WaitingFate, Unstarted, Runs
  <2>. QED
    BY <2>1, <2>2, <2>3, <2>4 DEF Fate
<1>2. ASSUME NEW th \in Threads, NEW t \in Tasks, SetTimeout(th, t)
      PROVE Fate'
  <2>1. \A s \in Tasks : TaskFate(s)'
    BY <1>0, <1>2, Typed, TasksAssumption
      DEF SetTimeout, NewTask, InProgram, Goto, Places, HasTask, TypeOK,
        taskVars, countVars, poolVars, callVars, otherVars,
      Fate, TaskFate, Runs, ThreadFate, Unstarted, RanOnce
  <2>2. QueueFate'
    BY <1>0, <1>2, Typed, TasksAssumption
      DEF SetTimeout, NewTask, InProgram, Goto, Places, HasTask, TypeOK,
        taskVars, countVars, poolVars, callVars, otherVars,
      Fate, QueueFate, WaitingFate, Unstarted
  <2>3. TimerFate'
    BY <1>0, <1>2, Typed, TasksAssumption
      DEF SetTimeout, NewTask, InProgram, Goto, Places, HasTask, TypeOK,
        taskVars, countVars, poolVars, callVars, otherVars,
      Fate, TimerFate, WaitingFate, Unstarted
  <2>4. ASSUME NEW x \in Threads PROVE ThreadFate(x)'
    BY <1>0, <1>2, Typed, TasksAssumption, ThreadsAssumption
      DEF SetTimeout, NewTask, InProgram, Goto, Places, HasTask, TypeOK,
        taskVars, countVars, poolVars, callVars, otherVars,
      Fate, ThreadFate, TaskFate, WaitingFate, Unstarted, Runs
  <2>. QED
    BY <2>1, <2>2, <2>3, <2>4 DEF Fate
<1>3. ASSUME NEW th \in Threads, NEW id \in DOMAIN globalTimeouts, ClearTimeout(th, id)
      PROVE Fate'
  <2>1. \A s \in Tasks : TaskFate(s)'
    BY <1>0, <1>3, Typed, TasksAssumption
      DEF ClearTimeout, InProgram, Goto, Places, HasTask, TypeOK, taskVars,
        countVars, poolVars, callVars, otherVars,
      Fate, TaskFate, Runs, ThreadFate, Unstarted, RanOnce
  <2>2. QueueFate'
    BY <1>0, <1>3, Typed, TasksAssumption
      DEF ClearTimeout, InProgram, Goto, Places, HasTask, TypeOK, taskVars,
        countVars, poolVars, callVars, otherVars,
      Fate, QueueFate, WaitingFate, Unstarted
  <2>3. TimerFate'
    BY <1>0, <1>3, Typed, TasksAssumption
      DEF ClearTimeout, InProgram, Goto, Places, HasTask, TypeOK, taskVars,
        countVars, poolVars, callVars, otherVars,
      Fate, TimerFate, WaitingFate, Unstarted
  <2>4. ASSUME NEW x \in Threads PROVE ThreadFate(x)'
    BY <1>0, <1>3, Typed, TasksAssumption, ThreadsAssumption
      DEF ClearTimeout, InProgram, Goto, Places, HasTask, TypeOK, taskVars,
        countVars, poolVars, callVars, otherVars,
      Fate, ThreadFate, TaskFate, WaitingFate, Unstarted, Runs
  <2>. QED
    BY <2>1, <2>2, <2>3, <2>4 DEF Fate
<1>4. ASSUME NEW th \in Threads, Yield(th)
      PROVE Fate'
  <2>1. \A s \in Tasks : TaskFate(s)'
    BY <1>0, <1>4, Typed, TasksAssumption
      DEF Yield, Goto, Places, HasTask, TypeOK, taskVars, countVars,
        poolVars, callVars, otherVars,
      Fate, TaskFate, Runs, ThreadFate, Unstarted, RanOnce
  <2>2. QueueFate'
    BY <1>0, <1>4, Typed, TasksAssumption
      DEF Yield, Goto, Places, HasTask, TypeOK, taskVars, countVars,
        poolVars, callVars, otherVars,
      Fate, QueueFate, WaitingFate, Unstarted
  <2>3. TimerFate'
    BY <1>0, <1>4, Typed, TasksAssumption
      DEF Yield, Goto, Places, HasTask, TypeOK, taskVars, countVars,
        poolVars, callVars, otherVars,
      Fate, TimerFate, WaitingFate, Unstarted
  <2>4. ASSUME NEW x \in Threads PROVE ThreadFate(x)'
    BY <1>0, <1>4, Typed, TasksAssumption, ThreadsAssumption
      DEF Yield, Goto, Places, HasTask, TypeOK, taskVars, countVars,
        poolVars, callVars, otherVars,
      Fate, ThreadFate, TaskFate, WaitingFate, Unstarted, Runs
  <2>. QED
    BY <2>1, <2>2, <2>3, <2>4 DEF Fate
<1>5. ASSUME NEW th \in Threads, Finish(th)
      PROVE Fate'
  <2>1. \A s \in Tasks : TaskFate(s)'
    BY <1>0, <1>5, Typed, TasksAssumption
      DEF Finish, Goto, Places, HasTask, TypeOK, taskVars, countVars,
        poolVars, callVars, otherVars,
      Fate, TaskFate, Runs, ThreadFate, Unstarted, RanOnce
  <2>2. QueueFate'
    BY <1>0, <1>5, Typed, TasksAssumption
      DEF Finish, Goto, Places, HasTask, TypeOK, taskVars, countVars,
        poolVars, callVars, otherVars,
      Fate, QueueFate, WaitingFate, Unstarted
  <2>3. TimerFate'
    BY <1>0, <1>5, Typed, TasksAssumption
      DEF Finish, Goto, Places, HasTask, TypeOK, taskVars, countVars,
        poolVars, callVars, otherVars,
      Fate, TimerFate, WaitingFate, Unstarted
  <2>4. ASSUME NEW x \in Threads PROVE ThreadFate(x)'
    BY <1>0, <1>5, Typed, TasksAssumption, ThreadsAssumption
      DEF Finish, Goto, Places, HasTask, TypeOK, taskVars, countVars,
        poolVars, callVars, otherVars,
      Fate, ThreadFate, TaskFate, WaitingFate, Unstarted, Runs
  <2>. QED
    BY <2>1, <2>2, <2>3, <2>4 DEF Fate
<1>6. ASSUME NEW th \in Threads, Pause(th)
      PROVE Fate'
  <2>1. \A s \in Tasks : TaskFate(s)'
    BY <1>0, <1>6, Typed, TasksAssumption
      DEF Pause, Goto, Places, HasTask, TypeOK, taskVars, countVars,
        poolVars, callVars, otherVars,
      Fate, TaskFate, Runs, ThreadFate, Unstarted, RanOnce
  <2>2. QueueFate'
    BY <1>0, <1>6, Typed, TasksAssumption
      DEF Pause, Goto, Places, HasTask, TypeOK, taskVars, countVars,
        poolVars, callVars, otherVars,
      Fate, QueueFate, WaitingFate, Unstarted
  <2>3. TimerFate'
    BY <1>0, <1>6, Typed, TasksAssumption
      DEF Pause, Goto, Places, HasTask, TypeOK, taskVars, countVars,
        poolVars, callVars, otherVars,
      Fate, TimerFate, WaitingFate, Unstarted
  <2>4. ASSUME NEW x \in Threads PROVE ThreadFate(x)'
    BY <1>0, <1>6, Typed, TasksAssumption, ThreadsAssumption
      DEF Pause, Goto, Places, HasTask, TypeOK, taskVars, countVars,
        poolVars, callVars, otherVars,
      Fate, ThreadFate, TaskFate, WaitingFate, Unstarted, Runs
  <2>. QED
    BY <2>1, <2>2, <2>3, <2>4 DEF Fate
<1>7. ASSUME NEW th \in Threads, Resume(th)
      PROVE Fate'
  <2>1. \A s \in Tasks : TaskFate(s)'
    BY <1>0, <1>7, Typed, TasksAssumption
      DEF Resume, Goto, Places, HasTask, TypeOK, taskVars, countVars,
        poolVars, callVars, otherVars,
      Fate, TaskFate, Runs, ThreadFate, Unstarted, RanOnce
  <2>2. QueueFate'
    BY <1>0, <1>7, Typed, TasksAssumption
      DEF Resume, Goto, Places, HasTask, TypeOK, taskVars, countVars,
        poolVars, callVars, otherVars,
      Fate, QueueFate, WaitingFate, Unstarted
  <2>3. TimerFate'
    BY <1>0, <1>7, Typed, TasksAssumption
      DEF Resume, Goto, Places, HasTask, TypeOK, taskVars, countVars,
        poolVars, callVars, otherVars,
      Fate, TimerFate, WaitingFate, Unstarted
  <2>4. ASSUME NEW x \in Threads PROVE ThreadFate(x)'
    BY <1>0, <1>7, Typed, TasksAssumption, ThreadsAssumption
      DEF Resume, Goto, Places, HasTask, TypeOK, taskVars, countVars,
        poolVars, callVars, otherVars,
      Fate, ThreadFate, TaskFate, WaitingFate, Unstarted, Runs
  <2>. QED
    BY <2>1, <2>2, <2>3, <2>4 DEF Fate
<1>8. ASSUME NEW t \in Tasks, Expire(t)
      PROVE Fate'
  <2>1. \A s \in Tasks : TaskFate(s)'
    BY <1>0, <1>8, Typed, TasksAssumption
      DEF Expire, Goto, Places, HasTask, TypeOK, taskVars, countVars,
        poolVars, callVars, otherVars,
      Fate, TaskFate, Runs, ThreadFate, Unstarted, RanOnce
  <2>2. QueueFate'
    BY <1>0, <1>8, Typed, TasksAssumption
      DEF Expire, Goto, Places, HasTask, TypeOK, taskVars, countVars,
        poolVars, callVars, otherVars,
      Fate, QueueFate, WaitingFate, Unstarted
  <2>3. TimerFate'
    BY <1>0, <1>8, Typed, TasksAssumption
      DEF Expire, Goto, Places, HasTask, TypeOK, taskVars, countVars,
        poolVars, callVars, otherVars,
      Fate, TimerFate, WaitingFate, Unstarted
  <2>4. ASSUME NEW x \in Threads PROVE ThreadFate(x)'
    BY <1>0, <1>8, Typed, TasksAssumption, ThreadsAssumption
      DEF Expire, Goto, Places, HasTask, TypeOK, taskVars, countVars,
        poolVars, callVars, otherVars,
      Fate, ThreadFate, TaskFate, WaitingFate, Unstarted, Runs
  <2>. QED
    BY <2>1, <2>2, <2>3, <2>4 DEF Fate
<1>9. ASSUME NEW th \in Threads, Push(th)
      PROVE Fate'
  <2>1. \A s \in Tasks : TaskFate(s)'
    BY <1>0, <1>9, Typed, TasksAssumption
      DEF Push, Goto, Places, HasTask, TypeOK, taskVars, countVars,
        poolVars, callVars, otherVars,
      Fate, TaskFate, Runs, ThreadFate, Unstarted, RanOnce
  <2>2. QueueFate'
    <3>1. arg[th] \in Tasks /\ WaitingFate(arg[th])
      BY <1>0, <1>9, TasksAssumption
      DEF Push, Places, HasTask, Fate, ThreadFate
    <3>2. /\ Len(myTaskQueue') = Len(myTaskQueue) + 1
          /\ \A i \in 1..Len(myTaskQueue) : myTaskQueue'[i] = myTaskQueue[i]
          /\ myTaskQueue'[Len(myTaskQueue) + 1] = arg[th]
          /\ UNCHANGED <<status, aborted>>
      BY <1>9, <3>1 DEF Push, TypeOK, taskVars
    <3>3. \A i \in 1..Len(myTaskQueue') : i \in 1..Len(myTaskQueue) \/ i = Len(myTaskQueue) + 1
      BY <1>0, <3>2 DEF Places
    <3>. QED
      BY <3>1, <3>2, <3>3 DEF Fate, QueueFate, WaitingFate
  <2>3. TimerFate'
    BY <1>0, <1>9, Typed, TasksAssumption
      DEF Push, Goto, Places, HasTask, TypeOK, taskVars, countVars,
        poolVars, callVars, otherVars,
      Fate, TimerFate, WaitingFate, Unstarted
  <2>4. ASSUME NEW x \in Threads PROVE ThreadFate(x)'
    BY <1>0, <1>9, Typed, TasksAssumption, ThreadsAssumption
      DEF Push, Goto, Places, HasTask, TypeOK, taskVars, countVars,
        poolVars, callVars, otherVars,
      Fate, ThreadFate, TaskFate, WaitingFate, Unstarted, Runs
  <2>. QED
    BY <2>1, <2>2, <2>3, <2>4 DEF Fate
<1>10. ASSUME NEW th \in Threads, Balance(th)
      PROVE Fate'
  <2>1. \A s \in Tasks : TaskFate(s)'
    BY <1>0, <1>10, Typed, TasksAssumption
      DEF Balance, Goto, Places, HasTask, TypeOK, taskVars, countVars,
        poolVars, callVars, otherVars,
      Fate, TaskFate, Runs, ThreadFate, Unstarted, RanOnce
  <2>2. QueueFate'
    BY <1>0, <1>10, Typed, TasksAssumption
      DEF Balance, Goto, Places, HasTask, TypeOK, taskVars, countVars,
        poolVars, callVars, otherVars,
      Fate, QueueFate, WaitingFate, Unstarted
  <2>3. TimerFate'
    BY <1>0, <1>10, Typed, TasksAssumption
      DEF Balance, Goto, Places, HasTask, TypeOK, taskVars, countVars,
        poolVars, callVars, otherVars,
      Fate, TimerFate, WaitingFate, Unstarted
  <2>4. ASSUME NEW x \in Threads PROVE ThreadFate(x)'
    <3>1. CASE x = th
      <4>1. pc'[th] \in {"add", back[th]} /\ back[th] \in {"eval", "body", "drain", "init"}
        BY <1>10, Typed DEF Balance, Goto, TypeOK
      <4>. QED
        BY <1>10, <3>1, <4>1 DEF Balance, Fate, ThreadFate, otherVars, taskVars, callVars
    <3>2. CASE x # th
      BY <1>10, <3>2 DEF Balance, Goto, TypeOK, Fate, ThreadFate, WaitingFate, otherVars,
        taskVars, callVars
    <3>. QED
      BY <3>1, <3>2
  <2>. QED
    BY <2>1, <2>2, <2>3, <2>4 DEF Fate
<1>11. ASSUME NEW th \in Threads, NEW p \in Pool, StartThread(th, p)
      PROVE Fate'
  <2>1. \A s \in Tasks : TaskFate(s)'
    BY <1>0, <1>11, Typed, TasksAssumption
      DEF StartThread, Goto, Places, HasTask, TypeOK, taskVars, countVars,
        poolVars, callVars, otherVars,
      Fate, TaskFate, Runs, ThreadFate, Unstarted, RanOnce
  <2>2. QueueFate'
    BY <1>0, <1>11, Typed, TasksAssumption
      DEF StartThread, Goto, Places, HasTask, TypeOK, taskVars, countVars,
        poolVars, callVars, otherVars,
      Fate, QueueFate, WaitingFate, Unstarted
  <2>3. TimerFate'
    BY <1>0, <1>11, Typed, TasksAssumption
      DEF StartThread, Goto, Places, HasTask, TypeOK, taskVars, countVars,
        poolVars, callVars, otherVars,
      Fate, TimerFate, WaitingFate, Unstarted
  <2>4. ASSUME NEW x \in Threads PROVE ThreadFate(x)'
    BY <1>0, <1>11, Typed, TasksAssumption, ThreadsAssumption
      DEF StartThread, Goto, Places, HasTask, TypeOK, taskVars, countVars,
        poolVars, callVars, otherVars,
      Fate, ThreadFate, TaskFate, WaitingFate, Unstarted, Runs
  <2>. QED
    BY <2>1, <2>2, <2>3, <2>4 DEF Fate
<1>11a. ASSUME NEW th \in Threads, RegisterThread(th)
      PROVE Fate'
  <2>1. \A s \in Tasks : TaskFate(s)'
    BY <1>0, <1>11a, Typed, TasksAssumption
      DEF RegisterThread, Goto, Places, HasTask, TypeOK, taskVars, countVars,
        poolVars, callVars, otherVars,
      Fate, TaskFate, Runs, ThreadFate, Unstarted, RanOnce
  <2>2. QueueFate'
    BY <1>0, <1>11a, Typed, TasksAssumption
      DEF RegisterThread, Goto, Places, HasTask, TypeOK, taskVars, countVars,
        poolVars, callVars, otherVars,
      Fate, QueueFate, WaitingFate, Unstarted
  <2>3. TimerFate'
    BY <1>0, <1>11a, Typed, TasksAssumption
      DEF RegisterThread, Goto, Places, HasTask, TypeOK, taskVars, countVars,
        poolVars, callVars, otherVars,
      Fate, TimerFate, WaitingFate, Unstarted
  <2>4. ASSUME NEW x \in Threads PROVE ThreadFate(x)'
    BY <1>0, <1>11a, Typed, TasksAssumption, ThreadsAssumption
      DEF RegisterThread, Goto, Places, HasTask, TypeOK, taskVars, countVars,
        poolVars, callVars, otherVars,
      Fate, ThreadFate, TaskFate, WaitingFate, Unstarted, Runs
  <2>. QED
    BY <2>1, <2>2, <2>3, <2>4 DEF Fate
<1>12. ASSUME NEW th \in Threads, EnterDispatcher(th)
      PROVE Fate'
  <2>1. \A s \in Tasks : TaskFate(s)'
    BY <1>0, <1>12, Typed, TasksAssumption
      DEF EnterDispatcher, Goto, Places, HasTask, TypeOK, taskVars,
        countVars, poolVars, callVars, otherVars,
      Fate, TaskFate, Runs, ThreadFate, Unstarted, RanOnce
  <2>2. QueueFate'
    BY <1>0, <1>12, Typed, TasksAssumption
      DEF EnterDispatcher, Goto, Places, HasTask, TypeOK, taskVars,
        countVars, poolVars, callVars, otherVars,
      Fate, QueueFate, WaitingFate, Unstarted
  <2>3. TimerFate'
    BY <1>0, <1>12, Typed, TasksAssumption
      DEF EnterDispatcher, Goto, Places, HasTask, TypeOK, taskVars,
        countVars, poolVars, callVars, otherVars,
      Fate, TimerFate, WaitingFate, Unstarted
  <2>4. ASSUME NEW x \in Threads PROVE ThreadFate(x)'
    BY <1>0, <1>12, Typed, TasksAssumption, ThreadsAssumption
      DEF EnterDispatcher, Goto, Places, HasTask, TypeOK, taskVars,
        countVars, poolVars, callVars, otherVars,
      Fate, ThreadFate, TaskFate, WaitingFate, Unstarted, Runs
  <2>. QED
    BY <2>1, <2>2, <2>3, <2>4 DEF Fate
<1>13. ASSUME NEW th \in Threads, NEW t \in Tasks, PollTimer(th, t)
      PROVE Fate'
  <2>1. \A s \in Tasks : TaskFate(s)'
    BY <1>0, <1>13, Typed, TasksAssumption
      DEF PollTimer, CountTask, Goto, Places, HasTask, TypeOK, taskVars,
        countVars, poolVars, callVars, otherVars,
      Fate, TaskFate, Runs, ThreadFate, Unstarted, RanOnce
  <2>2. QueueFate'
    BY <1>0, <1>13, Typed, TasksAssumption
      DEF PollTimer, CountTask, Goto, Places, HasTask, TypeOK, taskVars,
        countVars, poolVars, callVars, otherVars,
      Fate, QueueFate, WaitingFate, Unstarted
  <2>3. TimerFate'
    BY <1>0, <1>13, Typed, TasksAssumption
      DEF PollTimer, CountTask, Goto, Places, HasTask, TypeOK, taskVars,
        countVars, poolVars, callVars, otherVars,
      Fate, TimerFate, WaitingFate, Unstarted
  <2>4. ASSUME NEW x \in Threads PROVE ThreadFate(x)'
    <3>1. WaitingFate(t)
      BY <1>13 DEF PollTimer, Fate, TimerFate
    <3>2. CASE x = th
      BY <1>13, <3>1, <3>2 DEF PollTimer, CountTask, Goto, TypeOK, ThreadFate, WaitingFate
    <3>3. CASE x # th
      BY <1>13, <3>3 DEF PollTimer, CountTask, Goto, TypeOK, Fate, ThreadFate, WaitingFate
    <3>. QED
      BY <3>2, <3>3
  <2>. QED
    BY <2>1, <2>2, <2>3, <2>4 DEF Fate
<1>14. ASSUME NEW th \in Threads, PollNothing(th)
      PROVE Fate'
  <2>1. \A s \in Tasks : TaskFate(s)'
    BY <1>0, <1>14, Typed, TasksAssumption
      DEF PollNothing, Goto, Places, HasTask, TypeOK, taskVars, countVars,
        poolVars, callVars, otherVars,
      Fate, TaskFate, Runs, ThreadFate, Unstarted, RanOnce
  <2>2. QueueFate'
    BY <1>0, <1>14, Typed, TasksAssumption
      DEF PollNothing, Goto, Places, HasTask, TypeOK, taskVars, countVars,
        poolVars, callVars, otherVars,
      Fate, QueueFate, WaitingFate, Unstarted
  <2>3. TimerFate'
    BY <1>0, <1>14, Typed, TasksAssumption
      DEF PollNothing, Goto, Places, HasTask, TypeOK, taskVars, countVars,
        poolVars, callVars, otherVars,
      Fate, TimerFate, WaitingFate, Unstarted
  <2>4. ASSUME NEW x \in Threads PROVE ThreadFate(x)'
    BY <1>0, <1>14, Typed, TasksAssumption, ThreadsAssumption
      DEF PollNothing, Goto, Places, HasTask, TypeOK, taskVars, countVars,
        poolVars, callVars, otherVars,
      Fate, ThreadFate, TaskFate, WaitingFate, Unstarted, Runs
  <2>. QED
    BY <2>1, <2>2, <2>3, <2>4 DEF Fate
<1>15. ASSUME NEW th \in Threads, TestQueued(th)
      PROVE Fate'
  <2>1. \A s \in Tasks : TaskFate(s)'
    BY <1>0, <1>15, Typed, TasksAssumption
      DEF TestQueued, Goto, Places, HasTask, TypeOK, taskVars, countVars,
        poolVars, callVars, otherVars,
      Fate, TaskFate, Runs, ThreadFate, Unstarted, RanOnce
  <2>2. QueueFate'
    BY <1>0, <1>15, Typed, TasksAssumption
      DEF TestQueued, Goto, Places, HasTask, TypeOK, taskVars, countVars,
        poolVars, callVars, otherVars,
      Fate, QueueFate, WaitingFate, Unstarted
  <2>3. TimerFate'
    BY <1>0, <1>15, Typed, TasksAssumption
      DEF TestQueued, Goto, Places, HasTask, TypeOK, taskVars, countVars,
        poolVars, callVars, otherVars,
      Fate, TimerFate, WaitingFate, Unstarted
  <2>4. ASSUME NEW x \in Threads PROVE ThreadFate(x)'
    BY <1>0, <1>15, Typed, TasksAssumption, ThreadsAssumption
      DEF TestQueued, Goto, Places, HasTask, TypeOK, taskVars, countVars,
        poolVars, callVars, otherVars,
      Fate, ThreadFate, TaskFate, WaitingFate, Unstarted, Runs
  <2>. QED
    BY <2>1, <2>2, <2>3, <2>4 DEF Fate
<1>16. ASSUME NEW th \in Threads, TestStopped(th)
      PROVE Fate'
  <2>1. \A s \in Tasks : TaskFate(s)'
    BY <1>0, <1>16, Typed, TasksAssumption
      DEF TestStopped, Goto, Places, HasTask, TypeOK, taskVars, countVars,
        poolVars, callVars, otherVars,
      Fate, TaskFate, Runs, ThreadFate, Unstarted, RanOnce
  <2>2. QueueFate'
    BY <1>0, <1>16, Typed, TasksAssumption
      DEF TestStopped, Goto, Places, HasTask, TypeOK, taskVars, countVars,
        poolVars, callVars, otherVars,
      Fate, QueueFate, WaitingFate, Unstarted
  <2>3. TimerFate'
    BY <1>0, <1>16, Typed, TasksAssumption
      DEF TestStopped, Goto, Places, HasTask, TypeOK, taskVars, countVars,
        poolVars, callVars, otherVars,
      Fate, TimerFate, WaitingFate, Unstarted
  <2>4. ASSUME NEW x \in Threads PROVE ThreadFate(x)'
    BY <1>0, <1>16, Typed, TasksAssumption, ThreadsAssumption
      DEF TestStopped, Goto, Places, HasTask, TypeOK, taskVars, countVars,
        poolVars, callVars, otherVars,
      Fate, ThreadFate, TaskFate, WaitingFate, Unstarted, Runs
  <2>. QED
    BY <2>1, <2>2, <2>3, <2>4 DEF Fate
<1>17. ASSUME NEW th \in Threads, Pop(th)
      PROVE Fate'
  <2>1. \A s \in Tasks : TaskFate(s)'
    BY <1>0, <1>17, Typed, TasksAssumption
      DEF Pop, Goto, Places, HasTask, TypeOK, taskVars, countVars,
        poolVars, callVars, otherVars,
      Fate, TaskFate, Runs, ThreadFate, Unstarted, RanOnce
  <2>2. QueueFate'
    BY <1>0, <1>17, Typed, TasksAssumption
      DEF Pop, Goto, Places, HasTask, TypeOK, taskVars, countVars,
        poolVars, callVars, otherVars,
      Fate, QueueFate, WaitingFate, Unstarted
  <2>3. TimerFate'
    BY <1>0, <1>17, Typed, TasksAssumption
      DEF Pop, Goto, Places, HasTask, TypeOK, taskVars, countVars,
        poolVars, callVars, otherVars,
      Fate, TimerFate, WaitingFate, Unstarted
  <2>4. ASSUME NEW x \in Threads PROVE ThreadFate(x)'
    <3>1. Head(myTaskQueue) = myTaskQueue[1] /\ 1 \in 1..Len(myTaskQueue)
      BY <1>17 DEF Pop, TypeOK
    <3>2. WaitingFate(Head(myTaskQueue))
      BY <3>1 DEF Fate, QueueFate
    <3>3. CASE x = th
      BY <1>17, <3>2, <3>3 DEF Pop, Goto, TypeOK, ThreadFate, WaitingFate, taskVars, callVars
    <3>4. CASE x # th
      BY <1>17, <3>4 DEF Pop, Goto, TypeOK, Fate, ThreadFate, WaitingFate, taskVars, callVars
    <3>. QED
      BY <3>3, <3>4
  <2>. QED
    BY <2>1, <2>2, <2>3, <2>4 DEF Fate
<1>18. ASSUME NEW th \in Threads, EndDrain(th)
      PROVE Fate'
  <2>1. \A s \in Tasks : TaskFate(s)'
    BY <1>0, <1>18, Typed, TasksAssumption
      DEF EndDrain, Goto, Places, HasTask, TypeOK, taskVars, countVars,
        poolVars, callVars, otherVars,
      Fate, TaskFate, Runs, ThreadFate, Unstarted, RanOnce
  <2>2. QueueFate'
    BY <1>0, <1>18, Typed, TasksAssumption
      DEF EndDrain, Goto, Places, HasTask, TypeOK, taskVars, countVars,
        poolVars, callVars, otherVars,
      Fate, QueueFate, WaitingFate, Unstarted
  <2>3. TimerFate'
    BY <1>0, <1>18, Typed, TasksAssumption
      DEF EndDrain, Goto, Places, HasTask, TypeOK, taskVars, countVars,
        poolVars, callVars, otherVars,
      Fate, TimerFate, WaitingFate, Unstarted
  <2>4. ASSUME NEW x \in Threads PROVE ThreadFate(x)'
    BY <1>0, <1>18, Typed, TasksAssumption, ThreadsAssumption
      DEF EndDrain, Goto, Places, HasTask, TypeOK, taskVars, countVars,
        poolVars, callVars, otherVars,
      Fate, ThreadFate, TaskFate, WaitingFate, Unstarted, Runs
  <2>. QED
    BY <2>1, <2>2, <2>3, <2>4 DEF Fate
<1>19. ASSUME NEW th \in Threads, Uncount(th)
      PROVE Fate'
  <2>1. \A s \in Tasks : TaskFate(s)'
    BY <1>0, <1>19, Typed, TasksAssumption
      DEF Uncount, Goto, Places, HasTask, TypeOK, taskVars, countVars,
        poolVars, callVars, otherVars,
      Fate, TaskFate, Runs, ThreadFate, Unstarted, RanOnce
  <2>2. QueueFate'
    BY <1>0, <1>19, Typed, TasksAssumption
      DEF Uncount, Goto, Places, HasTask, TypeOK, taskVars, countVars,
        poolVars, callVars, otherVars,
      Fate, QueueFate, WaitingFate, Unstarted
  <2>3. TimerFate'
    BY <1>0, <1>19, Typed, TasksAssumption
      DEF Uncount, Goto, Places, HasTask, TypeOK, taskVars, countVars,
        poolVars, callVars, otherVars,
      Fate, TimerFate, WaitingFate, Unstarted
  <2>4. ASSUME NEW x \in Threads PROVE ThreadFate(x)'
    BY <1>0, <1>19, Typed, TasksAssumption, ThreadsAssumption
      DEF Uncount, Goto, Places, HasTask, TypeOK, taskVars, countVars,
        poolVars, callVars, otherVars,
      Fate, ThreadFate, TaskFate, WaitingFate, Unstarted, Runs
  <2>. QED
    BY <2>1, <2>2, <2>3, <2>4 DEF Fate
<1>20. ASSUME NEW th \in Threads, DropAborted(th)
      PROVE Fate'
  <2>1. \A s \in Tasks : TaskFate(s)'
    BY <1>0, <1>20, Typed, TasksAssumption
      DEF DropAborted, Goto, Places, HasTask, TypeOK, taskVars, countVars,
        poolVars, callVars, otherVars,
      Fate, TaskFate, Runs, ThreadFate, Unstarted, RanOnce
  <2>2. QueueFate'
    BY <1>0, <1>20, Typed, TasksAssumption
      DEF DropAborted, Goto, Places, HasTask, TypeOK, taskVars, countVars,
        poolVars, callVars, otherVars,
      Fate, QueueFate, WaitingFate, Unstarted
  <2>3. TimerFate'
    BY <1>0, <1>20, Typed, TasksAssumption
      DEF DropAborted, Goto, Places, HasTask, TypeOK, taskVars, countVars,
        poolVars, callVars, otherVars,
      Fate, TimerFate, WaitingFate, Unstarted
  <2>4. ASSUME NEW x \in Threads PROVE ThreadFate(x)'
    BY <1>0, <1>20, Typed, TasksAssumption, ThreadsAssumption
      DEF DropAborted, Goto, Places, HasTask, TypeOK, taskVars, countVars,
        poolVars, callVars, otherVars,
      Fate, ThreadFate, TaskFate, WaitingFate, Unstarted, Runs
  <2>. QED
    BY <2>1, <2>2, <2>3, <2>4 DEF Fate
<1>21. ASSUME NEW th \in Threads, PassCheck(th)
      PROVE Fate'
  <2>1. \A s \in Tasks : TaskFate(s)'
    BY <1>0, <1>21, Typed, TasksAssumption
      DEF PassCheck, Goto, Places, HasTask, TypeOK, taskVars, countVars,
        poolVars, callVars, otherVars,
      Fate, TaskFate, Runs, ThreadFate, Unstarted, RanOnce
  <2>2. QueueFate'
    BY <1>0, <1>21, Typed, TasksAssumption
      DEF PassCheck, Goto, Places, HasTask, TypeOK, taskVars, countVars,
        poolVars, callVars, otherVars,
      Fate, QueueFate, WaitingFate, Unstarted
  <2>3. TimerFate'
    BY <1>0, <1>21, Typed, TasksAssumption
      DEF PassCheck, Goto, Places, HasTask, TypeOK, taskVars, countVars,
        poolVars, callVars, otherVars,
      Fate, TimerFate, WaitingFate, Unstarted
  <2>4. ASSUME NEW x \in Threads PROVE ThreadFate(x)'
    BY <1>0, <1>21, Typed, TasksAssumption, ThreadsAssumption
      DEF PassCheck, Goto, Places, HasTask, TypeOK, taskVars, countVars,
        poolVars, callVars, otherVars,
      Fate, ThreadFate, TaskFate, WaitingFate, Unstarted, Runs
  <2>. QED
    BY <2>1, <2>2, <2>3, <2>4 DEF Fate
<1>22. ASSUME NEW th \in Threads, CheckInactive(th)
      PROVE Fate'
  <2>1. \A s \in Tasks : TaskFate(s)'
    BY <1>0, <1>22, Typed, TasksAssumption
      DEF CheckInactive, Goto, Places, HasTask, TypeOK, taskVars,
        countVars, poolVars, callVars, otherVars,
      Fate, TaskFate, Runs, ThreadFate, Unstarted, RanOnce
  <2>2. QueueFate'
    BY <1>0, <1>22, Typed, TasksAssumption
      DEF CheckInactive, Goto, Places, HasTask, TypeOK, taskVars,
        countVars, poolVars, callVars, otherVars,
      Fate, QueueFate, WaitingFate, Unstarted
  <2>3. TimerFate'
    BY <1>0, <1>22, Typed, TasksAssumption
      DEF CheckInactive, Goto, Places, HasTask, TypeOK, taskVars,
        countVars, poolVars, callVars, otherVars,
      Fate, TimerFate, WaitingFate, Unstarted
  <2>4. ASSUME NEW x \in Threads PROVE ThreadFate(x)'
    BY <1>0, <1>22, Typed, TasksAssumption, ThreadsAssumption
      DEF CheckInactive, Goto, Places, HasTask, TypeOK, taskVars,
        countVars, poolVars, callVars, otherVars,
      Fate, ThreadFate, TaskFate, WaitingFate, Unstarted, Runs
  <2>. QED
    BY <2>1, <2>2, <2>3, <2>4 DEF Fate
<1>23. ASSUME NEW th \in Threads, Create(th)
      PROVE Fate'
  <2>1. \A s \in Tasks : TaskFate(s)'
    BY <1>0, <1>23, Typed, TasksAssumption
      DEF Create, Goto, Places, HasTask, TypeOK, taskVars, countVars,
        poolVars, callVars, otherVars,
      Fate, TaskFate, Runs, ThreadFate, Unstarted, RanOnce
  <2>2. QueueFate'
    BY <1>0, <1>23, Typed, TasksAssumption
      DEF Create, Goto, Places, HasTask, TypeOK, taskVars, countVars,
        poolVars, callVars, otherVars,
      Fate, QueueFate, WaitingFate, Unstarted
  <2>3. TimerFate'
    BY <1>0, <1>23, Typed, TasksAssumption
      DEF Create, Goto, Places, HasTask, TypeOK, taskVars, countVars,
        poolVars, callVars, otherVars,
      Fate, TimerFate, WaitingFate, Unstarted
  <2>4. ASSUME NEW x \in Threads PROVE ThreadFate(x)'
    BY <1>0, <1>23, Typed, TasksAssumption, ThreadsAssumption
      DEF Create, Goto, Places, HasTask, TypeOK, taskVars, countVars,
        poolVars, callVars, otherVars,
      Fate, ThreadFate, TaskFate, WaitingFate, Unstarted, Runs
  <2>. QED
    BY <2>1, <2>2, <2>3, <2>4 DEF Fate
<1>24. ASSUME NEW th \in Threads, Enter(th)
      PROVE Fate'
  <2>1. \A s \in Tasks : TaskFate(s)'
    BY <1>0, <1>24, Typed, TasksAssumption
      DEF Enter, Goto, Places, HasTask, TypeOK, taskVars, countVars,
        poolVars, callVars, otherVars,
      Fate, TaskFate, Runs, ThreadFate, Unstarted, RanOnce
  <2>2. QueueFate'
    BY <1>0, <1>24, Typed, TasksAssumption
      DEF Enter, Goto, Places, HasTask, TypeOK, taskVars, countVars,
        poolVars, callVars, otherVars,
      Fate, QueueFate, WaitingFate, Unstarted
  <2>3. TimerFate'
    BY <1>0, <1>24, Typed, TasksAssumption
      DEF Enter, Goto, Places, HasTask, TypeOK, taskVars, countVars,
        poolVars, callVars, otherVars,
      Fate, TimerFate, WaitingFate, Unstarted
  <2>4. ASSUME NEW x \in Threads PROVE ThreadFate(x)'
    BY <1>0, <1>24, Typed, TasksAssumption, ThreadsAssumption
      DEF Enter, Goto, Places, HasTask, TypeOK, taskVars, countVars,
        poolVars, callVars, otherVars,
      Fate, ThreadFate, TaskFate, WaitingFate, Unstarted, Runs
  <2>. QED
    BY <2>1, <2>2, <2>3, <2>4 DEF Fate
<1>25. ASSUME NEW th \in Threads, Activate(th)
      PROVE Fate'
  <2>1. \A s \in Tasks : TaskFate(s)'
    BY <1>0, <1>25, Typed, TasksAssumption
      DEF Activate, Goto, Places, HasTask, TypeOK, taskVars, countVars,
        poolVars, callVars, otherVars,
      Fate, TaskFate, Runs, ThreadFate, Unstarted, RanOnce
  <2>2. QueueFate'
    BY <1>0, <1>25, Typed, TasksAssumption
      DEF Activate, Goto, Places, HasTask, TypeOK, taskVars, countVars,
        poolVars, callVars, otherVars,
      Fate, QueueFate, WaitingFate, Unstarted
  <2>3. TimerFate'
    BY <1>0, <1>25, Typed, TasksAssumption
      DEF Activate, Goto, Places, HasTask, TypeOK, taskVars, countVars,
        poolVars, callVars, otherVars,
      Fate, TimerFate, WaitingFate, Unstarted
  <2>4. ASSUME NEW x \in Threads PROVE ThreadFate(x)'
    BY <1>0, <1>25, Typed, TasksAssumption, ThreadsAssumption
      DEF Activate, Goto, Places, HasTask, TypeOK, taskVars, countVars,
        poolVars, callVars, otherVars,
      Fate, ThreadFate, TaskFate, WaitingFate, Unstarted, Runs
  <2>. QED
    BY <2>1, <2>2, <2>3, <2>4 DEF Fate
<1>26. ASSUME NEW th \in Threads, Requeue(th)
      PROVE Fate'
  <2>1. \A s \in Tasks : TaskFate(s)'
    BY <1>0, <1>26, Typed, TasksAssumption
      DEF Requeue, Goto, Places, HasTask, TypeOK, taskVars, countVars,
        poolVars, callVars, otherVars,
      Fate, TaskFate, Runs, ThreadFate, Unstarted, RanOnce
  <2>2. QueueFate'
    <3>1. myCurrentTask[th] \in Tasks /\ WaitingFate(myCurrentTask[th])
      BY <1>0, <1>26, TasksAssumption
      DEF Requeue, Places, HasTask, Fate, TaskFate, WaitingFate, Unstarted, Runs
    <3>2. /\ Len(myTaskQueue') = Len(myTaskQueue) + 1
          /\ \A i \in 1..Len(myTaskQueue) : myTaskQueue'[i] = myTaskQueue[i]
          /\ myTaskQueue'[Len(myTaskQueue) + 1] = myCurrentTask[th]
          /\ UNCHANGED <<status, aborted>>
      BY <1>26, <3>1 DEF Requeue, TypeOK, taskVars
    <3>3. \A i \in 1..Len(myTaskQueue') : i \in 1..Len(myTaskQueue) \/ i = Len(myTaskQueue) + 1
      BY <1>0, <3>2 DEF Places
    <3>. QED
      BY <3>1, <3>2, <3>3 DEF Fate, QueueFate, WaitingFate
  <2>3. TimerFate'
    BY <1>0, <1>26, Typed, TasksAssumption
      DEF Requeue, Goto, Places, HasTask, TypeOK, taskVars, countVars,
        poolVars, callVars, otherVars,
      Fate, TimerFate, WaitingFate, Unstarted
  <2>4. ASSUME NEW x \in Threads PROVE ThreadFate(x)'
    BY <1>0, <1>26, Typed, TasksAssumption, ThreadsAssumption
      DEF Requeue, Goto, Places, HasTask, TypeOK, taskVars, countVars,
        poolVars, callVars, otherVars,
      Fate, ThreadFate, TaskFate, WaitingFate, Unstarted, Runs
  <2>. QED
    BY <2>1, <2>2, <2>3, <2>4 DEF Fate
<1>27. ASSUME NEW th \in Threads, Recount(th)
      PROVE Fate'
  <2>1. \A s \in Tasks : TaskFate(s)'
    BY <1>0, <1>27, Typed, TasksAssumption
      DEF Recount, Goto, Places, HasTask, TypeOK, taskVars, countVars,
        poolVars, callVars, otherVars,
      Fate, TaskFate, Runs, ThreadFate, Unstarted, RanOnce
  <2>2. QueueFate'
    BY <1>0, <1>27, Typed, TasksAssumption
      DEF Recount, Goto, Places, HasTask, TypeOK, taskVars, countVars,
        poolVars, callVars, otherVars,
      Fate, QueueFate, WaitingFate, Unstarted
  <2>3. TimerFate'
    BY <1>0, <1>27, Typed, TasksAssumption
      DEF Recount, Goto, Places, HasTask, TypeOK, taskVars, countVars,
        poolVars, callVars, otherVars,
      Fate, TimerFate, WaitingFate, Unstarted
  <2>4. ASSUME NEW x \in Threads PROVE ThreadFate(x)'
    BY <1>0, <1>27, Typed, TasksAssumption, ThreadsAssumption
      DEF Recount, Goto, Places, HasTask, TypeOK, taskVars, countVars,
        poolVars, callVars, otherVars,
      Fate, ThreadFate, TaskFate, WaitingFate, Unstarted, Runs
  <2>. QED
    BY <2>1, <2>2, <2>3, <2>4 DEF Fate
<1>28. ASSUME NEW th \in Threads, Delete(th)
      PROVE Fate'
  <2>1. \A s \in Tasks : TaskFate(s)'
    BY <1>0, <1>28, Typed, TasksAssumption
      DEF Delete, Goto, Places, HasTask, TypeOK, taskVars, countVars,
        poolVars, callVars, otherVars,
      Fate, TaskFate, Runs, ThreadFate, Unstarted, RanOnce
  <2>2. QueueFate'
    BY <1>0, <1>28, Typed, TasksAssumption
      DEF Delete, Goto, Places, HasTask, TypeOK, taskVars, countVars,
        poolVars, callVars, otherVars,
      Fate, QueueFate, WaitingFate, Unstarted
  <2>3. TimerFate'
    BY <1>0, <1>28, Typed, TasksAssumption
      DEF Delete, Goto, Places, HasTask, TypeOK, taskVars, countVars,
        poolVars, callVars, otherVars,
      Fate, TimerFate, WaitingFate, Unstarted
  <2>4. ASSUME NEW x \in Threads PROVE ThreadFate(x)'
    BY <1>0, <1>28, Typed, TasksAssumption, ThreadsAssumption
      DEF Delete, Goto, Places, HasTask, TypeOK, taskVars, countVars,
        poolVars, callVars, otherVars,
      Fate, ThreadFate, TaskFate, WaitingFate, Unstarted, Runs
  <2>. QED
    BY <2>1, <2>2, <2>3, <2>4 DEF Fate
<1>29. ASSUME NEW th \in Threads, EndTask(th)
      PROVE Fate'
  <2>1. \A s \in Tasks : TaskFate(s)'
    BY <1>0, <1>29, Typed, TasksAssumption
      DEF EndTask, Goto, Places, HasTask, TypeOK, taskVars, countVars,
        poolVars, callVars, otherVars,
      Fate, TaskFate, Runs, ThreadFate, Unstarted, RanOnce
  <2>2. QueueFate'
    BY <1>0, <1>29, Typed, TasksAssumption
      DEF EndTask, Goto, Places, HasTask, TypeOK, taskVars, countVars,
        poolVars, callVars, otherVars,
      Fate, QueueFate, WaitingFate, Unstarted
  <2>3. TimerFate'
    BY <1>0, <1>29, Typed, TasksAssumption
      DEF EndTask, Goto, Places, HasTask, TypeOK, taskVars, countVars,
        poolVars, callVars, otherVars,
      Fate, TimerFate, WaitingFate, Unstarted
  <2>4. ASSUME NEW x \in Threads PROVE ThreadFate(x)'
    BY <1>0, <1>29, Typed, TasksAssumption, ThreadsAssumption
      DEF EndTask, Goto, Places, HasTask, TypeOK, taskVars, countVars,
        poolVars, callVars, otherVars,
      Fate, ThreadFate, TaskFate, WaitingFate, Unstarted, Runs
  <2>. QED
    BY <2>1, <2>2, <2>3, <2>4 DEF Fate
<1>30. ASSUME Start
      PROVE Fate'
  <2>1. \A s \in Tasks : TaskFate(s)'
    BY <1>0, <1>30, Typed, TasksAssumption
      DEF Start, Goto, Places, HasTask, TypeOK, taskVars, countVars,
        poolVars, callVars, otherVars,
      Fate, TaskFate, Runs, ThreadFate, Unstarted, RanOnce
  <2>2. QueueFate'
    BY <1>0, <1>30, Typed, TasksAssumption
      DEF Start, Goto, Places, HasTask, TypeOK, taskVars, countVars,
        poolVars, callVars, otherVars,
      Fate, QueueFate, WaitingFate, Unstarted
  <2>3. TimerFate'
    BY <1>0, <1>30, Typed, TasksAssumption
      DEF Start, Goto, Places, HasTask, TypeOK, taskVars, countVars,
        poolVars, callVars, otherVars,
      Fate, TimerFate, WaitingFate, Unstarted
  <2>4. ASSUME NEW x \in Threads PROVE ThreadFate(x)'
    BY <1>0, <1>30, Typed, TasksAssumption, ThreadsAssumption
      DEF Start, Goto, Places, HasTask, TypeOK, taskVars, countVars,
        poolVars, callVars, otherVars,
      Fate, ThreadFate, TaskFate, WaitingFate, Unstarted, Runs
  <2>. QED
    BY <2>1, <2>2, <2>3, <2>4 DEF Fate
<1>31. ASSUME TestHeld
      PROVE Fate'
  <2>1. \A s \in Tasks : TaskFate(s)'
    BY <1>0, <1>31, Typed, TasksAssumption
      DEF TestHeld, Goto, Places, HasTask, TypeOK, taskVars, countVars,
        poolVars, callVars, otherVars,
      Fate, TaskFate, Runs, ThreadFate, Unstarted, RanOnce
  <2>2. QueueFate'
    BY <1>0, <1>31, Typed, TasksAssumption
      DEF TestHeld, Goto, Places, HasTask, TypeOK, taskVars, countVars,
        poolVars, callVars, otherVars,
      Fate, QueueFate, WaitingFate, Unstarted
  <2>3. TimerFate'
    BY <1>0, <1>31, Typed, TasksAssumption
      DEF TestHeld, Goto, Places, HasTask, TypeOK, taskVars, countVars,
        poolVars, callVars, otherVars,
      Fate, TimerFate, WaitingFate, Unstarted
  <2>4. ASSUME NEW x \in Threads PROVE ThreadFate(x)'
    BY <1>0, <1>31, Typed, TasksAssumption, ThreadsAssumption
      DEF TestHeld, Goto, Places, HasTask, TypeOK, taskVars, countVars,
        poolVars, callVars, otherVars,
      Fate, ThreadFate, TaskFate, WaitingFate, Unstarted, Runs
  <2>. QED
    BY <2>1, <2>2, <2>3, <2>4 DEF Fate
<1>32. ASSUME Join
      PROVE Fate'
  <2>1. \A s \in Tasks : TaskFate(s)'
    BY <1>0, <1>32, Typed, TasksAssumption
      DEF Join, Goto, Places, HasTask, TypeOK, taskVars, countVars,
        poolVars, callVars, otherVars,
      Fate, TaskFate, Runs, ThreadFate, Unstarted, RanOnce
  <2>2. QueueFate'
    BY <1>0, <1>32, Typed, TasksAssumption
      DEF Join, Goto, Places, HasTask, TypeOK, taskVars, countVars,
        poolVars, callVars, otherVars,
      Fate, QueueFate, WaitingFate, Unstarted
  <2>3. TimerFate'
    BY <1>0, <1>32, Typed, TasksAssumption
      DEF Join, Goto, Places, HasTask, TypeOK, taskVars, countVars,
        poolVars, callVars, otherVars,
      Fate, TimerFate, WaitingFate, Unstarted
  <2>4. ASSUME NEW x \in Threads PROVE ThreadFate(x)'
    BY <1>0, <1>32, Typed, TasksAssumption, ThreadsAssumption
      DEF Join, Goto, Places, HasTask, TypeOK, taskVars, countVars,
        poolVars, callVars, otherVars,
      Fate, ThreadFate, TaskFate, WaitingFate, Unstarted, Runs
  <2>. QED
    BY <2>1, <2>2, <2>3, <2>4 DEF Fate
<1>33. ASSUME Destroy
      PROVE Fate'
  <2>1. \A s \in Tasks : TaskFate(s)'
    BY <1>0, <1>33, Typed, TasksAssumption
      DEF Destroy, Goto, Places, HasTask, TypeOK, taskVars, countVars,
        poolVars, callVars, otherVars,
      Fate, TaskFate, Runs, ThreadFate, Unstarted, RanOnce
  <2>2. QueueFate'
    BY <1>0, <1>33, Typed, TasksAssumption
      DEF Destroy, Goto, Places, HasTask, TypeOK, taskVars, countVars,
        poolVars, callVars, otherVars,
      Fate, QueueFate, WaitingFate, Unstarted
  <2>3. TimerFate'
    BY <1>0, <1>33, Typed, TasksAssumption
      DEF Destroy, Goto, Places, HasTask, TypeOK, taskVars, countVars,
        poolVars, callVars, otherVars,
      Fate, TimerFate, WaitingFate, Unstarted
  <2>4. ASSUME NEW x \in Threads PROVE ThreadFate(x)'
    BY <1>0, <1>33, Typed, TasksAssumption, ThreadsAssumption
      DEF Destroy, Goto, Places, HasTask, TypeOK, taskVars, countVars,
        poolVars, callVars, otherVars,
      Fate, ThreadFate, TaskFate, WaitingFate, Unstarted, Runs
  <2>. QED
    BY <2>1, <2>2, <2>3, <2>4 DEF Fate
<1>34. CASE UNCHANGED vars
  BY <1>34 DEF vars, taskVars, callVars, countVars, poolVars, Fate, TaskFate, QueueFate,
    TimerFate, ThreadFate, WaitingFate
<1>. QED
  BY <1>1, <1>2, <1>3, <1>4, <1>5, <1>6, <1>7, <1>8, <1>9, <1>10, <1>11, <1>11a,
    <1>12, <1>13, <1>14, <1>15, <1>16, <1>17, <1>18, <1>19, <1>20, <1>21,
    <1>22, <1>23, <1>24, <1>25, <1>26, <1>27, <1>28, <1>29, <1>30, <1>31,
    <1>32, <1>33, <1>34
  DEF Next, ThreadStep, ProgramStep, MainStep

(* No task exists at the start. *)
LEMMA FateInit == Init => Fate
  BY DEF Init, Fate, TaskFate, QueueFate, TimerFate, ThreadFate

-----------------------------------------------------------------------------
(* The abstract state of a task, by cases: that of a task some thread has  *)
(* follows from the step the thread is at, that of any other from whether  *)
(* a queue, a timer or a thread that is scheduling it holds its pointer.   *)
Phase(step, calls) ==
  IF step \in {"decr", "check"} THEN "waiting"
  ELSE IF step \in {"create", "created", "enter", "activate"}
          \/ (step = "release" /\ calls = 0) THEN "taken"
  ELSE "running"

Stored(t) ==
  \/ \E i \in 1..Len(myTaskQueue) : myTaskQueue[i] = t
  \/ timer[t] # "none"
  \/ \E x \in Threads : arg[x] = t

View ==
  /\ \A x \in Threads : HasTask(x) =>
       TaskState(myCurrentTask[x]) = Phase(pc[x], entered[myCurrentTask[x]])
  /\ \A t \in Tasks : (\A x \in Threads : myCurrentTask[x] # t) =>
       TaskState(t) = IF status[t] = "FREE" THEN "absent"
                      ELSE IF Stored(t) THEN "waiting" ELSE "dropped"

(* Ownership makes the cases exclusive, so that they define the state. *)
LEMMA ViewHolds == TypeOK /\ Control /\ Owned => View
<1>. SUFFICES ASSUME TypeOK, Control, Owned PROVE View
  OBVIOUS
<1>0. Places
  BY PlacesHold
<1>1. ASSUME NEW x \in Threads, HasTask(x)
      PROVE  TaskState(myCurrentTask[x]) = Phase(pc[x], entered[myCurrentTask[x]])
  <2>. DEFINE t == myCurrentTask[x]
  <2>0. \A steps : Owner(t, steps) <=> pc[x] \in steps
    BY <1>0, <1>1 DEF Places, Owner
  <2>1. t \in Tasks /\ Live(t) /\ ~Stored(t)
    BY <1>0, <1>1, TasksAssumption DEF Places, Live, Stored
  <2>2. Waiting(t) <=> pc[x] \in {"decr", "check"}
    BY <2>0, <2>1 DEF Waiting, Stored
  <2>3. Taken(t) <=> \/ pc[x] \in {"create", "created", "enter", "activate"}
                     \/ pc[x] = "release" /\ entered[t] = 0
    BY <2>0 DEF Taken
  <2>4. InHandler(t) <=> \/ pc[x] \in {"body", "push", "balance", "add", "register"}
                         \/ pc[x] = "release" /\ entered[t] > 0
    BY <2>0 DEF InHandler
  <2>5. entered[t] \in Nat
    BY <2>1, Typed
  <2>. HIDE DEF t
  <2>. QED
    BY <1>1, <2>1, <2>2, <2>3, <2>4, <2>5 DEF TaskState, Phase, HasTask, t
<1>2. ASSUME NEW t \in Tasks, \A x \in Threads : myCurrentTask[x] # t
      PROVE  TaskState(t) = IF status[t] = "FREE" THEN "absent"
                            ELSE IF Stored(t) THEN "waiting" ELSE "dropped"
  <2>1. \A steps : ~Owner(t, steps)
    BY <1>2 DEF Owner
  <2>2. Waiting(t) <=> Stored(t)
    BY <2>1 DEF Waiting, Stored
  <2>3. ~Taken(t) /\ ~InHandler(t)
    BY <2>1 DEF Taken, InHandler
  <2>4. CASE status[t] = "FREE"
    <3>1. ~Stored(t)
      BY <1>0, <2>4, TasksAssumption DEF Places, Stored
    <3>2. ~Live(t) /\ ~Waiting(t)
      BY <2>2, <2>4, <3>1 DEF Live
    <3>3. TaskState(t) = "absent"
      BY <2>3, <3>2 DEF TaskState
    <3>. QED
      BY <2>4, <3>3
  <2>5. CASE status[t] # "FREE" /\ Stored(t)
    <3>1. Live(t) /\ Waiting(t)
      BY <2>2, <2>5 DEF Live
    <3>2. TaskState(t) = "waiting"
      BY <2>3, <3>1 DEF TaskState
    <3>. QED
      BY <2>5, <3>2
  <2>6. CASE status[t] # "FREE" /\ ~Stored(t)
    <3>1. Live(t) /\ ~Waiting(t)
      BY <2>2, <2>6 DEF Live
    <3>2. TaskState(t) = "dropped"
      BY <2>3, <3>1 DEF TaskState
    <3>. QED
      BY <2>6, <3>2
  <2>. QED
    BY <2>4, <2>5, <2>6
<1>. QED
  BY <1>1, <1>2 DEF View

(* A step that moves no pointer to a task and no thread that has it from   *)
(* one phase to another leaves its abstract state alone.                   *)
Undisturbed(u) ==
  /\ \A x \in Threads : myCurrentTask'[x] = u <=> myCurrentTask[x] = u
  /\ \A x \in Threads : myCurrentTask[x] = u =>
       Phase(pc'[x], entered'[u]) = Phase(pc[x], entered[u])
  /\ status'[u] = "FREE" <=> status[u] = "FREE"
  /\ Stored(u)' <=> Stored(u)

(* Proof: by whether a thread has the task, from View before and after. *)
LEMMA Stays ==
  ASSUME Control, Control', View, View', NEW u \in Tasks, Undisturbed(u)
  PROVE  TaskState(u)' = TaskState(u)
<1>1. CASE \E x \in Threads : myCurrentTask[x] = u
  <2>1. PICK x \in Threads : myCurrentTask[x] = u
    BY <1>1
  <2>2. myCurrentTask'[x] = u
    BY <2>1 DEF Undisturbed
  <2>3. HasTask(x) /\ HasTask(x)'
    BY <2>1, <2>2, TasksAssumption DEF Control
  <2>4. TaskState(u) = Phase(pc[x], entered[u])
    BY <2>1, <2>3 DEF View
  <2>5. TaskState(u)' = Phase(pc'[x], entered'[u])
    BY <2>2, <2>3 DEF View
  <2>. QED
    BY <2>1, <2>4, <2>5 DEF Undisturbed
<1>2. CASE \A x \in Threads : myCurrentTask[x] # u
  <2>1. \A x \in Threads : myCurrentTask'[x] # u
    BY <1>2 DEF Undisturbed
  <2>2. TaskState(u) = IF status[u] = "FREE" THEN "absent"
                       ELSE IF Stored(u) THEN "waiting" ELSE "dropped"
    BY <1>2 DEF View
  <2>3. TaskState(u)' = IF status'[u] = "FREE" THEN "absent"
                        ELSE IF Stored(u)' THEN "waiting" ELSE "dropped"
    BY <2>1 DEF View
  <2>. QED
    BY <2>2, <2>3 DEF Undisturbed
<1>. QED
  BY <1>1, <1>2

(* What a step looks like in the task pool. *)
Closed == pc[Main] \in {"join", "destroy", "exited"}

SameRevoked == \A u \in Tasks : aborted'[u] # "no" <=> aborted[u] # "no"

Passes(t, from, to) ==
  /\ TaskState(t) = from
  /\ TaskState(t)' = to
  /\ \A u \in Tasks \ {t} : TaskState(u)' = TaskState(u)
  /\ Closed' <=> Closed

Invisible ==
  /\ \A u \in Tasks : TaskState(u)' = TaskState(u)
  /\ SameRevoked
  /\ Closed' <=> Closed

PoolVars == <<[t \in Tasks |-> TaskState(t)], {t \in Tasks : aborted[t] # "no"},
              pc[Main] \in {"join", "destroy", "exited"}>>

(* A move of one task's abstract state is the pool's Move. *)
LEMMA MovesIsMove ==
  ASSUME NEW t \in Tasks, NEW from, NEW to, Passes(t, from, to)
  PROVE  TP!Move(t, from, to)
<1>1. [u \in Tasks |-> TaskState(u)]' = [[u \in Tasks |-> TaskState(u)] EXCEPT ![t] = to]
  BY DEF Passes
<1>2. (pc[Main] \in {"join", "destroy", "exited"})' = (pc[Main] \in {"join", "destroy", "exited"})
  BY DEF Passes, Closed
<1>. QED
  BY <1>1, <1>2 DEF TP!Move, Passes

(* A step that no abstract variable shows is a stutter of the pool. *)
LEMMA InvisibleIsStutter == Invisible => UNCHANGED PoolVars
<1>. SUFFICES ASSUME Invisible PROVE UNCHANGED PoolVars
  OBVIOUS
<1>1. [u \in Tasks |-> TaskState(u)]' = [u \in Tasks |-> TaskState(u)]
  BY DEF Invisible
<1>2. {t \in Tasks : aborted[t] # "no"}' = {t \in Tasks : aborted[t] # "no"}
  BY DEF Invisible, SameRevoked
<1>3. (pc[Main] \in {"join", "destroy", "exited"})' = (pc[Main] \in {"join", "destroy", "exited"})
  BY DEF Invisible, Closed
<1>. QED
  BY <1>1, <1>2, <1>3 DEF PoolVars

(* A step that aborts nobody leaves the set of revoked tasks alone. *)
LEMMA SameRevokedSet ==
  ASSUME SameRevoked
  PROVE  {t \in Tasks : aborted[t] # "no"}' = {t \in Tasks : aborted[t] # "no"}
  BY DEF SameRevoked

(* What appending to the queue does to the set of its elements. *)
LEMMA Appended ==
  ASSUME NEW S, NEW q \in Seq(S), NEW e \in S, NEW r, r = Append(q, e), NEW u
  PROVE  (\E i \in 1..Len(r) : r[i] = u) <=> (\E i \in 1..Len(q) : q[i] = u) \/ u = e
<1>1. /\ Len(q) \in Nat
      /\ Len(r) = Len(q) + 1
      /\ \A i \in 1..Len(q) : r[i] = q[i]
      /\ r[Len(q) + 1] = e
  OBVIOUS
<1>2. 1..(Len(q) + 1) = 1..Len(q) \cup {Len(q) + 1}
  BY <1>1
<1>. QED
  BY <1>1, <1>2

(* What taking the first element off the queue does to that set. *)
LEMMA Popped ==
  ASSUME NEW S, NEW q \in Seq(S), q # << >>, NEW r, r = Tail(q), NEW u
  PROVE  (\E i \in 1..Len(q) : q[i] = u) <=>
           (\E i \in 1..Len(r) : r[i] = u) \/ u = Head(q)
<1>1. /\ Len(q) \in Nat \ {0}
      /\ Len(r) = Len(q) - 1
      /\ \A i \in 1..Len(r) : r[i] = q[i + 1]
      /\ Head(q) = q[1]
  OBVIOUS
<1>2. ASSUME NEW i \in 1..Len(q), q[i] = u, i # 1
      PROVE  i - 1 \in 1..Len(r) /\ r[i - 1] = u
  BY <1>1, <1>2
<1>3. ASSUME NEW i \in 1..Len(r), r[i] = u
      PROVE  i + 1 \in 1..Len(q) /\ q[i + 1] = u
  BY <1>1, <1>3
<1>4. 1 \in 1..Len(q)
  BY <1>1
<1>. QED
  BY <1>1, <1>2, <1>3, <1>4

(* Every step of the scheduler is a step of the task pool or invisible in  *)
(* it.                                                                     *)
LEMMA PoolStep ==
  ASSUME TypeOK, Control, Owned, HoldAccounting, Runs, Fate, View, Control', View', [Next]_vars
  PROVE  [TP!Next]_PoolVars
<1>0. Places
  BY PlacesHold
<1>1. ASSUME NEW th \in Threads, NEW t \in Tasks, ScheduleTask(th, t)
      PROVE  TP!Next \/ UNCHANGED PoolVars
  <2>1. /\ status[t] = "FREE" /\ status' = [status EXCEPT ![t] = "INACTIVE"]
        /\ entered' = [entered EXCEPT ![t] = 0] /\ aborted' = [aborted EXCEPT ![t] = "no"]
        /\ UNCHANGED <<myCurrentTask, myTaskQueue>> /\ pc[th] \in {"eval", "body"}
    BY <1>1 DEF ScheduleTask, NewTask, InProgram
  <2>2. (\A x \in Threads : myCurrentTask[x] # t) /\ ~Stored(t)
    BY <1>0, <2>1, TasksAssumption DEF Places, HasTask, Stored
  <2>3. Stored(t)'
    BY <1>1 DEF ScheduleTask, CountTask, TypeOK, Stored
  <2>4. TaskState(t) = "absent"
    BY <2>1, <2>2 DEF View
  <2>5. TaskState(t)' = "waiting"
    BY <2>1, <2>2, <2>3 DEF View, TypeOK
  <2>6. ASSUME NEW u \in Tasks \ {t} PROVE Undisturbed(u)
    <3>1. Stored(u)' <=> Stored(u)
      BY <1>0, <1>1, TasksAssumption DEF ScheduleTask, CountTask, InProgram, TypeOK, Stored, Places,
        callVars
    <3>2. \A x \in Threads : myCurrentTask[x] = u => 
                                            \/ pc'[x] = pc[x]
                                            \/ pc[x] = "body" /\ pc'[x] = "push"
      <4>1. myCurrentTask[th] = u => pc[th] = "body"
        BY <1>0, <2>1, TasksAssumption DEF Places, HasTask
      <4>. QED
        BY <1>1, <2>1, <4>1 DEF ScheduleTask, CountTask, Goto, TypeOK
    <3>. QED
      BY <2>1, <3>1, <3>2 DEF Undisturbed, TypeOK, Phase
  <2>7. Closed' <=> Closed
    BY <1>1, ThreadsAssumption DEF ScheduleTask, CountTask, InProgram, Goto, TypeOK, Closed, Control, Threads
  <2>8. Passes(t, "absent", "waiting")
    BY <2>4, <2>5, <2>6, <2>7, Stays DEF Passes
  <2>9. Closed => \E s \in Tasks : TaskState(s) = "running"
    <3>1. SUFFICES ASSUME Closed PROVE \E s \in Tasks : TaskState(s) = "running"
      OBVIOUS
    <3>2. pc[th] = "body"
      BY <2>1, <3>1, ThreadsAssumption DEF Closed, Control, Threads
    <3>3. HasTask(th) /\ myCurrentTask[th] \in Tasks
      BY <1>0, <3>2 DEF HasTask, Places
    <3>4. TaskState(myCurrentTask[th]) = "running"
      BY <3>2, <3>3 DEF View, Phase
    <3>. QED
      BY <3>3, <3>4
  <2>10. {u \in Tasks : aborted[u] # "no"}' = {u \in Tasks : aborted[u] # "no"} \ {t}
    BY <2>1 DEF TypeOK
  <2>11. TP!Submit(t)
    BY <2>8, <2>9, <2>10, MovesIsMove DEF TP!Submit, Closed
  <2>. QED
    BY <2>11 DEF TP!Next
<1>2. ASSUME NEW th \in Threads, NEW t \in Tasks, SetTimeout(th, t)
      PROVE  TP!Next \/ UNCHANGED PoolVars
  <2>1. /\ status[t] = "FREE" /\ status' = [status EXCEPT ![t] = "INACTIVE"]
        /\ entered' = [entered EXCEPT ![t] = 0] /\ aborted' = [aborted EXCEPT ![t] = "no"]
        /\ UNCHANGED <<myCurrentTask, myTaskQueue>> /\ pc[th] \in {"eval", "body"}
    BY <1>2 DEF SetTimeout, NewTask, InProgram
  <2>2. (\A x \in Threads : myCurrentTask[x] # t) /\ ~Stored(t)
    BY <1>0, <2>1, TasksAssumption DEF Places, HasTask, Stored
  <2>3. Stored(t)'
    BY <1>2 DEF SetTimeout, CountTask, TypeOK, Stored
  <2>4. TaskState(t) = "absent"
    BY <2>1, <2>2 DEF View
  <2>5. TaskState(t)' = "waiting"
    BY <2>1, <2>2, <2>3 DEF View, TypeOK
  <2>6. ASSUME NEW u \in Tasks \ {t} PROVE Undisturbed(u)
    <3>1. Stored(u)' <=> Stored(u)
      BY <1>0, <1>2, TasksAssumption DEF SetTimeout, CountTask, InProgram, TypeOK, Stored, Places,
        callVars
    <3>2. \A x \in Threads : myCurrentTask[x] = u => 
                                            \/ pc'[x] = pc[x]
                                            \/ pc[x] = "body" /\ pc'[x] = "push"
      <4>1. myCurrentTask[th] = u => pc[th] = "body"
        BY <1>0, <2>1, TasksAssumption DEF Places, HasTask
      <4>. QED
        BY <1>2, <2>1, <4>1 DEF SetTimeout, CountTask, Goto, TypeOK
    <3>. QED
      BY <2>1, <3>1, <3>2 DEF Undisturbed, TypeOK, Phase
  <2>7. Closed' <=> Closed
    BY <1>2, ThreadsAssumption DEF SetTimeout, CountTask, InProgram, Goto, TypeOK, Closed, Control, Threads
  <2>8. Passes(t, "absent", "waiting")
    BY <2>4, <2>5, <2>6, <2>7, Stays DEF Passes
  <2>9. Closed => \E s \in Tasks : TaskState(s) = "running"
    <3>1. SUFFICES ASSUME Closed PROVE \E s \in Tasks : TaskState(s) = "running"
      OBVIOUS
    <3>2. pc[th] = "body"
      BY <2>1, <3>1, ThreadsAssumption DEF Closed, Control, Threads
    <3>3. HasTask(th) /\ myCurrentTask[th] \in Tasks
      BY <1>0, <3>2 DEF HasTask, Places
    <3>4. TaskState(myCurrentTask[th]) = "running"
      BY <3>2, <3>3 DEF View, Phase
    <3>. QED
      BY <3>3, <3>4
  <2>10. {u \in Tasks : aborted[u] # "no"}' = {u \in Tasks : aborted[u] # "no"} \ {t}
    BY <2>1 DEF TypeOK
  <2>11. TP!Submit(t)
    BY <2>8, <2>9, <2>10, MovesIsMove DEF TP!Submit, Closed
  <2>. QED
    BY <2>11 DEF TP!Next
<1>3. ASSUME NEW th \in Threads, NEW id \in DOMAIN globalTimeouts, ClearTimeout(th, id)
      PROVE  TP!Next \/ UNCHANGED PoolVars
  <2>0. PICK t \in Tasks : t = globalTimeouts[id]
    BY <1>3, Typed
  <2>1. \A u \in Tasks : TaskState(u)' = TaskState(u)
    <3>1. ASSUME NEW u \in Tasks PROVE Undisturbed(u)
      BY <1>3, <2>0 DEF ClearTimeout, TypeOK, Undisturbed, Stored, callVars
    <3>. QED
      BY <3>1, Stays
  <2>2. Closed' <=> Closed
    BY <1>3 DEF ClearTimeout, Closed
  <2>3. CASE status[t] = "FREE"
    <3>1. SameRevoked
      BY <1>3, <2>0, <2>3 DEF ClearTimeout, SameRevoked
    <3>. QED
      BY <2>1, <2>2, <3>1, InvisibleIsStutter DEF Invisible
  <2>4. CASE status[t] # "FREE"
    <3>1. TaskState(t) # "absent"
      <4>1. CASE \E x \in Threads : myCurrentTask[x] = t
        <5>1. PICK x \in Threads : myCurrentTask[x] = t
          BY <4>1
        <5>2. HasTask(x)
          BY <1>0, <2>0, <5>1, TasksAssumption DEF Places
        <5>. QED
          BY <5>1, <5>2 DEF View, Phase
      <4>2. CASE \A x \in Threads : myCurrentTask[x] # t
        BY <2>0, <2>4, <4>2 DEF View
      <4>. QED
        BY <4>1, <4>2
    <3>2. {u \in Tasks : aborted[u] # "no"}' = {u \in Tasks : aborted[u] # "no"} \cup {t}
      BY <1>3, <2>0, <2>4 DEF ClearTimeout, TypeOK
    <3>3. [u \in Tasks |-> TaskState(u)]' = [u \in Tasks |-> TaskState(u)]
      BY <2>1
    <3>4. [u \in Tasks |-> TaskState(u)][t] # "absent"
      BY <2>0, <3>1
    <3>5. (pc[Main] \in {"join", "destroy", "exited"})' = (pc[Main] \in {"join", "destroy", "exited"})
      BY <2>2 DEF Closed
    <3>6. TP!Revoke(t)
      BY <3>2, <3>3, <3>4, <3>5 DEF TP!Revoke
    <3>. QED
      BY <2>0, <3>6 DEF TP!Next
  <2>. QED
    BY <2>3, <2>4
<1>4. ASSUME NEW th \in Threads, Yield(th)
      PROVE  UNCHANGED PoolVars
  <2>1. ASSUME NEW u \in Tasks PROVE Undisturbed(u)
    <3>1. Phase(pc'[th], entered'[myCurrentTask[th]]) = Phase(pc[th], entered[myCurrentTask[th]])
      BY <1>0, <1>4, Typed DEF Yield, Goto, TypeOK, Fate, ThreadFate, Phase, Places, HasTask
    <3>. QED
      BY <1>0, <1>4, <3>1, TasksAssumption
      DEF Yield, Goto, TypeOK, Undisturbed, Stored, Places, HasTask, callVars
  <2>2. SameRevoked
    BY <1>4 DEF Yield, SameRevoked, taskVars, otherVars
  <2>3. Closed' <=> Closed
    BY <1>4, Typed, ThreadsAssumption
      DEF Yield, Goto, TypeOK, taskVars, countVars, poolVars, callVars,
        otherVars, Closed, Control, Threads
  <2>. QED
    BY <2>1, <2>2, <2>3, Stays, InvisibleIsStutter DEF Invisible
<1>5. ASSUME NEW th \in Threads, Finish(th)
      PROVE  UNCHANGED PoolVars
  <2>1. ASSUME NEW u \in Tasks PROVE Undisturbed(u)
    <3>1. Phase(pc'[th], entered'[myCurrentTask[th]]) = Phase(pc[th], entered[myCurrentTask[th]])
      BY <1>0, <1>5, Typed DEF Finish, Goto, TypeOK, Fate, ThreadFate, Phase, Places, HasTask
    <3>. QED
      BY <1>0, <1>5, <3>1, TasksAssumption
      DEF Finish, Goto, TypeOK, Undisturbed, Stored, Places, HasTask, callVars
  <2>2. SameRevoked
    BY <1>5 DEF Finish, SameRevoked, taskVars, otherVars
  <2>3. Closed' <=> Closed
    BY <1>5, Typed, ThreadsAssumption
      DEF Finish, Goto, TypeOK, taskVars, countVars, poolVars, callVars,
        otherVars, Closed, Control, Threads
  <2>. QED
    BY <2>1, <2>2, <2>3, Stays, InvisibleIsStutter DEF Invisible
<1>6. ASSUME NEW th \in Threads, Pause(th)
      PROVE  UNCHANGED PoolVars
  <2>1. ASSUME NEW u \in Tasks PROVE Undisturbed(u)
    BY <1>0, <1>6, Typed, TasksAssumption
      DEF Pause, Goto, TypeOK, taskVars, countVars, poolVars, callVars,
        otherVars, Undisturbed, Phase, Stored, Places, HasTask
  <2>2. SameRevoked
    BY <1>6 DEF Pause, SameRevoked, taskVars, otherVars
  <2>3. Closed' <=> Closed
    BY <1>6, Typed, ThreadsAssumption
      DEF Pause, Goto, TypeOK, taskVars, countVars, poolVars, callVars,
        otherVars, Closed, Control, Threads
  <2>. QED
    BY <2>1, <2>2, <2>3, Stays, InvisibleIsStutter DEF Invisible
<1>7. ASSUME NEW th \in Threads, Resume(th)
      PROVE  UNCHANGED PoolVars
  <2>1. ASSUME NEW u \in Tasks PROVE Undisturbed(u)
    BY <1>0, <1>7, Typed, TasksAssumption
      DEF Resume, Goto, TypeOK, taskVars, countVars, poolVars, callVars,
        otherVars, Undisturbed, Phase, Stored, Places, HasTask
  <2>2. SameRevoked
    BY <1>7 DEF Resume, SameRevoked, taskVars, otherVars
  <2>3. Closed' <=> Closed
    BY <1>7, Typed, ThreadsAssumption
      DEF Resume, Goto, TypeOK, taskVars, countVars, poolVars, callVars,
        otherVars, Closed, Control, Threads
  <2>. QED
    BY <2>1, <2>2, <2>3, Stays, InvisibleIsStutter DEF Invisible
<1>8. ASSUME NEW t \in Tasks, Expire(t)
      PROVE  UNCHANGED PoolVars
  <2>1. ASSUME NEW u \in Tasks PROVE Undisturbed(u)
    BY <1>0, <1>8, Typed, TasksAssumption
      DEF Expire, Goto, TypeOK, taskVars, countVars, poolVars, callVars,
        otherVars, Undisturbed, Phase, Stored, Places, HasTask
  <2>2. SameRevoked
    BY <1>8 DEF Expire, SameRevoked, taskVars, otherVars
  <2>3. Closed' <=> Closed
    BY <1>8, Typed, ThreadsAssumption
      DEF Expire, Goto, TypeOK, taskVars, countVars, poolVars, callVars,
        otherVars, Closed, Control, Threads
  <2>. QED
    BY <2>1, <2>2, <2>3, Stays, InvisibleIsStutter DEF Invisible
<1>9. ASSUME NEW th \in Threads, Push(th)
      PROVE  UNCHANGED PoolVars
  <2>1. ASSUME NEW u \in Tasks PROVE Undisturbed(u)
    <3>1. Stored(u)' <=> Stored(u)
      <4>1. arg[th] \in Tasks
        BY <1>0, <1>9 DEF Push, Places
      <4>2. (\E i \in 1..Len(myTaskQueue') : myTaskQueue'[i] = u) <=>
              (\E i \in 1..Len(myTaskQueue) : myTaskQueue[i] = u) \/ u = arg[th]
        <5>1. myTaskQueue \in Seq(Tasks) /\ myTaskQueue' = Append(myTaskQueue, arg[th])
          BY <1>9 DEF Push, TypeOK
        <5>. QED
          BY <4>1, <5>1, Appended
      <4>3. (\E x \in Threads : arg[x] = u) <=> (\E x \in Threads : arg'[x] = u) \/ u = arg[th]
        BY <1>9, TasksAssumption DEF Push, TypeOK
      <4>4. timer' = timer
        BY <1>9 DEF Push, taskVars
      <4>. QED
        BY <4>2, <4>3, <4>4 DEF Stored
    <3>. QED
      BY <1>0, <1>9, <3>1, TasksAssumption DEF Push, Goto, TypeOK, Undisturbed, Phase, Places,
        HasTask, taskVars
  <2>2. SameRevoked
    BY <1>9 DEF Push, SameRevoked, taskVars, otherVars
  <2>3. Closed' <=> Closed
    BY <1>9, Typed, ThreadsAssumption
      DEF Push, Goto, TypeOK, taskVars, countVars, poolVars, callVars,
        otherVars, Closed, Control, Threads
  <2>. QED
    BY <2>1, <2>2, <2>3, Stays, InvisibleIsStutter DEF Invisible
<1>10. ASSUME NEW th \in Threads, Balance(th)
      PROVE  UNCHANGED PoolVars
  <2>1. ASSUME NEW u \in Tasks PROVE Undisturbed(u)
    BY <1>0, <1>10, Typed, TasksAssumption
      DEF Balance, Goto, TypeOK, taskVars, countVars, poolVars, callVars,
        otherVars, Undisturbed, Phase, Stored, Places, HasTask
  <2>2. SameRevoked
    BY <1>10 DEF Balance, SameRevoked, taskVars, otherVars
  <2>3. Closed' <=> Closed
    BY <1>10, Typed, ThreadsAssumption
      DEF Balance, Goto, TypeOK, taskVars, countVars, poolVars, callVars,
        otherVars, Closed, Control, Threads
  <2>. QED
    BY <2>1, <2>2, <2>3, Stays, InvisibleIsStutter DEF Invisible
<1>11. ASSUME NEW th \in Threads, NEW p \in Pool, StartThread(th, p)
      PROVE  UNCHANGED PoolVars
  <2>1. ASSUME NEW u \in Tasks PROVE Undisturbed(u)
    BY <1>0, <1>11, Typed, TasksAssumption
      DEF StartThread, Goto, TypeOK, taskVars, countVars, poolVars, callVars,
        otherVars, Undisturbed, Phase, Stored, Places, HasTask
  <2>2. SameRevoked
    BY <1>11 DEF StartThread, SameRevoked, taskVars, otherVars
  <2>3. Closed' <=> Closed
    BY <1>11, Typed, ThreadsAssumption
      DEF StartThread, Goto, TypeOK, taskVars, countVars, poolVars, callVars,
        otherVars, Closed, Control, Threads
  <2>. QED
    BY <2>1, <2>2, <2>3, Stays, InvisibleIsStutter DEF Invisible
<1>11a. ASSUME NEW th \in Threads, RegisterThread(th)
      PROVE  UNCHANGED PoolVars
  <2>1. ASSUME NEW u \in Tasks PROVE Undisturbed(u)
    BY <1>0, <1>11a, Typed, TasksAssumption
      DEF RegisterThread, Goto, TypeOK, taskVars, countVars, poolVars, callVars,
        otherVars, Undisturbed, Phase, Stored, Places, HasTask
  <2>2. SameRevoked
    BY <1>11a DEF RegisterThread, SameRevoked, taskVars, otherVars
  <2>3. Closed' <=> Closed
    BY <1>11a, Typed, ThreadsAssumption
      DEF RegisterThread, Goto, TypeOK, taskVars, countVars, poolVars, callVars,
        otherVars, Closed, Control, Threads
  <2>. QED
    BY <2>1, <2>2, <2>3, Stays, InvisibleIsStutter DEF Invisible
<1>12. ASSUME NEW th \in Threads, EnterDispatcher(th)
      PROVE  UNCHANGED PoolVars
  <2>1. ASSUME NEW u \in Tasks PROVE Undisturbed(u)
    BY <1>0, <1>12, Typed, TasksAssumption
      DEF EnterDispatcher, Goto, TypeOK, taskVars, countVars, poolVars,
        callVars, otherVars, Undisturbed, Phase, Stored, Places, HasTask
  <2>2. SameRevoked
    BY <1>12 DEF EnterDispatcher, SameRevoked, taskVars, otherVars
  <2>3. Closed' <=> Closed
    BY <1>12, Typed, ThreadsAssumption
      DEF EnterDispatcher, Goto, TypeOK, taskVars, countVars, poolVars,
        callVars, otherVars, Closed, Control, Threads
  <2>. QED
    BY <2>1, <2>2, <2>3, Stays, InvisibleIsStutter DEF Invisible
<1>13. ASSUME NEW th \in Threads, NEW t \in Tasks, PollTimer(th, t)
      PROVE  UNCHANGED PoolVars
  <2>1. ASSUME NEW u \in Tasks PROVE Undisturbed(u)
    BY <1>0, <1>13, Typed, TasksAssumption
      DEF PollTimer, CountTask, Goto, TypeOK, taskVars, countVars,
        poolVars, callVars, otherVars, Undisturbed, Phase, Stored, Places,
        HasTask
  <2>2. SameRevoked
    BY <1>13 DEF PollTimer, SameRevoked, taskVars, otherVars
  <2>3. Closed' <=> Closed
    BY <1>13, Typed, ThreadsAssumption
      DEF PollTimer, CountTask, Goto, TypeOK, taskVars, countVars,
        poolVars, callVars, otherVars, Closed, Control, Threads
  <2>. QED
    BY <2>1, <2>2, <2>3, Stays, InvisibleIsStutter DEF Invisible
<1>14. ASSUME NEW th \in Threads, PollNothing(th)
      PROVE  UNCHANGED PoolVars
  <2>1. ASSUME NEW u \in Tasks PROVE Undisturbed(u)
    BY <1>0, <1>14, Typed, TasksAssumption
      DEF PollNothing, Goto, TypeOK, taskVars, countVars, poolVars,
        callVars, otherVars, Undisturbed, Phase, Stored, Places, HasTask
  <2>2. SameRevoked
    BY <1>14 DEF PollNothing, SameRevoked, taskVars, otherVars
  <2>3. Closed' <=> Closed
    BY <1>14, Typed, ThreadsAssumption
      DEF PollNothing, Goto, TypeOK, taskVars, countVars, poolVars,
        callVars, otherVars, Closed, Control, Threads
  <2>. QED
    BY <2>1, <2>2, <2>3, Stays, InvisibleIsStutter DEF Invisible
<1>15. ASSUME NEW th \in Threads, TestQueued(th)
      PROVE  UNCHANGED PoolVars
  <2>1. ASSUME NEW u \in Tasks PROVE Undisturbed(u)
    BY <1>0, <1>15, Typed, TasksAssumption
      DEF TestQueued, Goto, TypeOK, taskVars, countVars, poolVars,
        callVars, otherVars, Undisturbed, Phase, Stored, Places, HasTask
  <2>2. SameRevoked
    BY <1>15 DEF TestQueued, SameRevoked, taskVars, otherVars
  <2>3. Closed' <=> Closed
    BY <1>15, Typed, ThreadsAssumption
      DEF TestQueued, Goto, TypeOK, taskVars, countVars, poolVars,
        callVars, otherVars, Closed, Control, Threads
  <2>. QED
    BY <2>1, <2>2, <2>3, Stays, InvisibleIsStutter DEF Invisible
<1>16. ASSUME NEW th \in Threads, TestStopped(th)
      PROVE  UNCHANGED PoolVars
  <2>1. ASSUME NEW u \in Tasks PROVE Undisturbed(u)
    BY <1>0, <1>16, Typed, TasksAssumption
      DEF TestStopped, Goto, TypeOK, taskVars, countVars, poolVars,
        callVars, otherVars, Undisturbed, Phase, Stored, Places, HasTask
  <2>2. SameRevoked
    BY <1>16 DEF TestStopped, SameRevoked, taskVars, otherVars
  <2>3. Closed' <=> Closed
    BY <1>16, Typed, ThreadsAssumption
      DEF TestStopped, Goto, TypeOK, taskVars, countVars, poolVars,
        callVars, otherVars, Closed, Control, Threads
  <2>. QED
    BY <2>1, <2>2, <2>3, Stays, InvisibleIsStutter DEF Invisible
<1>17. ASSUME NEW th \in Threads, Pop(th)
      PROVE  UNCHANGED PoolVars
  <2>1. \A u \in Tasks : TaskState(u)' = TaskState(u)
    <3>1. PICK t \in Tasks : t = Head(myTaskQueue) /\ t = myTaskQueue[1] /\ 1 \in 1..Len(myTaskQueue)
      BY <1>17 DEF Pop, TypeOK
    <3>2. /\ t \in Tasks /\ status[t] # "FREE"
          /\ \A x \in Threads : myCurrentTask[x] # t
          /\ Stored(t)
      BY <1>0, <3>1 DEF Places, Stored
    <3>3. TaskState(t) = "waiting"
      BY <3>2 DEF View
    <3>4. HasTask(th)' /\ pc'[th] = "decr" /\ myCurrentTask'[th] = t
      BY <1>17, <3>1 DEF Pop, Goto, TypeOK, HasTask
    <3>5. TaskState(t)' = "waiting"
      BY <3>4 DEF View, Phase
    <3>6. ASSUME NEW u \in Tasks \ {t} PROVE Undisturbed(u)
      <4>1. Stored(u)' <=> Stored(u)
        <5>1. (\E i \in 1..Len(myTaskQueue) : myTaskQueue[i] = u) <=>
                (\E i \in 1..Len(myTaskQueue') : myTaskQueue'[i] = u)
          <6>1. /\ myTaskQueue \in Seq(Tasks) /\ myTaskQueue # << >>
                /\ myTaskQueue' = Tail(myTaskQueue) /\ u # Head(myTaskQueue)
            BY <1>17, <3>1 DEF Pop, TypeOK
          <6>. QED
            BY <6>1, Popped
        <5>. QED
          BY <1>17, <5>1 DEF Pop, Stored, taskVars, callVars
      <4>2. myCurrentTask[th] = NoTask
        BY <1>0, <1>17 DEF Pop, Places, HasTask
      <4>3. /\ \A x \in Threads : myCurrentTask[x] = u \/ myCurrentTask'[x] = u => x # th
            /\ \A x \in Threads : x # th => myCurrentTask'[x] = myCurrentTask[x] /\ pc'[x] = pc[x]
            /\ UNCHANGED <<status, entered>>
        BY <1>17, <3>4, <4>2, TasksAssumption DEF Pop, Goto, TypeOK, taskVars
      <4>. QED
        BY <4>1, <4>3 DEF Undisturbed
    <3>. QED
      BY <3>3, <3>5, <3>6, Stays
  <2>2. SameRevoked
    BY <1>17 DEF Pop, SameRevoked, taskVars, otherVars
  <2>3. Closed' <=> Closed
    BY <1>17, Typed, ThreadsAssumption
      DEF Pop, Goto, TypeOK, taskVars, countVars, poolVars, callVars,
        otherVars, Closed, Control, Threads
  <2>. QED
    BY <2>1, <2>2, <2>3, Stays, InvisibleIsStutter DEF Invisible
<1>18. ASSUME NEW th \in Threads, EndDrain(th)
      PROVE  UNCHANGED PoolVars
  <2>1. ASSUME NEW u \in Tasks PROVE Undisturbed(u)
    BY <1>0, <1>18, Typed, TasksAssumption
      DEF EndDrain, Goto, TypeOK, taskVars, countVars, poolVars, callVars,
        otherVars, Undisturbed, Phase, Stored, Places, HasTask
  <2>2. SameRevoked
    BY <1>18 DEF EndDrain, SameRevoked, taskVars, otherVars
  <2>3. Closed' <=> Closed
    BY <1>18, Typed, ThreadsAssumption
      DEF EndDrain, Goto, TypeOK, taskVars, countVars, poolVars, callVars,
        otherVars, Closed, Control, Threads
  <2>. QED
    BY <2>1, <2>2, <2>3, Stays, InvisibleIsStutter DEF Invisible
<1>19. ASSUME NEW th \in Threads, Uncount(th)
      PROVE  UNCHANGED PoolVars
  <2>1. ASSUME NEW u \in Tasks PROVE Undisturbed(u)
    BY <1>0, <1>19, Typed, TasksAssumption
      DEF Uncount, Goto, TypeOK, taskVars, countVars, poolVars, callVars,
        otherVars, Undisturbed, Phase, Stored, Places, HasTask
  <2>2. SameRevoked
    BY <1>19 DEF Uncount, SameRevoked, taskVars, otherVars
  <2>3. Closed' <=> Closed
    BY <1>19, Typed, ThreadsAssumption
      DEF Uncount, Goto, TypeOK, taskVars, countVars, poolVars, callVars,
        otherVars, Closed, Control, Threads
  <2>. QED
    BY <2>1, <2>2, <2>3, Stays, InvisibleIsStutter DEF Invisible
<1>20. ASSUME NEW th \in Threads, DropAborted(th)
      PROVE  TP!Next \/ UNCHANGED PoolVars
  <2>0. PICK t \in Tasks : /\ HasTask(th) /\ t = myCurrentTask[th]
                            /\ TaskState(t) = Phase(pc[th], entered[t])
    BY <1>0, <1>20 DEF DropAborted, HasTask, Places, View
  <2>1. TaskState(t) = "waiting"
    BY <1>20, <2>0 DEF DropAborted, Phase
  <2>2. TaskState(t)' = "dropped"
    <3>1. \A x \in Threads : myCurrentTask'[x] # t
      BY <1>0, <1>20, <2>0, TasksAssumption DEF DropAborted, Places, TypeOK
    <3>2. ~Stored(t)'
      BY <1>0, <1>20, <2>0, TasksAssumption DEF DropAborted, Places, Stored, taskVars, callVars
    <3>3. status'[t] # "FREE"
      BY <1>20, <2>0 DEF DropAborted, taskVars
    <3>. QED
      BY <2>0, <3>1, <3>2, <3>3 DEF View
  <2>3. ASSUME NEW u \in Tasks \ {t} PROVE Undisturbed(u)
    <3>1. \A x \in Threads : myCurrentTask[x] = u \/ myCurrentTask'[x] = u => x # th
      BY <1>20, <2>0, TasksAssumption DEF DropAborted, TypeOK, otherVars
    <3>2. Stored(u)' <=> Stored(u)
      BY <1>20 DEF DropAborted, Stored, taskVars, callVars, otherVars
    <3>. QED
      BY <1>20, <2>0, <3>1, <3>2 DEF DropAborted, Goto, TypeOK, Undisturbed, taskVars, otherVars
  <2>4. SameRevoked
    BY <1>20 DEF DropAborted, SameRevoked, taskVars, otherVars
  <2>5. Closed' <=> Closed
    BY <1>20, ThreadsAssumption DEF DropAborted, Goto, TypeOK, Closed, Threads
  <2>6. Passes(t, "waiting", "dropped")
    BY <2>0, <2>1, <2>2, <2>3, <2>5, Stays DEF Passes
  <2>7. t \in {u \in Tasks : aborted[u] # "no"}
    BY <1>20, <2>0 DEF DropAborted, Fate, TaskFate
  <2>8. TP!Drop(t)
    BY <2>0, <2>4, <2>6, <2>7, MovesIsMove, SameRevokedSet DEF TP!Drop
  <2>. QED
    BY <2>0, <2>8 DEF TP!Next
<1>21. ASSUME NEW th \in Threads, PassCheck(th)
      PROVE  TP!Next \/ UNCHANGED PoolVars
  <2>0. PICK t \in Tasks : /\ HasTask(th) /\ t = myCurrentTask[th]
                            /\ TaskState(t) = Phase(pc[th], entered[t])
    BY <1>0, <1>21 DEF PassCheck, HasTask, Places, View
  <2>1. TaskState(t) = "waiting"
    BY <1>21, <2>0 DEF PassCheck, Phase
  <2>2. TaskState(t)' = "taken"
    <3>1. HasTask(th)' /\ myCurrentTask'[th] = t
      BY <1>21, <2>0 DEF PassCheck, HasTask, Goto, TypeOK, otherVars
    <3>. QED
      BY <1>21, <2>0, <3>1 DEF PassCheck, Goto, TypeOK, View, Phase
  <2>3. ASSUME NEW u \in Tasks \ {t} PROVE Undisturbed(u)
    <3>1. \A x \in Threads : myCurrentTask[x] = u \/ myCurrentTask'[x] = u => x # th
      BY <1>21, <2>0, TasksAssumption DEF PassCheck, TypeOK, otherVars
    <3>2. Stored(u)' <=> Stored(u)
      BY <1>21 DEF PassCheck, Stored, taskVars, callVars, otherVars
    <3>. QED
      BY <1>21, <2>0, <3>1, <3>2 DEF PassCheck, Goto, TypeOK, Undisturbed, taskVars, otherVars
  <2>4. SameRevoked
    BY <1>21 DEF PassCheck, SameRevoked, taskVars, otherVars
  <2>5. Closed' <=> Closed
    BY <1>21, ThreadsAssumption DEF PassCheck, Goto, TypeOK, Closed, Threads
  <2>6. Passes(t, "waiting", "taken")
    BY <2>0, <2>1, <2>2, <2>3, <2>5, Stays DEF Passes
  <2>7. t \notin {u \in Tasks : aborted[u] # "no"}
    BY <1>21, <2>0 DEF PassCheck, Fate, ThreadFate, WaitingFate
  <2>8. TP!Take(t)
    BY <2>0, <2>4, <2>6, <2>7, MovesIsMove, SameRevokedSet DEF TP!Take
  <2>. QED
    BY <2>0, <2>8 DEF TP!Next
<1>22. ASSUME NEW th \in Threads, CheckInactive(th)
      PROVE  UNCHANGED PoolVars
  <2>1. ASSUME NEW u \in Tasks PROVE Undisturbed(u)
    BY <1>0, <1>22, Typed, TasksAssumption
      DEF CheckInactive, Goto, TypeOK, taskVars, countVars, poolVars,
        callVars, otherVars, Undisturbed, Phase, Stored, Places, HasTask
  <2>2. SameRevoked
    BY <1>22 DEF CheckInactive, SameRevoked, taskVars, otherVars
  <2>3. Closed' <=> Closed
    BY <1>22, Typed, ThreadsAssumption
      DEF CheckInactive, Goto, TypeOK, taskVars, countVars, poolVars,
        callVars, otherVars, Closed, Control, Threads
  <2>. QED
    BY <2>1, <2>2, <2>3, Stays, InvisibleIsStutter DEF Invisible
<1>23. ASSUME NEW th \in Threads, Create(th)
      PROVE  UNCHANGED PoolVars
  <2>1. ASSUME NEW u \in Tasks PROVE Undisturbed(u)
    BY <1>0, <1>23, Typed, TasksAssumption
      DEF Create, Goto, TypeOK, taskVars, countVars, poolVars, callVars,
        otherVars, Undisturbed, Phase, Stored, Places, HasTask
  <2>2. SameRevoked
    BY <1>23 DEF Create, SameRevoked, taskVars, otherVars
  <2>3. Closed' <=> Closed
    BY <1>23, Typed, ThreadsAssumption
      DEF Create, Goto, TypeOK, taskVars, countVars, poolVars, callVars,
        otherVars, Closed, Control, Threads
  <2>. QED
    BY <2>1, <2>2, <2>3, Stays, InvisibleIsStutter DEF Invisible
<1>24. ASSUME NEW th \in Threads, Enter(th)
      PROVE  UNCHANGED PoolVars
  <2>1. ASSUME NEW u \in Tasks PROVE Undisturbed(u)
    <3>1. PICK t \in Tasks : t = myCurrentTask[th]
      BY <1>0, <1>24 DEF Enter, Places, HasTask
    <3>2. pc'[th] = "activate" \/ (pc'[th] = "release" /\ status[t] = "ABORTED")
      BY <1>24, <3>1 DEF Enter, Goto, TypeOK, Fate, ThreadFate
    <3>3. status[t] = "ABORTED" => entered[t] = 0
      <4>1. SUFFICES ASSUME status[t] = "ABORTED" PROVE entered[t] = 0
        OBVIOUS
      <4>2. t \notin Coroutines
        BY <4>1 DEF Fate, TaskFate, Runs
      <4>3. \A x \in Threads : myCurrentTask[x] = t => ~Ran(x)
        BY <1>0, <1>24, <3>1 DEF Enter, Places, HasTask, Ran
      <4>. QED
        BY <4>1, <4>2, <4>3 DEF Runs, RanOnce
    <3>4. Phase(pc'[th], entered[t]) = Phase(pc[th], entered[t])
      BY <1>24, <3>2, <3>3 DEF Enter, Phase
    <3>. QED
      BY <1>24, <3>1, <3>4 DEF Enter, Goto, TypeOK, Undisturbed, Stored, otherVars, taskVars, callVars
  <2>2. SameRevoked
    BY <1>24 DEF Enter, SameRevoked, taskVars, otherVars
  <2>3. Closed' <=> Closed
    BY <1>24, Typed, ThreadsAssumption
      DEF Enter, Goto, TypeOK, taskVars, countVars, poolVars, callVars,
        otherVars, Closed, Control, Threads
  <2>. QED
    BY <2>1, <2>2, <2>3, Stays, InvisibleIsStutter DEF Invisible
<1>25. ASSUME NEW th \in Threads, Activate(th)
      PROVE  TP!Next \/ UNCHANGED PoolVars
  <2>0. PICK t \in Tasks : /\ HasTask(th) /\ t = myCurrentTask[th]
                            /\ TaskState(t) = Phase(pc[th], entered[t])
    BY <1>0, <1>25 DEF Activate, HasTask, Places, View
  <2>1. TaskState(t) = "taken"
    BY <1>25, <2>0 DEF Activate, Phase
  <2>2. TaskState(t)' = "running"
    <3>1. HasTask(th)' /\ myCurrentTask'[th] = t
      BY <1>25, <2>0 DEF Activate, HasTask, Goto, TypeOK, otherVars
    <3>. QED
      BY <1>25, <2>0, <3>1 DEF Activate, Goto, TypeOK, View, Phase
  <2>3. ASSUME NEW u \in Tasks \ {t} PROVE Undisturbed(u)
    <3>1. \A x \in Threads : myCurrentTask[x] = u \/ myCurrentTask'[x] = u => x # th
      BY <1>25, <2>0, TasksAssumption DEF Activate, TypeOK, otherVars
    <3>2. Stored(u)' <=> Stored(u)
      BY <1>25 DEF Activate, Stored, taskVars, callVars, otherVars
    <3>. QED
      BY <1>25, <2>0, <3>1, <3>2 DEF Activate, Goto, TypeOK, Undisturbed, taskVars, otherVars
  <2>4. SameRevoked
    BY <1>25 DEF Activate, SameRevoked, taskVars, otherVars
  <2>5. Closed' <=> Closed
    BY <1>25, ThreadsAssumption DEF Activate, Goto, TypeOK, Closed, Threads
  <2>6. Passes(t, "taken", "running")
    BY <2>0, <2>1, <2>2, <2>3, <2>5, Stays DEF Passes
  <2>8. TP!Run(t)
    BY <2>0, <2>4, <2>6, MovesIsMove, SameRevokedSet DEF TP!Run
  <2>. QED
    BY <2>0, <2>8 DEF TP!Next
<1>26. ASSUME NEW th \in Threads, Requeue(th)
      PROVE  TP!Next \/ UNCHANGED PoolVars
  <2>0. PICK t \in Tasks : /\ HasTask(th) /\ t = myCurrentTask[th]
                            /\ TaskState(t) = Phase(pc[th], entered[t])
    BY <1>0, <1>26 DEF Requeue, HasTask, Places, View
  <2>1. TaskState(t) = "running"
    BY <1>26, <2>0 DEF Requeue, Phase, Fate, TaskFate
  <2>2. TaskState(t)' = "waiting"
    <3>1. \A x \in Threads : myCurrentTask'[x] # t
      BY <1>0, <1>26, <2>0, TasksAssumption DEF Requeue, Places, TypeOK
    <3>2. Stored(t)'
      <4>1. \E i \in 1..Len(myTaskQueue') : myTaskQueue'[i] = t
        <5>1. myTaskQueue \in Seq(Tasks) /\ myTaskQueue' = Append(myTaskQueue, t)
          BY <1>26, <2>0 DEF Requeue, TypeOK
        <5>. QED
          BY <5>1, Appended
      <4>. QED
        BY <4>1 DEF Stored
    <3>3. status'[t] # "FREE"
      BY <1>26, <2>0 DEF Requeue, taskVars
    <3>. QED
      BY <2>0, <3>1, <3>2, <3>3 DEF View
  <2>3. ASSUME NEW u \in Tasks \ {t} PROVE Undisturbed(u)
    <3>1. \A x \in Threads : myCurrentTask[x] = u \/ myCurrentTask'[x] = u => x # th
      BY <1>26, <2>0, TasksAssumption DEF Requeue, TypeOK, otherVars
    <3>2. Stored(u)' <=> Stored(u)
      BY <1>26, <2>0, Appended DEF Requeue, Stored, TypeOK, taskVars, callVars
    <3>. QED
      BY <1>26, <2>0, <3>1, <3>2 DEF Requeue, Goto, TypeOK, Undisturbed, taskVars, otherVars
  <2>4. SameRevoked
    BY <1>26 DEF Requeue, SameRevoked, taskVars, otherVars
  <2>5. Closed' <=> Closed
    BY <1>26, ThreadsAssumption DEF Requeue, Goto, TypeOK, Closed, Threads
  <2>6. Passes(t, "running", "waiting")
    BY <2>0, <2>1, <2>2, <2>3, <2>5, Stays DEF Passes
  <2>7. t \in Coroutines
    BY <1>26, <2>0 DEF Requeue, Fate, TaskFate
  <2>8. TP!Suspend(t)
    BY <2>0, <2>4, <2>6, <2>7, MovesIsMove, SameRevokedSet DEF TP!Suspend
  <2>. QED
    BY <2>0, <2>8 DEF TP!Next
<1>27. ASSUME NEW th \in Threads, Recount(th)
      PROVE  UNCHANGED PoolVars
  <2>1. ASSUME NEW u \in Tasks PROVE Undisturbed(u)
    BY <1>0, <1>27, Typed, TasksAssumption
      DEF Recount, Goto, TypeOK, taskVars, countVars, poolVars, callVars,
        otherVars, Undisturbed, Phase, Stored, Places, HasTask
  <2>2. SameRevoked
    BY <1>27 DEF Recount, SameRevoked, taskVars, otherVars
  <2>3. Closed' <=> Closed
    BY <1>27, Typed, ThreadsAssumption
      DEF Recount, Goto, TypeOK, taskVars, countVars, poolVars, callVars,
        otherVars, Closed, Control, Threads
  <2>. QED
    BY <2>1, <2>2, <2>3, Stays, InvisibleIsStutter DEF Invisible
<1>28. ASSUME NEW th \in Threads, Delete(th)
      PROVE  TP!Next \/ UNCHANGED PoolVars
  <2>0. PICK t \in Tasks : /\ HasTask(th) /\ t = myCurrentTask[th]
                            /\ TaskState(t) = Phase(pc[th], entered[t])
    BY <1>0, <1>28 DEF Delete, HasTask, Places, View
  <2>1. TaskState(t)' = "absent"
    <3>1. \A x \in Threads : myCurrentTask'[x] # t
      BY <1>0, <1>28, <2>0, TasksAssumption DEF Delete, Places, TypeOK
    <3>. QED
      BY <1>28, <2>0, <3>1 DEF Delete, TypeOK, View
  <2>2. ASSUME NEW u \in Tasks \ {t} PROVE Undisturbed(u)
    <3>1. \A x \in Threads : myCurrentTask[x] = u \/ myCurrentTask'[x] = u => x # th
      BY <1>28, <2>0, TasksAssumption DEF Delete, TypeOK
    <3>2. Stored(u)' <=> Stored(u)
      BY <1>28 DEF Delete, Stored, callVars
    <3>. QED
      BY <1>28, <2>0, <3>1, <3>2 DEF Delete, Goto, TypeOK, Undisturbed
  <2>3. SameRevoked
    BY <1>28 DEF Delete, SameRevoked
  <2>4. Closed' <=> Closed
    BY <1>28, ThreadsAssumption DEF Delete, Goto, TypeOK, Closed, Threads
  <2>5. CASE entered[t] = 0
    <3>1. Passes(t, "taken", "absent")
      BY <1>28, <2>0, <2>1, <2>2, <2>4, <2>5, Stays DEF Delete, Passes, Phase
    <3>2. aborted[t] # "no"
      BY <1>28, <2>0, <2>5 DEF Delete, Fate, ThreadFate
    <3>3. TP!GiveUp(t)
      BY <2>0, <2>3, <3>1, <3>2, MovesIsMove, SameRevokedSet DEF TP!GiveUp
    <3>. QED
      BY <2>0, <3>3 DEF TP!Next
  <2>6. CASE entered[t] # 0
    <3>1. Passes(t, "running", "absent")
      BY <1>28, <2>0, <2>1, <2>2, <2>4, <2>6, Stays DEF Delete, Passes, Phase
    <3>2. TP!Complete(t)
      BY <2>0, <2>3, <3>1, MovesIsMove, SameRevokedSet DEF TP!Complete
    <3>. QED
      BY <2>0, <3>2 DEF TP!Next
  <2>. QED
    BY <2>5, <2>6
<1>29. ASSUME NEW th \in Threads, EndTask(th)
      PROVE  UNCHANGED PoolVars
  <2>1. ASSUME NEW u \in Tasks PROVE Undisturbed(u)
    BY <1>0, <1>29, Typed, TasksAssumption
      DEF EndTask, Goto, TypeOK, taskVars, countVars, poolVars, callVars,
        otherVars, Undisturbed, Phase, Stored, Places, HasTask
  <2>2. SameRevoked
    BY <1>29 DEF EndTask, SameRevoked, taskVars, otherVars
  <2>3. Closed' <=> Closed
    BY <1>29, Typed, ThreadsAssumption
      DEF EndTask, Goto, TypeOK, taskVars, countVars, poolVars, callVars,
        otherVars, Closed, Control, Threads
  <2>. QED
    BY <2>1, <2>2, <2>3, Stays, InvisibleIsStutter DEF Invisible
<1>30. ASSUME Start
      PROVE  UNCHANGED PoolVars
  <2>1. ASSUME NEW u \in Tasks PROVE Undisturbed(u)
    BY <1>0, <1>30, Typed, TasksAssumption
      DEF Start, Goto, TypeOK, taskVars, countVars, poolVars, callVars,
        otherVars, Undisturbed, Phase, Stored, Places, HasTask
  <2>2. SameRevoked
    BY <1>30 DEF Start, SameRevoked, taskVars, otherVars
  <2>3. Closed' <=> Closed
    BY <1>30, Typed, ThreadsAssumption
      DEF Start, Goto, TypeOK, taskVars, countVars, poolVars, callVars,
        otherVars, Closed, Control, Threads
  <2>. QED
    BY <2>1, <2>2, <2>3, Stays, InvisibleIsStutter DEF Invisible
<1>31. ASSUME TestHeld
      PROVE  TP!Next \/ UNCHANGED PoolVars
  <2>1. \A u \in Tasks : TaskState(u)' = TaskState(u)
    <3>1. ASSUME NEW u \in Tasks PROVE Undisturbed(u)
      <4>1. /\ pc[Main] = "left" /\ Main \in Threads /\ UNCHANGED otherVars
            /\ \A x \in Threads : x # Main => pc'[x] = pc[x]
        BY <1>31 DEF TestHeld, Goto, TypeOK, Threads
      <4>2. myCurrentTask[Main] # u
        BY <1>0, <4>1, TasksAssumption DEF Places, HasTask
      <4>3. Stored(u)' <=> Stored(u)
        BY <4>1 DEF Stored, otherVars, taskVars, callVars
      <4>. QED
        BY <4>1, <4>2, <4>3 DEF Undisturbed, otherVars, taskVars
    <3>. QED
      BY <3>1, Stays
  <2>2. SameRevoked
    BY <1>31 DEF TestHeld, SameRevoked, otherVars, taskVars
  <2>3. CASE myHoldCount # 0
    <3>1. Closed' <=> Closed
      BY <1>31, <2>3 DEF TestHeld, Goto, TypeOK, Closed, Threads
    <3>. QED
      BY <2>1, <2>2, <3>1, InvisibleIsStutter DEF Invisible
  <2>4. CASE myHoldCount = 0
    <3>1. \A u \in Tasks \ Coroutines : status[u] = "FREE"
      <4>1. IsFiniteSet(Held(status)) /\ Cardinality(Held(status)) = 0
        BY <2>4, HeldFinite, HeldForm
      <4>2. Held(status) = {}
        BY <4>1, FS_EmptySet
      <4>. QED
        BY <4>2 DEF Held, Holds
    <3>2. ASSUME NEW u \in Tasks \ Coroutines PROVE TaskState(u) = "absent"
      <4>1. status[u] = "FREE" /\ \A x \in Threads : myCurrentTask[x] # u
        BY <1>0, <3>1, TasksAssumption DEF Places
      <4>. QED
        BY <4>1 DEF View
    <3>3. ~(pc[Main] \in {"join", "destroy", "exited"})
      BY <1>31 DEF TestHeld
    <3>4. (pc[Main] \in {"join", "destroy", "exited"})' = TRUE
      BY <1>31, <2>4 DEF TestHeld, Goto, TypeOK, Threads
    <3>5. [u \in Tasks |-> TaskState(u)]' = [u \in Tasks |-> TaskState(u)]
      BY <2>1
    <3>6. \A u \in Tasks \ Coroutines : [s \in Tasks |-> TaskState(s)][u] = "absent"
      BY <3>2
    <3>7. TP!Close
      BY <2>2, <3>3, <3>4, <3>5, <3>6, SameRevokedSet DEF TP!Close
    <3>. QED
      BY <3>7 DEF TP!Next
  <2>. QED
    BY <2>3, <2>4
<1>32. ASSUME Join
      PROVE  UNCHANGED PoolVars
  <2>1. ASSUME NEW u \in Tasks PROVE Undisturbed(u)
    BY <1>0, <1>32, Typed, TasksAssumption
      DEF Join, Goto, TypeOK, taskVars, countVars, poolVars, callVars,
        otherVars, Undisturbed, Phase, Stored, Places, HasTask
  <2>2. SameRevoked
    BY <1>32 DEF Join, SameRevoked, taskVars, otherVars
  <2>3. Closed' <=> Closed
    BY <1>32, Typed, ThreadsAssumption
      DEF Join, Goto, TypeOK, taskVars, countVars, poolVars, callVars,
        otherVars, Closed, Control, Threads
  <2>. QED
    BY <2>1, <2>2, <2>3, Stays, InvisibleIsStutter DEF Invisible
<1>33. ASSUME Destroy
      PROVE  UNCHANGED PoolVars
  <2>1. ASSUME NEW u \in Tasks PROVE Undisturbed(u)
    BY <1>0, <1>33, Typed, TasksAssumption
      DEF Destroy, Goto, TypeOK, taskVars, countVars, poolVars, callVars,
        otherVars, Undisturbed, Phase, Stored, Places, HasTask
  <2>2. SameRevoked
    BY <1>33 DEF Destroy, SameRevoked, taskVars, otherVars
  <2>3. Closed' <=> Closed
    BY <1>33, Typed, ThreadsAssumption
      DEF Destroy, Goto, TypeOK, taskVars, countVars, poolVars, callVars,
        otherVars, Closed, Control, Threads
  <2>. QED
    BY <2>1, <2>2, <2>3, Stays, InvisibleIsStutter DEF Invisible
<1>34. CASE UNCHANGED vars
  <2>1. UNCHANGED PoolVars
    BY <1>34 DEF vars, taskVars, callVars, PoolVars, TaskState, Waiting, Taken, InHandler,
      Owner, Live
  <2>. QED
    BY <2>1
<1>. QED
  BY <1>1, <1>2, <1>3, <1>4, <1>5, <1>6, <1>7, <1>8, <1>9, <1>10, <1>11, <1>11a,
    <1>12, <1>13, <1>14, <1>15, <1>16, <1>17, <1>18, <1>19, <1>20, <1>21,
    <1>22, <1>23, <1>24, <1>25, <1>26, <1>27, <1>28, <1>29, <1>30, <1>31,
    <1>32, <1>33, <1>34
  DEF Next, ThreadStep, ProgramStep, MainStep

(* The scheduler starts as an empty, open pool. *)
LEMMA PoolInit == TypeOK /\ Control /\ Owned /\ Init => TP!Init
<1>. SUFFICES ASSUME TypeOK, Control, Owned, Init PROVE TP!Init
  OBVIOUS
<1>1. View
  BY ViewHolds
<1>2. ASSUME NEW t \in Tasks PROVE TaskState(t) = "absent"
  <2>1. status[t] = "FREE" /\ \A x \in Threads : myCurrentTask[x] # t
    BY TasksAssumption DEF Init
  <2>. QED
    BY <1>1, <2>1 DEF View
<1>3. {t \in Tasks : aborted[t] # "no"} = {}
  BY DEF Init
<1>4. (pc[Main] \in {"join", "destroy", "exited"}) = FALSE
  BY DEF Init, Threads
<1>5. [t \in Tasks |-> TaskState(t)] = [t \in Tasks |-> "absent"]
  BY <1>2
<1>. QED
  BY <1>3, <1>4, <1>5 DEF TP!Init

(* The scheduler implements the task pool, for any number of threads and   *)
(* tasks: whatever threads, timers, aborts and the re-use of memory do, a  *)
(* task that waits is taken by one thread, runs, and only a coroutine goes *)
(* back to waiting; an abort before drainTasks' check drops it; and the    *)
(* process ends only when no task that holds it is left.                   *)
THEOREM RefinementCorrect == Spec => ImplementsTaskPool
<1>. DEFINE Inv == TypeOK /\ Control /\ Owned /\ HoldAccounting /\ Runs /\ Fate
<1>1. Init => Inv /\ TP!Init
  BY ControlInit, OwnedInit, HoldInit, RunsInit, FateInit, PoolInit
<1>2. Inv /\ [Next]_vars => Inv'
  BY TypeNext, ControlNext, OwnedNext, HoldNext, RunsNext, FateNext
<1>3. Inv => View
  BY ViewHolds
<1>4. Inv /\ Control' /\ View /\ View' /\ [Next]_vars => [TP!Next]_PoolVars
  BY PoolStep
<1>5. Inv => Control
  OBVIOUS
<1>. HIDE DEF Inv
<1>6. Spec => [][TP!Next]_PoolVars
  BY <1>1, <1>2, <1>3, <1>4, <1>5, PTL DEF Spec
<1>7. Spec => TP!Init
  BY <1>1 DEF Spec
<1>. QED
  BY <1>6, <1>7, PTL DEF ImplementsTaskPool, TP!Spec, PoolVars
=============================================================================

----------------------------- MODULE Scheduler -----------------------------
(***************************************************************************)
(* The Nexus.js scheduler: a lock-free queue of tasks drained by the main  *)
(* thread and by a pool of boost::threads, an asio service whose timers    *)
(* feed the queue, the hold counter that keeps the process alive, the      *)
(* timeout table of setTimeout/clearTimeout, and the life of the process   *)
(* from the evaluation of the program's module to ~Scheduler.              *)
(*                                                                         *)
(* Every atomic or lock-free operation of drainTasks, dispatcher,          *)
(* scheduleAbstractTask and balanceThreads that another thread can observe *)
(* is a step of its own; pc[th] names the next one.  A member of Tasks is  *)
(* a memory cell for one task object: `delete` frees it and a later `new`  *)
(* may return the same cell, as the allocator does.                        *)
(*                                                                         *)
(* The counters are std::atomic_size_t in the code.  They are integers     *)
(* here: every reader in the code only asks whether a counter is zero, and *)
(* an unsigned counter that went below zero is nonzero, as an integer is.  *)
(***************************************************************************)
EXTENDS Integers, Sequences, FiniteSets

CONSTANTS
  Main,        \* the thread that calls Nexus::run
  Pool,        \* the boost::threads that balanceThreads may create
  Tasks,       \* the memory cells that can hold a task object
  Coroutines,  \* those that hold a CoroutineTask; they are not held
  NoTask,      \* a null task pointer
  MaxThreads,  \* --concurrency
  MaxAllocs,   \* bound: tasks created in one execution
  Calls        \* which scheduler calls the program makes

Threads == Pool \cup {Main}

AllCalls == {"schedule", "setTimeout", "clearTimeout", "yield", "pause"}

ASSUME ThreadsAssumption == Main \notin Pool /\ IsFiniteSet(Pool)
ASSUME TasksAssumption   == /\ IsFiniteSet(Tasks)
                            /\ Coroutines \subseteq Tasks
                            /\ NoTask \notin Tasks
ASSUME BoundsAssumption  == MaxThreads \in Nat \ {0} /\ MaxAllocs \in Nat
ASSUME CallsAssumption   == Calls \subseteq AllCalls

VARIABLES
  status,             \* task -> AbstractTask::Status, or FREE: no object there
  timer,              \* task -> its deadline_timer: none, armed, due
  globalTimeouts,     \* timeout id -> task
  myTaskQueue,
  myTaskCount,
  myActiveTaskCount,
  myHoldCount,
  myThreadCount,
  myPauseTasks,       \* on or off
  myThreadGroup,      \* the threads ever added to the boost::thread_group
  starting,           \* thread -> the thread it has started and not yet added
                      \* to the group, or nothing
  myService,          \* the asio io_service: stopped or running
  pc,                 \* thread -> its next step
  myCurrentTask,      \* thread -> the task it took from the queue
  arg,                \* thread -> the task it is scheduling
  back,               \* thread -> where scheduleAbstractTask returns to
  allocs,             \* how many tasks were created
  entered,            \* task -> how often its handler was called (history)
  aborted             \* task -> whether it was aborted: no, early (before a
                      \* thread took it from the queue) or late (history)

taskVars  == <<status, timer, globalTimeouts, allocs, entered, aborted>>
countVars == <<myTaskCount, myActiveTaskCount, myHoldCount, myThreadCount>>
poolVars  == <<myPauseTasks, myThreadGroup, starting, myService>>
callVars  == <<arg, back>>
vars == <<taskVars, countVars, poolVars, callVars, myTaskQueue, pc,
          myCurrentTask>>

(* All but pc. *)
otherVars == <<taskVars, countVars, poolVars, callVars, myTaskQueue,
               myCurrentTask>>

Statuses == {"FREE", "INACTIVE", "CREATED", "ACTIVE", "PENDING", "FINISHED",
             "ABORTED"}

Steps == {"none", "eval", "init", "poll", "queued", "drain", "decr", "check",
          "create", "created", "enter", "activate", "body", "release", "incr",
          "fin", "after", "left", "push", "balance", "add", "register",
          "join", "destroy", "exited"}

Goto(th, step) == pc' = [pc EXCEPT ![th] = step]

Holds(t) == t \notin Coroutines

-----------------------------------------------------------------------------
(* Nexus::run creates the scheduler with its service stopped and evaluates *)
(* the program's module before it starts the service.                      *)
Init ==
  /\ status = [t \in Tasks |-> "FREE"]
  /\ timer = [t \in Tasks |-> "none"]
  /\ globalTimeouts = [id \in {} |-> NoTask]
  /\ myTaskQueue = << >>
  /\ myTaskCount = 0
  /\ myActiveTaskCount = 0
  /\ myHoldCount = 0
  /\ myThreadCount = 0
  /\ myPauseTasks = "off"
  /\ myThreadGroup = {}
  /\ starting = [th \in Threads |-> {}]
  /\ myService = "stopped"
  /\ pc = [th \in Threads |-> IF th = Main THEN "eval" ELSE "none"]
  /\ myCurrentTask = [th \in Threads |-> NoTask]
  /\ arg = [th \in Threads |-> NoTask]
  /\ back = [th \in Threads |-> "drain"]
  /\ allocs = 0
  /\ entered = [t \in Tasks |-> 0]
  /\ aborted = [t \in Tasks |-> "no"]

-----------------------------------------------------------------------------
(* What a handler, or the module being evaluated, may do.                  *)

InProgram(th) == pc[th] \in {"eval", "body"}

(* new Task / new CoroutineTask: the Holder member takes a hold. *)
NewTask(t) ==
  /\ status[t] = "FREE"
  /\ allocs < MaxAllocs
  /\ allocs' = allocs + 1
  /\ status' = [status EXCEPT ![t] = "INACTIVE"]
  /\ entered' = [entered EXCEPT ![t] = 0]
  /\ aborted' = [aborted EXCEPT ![t] = "no"]
  /\ myHoldCount' = IF Holds(t) THEN myHoldCount + 1 ELSE myHoldCount

(* scheduleAbstractTask counts the task before it is in the queue. *)
CountTask(th, t, ret) ==
  /\ myTaskCount' = myTaskCount + 1
  /\ arg' = [arg EXCEPT ![th] = t]
  /\ back' = [back EXCEPT ![th] = ret]
  /\ Goto(th, "push")

ScheduleTask(th, t) ==
  /\ InProgram(th)
  /\ "schedule" \in Calls
  /\ NewTask(t)
  /\ CountTask(th, t, pc[th])
  /\ UNCHANGED <<timer, globalTimeouts, myActiveTaskCount, myThreadCount,
                 poolVars, myTaskQueue, myCurrentTask>>

(* The smallest id from 1 that the table does not hold. *)
IsFreeId(id) == /\ id \notin DOMAIN globalTimeouts
                /\ \A j \in 1..(id - 1) : j \in DOMAIN globalTimeouts

SetTimeout(th, t) ==
  /\ InProgram(th)
  /\ "setTimeout" \in Calls
  /\ t \notin Coroutines
  /\ NewTask(t)
  /\ timer' = [timer EXCEPT ![t] = "armed"]
  /\ \E id \in 1..(allocs + 1) :
       /\ IsFreeId(id)
       /\ globalTimeouts' = [i \in DOMAIN globalTimeouts \cup {id} |->
                               IF i = id THEN t ELSE globalTimeouts[i]]
  /\ UNCHANGED <<myTaskCount, myActiveTaskCount, myThreadCount, poolVars,
                 callVars, myTaskQueue, pc, myCurrentTask>>

(* Mutants: clearTimeout deletes the task, or only cancels its timer. *)
ClearDeletes(th, id) ==
  LET t == globalTimeouts[id] IN
  /\ InProgram(th)
  /\ "clearTimeout" \in Calls
  /\ status' = [status EXCEPT ![t] = "FREE"]
  /\ timer' = [timer EXCEPT ![t] = IF @ = "armed" THEN "due" ELSE @]
  /\ aborted' = [aborted EXCEPT ![t] = "early"]
  /\ globalTimeouts' = [i \in DOMAIN globalTimeouts \ {id} |->
                          globalTimeouts[i]]
  /\ UNCHANGED <<allocs, entered, countVars, poolVars, callVars, myTaskQueue,
                 pc, myCurrentTask>>

ClearCancelsTimer(th, id) ==
  LET t == globalTimeouts[id] IN
  /\ InProgram(th)
  /\ "clearTimeout" \in Calls
  /\ timer[t] = "armed"
  /\ timer' = [timer EXCEPT ![t] = "due"]
  /\ aborted' = [aborted EXCEPT ![t] = "early"]
  /\ globalTimeouts' = [i \in DOMAIN globalTimeouts \ {id} |->
                          globalTimeouts[i]]
  /\ UNCHANGED <<status, allocs, entered, countVars, poolVars, callVars,
                 myTaskQueue, pc, myCurrentTask>>

(* abort() on the cell the table points to.  The entry outlives the task,  *)
(* so the cell may be free, when the store hits freed memory, or hold      *)
(* another task.  The cancellation handler cancels the timer, which        *)
(* completes its wait at once.                                             *)
ClearTimeout(th, id) ==
  LET t == globalTimeouts[id] IN
  /\ InProgram(th)
  /\ "clearTimeout" \in Calls
  /\ IF status[t] = "FREE"
     THEN UNCHANGED <<status, timer, aborted>>
     ELSE /\ status' = [status EXCEPT ![t] = "ABORTED"]
          /\ timer' = [timer EXCEPT ![t] = IF @ = "armed" THEN "due" ELSE @]
          /\ aborted' = [aborted EXCEPT ![t] =
               IF @ # "no" THEN @
               ELSE IF \E x \in Threads : myCurrentTask[x] = t THEN "late"
               ELSE "early"]
  /\ globalTimeouts' = [i \in DOMAIN globalTimeouts \ {id} |->
                          globalTimeouts[i]]
  /\ UNCHANGED <<allocs, entered, countVars, poolVars, callVars, myTaskQueue,
                 pc, myCurrentTask>>

(* CoroutineTask::yield: back to drainTasks with the task PENDING. *)
Yield(th) ==
  /\ pc[th] = "body"
  /\ "yield" \in Calls
  /\ myCurrentTask[th] \in Coroutines
  /\ status' = [status EXCEPT ![myCurrentTask[th]] = "PENDING"]
  /\ Goto(th, "release")
  /\ UNCHANGED <<timer, globalTimeouts, allocs, entered, aborted, countVars,
                 poolVars, callVars, myTaskQueue, myCurrentTask>>

(* The handler returns: FINISHED overwrites whatever the status was. *)
Finish(th) ==
  /\ pc[th] = "body"
  /\ status' = [status EXCEPT ![myCurrentTask[th]] = "FINISHED"]
  /\ Goto(th, "release")
  /\ UNCHANGED <<timer, globalTimeouts, allocs, entered, aborted, countVars,
                 poolVars, callVars, myTaskQueue, myCurrentTask>>

(* Scheduler::pause and Scheduler::resume. *)
Pause(th) ==
  /\ InProgram(th)
  /\ "pause" \in Calls
  /\ myPauseTasks = "off"
  /\ myPauseTasks' = "on"
  /\ UNCHANGED <<taskVars, countVars, myThreadGroup, starting, myService,
                 callVars, myTaskQueue, pc, myCurrentTask>>

Resume(th) ==
  /\ InProgram(th)
  /\ "pause" \in Calls
  /\ myPauseTasks = "on"
  /\ myPauseTasks' = "off"
  /\ UNCHANGED <<taskVars, countVars, myThreadGroup, starting, myService,
                 callVars, myTaskQueue, pc, myCurrentTask>>

(* A deadline passes: the service has the timer's handler ready to run. *)
Expire(t) ==
  /\ timer[t] = "armed"
  /\ timer' = [timer EXCEPT ![t] = "due"]
  /\ UNCHANGED <<status, globalTimeouts, allocs, entered, aborted,
                 countVars, poolVars, callVars, myTaskQueue, pc,
                 myCurrentTask>>

-----------------------------------------------------------------------------
(* scheduleAbstractTask after the count, and balanceThreads.               *)

Push(th) ==
  /\ pc[th] = "push"
  /\ myTaskQueue' = Append(myTaskQueue, arg[th])
  /\ arg' = [arg EXCEPT ![th] = NoTask]
  /\ Goto(th, "balance")
  /\ UNCHANGED <<taskVars, countVars, poolVars, back, myCurrentTask>>

Balance(th) ==
  /\ pc[th] = "balance"
  /\ Goto(th, IF myTaskCount # 0 /\ Cardinality(myThreadGroup) < MaxThreads
              THEN "add" ELSE back[th])
  /\ UNCHANGED otherVars

(* boost::thread_group::join_all holds the group's lock until every thread *)
(* of it has ended; add_thread takes the same lock.                        *)
GroupLocked == pc[Main] = "join"

(* addThread constructs the thread first: the dispatcher runs, and may     *)
(* start threads in its turn, before the group counts it.                  *)
StartThread(th, p) ==
  /\ pc[th] = "add"
  /\ pc[p] = "none"
  /\ starting' = [starting EXCEPT ![th] = {p}]
  /\ pc' = [pc EXCEPT ![th] = "register", ![p] = "init"]
  /\ UNCHANGED <<taskVars, countVars, myPauseTasks, myThreadGroup, myService,
                 callVars, myTaskQueue, myCurrentTask>>

RegisterThread(th) ==
  /\ pc[th] = "register"
  /\ ~GroupLocked
  /\ myThreadGroup' = myThreadGroup \cup starting[th]
  /\ starting' = [starting EXCEPT ![th] = {}]
  /\ Goto(th, "balance")
  /\ UNCHANGED <<taskVars, countVars, myPauseTasks, myService, callVars,
                 myTaskQueue, myCurrentTask>>

-----------------------------------------------------------------------------
(* dispatcher.                                                             *)

(* The thread-init tasks, which only register the thread with the VM. *)
EnterDispatcher(th) ==
  /\ pc[th] = "init"
  /\ myThreadCount' = myThreadCount + 1
  /\ Goto(th, "poll")
  /\ UNCHANGED <<taskVars, myTaskCount, myActiveTaskCount, myHoldCount,
                 poolVars, callVars, myTaskQueue, myCurrentTask>>

Due == {t \in Tasks : timer[t] = "due"}

(* Mutant: the timer stays armed, as an interval would. *)
PollInterval(th, t) ==
  /\ pc[th] = "poll"
  /\ myService = "running"
  /\ timer[t] = "due"
  /\ status[t] # "FREE"
  /\ allocs < MaxAllocs
  /\ allocs' = allocs + 1
  /\ timer' = [timer EXCEPT ![t] = "armed"]
  /\ CountTask(th, t, "drain")
  /\ UNCHANGED <<status, globalTimeouts, entered, aborted,
                 myActiveTaskCount, myHoldCount, myThreadCount, poolVars,
                 myTaskQueue, myCurrentTask>>

(* poll_one runs one ready handler, scheduleAbstractTask on the timer's    *)
(* task whatever the error code, and returns 1.                            *)
PollTimer(th, t) ==
  /\ pc[th] = "poll"
  /\ myService = "running"
  /\ timer[t] = "due"
  /\ timer' = [timer EXCEPT ![t] = "none"]
  /\ CountTask(th, t, "drain")
  /\ UNCHANGED <<status, globalTimeouts, allocs, entered, aborted,
                 myActiveTaskCount, myHoldCount, myThreadCount, poolVars,
                 myTaskQueue, myCurrentTask>>

PollNothing(th) ==
  /\ pc[th] = "poll"
  /\ myService = "stopped" \/ Due = {}
  /\ Goto(th, "queued")
  /\ UNCHANGED otherVars

(* Mutant: a thread leaves when one task is still queued. *)
TestQueuedOffByOne(th) ==
  /\ pc[th] = "queued"
  /\ Goto(th, IF myTaskCount > 1 THEN "drain" ELSE "left")
  /\ myThreadCount' = IF myTaskCount > 1 THEN myThreadCount
                                         ELSE myThreadCount - 1
  /\ UNCHANGED <<taskVars, myTaskCount, myActiveTaskCount, myHoldCount,
                 poolVars, callVars, myTaskQueue, myCurrentTask>>

TestQueued(th) ==
  /\ pc[th] = "queued"
  /\ Goto(th, IF myTaskCount # 0 THEN "drain" ELSE "left")
  /\ myThreadCount' = IF myTaskCount # 0 THEN myThreadCount
                                         ELSE myThreadCount - 1
  /\ UNCHANGED <<taskVars, myTaskCount, myActiveTaskCount, myHoldCount,
                 poolVars, callVars, myTaskQueue, myCurrentTask>>

TestStopped(th) ==
  /\ pc[th] = "after"
  /\ Goto(th, IF myService = "running" THEN "poll" ELSE "left")
  /\ myThreadCount' = IF myService = "running" THEN myThreadCount
                                               ELSE myThreadCount - 1
  /\ UNCHANGED <<taskVars, myTaskCount, myActiveTaskCount, myHoldCount,
                 poolVars, callVars, myTaskQueue, myCurrentTask>>

-----------------------------------------------------------------------------
(* drainTasks.                                                             *)

Pop(th) ==
  /\ pc[th] = "drain"
  /\ myPauseTasks = "off"
  /\ myTaskQueue # << >>
  /\ myTaskQueue' = Tail(myTaskQueue)
  /\ myCurrentTask' = [myCurrentTask EXCEPT ![th] = Head(myTaskQueue)]
  /\ myActiveTaskCount' = myActiveTaskCount + 1
  /\ Goto(th, "decr")
  /\ UNCHANGED <<taskVars, myTaskCount, myHoldCount, myThreadCount, poolVars,
                 callVars>>

EndDrain(th) ==
  /\ pc[th] = "drain"
  /\ myPauseTasks = "on" \/ myTaskQueue = << >>
  /\ Goto(th, "after")
  /\ UNCHANGED otherVars

(* Mutant: an aborted task is not counted down. *)
UncountUnlessAborted(th) ==
  /\ pc[th] = "decr"
  /\ myTaskCount' = IF status[myCurrentTask[th]] = "ABORTED"
                    THEN myTaskCount ELSE myTaskCount - 1
  /\ Goto(th, "check")
  /\ UNCHANGED <<taskVars, myActiveTaskCount, myHoldCount, myThreadCount,
                 poolVars, callVars, myTaskQueue, myCurrentTask>>

Uncount(th) ==
  /\ pc[th] = "decr"
  /\ myTaskCount' = myTaskCount - 1
  /\ Goto(th, "check")
  /\ UNCHANGED <<taskVars, myActiveTaskCount, myHoldCount, myThreadCount,
                 poolVars, callVars, myTaskQueue, myCurrentTask>>

(* An ABORTED task is dropped: no exit(), no delete, its hold stays. *)
DropAborted(th) ==
  /\ pc[th] = "check"
  /\ status[myCurrentTask[th]] = "ABORTED"
  /\ myCurrentTask' = [myCurrentTask EXCEPT ![th] = NoTask]
  /\ Goto(th, "fin")
  /\ UNCHANGED <<taskVars, countVars, poolVars, callVars, myTaskQueue>>

PassCheck(th) ==
  /\ pc[th] = "check"
  /\ status[myCurrentTask[th]] # "ABORTED"
  /\ Goto(th, "create")
  /\ UNCHANGED otherVars

CheckInactive(th) ==
  /\ pc[th] = "create"
  /\ Goto(th, IF status[myCurrentTask[th]] = "INACTIVE" THEN "created"
                                                        ELSE "enter")
  /\ UNCHANGED otherVars

(* create(): CREATED overwrites an abort that came after the check. *)
Create(th) ==
  /\ pc[th] = "created"
  /\ status' = [status EXCEPT ![myCurrentTask[th]] = "CREATED"]
  /\ Goto(th, "enter")
  /\ UNCHANGED <<timer, globalTimeouts, allocs, entered, aborted, countVars,
                 poolVars, callVars, myTaskQueue, myCurrentTask>>

(* The status tests before and inside enter(). *)
Enter(th) ==
  /\ pc[th] = "enter"
  /\ Goto(th, IF status[myCurrentTask[th]] \in {"CREATED", "PENDING"}
              THEN "activate" ELSE "release")
  /\ UNCHANGED otherVars

(* enter() stores ACTIVE and calls the handler, or resumes the coroutine. *)
Activate(th) ==
  LET t == myCurrentTask[th] IN
  /\ pc[th] = "activate"
  /\ status' = [status EXCEPT ![t] = "ACTIVE"]
  /\ entered' = [entered EXCEPT ![t] = IF t \in Coroutines THEN 1 ELSE @ + 1]
  /\ Goto(th, "body")
  /\ UNCHANGED <<timer, globalTimeouts, allocs, aborted, countVars,
                 poolVars, callVars, myTaskQueue, myCurrentTask>>

(* A PENDING task goes back to the queue before it is counted again. *)
Requeue(th) ==
  /\ pc[th] = "release"
  /\ status[myCurrentTask[th]] = "PENDING"
  /\ myTaskQueue' = Append(myTaskQueue, myCurrentTask[th])
  /\ myCurrentTask' = [myCurrentTask EXCEPT ![th] = NoTask]
  /\ Goto(th, "incr")
  /\ UNCHANGED <<taskVars, countVars, poolVars, callVars>>

Recount(th) ==
  /\ pc[th] = "incr"
  /\ myTaskCount' = myTaskCount + 1
  /\ Goto(th, "fin")
  /\ UNCHANGED <<taskVars, myActiveTaskCount, myHoldCount, myThreadCount,
                 poolVars, callVars, myTaskQueue, myCurrentTask>>

(* Mutant: the task object is leaked, its hold with it. *)
DeleteLeaks(th) ==
  /\ pc[th] = "release"
  /\ status[myCurrentTask[th]] # "PENDING"
  /\ myCurrentTask' = [myCurrentTask EXCEPT ![th] = NoTask]
  /\ Goto(th, "fin")
  /\ UNCHANGED <<taskVars, countVars, poolVars, callVars, myTaskQueue>>

(* exit() and delete: the Holder member releases its hold. *)
Delete(th) ==
  LET t == myCurrentTask[th] IN
  /\ pc[th] = "release"
  /\ status[t] # "PENDING"
  /\ status' = [status EXCEPT ![t] = "FREE"]
  /\ myHoldCount' = IF Holds(t) THEN myHoldCount - 1 ELSE myHoldCount
  /\ myCurrentTask' = [myCurrentTask EXCEPT ![th] = NoTask]
  /\ Goto(th, "fin")
  /\ UNCHANGED <<timer, globalTimeouts, allocs, entered, aborted,
                 myTaskCount, myActiveTaskCount, myThreadCount, poolVars,
                 callVars, myTaskQueue>>

EndTask(th) ==
  /\ pc[th] = "fin"
  /\ myActiveTaskCount' = myActiveTaskCount - 1
  /\ Goto(th, "drain")
  /\ UNCHANGED <<taskVars, myTaskCount, myHoldCount, myThreadCount, poolVars,
                 callVars, myTaskQueue, myCurrentTask>>

-----------------------------------------------------------------------------
(* The rest of Nexus::run on the main thread.                              *)

(* start(): reset the service, give it work, and balance. *)
Start ==
  /\ pc[Main] = "eval"
  /\ myService' = "running"
  /\ back' = [back EXCEPT ![Main] = "init"]
  /\ Goto(Main, "balance")
  /\ UNCHANGED <<taskVars, countVars, myPauseTasks, myThreadGroup, starting,
                 arg, myTaskQueue, myCurrentTask>>

(* Mutant: joinPool loops while tasks are queued, not while any is held. *)
TestQueuedOnly ==
  /\ pc[Main] = "left"
  /\ Goto(Main, IF myTaskCount # 0 THEN "init" ELSE "join")
  /\ UNCHANGED otherVars

(* Mutant: the main thread does not join the pool. *)
TestHeldUnjoined ==
  /\ pc[Main] = "left"
  /\ Goto(Main, IF myHoldCount # 0 THEN "init" ELSE "destroy")
  /\ UNCHANGED otherVars

(* joinPool's loop condition. *)
TestHeld ==
  /\ pc[Main] = "left"
  /\ Goto(Main, IF myHoldCount # 0 THEN "init" ELSE "join")
  /\ UNCHANGED otherVars

(* join() returns once every thread of the group has left its dispatcher. *)
Join ==
  /\ pc[Main] = "join"
  /\ \A p \in myThreadGroup : pc[p] = "left"
  /\ Goto(Main, "destroy")
  /\ UNCHANGED otherVars

(* ~Scheduler: stop the service; the threads have already ended. *)
Destroy ==
  /\ pc[Main] = "destroy"
  /\ myService' = "stopped"
  /\ Goto(Main, "exited")
  /\ UNCHANGED <<taskVars, countVars, myPauseTasks, myThreadGroup, starting,
                 callVars, myTaskQueue, myCurrentTask>>

-----------------------------------------------------------------------------
(* The steps a thread takes by itself, and the program's choices. *)
ThreadStep(th) ==
  \/ Push(th) \/ Balance(th)
  \/ \E p \in Pool : StartThread(th, p)
  \/ RegisterThread(th)
  \/ EnterDispatcher(th)
  \/ \E t \in Tasks : PollTimer(th, t)
  \/ PollNothing(th) \/ TestQueued(th) \/ TestStopped(th)
  \/ Pop(th) \/ EndDrain(th) \/ Uncount(th)
  \/ DropAborted(th) \/ PassCheck(th) \/ CheckInactive(th) \/ Create(th)
  \/ Enter(th) \/ Activate(th)
  \/ Requeue(th) \/ Recount(th) \/ Delete(th) \/ EndTask(th)

MainStep == Start \/ TestHeld \/ Join \/ Destroy

ProgramStep(th) ==
  \/ \E t \in Tasks : ScheduleTask(th, t) \/ SetTimeout(th, t)
  \/ \E id \in DOMAIN globalTimeouts : ClearTimeout(th, id)
  \/ Yield(th) \/ Finish(th)
  \/ Pause(th) \/ Resume(th)

Next ==
  \/ \E th \in Threads : ThreadStep(th) \/ ProgramStep(th)
  \/ MainStep
  \/ \E t \in Tasks : Expire(t)

Spec == Init /\ [][Next]_vars

(* The operating system runs every thread, deadlines pass, and handlers    *)
(* and the module return.                                                  *)
Fairness ==
  /\ \A th \in Threads : WF_vars(ThreadStep(th)) /\ WF_vars(Finish(th))
  /\ WF_vars(MainStep)
  /\ \A t \in Tasks : WF_vars(Expire(t))

FairSpec == Spec /\ Fairness
-----------------------------------------------------------------------------
(* Properties.                                                             *)

At(step) == {th \in Threads : pc[th] = step}

Live(t) == status[t] # "FREE"

(* Every variable keeps its type: task statuses are members of             *)
(* AbstractTask::Status, threads are at steps of the code.                 *)
TypeOK ==
  /\ status \in [Tasks -> Statuses]
  /\ timer \in [Tasks -> {"none", "armed", "due"}]
  /\ DOMAIN globalTimeouts \subseteq 1..allocs
  /\ \A id \in DOMAIN globalTimeouts : globalTimeouts[id] \in Tasks
  /\ myTaskQueue \in Seq(Tasks)
  /\ myTaskCount \in Int
  /\ myActiveTaskCount \in Int
  /\ myHoldCount \in Int
  /\ myThreadCount \in Int
  /\ myPauseTasks \in {"on", "off"}
  /\ myThreadGroup \subseteq Pool
  /\ starting \in [Threads -> SUBSET Pool]
  /\ myService \in {"stopped", "running"}
  /\ pc \in [Threads -> Steps]
  /\ myCurrentTask \in [Threads -> Tasks \cup {NoTask}]
  /\ arg \in [Threads -> Tasks \cup {NoTask}]
  /\ back \in [Threads -> {"eval", "body", "drain", "init"}]
  /\ allocs \in 0..MaxAllocs
  /\ entered \in [Tasks -> Nat]
  /\ aborted \in [Tasks -> {"no", "early", "late"}]

(* myTaskCount, which dispatcher and balanceThreads use for the length of  *)
(* a queue they cannot inspect, differs from that length only by threads   *)
(* caught between the two: ahead by those about to push a task they have   *)
(* counted and by those that popped one and have not yet counted down,     *)
(* behind by those that pushed a PENDING task back and not yet counted it. *)
CountAccounting ==
  myTaskCount = Len(myTaskQueue) + Cardinality(At("push"))
                + Cardinality(At("decr")) - Cardinality(At("incr"))

(* myHoldCount, the only thing that keeps joinPool from returning, is the  *)
(* number of task objects of the holding kind that exist: no path through  *)
(* drainTasks, abort or a timer releases a hold twice or early.            *)
HoldAccounting ==
  myHoldCount = Cardinality({t \in Tasks : Live(t) /\ Holds(t)})

(* The threads between the increment and the decrement of                  *)
(* myActiveTaskCount are the ones it counts, whichever way drainTasks      *)
(* leaves a task: finished, requeued or dropped.                           *)
Working == {th \in Threads :
             \/ pc[th] \in {"decr", "check", "create", "created", "enter",
                            "activate", "body", "release", "incr", "fin"}
             \/ /\ pc[th] \in {"push", "balance", "add", "register"}
                /\ back[th] = "body"}

ActiveAccounting == myActiveTaskCount = Cardinality(Working)

(* A task pointer is in one place at a time: once in the queue, or with    *)
(* one thread that is scheduling it or running it, or with one timer; so   *)
(* no two threads run, requeue or delete one task.                         *)
Positions(t) == {i \in 1..Len(myTaskQueue) : myTaskQueue[i] = t}

QueueExclusive ==
  \A i \in 1..Len(myTaskQueue) :
    /\ \A j \in 1..Len(myTaskQueue) : myTaskQueue[i] = myTaskQueue[j] => i = j
    /\ \A th \in Threads : myTaskQueue[i] \notin {myCurrentTask[th], arg[th]}
    /\ timer[myTaskQueue[i]] = "none"

ThreadExclusive ==
  \A a, b \in Threads :
    /\ myCurrentTask[a] = myCurrentTask[b] => a = b \/ myCurrentTask[a] = NoTask
    /\ arg[a] = arg[b] => a = b \/ arg[a] = NoTask
    /\ myCurrentTask[a] = arg[b] => arg[b] = NoTask

TimerExclusive ==
  \A th \in Threads : \A t \in {myCurrentTask[th], arg[th]} :
    t # NoTask => timer[t] = "none"

Exclusive == QueueExclusive /\ ThreadExclusive /\ TimerExclusive

(* No task pointer the scheduler will still follow dangles: what is in the *)
(* queue, with a thread or with a timer has not been deleted.              *)
NoDangling ==
  /\ \A i \in 1..Len(myTaskQueue) : Live(myTaskQueue[i])
  /\ \A th \in Threads : \A t \in {myCurrentTask[th], arg[th]} :
       t # NoTask => Live(t)
  /\ \A t \in Tasks : timer[t] # "none" => Live(t)

(* The handler of a plain Task is called at most once, however schedule,   *)
(* timers, aborts and the re-use of its memory interleave.                 *)
RunOnce == \A t \in Tasks \ Coroutines : entered[t] <= 1

(* clearTimeout on a timeout whose task no thread has taken yet wins: the  *)
(* callback never runs, although the cancelled timer still queues the task *)
(* and create() and enter() overwrite ABORTED.                             *)
CancelledNeverRuns ==
  \A t \in Tasks : aborted[t] = "early" => entered[t] = 0

(* joinPool returns, and the process ends, only when nothing is left to    *)
(* do: no task exists, queued, running or waiting for its timer.           *)
ExitClean ==
  pc[Main] \in {"join", "destroy", "exited"} =>
    \A t \in Tasks : status[t] = "FREE"

(* joinPool waits only for the threads of the group, and a thread runs     *)
(* before it is in the group; all the same the scheduler is destroyed only *)
(* when no thread is left that could use it: who started a thread that is  *)
(* not in the group has not left, and the group's lock holds it up.        *)
NoneOutlives ==
  pc[Main] \in {"destroy", "exited"} =>
    \A p \in Pool : pc[p] \in {"none", "left"}

(* The counters of the scheduler agree with what they count, in every      *)
(* interleaving of their separate updates: the tasks in queues and hands,  *)
(* the holds, the threads at work.                                         *)
Accounting ==
  /\ TypeOK
  /\ CountAccounting
  /\ HoldAccounting
  /\ ActiveAccounting

(* "All tasks will execute on all cores until the queue is empty, at which *)
(* point the program will gracefully exit": a program that makes finitely  *)
(* many tasks, each of which returns, ends.                                *)
GracefulExit == <>(pc[Main] = "exited")

(* Every scheduled task is taken from the queue by some thread, although   *)
(* threads leave their dispatcher on a momentary zero of myTaskCount.      *)
NoTaskStranded == \A t \in Tasks : (Positions(t) # {}) ~> (Positions(t) = {})
=============================================================================

--------------------------- MODULE Attempt2Proofs ---------------------------
(* Success is sound: the proof that main of run_dynamic_task_attempt2_demo   *)
(* reports success only when every task has run, for any number of servers,  *)
(* workers and tasks, any capacity of the queues, and with tasks that are    *)
(* preempted, workers that are late and switches that are refused.           *)
EXTENDS Attempt2StepProofs

LEMMA FlowInit ==
    ASSUME Init
    PROVE  IInv /\ InWait
<1> USE DEF Init, InitWith
<1>1. FlowTypes
  BY TaskAssumption DEF FlowTypes, Places
<1>2. Members(tasks) = {} /\ \A w \in Workers : Members(inbox[w]) = {}
  BY DEF Members
<1>3. MainOrder /\ JobsInHand
  <2>1. Len(InitialTasks) \in Nat /\ Sent = 0
    BY TaskAssumption DEF Sent
  <2> QED
    BY <2>1 DEF MainOrder, JobsInHand, Busy
<1>4. OnePlace
  BY <1>2 DEF OnePlace, Once
<1>5. AllSubmitted
  BY <1>2 DEF AllSubmitted
<1>6. Counters
  <2>1. CountedTasks = {}
    <3>1. Sent = 0 /\ DOMAIN InitialTasks \subseteq Nat \ {0}
      BY TaskAssumption DEF Sent
    <3>2. \A i \in DOMAIN InitialTasks : ~(i <= 0 + 0)
      BY <3>1
    <3> QED
      BY <3>1, <3>2 DEF CountedTasks, Counted
  <2> QED
    BY <2>1, FS_EmptySet DEF Counters
<1>7. InWait
  BY DEF InWait
<1> QED
  BY <1>1, <1>3, <1>4, <1>5, <1>6, <1>7 DEF IInv

(* The way of the tasks is kept by every step of every thread. *)
THEOREM TasksFlow == Spec => [](IInv /\ InWait)
<1>1. Init => IInv /\ InWait
  BY FlowInit
<1>2. IInv /\ InWait /\ [Next]_vars => (IInv /\ InWait)'
  BY FlowStep, InWaitStep
<1> QED
  BY <1>1, <1>2, PTL DEF Spec

-----------------------------------------------------------------------------
(* What has been done or handed over has been counted. *)
LEMMA SubmittedIsCounted ==
    ASSUME IInv, NEW t \in Tasks, Submitted(t)
    PROVE  t \in CountedTasks
<1>1. Sent \in Int /\ DOMAIN InitialTasks \subseteq Nat
  BY TaskAssumption DEF IInv, FlowTypes, Sent
<1>2. \A i \in DOMAIN InitialTasks : i <= Sent => i <= Sent + 0 /\ i <= Sent + 1
  BY <1>1
<1> QED
  BY <1>2 DEF Submitted, Sent, CountedTasks, Counted

LEMMA SuccessIsComplete ==
    ASSUME EveryTaskHasSource, IInv, mpc = "loaded", seen = total
    PROVE  finished = Tasks
<1>1. finished \subseteq CountedTasks
  BY SubmittedIsCounted DEF IInv, FlowTypes, AllSubmitted
<1>2. IsFiniteSet(CountedTasks)
  BY TaskAssumption, FS_Subset DEF CountedTasks
<1>3. IsFiniteSet(finished) /\ Cardinality(finished) \in Nat /\ Cardinality(CountedTasks) \in Nat
      /\ Cardinality(finished) <= Cardinality(CountedTasks)
  BY <1>1, <1>2, FS_Subset, FS_CardinalityType
<1>4. Cardinality(finished) = Cardinality(CountedTasks)
  BY <1>3 DEF IInv, Counters
<1>5. finished = CountedTasks
  BY <1>1, <1>2, <1>4, FS_Subset
<1>6. \A i \in DOMAIN InitialTasks : InitialTasks[i] \in finished
  <2>1. todo = <<>> /\ InitialTasks \in Seq(Tasks)
    BY TaskAssumption DEF IInv, MainOrder
  <2>2. \A i \in DOMAIN InitialTasks : i <= Sent + 0 /\ InitialTasks[i] \in Tasks
    BY <2>1 DEF Sent
  <2> QED
    BY <1>5, <2>2 DEF CountedTasks, Counted
<1>7. \A p \in finished : Child[p] # None => Child[p] \in finished
  <2>1. \A p \in finished : p \in Tasks /\ (Child[p] # None => Child[p] \in Tasks)
    BY TaskAssumption DEF IInv, FlowTypes
  <2> QED
    BY <1>5, <2>1 DEF CountedTasks, Counted
<1> QED
  BY <1>6, <1>7, Zenon DEF EveryTaskHasSource, IInv, FlowTypes

(* Main leaves its loop with success only from the second load of            *)
(* all_tasks_completed, and a task that is done stays done.                  *)
LEMMA HowMainFinishes ==
    ASSUME [Next]_vars
    PROVE  /\ finished \subseteq finished'
           /\ mpc' = "finished" /\ mpc # "finished" =>
                 mpc = "loaded" /\ seen = total /\ finished' = finished
<1>1. CASE UNCHANGED <<mpc, finished>>
  BY <1>1
<1>2. CASE MainStep
  BY <1>2, SMTT(20) DEF MainStep, MainStartServer, MainWorkersReady, MainRegisterTask,
              RegisterTask, MainAddTask, AddTask, AllTasksCompleted, LoadFirst, LoadSecond, taskVars
<1>3. ASSUME NEW w \in Workers, WorkerStep(w)
      PROVE  UNCHANGED mpc /\ finished \subseteq finished'
  BY <1>3, Zenon DEF WorkerStep, WorkerEnterMaps, WorkerRegister, WorkerTryRecv, WorkerIo,
              WorkerIoEnd, WorkerUnblock, WorkerAnnounce, WorkerSpawn, RegisterTask, WorkerAddTask,
              AddTask, WorkerFinish,
              WorkerWaitEnter, WorkerWaitCall, WorkerWaitSend, mainVars, taskVars
<1>4. ASSUME NEW w \in Workers, WorkerPreempt(w)
      PROVE  UNCHANGED <<mpc, finished>>
  BY <1>4 DEF WorkerPreempt, mainVars, taskVars
<1>5. ASSUME NEW s \in Schedulers, ServerStep(s)
      PROVE  UNCHANGED <<mpc, finished>>
  BY <1>5 DEF ServerStep, SchedStep, SchedEmpty, SchedPutBack, SchedTask, mainVars, taskVars
<1>6. CASE RouterStep \/ UNCHANGED vars
  BY <1>1, <1>6 DEF RouterStep, vars, mainVars, taskVars
<1> QED
  BY <1>1, <1>2, <1>3, <1>4, <1>5, <1>6 DEF Next, Exited

(* Success is sound: when main of the demo reports that all tasks have       *)
(* completed, every task has run to its end, the ones submitted by tasks     *)
(* included, although the two loads of all_tasks_completed are not one step  *)
(* and tasks are counted before they are queued.  It needs nothing of the    *)
(* scheduling: tasks may be dropped, workers late, switches refused.         *)
THEOREM SuccessIsSound == ASSUME EveryTaskHasSource PROVE Spec => []CompletionSound
<1>1. Init => CompletionSound
  BY DEF Init, InitWith, CompletionSound
<1>2. ASSUME IInv, IInv', CompletionSound, [Next]_vars
      PROVE  CompletionSound'
  <2> SUFFICES ASSUME mpc' = "finished"
               PROVE  finished' = Tasks
    BY DEF CompletionSound
  <2>1. CASE mpc = "finished"
    <3>1. finished = Tasks /\ finished \subseteq finished'
      BY <1>2, <2>1, HowMainFinishes DEF CompletionSound
    <3> QED
      BY <1>2, <3>1, Zenon DEF IInv, FlowTypes
  <2>2. CASE mpc # "finished"
    BY <1>2, <2>2, HowMainFinishes, SuccessIsComplete
  <2> QED
    BY <2>1, <2>2
<1>3. IInv /\ IInv' /\ CompletionSound /\ [Next]_vars => CompletionSound'
  BY <1>2
<1> QED
  BY <1>1, <1>3, TasksFlow, PTL DEF Spec

(* A task that the full queue refused, which submit only logs, stays         *)
(* counted: completed_tasks stays below total_tasks by at least the number   *)
(* of such tasks, so that a lost task is never taken for a finished one.     *)
THEOREM DroppedTasksStayCounted == Spec => []DroppedStaysCounted
<1>1. ASSUME IInv
      PROVE  DroppedStaysCounted
  <2> USE <1>1 DEF IInv
  <2>1. Dropped \cap finished = {}
    BY DEF Dropped, Stage
  <2>2. Dropped \cup finished \subseteq CountedTasks
    BY SubmittedIsCounted DEF Dropped, FlowTypes, AllSubmitted
  <2>3. IsFiniteSet(CountedTasks)
    BY TaskAssumption, FS_Subset DEF CountedTasks
  <2>4. /\ IsFiniteSet(Dropped) /\ IsFiniteSet(finished)
        /\ Cardinality(Dropped \cup finished) <= Cardinality(CountedTasks)
    BY <2>2, <2>3, FS_Subset
  <2>5. /\ Cardinality(Dropped \cup finished) = Cardinality(Dropped) + Cardinality(finished)
        /\ Cardinality(Dropped) \in Nat /\ Cardinality(finished) \in Nat
        /\ Cardinality(CountedTasks) \in Nat
    <3>1. /\ Cardinality(Dropped) \in Nat /\ Cardinality(finished) \in Nat
          /\ Cardinality(CountedTasks) \in Nat
      BY <2>3, <2>4, FS_CardinalityType
    <3>2. Cardinality(Dropped \cap finished) = 0
      BY <2>1, FS_EmptySet
    <3>3. Cardinality(Dropped \cup finished)
             = Cardinality(Dropped) + Cardinality(finished) - Cardinality(Dropped \cap finished)
      BY <2>4, FS_Union
    <3> QED
      BY <3>1, <3>2, <3>3
  <2> QED
    BY <2>4, <2>5 DEF DroppedStaysCounted, Counters
<1> QED
  BY <1>1, TasksFlow, PTL
=============================================================================

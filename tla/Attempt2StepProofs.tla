------------------------- MODULE Attempt2StepProofs -------------------------
(* The steps of a server on the way of a task, and those of all threads. *)
EXTENDS Attempt2SubmitProofs

(* A server hands the first task to a worker, or drops it. *)
LEMMA SchedTaskStep ==
    ASSUME IInv, NEW s \in Schedulers, SchedStep(s), SchedTask(s)
    PROVE  IInv'
<1> USE DEF IInv
<1>1. /\ UNCHANGED <<mpc, todo, seen, total, completed, finished, wpc, job>>
      /\ tasks # <<>> /\ tasks' = Tail(tasks)
  BY DEF SchedStep, SchedTask, mainVars
<1>2. PICK t : t = Head(tasks)
  OBVIOUS
<1>3. /\ tasks' \in Seq(Tasks) /\ t \in Tasks /\ t \in Members(tasks) /\ Once(tasks')
      /\ Members(tasks') = Members(tasks) \ {t}
  <2>1. tasks \in Seq(Tasks) /\ Once(tasks)
    BY DEF FlowTypes, OnePlace
  <2> QED
    BY <1>1, <1>2, <2>1, TailMembers
<1>4. /\ t \notin finished
      /\ \A v \in Workers : t \notin Members(inbox[v]) /\ job[v] # t
  BY <1>3 DEF OnePlace
<1>5. MainOrder' /\ JobsInHand'
  BY <1>1 DEF MainOrder, Sent, JobsInHand
<1>6. \A u : (Submitted(u)' <=> Submitted(u)) /\ (Counted(u)' <=> Counted(u))
  BY <1>1 DEF Submitted, Counted, Sent
<1>7. Counters'
  <2>1. CountedTasks' = CountedTasks
    BY <1>6 DEF CountedTasks
  <2> QED
    BY <1>1, <2>1 DEF Counters
<1>8. CASE inbox' = inbox
  <2>1. FlowTypes' /\ OnePlace'
    BY <1>1, <1>3, <1>8 DEF FlowTypes, OnePlace
  <2>2. AllSubmitted'
    BY <1>1, <1>3, <1>6, <1>8 DEF AllSubmitted
  <2> QED
    BY <1>5, <1>7, <2>1, <2>2
<1>9. ASSUME NEW w \in Workers, inbox' = [inbox EXCEPT ![w] = Append(@, t)]
      PROVE  IInv'
  <2>1. /\ inbox'[w] \in Seq(Tasks) /\ Once(inbox'[w])
        /\ Members(inbox'[w]) = Members(inbox[w]) \cup {t}
    <3>1. inbox'[w] = Append(inbox[w], t) /\ inbox[w] \in Seq(Tasks) /\ Once(inbox[w])
      BY <1>9 DEF FlowTypes, OnePlace
    <3> QED
      BY <1>3, <1>4, <3>1, AppendMembers
  <2>2. \A v \in Workers \ {w} : inbox'[v] = inbox[v]
    BY <1>9 DEF FlowTypes
  <2>3. FlowTypes'
    BY <1>1, <1>3, <1>9, <2>1, <2>2 DEF FlowTypes
  <2>4. OnePlace'
    <3>1. \A v \in Workers : \A u \in Members(inbox'[v]) :
             u \in Members(inbox[v]) \/ (u = t /\ v = w)
      BY <2>1, <2>2
    <3>2. ASSUME NEW v \in Workers, NEW u \in Members(inbox'[v])
          PROVE  /\ u \notin finished /\ u \notin Members(tasks')
                 /\ \A x \in Workers : job[x] # u /\ (u \in Members(inbox'[x]) => x = v)
      BY <1>3, <1>4, <3>1, <3>2 DEF OnePlace
    <3>3. \A v \in Workers : Once(inbox'[v])
      BY <2>1, <2>2 DEF OnePlace
    <3> QED
      BY <1>1, <1>3, <3>2, <3>3 DEF OnePlace
  <2>5. AllSubmitted'
    <3>1. Submitted(t)
      BY <1>3 DEF AllSubmitted
    <3>2. \A v \in Workers : \A u \in Members(inbox'[v]) : u \in Members(inbox[v]) \/ u = t
      BY <2>1, <2>2
    <3> QED
      BY <1>1, <1>3, <1>6, <3>1, <3>2 DEF AllSubmitted
  <2> QED
    BY <1>5, <1>7, <2>3, <2>4, <2>5
<1>10. \/ inbox' = inbox
       \/ \E w \in Workers : inbox' = [inbox EXCEPT ![w] = Append(@, t)]
  <2>1. \/ inbox' = inbox
        \/ inbox' = [inbox EXCEPT ![Head(pending[s])] = Append(@, t)]
    BY <1>2 DEF SchedTask
  <2>2. inbox \in [Workers -> Seq(Tasks)]
    BY DEF FlowTypes
  <2>3. ASSUME NEW w, w \notin Workers
        PROVE  [inbox EXCEPT ![w] = Append(@, t)] = inbox
    BY <2>2, <2>3
  <2> QED
    BY <2>1, <2>3
<1> QED
  BY <1>8, <1>9, <1>10, SMTT(20)

-----------------------------------------------------------------------------
(* Every step. *)
LEMMA InWaitStep ==
    ASSUME InWait, IInv, [Next]_vars
    PROVE  InWait'
<1>1. CASE UNCHANGED <<wpc, sys>>
  BY <1>1 DEF InWait
<1>2. CASE MainStep
  BY <1>1, <1>2 DEF MainStep, MainStartServer, MainWorkersReady, MainRegisterTask, MainAddTask,
                    AllTasksCompleted, LoadFirst, LoadSecond, wkVars
<1>3. ASSUME NEW w \in Workers, WorkerStep(w)
      PROVE  InWait'
  <2> USE DEF InWait, IInv, FlowTypes
  <2>1. CASE \/ WorkerRegister(w) \/ WorkerUnblock(w) \/ WorkerAnnounce(w) \/ WorkerWaitSend(w)
    BY <1>1, <2>1 DEF WorkerRegister, WorkerUnblock, WorkerAnnounce, WorkerWaitSend, wkVars
  <2>2. CASE WorkerEnterMaps(w) \/ WorkerTryRecv(w)
    BY <2>2 DEF WorkerEnterMaps, WorkerTryRecv
  <2>3. CASE WorkerIo(w) \/ WorkerIoEnd(w)
    BY <2>3, Zenon DEF WorkerIo, WorkerIoEnd
  <2>4. CASE WorkerSpawn(w) \/ WorkerAddTask(w) \/ WorkerFinish(w)
    BY <2>4 DEF WorkerSpawn, WorkerAddTask, WorkerFinish
  <2>5. CASE WorkerWaitEnter(w) \/ WorkerWaitCall(w)
    BY <2>5, Zenon DEF WorkerWaitEnter, WorkerWaitCall
  <2> QED
    BY <1>3, <2>1, <2>2, <2>3, <2>4, <2>5 DEF WorkerStep
<1>4. ASSUME NEW w \in Workers, WorkerPreempt(w)
      PROVE  InWait'
  BY <1>1, <1>4 DEF WorkerPreempt, wkVars
<1>5. ASSUME NEW s \in Schedulers, ServerStep(s)
      PROVE  InWait'
  BY <1>1, <1>5 DEF ServerStep, SchedStep, wkVars
<1>6. CASE RouterStep
  BY <1>1, <1>6 DEF RouterStep, wkVars
<1>7. CASE UNCHANGED vars
  BY <1>1, <1>7 DEF vars, wkVars
<1> QED
  BY <1>2, <1>3, <1>4, <1>5, <1>6, <1>7 DEF Next, Exited

LEMMA FlowStep ==
    ASSUME IInv, InWait, [Next]_vars
    PROVE  IInv'
<1>1. CASE UNCHANGED flowVars
  BY <1>1, QuietStep
<1>2. CASE MainStep
  <2>1. CASE MainStartServer
    BY <1>1, <2>1 DEF MainStartServer, flowVars, taskVars, wkVars
  <2>2. CASE MainWorkersReady
    <3>1. CASE mpc' = mpc
      BY <1>1, <2>2, <3>1, SMTT(20) DEF MainWorkersReady, flowVars, taskVars, wkVars
    <3>2. CASE mpc = "boot" /\ mpc' = "register"
      <4>1. UNCHANGED <<todo, seen, total, completed, tasks, finished, wpc, inbox, job>>
        BY <2>2 DEF MainWorkersReady, taskVars, wkVars
      <4>2. CountedTasks' = CountedTasks
        BY <3>2, <4>1 DEF CountedTasks, Counted, Sent
      <4>3. FlowTypes' /\ JobsInHand'
        BY <4>1 DEF IInv, FlowTypes, JobsInHand
      <4>4. MainOrder'
        BY <3>2, <4>1 DEF IInv, MainOrder, Sent
      <4>5. OnePlace'
        BY <4>1 DEF IInv, OnePlace, Once, Members
      <4>6. AllSubmitted'
        BY <3>2, <4>1 DEF IInv, AllSubmitted, Submitted, Members
      <4>7. Counters'
        BY <3>2, <4>1, <4>2 DEF IInv, Counters
      <4> QED
        BY <4>3, <4>4, <4>5, <4>6, <4>7 DEF IInv
    <3> QED
      BY <2>2, <3>1, <3>2 DEF MainWorkersReady
  <2> QED
    BY <1>2, <2>1, <2>2, MainRegisterTaskStep, MainAddTaskStep, AllTasksCompletedStep
       DEF MainStep
<1>3. ASSUME NEW w \in Workers, WorkerStep(w)
      PROVE  IInv'
  <2>1. CASE \/ WorkerRegister(w) \/ WorkerUnblock(w) \/ WorkerAnnounce(w) \/ WorkerWaitSend(w)
             \/ WorkerWaitEnter(w) \/ WorkerIoEnd(w)
    BY <1>1, <2>1 DEF WorkerRegister, WorkerUnblock, WorkerAnnounce, WorkerWaitSend, WorkerWaitEnter,
                      WorkerIoEnd, flowVars, mainVars, taskVars, wkVars
  <2>2. CASE WorkerEnterMaps(w)
    BY <2>2, MoveStep, Zenon DEF WorkerEnterMaps, mainVars, taskVars, Places, Busy
  <2>3. CASE WorkerIo(w)
    <3>1. CASE wpc' = wpc
      BY <1>1, <2>3, <3>1 DEF WorkerIo, flowVars, mainVars, taskVars
    <3>2. CASE wpc[w] = "sleep" /\ wpc' = [wpc EXCEPT ![w] = "spawn"]
      BY <2>3, <3>2, MoveStep, Zenon DEF WorkerIo, mainVars, taskVars, Places, Busy
    <3> QED
      BY <2>3, <3>1, <3>2 DEF WorkerIo
  <2>4. CASE WorkerWaitCall(w)
    <3>1. wpc[w] = "wait"
      BY <2>4 DEF WorkerWaitCall, InWait
    <3> QED
      BY <2>4, <3>1, MoveStep, Zenon DEF WorkerWaitCall, mainVars, taskVars, Places, Busy
  <2> QED
    BY <1>3, <2>1, <2>2, <2>3, <2>4, WorkerTryRecvStep, WorkerSpawnStep, WorkerAddTaskStep,
       WorkerFinishStep, SMTT(20) DEF WorkerStep
<1>4. ASSUME NEW w \in Workers, WorkerPreempt(w)
      PROVE  IInv'
  BY <1>1, <1>4 DEF WorkerPreempt, flowVars, mainVars, taskVars, wkVars
<1>5. ASSUME NEW s \in Schedulers, ServerStep(s)
      PROVE  IInv'
  <2>1. CASE SchedStep(s)
    <3>1. CASE SchedEmpty(s) \/ SchedPutBack(s)
      BY <1>1, <2>1, <3>1, Zenon DEF SchedStep, SchedEmpty, SchedPutBack, flowVars, mainVars, taskVars
    <3> QED
      BY <2>1, <3>1, SchedTaskStep, SMTT(20) DEF SchedStep
  <2>2. CASE UNCHANGED <<mainVars, taskVars, wkVars>>
    BY <1>1, <2>2 DEF flowVars, mainVars, taskVars, wkVars
  <2> QED
    BY <1>5, <2>1, <2>2 DEF ServerStep
<1>6. CASE RouterStep
  BY <1>1, <1>6 DEF RouterStep, flowVars, mainVars, taskVars, wkVars
<1>7. CASE UNCHANGED vars
  BY <1>1, <1>7 DEF vars, flowVars, mainVars, taskVars, wkVars
<1> QED
  BY <1>2, <1>3, <1>4, <1>5, <1>6, <1>7 DEF Next, Exited
=============================================================================

------------------------ MODULE Attempt2SubmitProofs ------------------------
(* A worker queues the child of its task, and ends the task. *)
EXTENDS Attempt2WorkerProofs

LEMMA WorkerAddTaskStep ==
    ASSUME IInv, NEW w \in Workers, WorkerAddTask(w)
    PROVE  IInv'
<1> USE DEF IInv
<1>1. /\ UNCHANGED <<mpc, todo, seen, total, completed, finished, inbox, job>>
      /\ wpc[w] = "enqueue" /\ wpc' = [wpc EXCEPT ![w] = "finish"]
      /\ AddTask(Child[job[w]]) /\ Child[job[w]] # None
  BY DEF WorkerAddTask, AddTask, mainVars, JobsInHand
<1>2. /\ wpc'[w] = "finish" /\ wpc' \in [Workers -> Places]
      /\ \A v \in Workers \ {w} : wpc'[v] = wpc[v]
  BY <1>1 DEF FlowTypes, Places, Busy
<1>3. PICK t : t = Child[job[w]]
  OBVIOUS
<1>4. t \in Tasks /\ ~Submitted(t)
  BY <1>1, <1>3, BusyWorker DEF Submitted, Busy
<1>5. /\ tasks' \in Seq(Tasks) /\ OnePlace'
      /\ Members(tasks') \subseteq Members(tasks) \cup {t}
  BY <1>1, <1>3, <1>4, AddKeepsPlaces
<1>6. FlowTypes' /\ MainOrder'
  BY <1>1, <1>2, <1>5 DEF FlowTypes, MainOrder, Sent
<1>7. JobsInHand'
  BY <1>1, <1>2 DEF JobsInHand, Busy
<1>8. \A u : Submitted(u) => Submitted(u)'
  BY <1>1, <1>2 DEF Submitted
<1>9. Submitted(t)'
  BY <1>1, <1>2, <1>3, BusyWorker DEF Submitted, Busy
<1>10. AllSubmitted'
  BY <1>1, <1>5, <1>8, <1>9 DEF AllSubmitted
<1>11. Counters'
  <2>1. \A u : Counted(u)' <=> Counted(u)
    BY <1>1, <1>2 DEF Counted, Sent
  <2>2. CountedTasks' = CountedTasks
    BY <2>1 DEF CountedTasks
  <2> QED
    BY <1>1, <2>2 DEF Counters
<1> QED
  BY <1>5, <1>6, <1>7, <1>10, <1>11

LEMMA WorkerFinishStep ==
    ASSUME IInv, NEW w \in Workers, WorkerFinish(w)
    PROVE  IInv'
<1> USE DEF IInv
<1>1. PICK p : p = job[w]
  OBVIOUS
<1>2. /\ UNCHANGED <<mpc, todo, seen, total, tasks, inbox>>
      /\ wpc[w] = "finish" /\ wpc' = [wpc EXCEPT ![w] = "wait"]
      /\ completed' = completed + 1 /\ finished' = finished \cup {p}
      /\ job' = [job EXCEPT ![w] = None]
  BY <1>1 DEF WorkerFinish, mainVars
<1>3. p \in Tasks /\ p \notin finished /\ p # None
  BY <1>1, <1>2, BusyWorker, Attempt2Assumption, SMTT(20) DEF Busy
<1>4. /\ job'[w] = None /\ wpc'[w] = "wait"
      /\ \A v \in Workers \ {w} : job'[v] = job[v] /\ wpc'[v] = wpc[v] /\ job[v] # p
  BY <1>1, <1>2, BusyWorker DEF FlowTypes, Busy
<1>5. FlowTypes' /\ MainOrder'
  BY <1>2, <1>3 DEF FlowTypes, MainOrder, Sent, Places, Busy
<1>6. JobsInHand'
  BY <1>4 DEF JobsInHand, Busy
<1>7. OnePlace'
  <2>1. p \notin Members(tasks) /\ \A v \in Workers : p \notin Members(inbox[v])
    BY <1>1 DEF OnePlace
  <2>2. None \notin Members(tasks) /\ None \notin finished
        /\ \A v \in Workers : None \notin Members(inbox[v])
    BY Attempt2Assumption DEF FlowTypes, Members
  <2>3. \A v \in Workers : job'[v] = None \/ (job'[v] = job[v] /\ v # w)
    BY <1>4
  <2>4. \A v \in Workers : job'[v] \notin finished' /\ job'[v] \notin Members(tasks)
    BY <1>2, <1>3, <1>4, <2>2 DEF OnePlace
  <2>5. ASSUME NEW v \in Workers, NEW u \in Members(inbox[v])
        PROVE  /\ u \notin finished' /\ u \notin Members(tasks)
               /\ \A x \in Workers : job'[x] # u /\ (u \in Members(inbox[x]) => x = v)
    BY <1>2, <2>1, <2>2, <2>3, <2>5 DEF OnePlace
  <2>6. \A v, x \in Workers : job'[v] = job'[x] /\ job'[v] # None => v = x
    BY <2>3 DEF OnePlace
  <2> QED
    BY <1>2, <2>1, <2>4, <2>5, <2>6 DEF OnePlace
<1>8. \A u : (Submitted(u) => Submitted(u)') /\ (Counted(u)' <=> Counted(u))
  BY <1>1, <1>2, <1>3, <1>4 DEF Submitted, Counted, Sent
<1>9. AllSubmitted'
  BY <1>1, <1>2, <1>3, <1>4, <1>8 DEF AllSubmitted
<1>10. Counters'
  <2>1. CountedTasks' = CountedTasks
    BY <1>8 DEF CountedTasks
  <2>2. IsFiniteSet(finished)
    BY TaskAssumption, FS_Subset DEF FlowTypes
  <2>3. Cardinality(finished') = Cardinality(finished) + 1 /\ Cardinality(finished) \in Nat
    BY <1>2, <1>3, <2>2, FS_AddElement, FS_CardinalityType
  <2> QED
    BY <1>2, <2>1, <2>3 DEF Counters
<1> QED
  BY <1>5, <1>6, <1>7, <1>9, <1>10
=============================================================================

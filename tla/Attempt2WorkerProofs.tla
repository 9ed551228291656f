------------------------ MODULE Attempt2WorkerProofs ------------------------
(* The steps of a worker on the way of a task: it receives one, and counts  *)
(* the child it is about to submit.                                          *)
EXTENDS Attempt2FlowProofs

LEMMA WorkerTryRecvStep ==
    ASSUME IInv, NEW w \in Workers, WorkerTryRecv(w)
    PROVE  IInv'
<1> USE DEF IInv
<1>1. /\ UNCHANGED <<mpc, todo, seen, total, completed, tasks, finished>>
      /\ wpc[w] = "loop"
  BY DEF WorkerTryRecv, mainVars, taskVars
<1>2. CASE inbox[w] = <<>>
  <2>1. wpc' = [wpc EXCEPT ![w] = "wait"] /\ UNCHANGED <<inbox, job>>
    BY <1>2 DEF WorkerTryRecv
  <2> QED
    BY <1>1, <2>1, MoveStep, Zenon DEF Places, Busy
<1>3. CASE inbox[w] # <<>>
  <2>1. PICK t : t = Head(inbox[w])
    OBVIOUS
  <2>2. PICK rest : rest = Tail(inbox[w])
    BY Zenon
  <2>3. /\ wpc' = [wpc EXCEPT ![w] = "sleep"]
        /\ job' = [job EXCEPT ![w] = t] /\ inbox' = [inbox EXCEPT ![w] = rest]
    BY <1>3, <2>1, <2>2 DEF WorkerTryRecv
  <2>4. /\ rest \in Seq(Tasks) /\ t \in Tasks /\ t \in Members(inbox[w]) /\ Once(rest)
        /\ Members(rest) = Members(inbox[w]) \ {t}
    <3>1. inbox[w] \in Seq(Tasks) /\ Once(inbox[w])
      BY DEF FlowTypes, OnePlace
    <3> QED
      BY <1>3, <2>1, <2>2, <3>1, TailMembers
  <2>5. job[w] = None /\ t # None
    BY <1>1, <2>4, Attempt2Assumption DEF JobsInHand, Busy
  <2>6. /\ job'[w] = t /\ inbox'[w] = rest /\ wpc'[w] = "sleep"
        /\ \A v \in Workers \ {w} : job'[v] = job[v] /\ inbox'[v] = inbox[v] /\ wpc'[v] = wpc[v]
    BY <2>3 DEF FlowTypes
  <2>7. FlowTypes'
    BY <1>1, <2>3, <2>4 DEF FlowTypes, Places, Busy
  <2>8. MainOrder' /\ JobsInHand'
    BY <1>1, <2>5, <2>6 DEF MainOrder, Sent, JobsInHand, Busy
  <2>9. OnePlace'
    <3>1. \A v \in Workers : Members(inbox'[v]) \subseteq Members(inbox[v]) /\ Once(inbox'[v])
      BY <2>4, <2>6 DEF OnePlace
    <3>2. \A v \in Workers : t \notin Members(inbox'[v])
      BY <2>4, <2>6 DEF OnePlace
    <3>3. \A v \in Workers : job[v] # t
      BY <2>4 DEF OnePlace
    <3>4. t \notin finished /\ t \notin Members(tasks)
      BY <2>4 DEF OnePlace
    <3>5. \A v \in Workers : job'[v] = t <=> v = w
      BY <2>6, <3>3
    <3>6. \A v \in Workers : job'[v] = t \/ job'[v] = job[v]
      BY <2>6
    <3>7. \A v \in Workers : job'[v] \notin finished /\ job'[v] \notin Members(tasks)
      BY <3>4, <3>6 DEF OnePlace
    <3>8. ASSUME NEW v \in Workers, NEW u \in Members(inbox'[v])
          PROVE  /\ u \notin finished /\ u \notin Members(tasks)
                 /\ \A x \in Workers : job'[x] # u /\ (u \in Members(inbox'[x]) => x = v)
      BY <3>1, <3>2, <3>6, <3>8 DEF OnePlace
    <3>9. \A v, x \in Workers : job'[v] = job'[x] /\ job'[v] # None => v = x
      BY <3>5, <3>6 DEF OnePlace
    <3> QED
      BY <1>1, <3>1, <3>7, <3>8, <3>9 DEF OnePlace
  <2>10. \A u \in Tasks : (Submitted(u)' <=> Submitted(u)) /\ (Counted(u)' <=> Counted(u))
    BY <1>1, <2>6 DEF Submitted, Counted, Sent
  <2>11. AllSubmitted'
    <3>1. /\ Members(tasks) \subseteq Tasks
          /\ \A v \in Workers : Members(inbox[v]) \subseteq Tasks
      BY DEF FlowTypes, Members
    <3> QED
      BY <1>1, <2>4, <2>5, <2>6, <2>10, <3>1, Zenon DEF AllSubmitted, FlowTypes
  <2>12. CountedTasks' = CountedTasks
    BY <2>10 DEF CountedTasks
  <2> QED
    BY <1>1, <2>7, <2>8, <2>9, <2>11, <2>12 DEF Counters
<1> QED
  BY <1>2, <1>3

(* The task of a busy worker, and the one it submits. *)
LEMMA BusyWorker ==
    ASSUME IInv, NEW w \in Workers, wpc[w] \in Busy
    PROVE  /\ job[w] \in Tasks /\ job[w] \notin finished
           /\ \A v \in Workers : job[v] = job[w] => v = w
           /\ Child[job[w]] # None =>
                 /\ Child[job[w]] \in Tasks
                 /\ \A q \in Tasks : Child[q] = Child[job[w]] => q = job[w]
                 /\ \A i \in DOMAIN InitialTasks : InitialTasks[i] # Child[job[w]]
<1>1. job[w] \in Tasks /\ job[w] # None
  BY DEF IInv, FlowTypes, JobsInHand
<1> QED
  BY <1>1, TaskAssumption DEF IInv, OnePlace

LEMMA WorkerSpawnStep ==
    ASSUME IInv, NEW w \in Workers, WorkerSpawn(w)
    PROVE  IInv'
<1> USE DEF IInv
<1>1. /\ UNCHANGED <<mpc, todo, seen, completed, tasks, finished, inbox, job>>
      /\ wpc[w] = "spawn"
  BY DEF WorkerSpawn, RegisterTask, mainVars, taskVars
<1>2. /\ wpc'[w] = IF Child[job[w]] = None THEN "finish" ELSE "enqueue"
      /\ \A v \in Workers \ {w} : wpc'[v] = wpc[v]
      /\ wpc' \in [Workers -> Places]
  BY Zenon DEF WorkerSpawn, FlowTypes, Places, Busy
<1>3. FlowTypes' /\ MainOrder' /\ OnePlace'
  BY <1>1, <1>2 DEF FlowTypes, MainOrder, Sent, OnePlace
<1>4. JobsInHand'
  BY <1>1, <1>2 DEF JobsInHand, Busy
<1>5. \A u : Submitted(u) => Submitted(u)'
  BY <1>1, <1>2 DEF Submitted
<1>6. AllSubmitted'
  BY <1>1, <1>5 DEF AllSubmitted
<1>7. \A u : Counted(u)' <=> Counted(u) \/ u = Child[job[w]]
  BY <1>1, <1>2, BusyWorker DEF Counted, Sent, Busy
<1>8. CASE Child[job[w]] = None
  <2>1. total' = total
    BY <1>8 DEF WorkerSpawn, taskVars
  <2>2. CountedTasks' = CountedTasks
    BY <1>7, <1>8, Attempt2Assumption DEF CountedTasks
  <2> QED
    BY <1>1, <1>3, <1>4, <1>6, <2>1, <2>2 DEF Counters
<1>9. CASE Child[job[w]] # None
  <2>1. total' = total + 1
    BY <1>9 DEF WorkerSpawn, RegisterTask
  <2>2. Child[job[w]] \in Tasks /\ ~Counted(Child[job[w]])
    BY <1>1, <1>9, BusyWorker, SMTT(20) DEF Counted, Busy
  <2>3. CountedTasks' = CountedTasks \cup {Child[job[w]]} /\ Child[job[w]] \notin CountedTasks
    BY <1>7, <2>2 DEF CountedTasks
  <2>4. IsFiniteSet(CountedTasks)
    BY TaskAssumption, FS_Subset DEF CountedTasks
  <2>5. Cardinality(CountedTasks') = Cardinality(CountedTasks) + 1
    BY <2>3, <2>4, FS_AddElement
  <2> QED
    BY <1>1, <1>3, <1>4, <1>6, <2>1, <2>5, SMTT(20) DEF Counters
<1> QED
  BY <1>8, <1>9
=============================================================================

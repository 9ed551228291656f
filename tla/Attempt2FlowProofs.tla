------------------------- MODULE Attempt2FlowProofs -------------------------
(* The way of a task through the executor of Attempt2, from the submission   *)
(* to the end of its closure: the invariant that follows it, and the steps   *)
(* of main.                                                                  *)
EXTENDS Attempt2, FiniteSetTheorems, TLAPS

Members(q) == {q[i] : i \in DOMAIN q}
Once(q) == \A i, j \in DOMAIN q : q[i] = q[j] => i = j

(* The places of a worker where it has a task in hand. *)
Busy == {"sleep", "spawn", "enqueue", "finish"}
Places == {"spawned", "loop", "wait"} \cup Busy

(* How many tasks main has handed to add_task. *)
Sent == Len(InitialTasks) - Len(todo)

(* The tasks that register_task has counted. *)
Counted(t) ==
    \/ \E i \in DOMAIN InitialTasks :
          InitialTasks[i] = t /\ i <= Sent + IF mpc = "enqueue" THEN 1 ELSE 0
    \/ \E p \in Tasks : /\ Child[p] = t
                        /\ \/ p \in finished
                           \/ \E w \in Workers : job[w] = p /\ wpc[w] \in {"enqueue", "finish"}
CountedTasks == {t \in Tasks : Counted(t)}

(* What the variables on the way of a task hold. *)
FlowTypes ==
    /\ todo \in Seq(Tasks) /\ tasks \in Seq(Tasks)
    /\ inbox \in [Workers -> Seq(Tasks)]
    /\ job \in [Workers -> Tasks \cup {None}]
    /\ wpc \in [Workers -> Places]
    /\ finished \in SUBSET Tasks

(* Main submits its tasks one after another. *)
MainOrder ==
    /\ Len(todo) <= Len(InitialTasks)
    /\ \A i \in 1..Len(todo) : todo[i] = InitialTasks[Sent + i]
    /\ mpc = "enqueue" => todo # <<>>
    /\ mpc \in {"poll", "loaded", "finished", "timedout"} => todo = <<>>

(* A busy worker has a task. *)
JobsInHand ==
    \A w \in Workers :
        /\ (job[w] # None) <=> (wpc[w] \in Busy)
        /\ wpc[w] = "enqueue" => Child[job[w]] # None

(* A task is in one place at most: in the queue, in a channel, in the hands  *)
(* of a worker, or done.                                                     *)
OnePlace ==
    /\ Once(tasks) /\ \A w \in Workers : Once(inbox[w])
    /\ \A t \in finished : t \notin Members(tasks)
    /\ \A w \in Workers : job[w] \notin finished /\ job[w] \notin Members(tasks)
    /\ \A w \in Workers : \A t \in Members(inbox[w]) :
        /\ t \notin finished /\ t \notin Members(tasks)
        /\ \A v \in Workers : job[v] # t /\ (t \in Members(inbox[v]) => v = w)
    /\ \A v, w \in Workers : job[v] = job[w] /\ job[v] # None => v = w

(* It got there through add_task. *)
AllSubmitted ==
    /\ \A t \in Members(tasks) \cup finished : Submitted(t)
    /\ \A w \in Workers :
        /\ \A t \in Members(inbox[w]) : Submitted(t)
        /\ job[w] # None => Submitted(job[w])

Counters ==
    /\ total = Cardinality(CountedTasks)
    /\ completed = Cardinality(finished)
    /\ mpc = "loaded" => seen \in Nat /\ seen <= completed

IInv == FlowTypes /\ MainOrder /\ JobsInHand /\ OnePlace /\ AllSubmitted /\ Counters

(* Only a worker at the end of its loop is in the call that waits. *)
InWait == sys \in [Workers -> {"none", "io", "wait"}]
          /\ \A w \in Workers : sys[w] = "wait" => wpc[w] = "wait"

flowVars == <<mpc, todo, seen, total, completed, tasks, finished, wpc, inbox, job>>

-----------------------------------------------------------------------------
(* A task added at the end of a queue, and one taken from its head. *)
LEMMA AppendMembers ==
    ASSUME NEW S, NEW q \in Seq(S), NEW x \in S
    PROVE  /\ Append(q, x) \in Seq(S)
           /\ Members(Append(q, x)) = Members(q) \cup {x}
           /\ Once(q) /\ x \notin Members(q) => Once(Append(q, x))
<1>1. Append(q, x) \in Seq(S) /\ Len(Append(q, x)) = Len(q) + 1
  OBVIOUS
<1>2. \A i \in 1..Len(q) : Append(q, x)[i] = q[i]
  OBVIOUS
<1>3. Append(q, x)[Len(q) + 1] = x
  OBVIOUS
<1>4. DOMAIN q = 1..Len(q) /\ DOMAIN Append(q, x) = 1..(Len(q) + 1) /\ Len(q) \in Nat
  BY <1>1
<1>5. \A i \in DOMAIN Append(q, x) : i \in DOMAIN q \/ i = Len(q) + 1
  BY <1>4
<1>6. \A i \in DOMAIN q : i \in DOMAIN Append(q, x) /\ Append(q, x)[i] = q[i]
  BY <1>2, <1>4
<1>7. Len(q) + 1 \in DOMAIN Append(q, x)
  BY <1>4
<1>8. Members(Append(q, x)) = Members(q) \cup {x}
  BY <1>3, <1>5, <1>6, <1>7 DEF Members
<1>9. ASSUME Once(q), x \notin Members(q)
      PROVE  Once(Append(q, x))
  BY <1>3, <1>5, <1>6, <1>9 DEF Members, Once
<1> QED
  BY <1>1, <1>8, <1>9

LEMMA TailMembers ==
    ASSUME NEW S, NEW q \in Seq(S), q # <<>>, Once(q)
    PROVE  /\ Tail(q) \in Seq(S) /\ Head(q) \in S
           /\ Head(q) \in Members(q)
           /\ Members(Tail(q)) = Members(q) \ {Head(q)}
           /\ Once(Tail(q))
<1>1. Tail(q) \in Seq(S) /\ Len(Tail(q)) = Len(q) - 1 /\ Len(q) \in Nat /\ Len(q) > 0
  OBVIOUS
<1>2. Head(q) = q[1] /\ 1 \in DOMAIN q /\ Head(q) \in S
  BY <1>1
<1>3. \A i \in DOMAIN Tail(q) : i + 1 \in DOMAIN q /\ Tail(q)[i] = q[i + 1] /\ i \in Nat \ {0}
  BY <1>1
<1>4. \A i \in DOMAIN q : i # 1 => i - 1 \in DOMAIN Tail(q) /\ Tail(q)[i - 1] = q[i]
  BY <1>1
<1>5. Members(Tail(q)) \subseteq Members(q) \ {Head(q)}
  <2> SUFFICES ASSUME NEW i \in DOMAIN Tail(q)
               PROVE  Tail(q)[i] \in Members(q) \ {Head(q)}
    BY DEF Members
  <2>1. q[i + 1] \in Members(q) /\ q[i + 1] # q[1]
    BY <1>2, <1>3 DEF Members, Once
  <2> QED
    BY <1>2, <1>3, <2>1
<1>6. Members(q) \ {Head(q)} \subseteq Members(Tail(q))
  <2> SUFFICES ASSUME NEW i \in DOMAIN q, q[i] # Head(q)
               PROVE  q[i] \in Members(Tail(q))
    BY DEF Members
  <2> QED
    BY <1>2, <1>4, Zenon DEF Members
<1>7. Once(Tail(q))
  <2> SUFFICES ASSUME NEW i \in DOMAIN Tail(q), NEW j \in DOMAIN Tail(q), Tail(q)[i] = Tail(q)[j]
               PROVE  i = j
    BY DEF Once
  <2>1. i + 1 = j + 1
    BY <1>3 DEF Once
  <2> QED
    BY <2>1, <1>3
<1> QED
  BY <1>1, <1>2, <1>5, <1>6, <1>7 DEF Members

-----------------------------------------------------------------------------
(* The steps that leave the tasks where they are. *)
LEMMA QuietStep ==
    ASSUME IInv, UNCHANGED flowVars
    PROVE  IInv'
BY DEF IInv, FlowTypes, MainOrder, Sent, JobsInHand, OnePlace, AllSubmitted, Submitted,
       Counters, CountedTasks, Counted, flowVars

LEMMA MoveStep ==
    ASSUME IInv, NEW w \in Workers, NEW x \in Places,
           x \in Busy <=> wpc[w] \in Busy,
           x \notin {"enqueue", "finish"}, wpc[w] \notin {"enqueue", "finish"},
           wpc' = [wpc EXCEPT ![w] = x],
           UNCHANGED <<mpc, todo, seen, total, completed, tasks, finished, inbox, job>>
    PROVE  IInv'
<1> USE DEF IInv
<1>1. FlowTypes'
  BY DEF FlowTypes
<1>2. MainOrder'
  BY DEF MainOrder, Sent
<1>3. \A v \in Workers : /\ wpc'[v] \in Busy <=> wpc[v] \in Busy
                         /\ wpc'[v] = "enqueue" <=> wpc[v] = "enqueue"
                         /\ wpc'[v] = "finish" <=> wpc[v] = "finish"
  BY DEF FlowTypes
<1>4. JobsInHand'
  BY <1>3 DEF JobsInHand
<1>5. OnePlace'
  BY DEF OnePlace
<1>6. \A t : Submitted(t)' <=> Submitted(t)
  BY <1>3 DEF Submitted
<1>7. AllSubmitted'
  BY <1>6 DEF AllSubmitted
<1>8. \A t : Counted(t)' <=> Counted(t)
  BY <1>3 DEF Counted, Sent
<1>9. Counters'
  <2>1. CountedTasks' = CountedTasks
    BY <1>8 DEF CountedTasks
  <2> QED
    BY <2>1 DEF Counters
<1> QED
  BY <1>1, <1>2, <1>4, <1>5, <1>7, <1>9

(* What add_task does with a task that it has not seen before. *)
LEMMA AddKeepsPlaces ==
    ASSUME FlowTypes, OnePlace, AllSubmitted, NEW t \in Tasks, ~Submitted(t), AddTask(t),
           UNCHANGED <<inbox, job>>
    PROVE  /\ tasks' \in Seq(Tasks) /\ OnePlace'
           /\ Members(tasks') \subseteq Members(tasks) \cup {t}
<1>1. tasks \in Seq(Tasks) /\ UNCHANGED <<finished, inbox, job>>
  BY DEF FlowTypes, AddTask
<1>2. /\ t \notin Members(tasks) /\ t \notin finished
      /\ \A w \in Workers : t \notin Members(inbox[w]) /\ job[w] # t
  <2>1. t # None
    BY Attempt2Assumption
  <2> QED
    BY <2>1 DEF AllSubmitted
<1>3. CASE tasks' = Append(tasks, t)
  <2>1. /\ tasks' \in Seq(Tasks) /\ Members(tasks') = Members(tasks) \cup {t}
        /\ Once(tasks) => Once(tasks')
    BY <1>1, <1>2, <1>3, AppendMembers
  <2> QED
    BY <1>1, <1>2, <2>1 DEF OnePlace
<1>4. CASE tasks' = tasks
  BY <1>1, <1>4 DEF OnePlace
<1> QED
  BY <1>3, <1>4 DEF AddTask, Pushed

-----------------------------------------------------------------------------
(* The steps of main. *)
LEMMA NextInitial ==
    ASSUME IInv, todo # <<>>
    PROVE  /\ Sent \in Nat /\ Sent + 1 \in DOMAIN InitialTasks
           /\ Head(todo) = InitialTasks[Sent + 1] /\ Head(todo) \in Tasks
           /\ Tail(todo) \in Seq(Tasks) /\ Len(Tail(todo)) = Len(todo) - 1
           /\ \A i \in DOMAIN InitialTasks : InitialTasks[i] = Head(todo) => i = Sent + 1
           /\ \A q \in Tasks : Child[q] # Head(todo)
<1>1. todo \in Seq(Tasks) /\ InitialTasks \in Seq(Tasks) /\ Len(todo) <= Len(InitialTasks)
  BY TaskAssumption DEF IInv, FlowTypes, MainOrder
<1>2. Len(todo) \in Nat \ {0} /\ Len(InitialTasks) \in Nat /\ Head(todo) = todo[1]
  BY <1>1
<1>3. Sent \in Nat /\ Sent + 1 \in DOMAIN InitialTasks
  BY <1>1, <1>2 DEF Sent
<1>4. Head(todo) = InitialTasks[Sent + 1]
  BY <1>2 DEF IInv, MainOrder
<1> QED
  BY <1>1, <1>2, <1>3, <1>4, TaskAssumption

LEMMA MainRegisterTaskStep ==
    ASSUME IInv, MainRegisterTask
    PROVE  IInv'
<1> USE DEF IInv
<1>1. UNCHANGED <<todo, seen, completed, tasks, finished, wpc, inbox, job>>
  BY DEF MainRegisterTask, RegisterTask, taskVars, wkVars
<1>2. FlowTypes' /\ JobsInHand' /\ OnePlace' /\ AllSubmitted'
  <2>1. FlowTypes' /\ JobsInHand'
    BY <1>1 DEF FlowTypes, JobsInHand
  <2>2. OnePlace'
    BY <1>1 DEF OnePlace
  <2>3. AllSubmitted'
    BY <1>1 DEF AllSubmitted, Submitted
  <2> QED
    BY <2>1, <2>2, <2>3
<1>3. MainOrder'
  BY <1>1 DEF MainRegisterTask, MainOrder, Sent
<1>4. CASE todo = <<>>
  <2>1. mpc = "register" /\ mpc' = "poll" /\ total' = total
    BY <1>4 DEF MainRegisterTask, taskVars
  <2>2. CountedTasks' = CountedTasks
    BY <1>1, <2>1 DEF CountedTasks, Counted, Sent
  <2> QED
    BY <1>1, <1>2, <1>3, <2>1, <2>2 DEF Counters
<1>5. CASE todo # <<>>
  <2>1. mpc = "register" /\ mpc' = "enqueue" /\ total' = total + 1
    BY <1>5 DEF MainRegisterTask, RegisterTask
  <2> DEFINE t == Head(todo)
  <2>2. t \in Tasks /\ ~Counted(t)
    BY <1>5, <2>1, NextInitial DEF Counted
  <2>3. \A u \in Tasks : Counted(u)' <=> Counted(u) \/ u = t
    <3> SUFFICES ASSUME NEW u \in Tasks
                 PROVE  Counted(u)' <=> Counted(u) \/ u = t
      OBVIOUS
    <3>1. Sent' = Sent /\ Sent \in Nat /\ DOMAIN InitialTasks \subseteq Nat
      BY <1>1, <1>5, NextInitial, TaskAssumption DEF Sent
    <3>2. \A i \in DOMAIN InitialTasks : i <= Sent + 1 <=> i <= Sent \/ i = Sent + 1
      BY <3>1
    <3>3. (\E i \in DOMAIN InitialTasks : InitialTasks[i] = u /\ i <= Sent + 1)
             <=> (\E i \in DOMAIN InitialTasks : InitialTasks[i] = u /\ i <= Sent) \/ u = t
      BY <1>5, <3>2, NextInitial
    <3>4. Counted(u) <=>
             \/ \E i \in DOMAIN InitialTasks : InitialTasks[i] = u /\ i <= Sent
             \/ \E p \in Tasks : /\ Child[p] = u
                                 /\ \/ p \in finished
                                    \/ \E w \in Workers : job[w] = p /\ wpc[w] \in {"enqueue", "finish"}
      BY <2>1, <3>1 DEF Counted
    <3>5. Counted(u)' <=>
             \/ \E i \in DOMAIN InitialTasks : InitialTasks[i] = u /\ i <= Sent + 1
             \/ \E p \in Tasks : /\ Child[p] = u
                                 /\ \/ p \in finished
                                    \/ \E w \in Workers : job[w] = p /\ wpc[w] \in {"enqueue", "finish"}
      BY <1>1, <2>1, <3>1 DEF Counted
    <3> QED
      BY <3>3, <3>4, <3>5
  <2>4. CountedTasks' = CountedTasks \cup {t} /\ t \notin CountedTasks
    BY <2>2, <2>3 DEF CountedTasks
  <2>5. IsFiniteSet(CountedTasks)
    BY TaskAssumption, FS_Subset DEF CountedTasks
  <2>6. Cardinality(CountedTasks') = Cardinality(CountedTasks) + 1
    BY <2>4, <2>5, FS_AddElement
  <2> QED
    BY <1>1, <1>2, <1>3, <2>1, <2>6 DEF Counters
<1> QED
  BY <1>4, <1>5

LEMMA MainAddTaskStep ==
    ASSUME IInv, MainAddTask
    PROVE  IInv'
<1> USE DEF IInv
<1> DEFINE t == Head(todo)
<1>1. /\ UNCHANGED <<seen, total, completed, finished, wpc, inbox, job>>
      /\ mpc = "enqueue" /\ mpc' = "register" /\ todo' = Tail(todo) /\ AddTask(t)
  BY DEF MainAddTask, AddTask, wkVars
<1>2. todo # <<>> /\ todo \in Seq(Tasks) /\ InitialTasks \in Seq(Tasks)
  BY <1>1, TaskAssumption DEF MainOrder, FlowTypes
<1>3. /\ Sent' = Sent + 1 /\ Sent \in Nat /\ t \in Tasks /\ ~Submitted(t)
      /\ Sent = Len(InitialTasks) - Len(todo)
  BY <1>1, <1>2, NextInitial DEF Submitted, Sent
<1>4. /\ tasks' \in Seq(Tasks) /\ OnePlace'
      /\ Members(tasks') \subseteq Members(tasks) \cup {t}
  BY <1>1, <1>3, AddKeepsPlaces
<1>5. FlowTypes' /\ JobsInHand'
  BY <1>1, <1>2, <1>4, NextInitial DEF FlowTypes, JobsInHand
<1>6. MainOrder'
  <2>1. Len(todo') = Len(todo) - 1 /\ \A i \in 1..Len(todo') : todo'[i] = todo[i + 1]
    BY <1>1, <1>2, SMTT(20)
  <2>2. \A i \in 1..Len(todo') : todo'[i] = InitialTasks[Sent' + i]
    <3> SUFFICES ASSUME NEW i \in 1..Len(todo')
                 PROVE  todo'[i] = InitialTasks[Sent' + i]
      OBVIOUS
    <3>1. i + 1 \in 1..Len(todo) /\ Sent' + i = Sent + (i + 1)
      BY <1>2, <1>3, <2>1
    <3> QED
      BY <2>1, <3>1 DEF MainOrder
  <2> QED
    BY <1>1, <1>2, <2>1, <2>2 DEF MainOrder
<1>7. \A u : Submitted(u) => Submitted(u)'
  <2>1. \A i \in DOMAIN InitialTasks : i <= Sent => i <= Sent'
    BY <1>2, <1>3
  <2> QED
    BY <1>1, <2>1 DEF Submitted, Sent
<1>8. \A u : u = t => Submitted(u)'
  BY <1>2, <1>3, NextInitial DEF Submitted, Sent
<1>9. AllSubmitted'
  BY <1>1, <1>4, <1>7, <1>8 DEF AllSubmitted
<1>10. Counters'
  <2>1. \A i \in DOMAIN InitialTasks : i <= Sent' + 0 <=> i <= Sent + 1
    BY <1>2, <1>3
  <2>2. CountedTasks' = CountedTasks
    BY <1>1, <2>1 DEF CountedTasks, Counted
  <2> QED
    BY <1>1, <2>2 DEF Counters
<1> QED
  BY <1>4, <1>5, <1>6, <1>9, <1>10

(* all_tasks_completed has loaded a number that completed_tasks had. *)
LEMMA AllTasksCompletedStep ==
    ASSUME IInv, AllTasksCompleted
    PROVE  IInv'
<1> USE DEF IInv
<1>1. /\ UNCHANGED <<todo, total, completed, tasks, finished, wpc, inbox, job>>
      /\ mpc' \in {"poll", "loaded", "finished", "timedout"}
      /\ mpc \in {"poll", "loaded"}
      /\ mpc' = "loaded" => seen' = completed
  BY DEF AllTasksCompleted, LoadFirst, LoadSecond, taskVars, wkVars
<1>2. FlowTypes' /\ JobsInHand' /\ OnePlace' /\ AllSubmitted' /\ MainOrder'
  <2>1. FlowTypes' /\ JobsInHand'
    BY <1>1 DEF FlowTypes, JobsInHand
  <2>2. OnePlace'
    BY <1>1 DEF OnePlace
  <2>3. AllSubmitted'
    BY <1>1 DEF AllSubmitted, Submitted
  <2>4. MainOrder'
    BY <1>1 DEF MainOrder, Sent
  <2> QED
    BY <2>1, <2>2, <2>3, <2>4, SMTT(20)
<1>3. CountedTasks' = CountedTasks
  BY <1>1 DEF CountedTasks, Counted, Sent
<1>4. completed \in Nat
  BY TaskAssumption, FS_Subset, FS_CardinalityType DEF FlowTypes, Counters
<1> QED
  BY <1>1, <1>2, <1>3, <1>4 DEF Counters
=============================================================================

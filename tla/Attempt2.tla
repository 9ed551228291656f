------------------------------ MODULE Attempt2 ------------------------------
(***************************************************************************)
(* The executor of src/attempt2.rs as run_dynamic_task_attempt2_demo runs  *)
(* it, on top of the klib: scheduling servers with their own workers and   *)
(* worker queues, the EventRoutingServer that collects WAKE events and     *)
(* routes them to the owner of the worker, the worker threads, one task    *)
(* queue shared by all, and the main thread that boots the servers,        *)
(* submits tasks and polls the task counters.                              *)
(***************************************************************************)
EXTENDS UmcgKernel

CONSTANTS
    Router,         \* the thread of the EventRoutingServer
    Owner,          \* the server that manages each worker
    BootOrder,      \* the order in which main starts the servers
    InitialTasks,   \* the tasks main submits, in order
    Child,          \* the task that a task submits while it runs, or None
    QueueCapacity,  \* QUEUE_CAPACITY of the task queue
    ChannelSize,    \* CHANNEL_SIZE of a server's event channel
    EventSlots,     \* the size of the EventRoutingServer's event buffer
    Preemptible,    \* tasks may outlast UMCG_PREEMPT_INTERVAL
    BlockAtBoot,    \* a worker may block before its first UMCG wait
    LateWorkers,    \* a thread may need more than 3 s to enter the shared maps
    Impatient       \* main's 30 s may run out

Schedulers == Servers \ {Router}
Tasks == DOMAIN Child
Own(s) == {w \in Workers : Owner[w] = s}

(* EVENT_BUFFER_SIZE *)
SwitchSlots == 2

ASSUME Attempt2Assumption ==
    /\ Router \in Servers
    /\ Owner \in [Workers -> Schedulers]
    /\ QueueCapacity \in Nat /\ ChannelSize \in Nat /\ EventSlots \in Nat \ {0, 1}
    /\ None \notin Tasks

(* Main and the closures submit different closures, none of them twice. *)
ASSUME TaskAssumption ==
    /\ IsFiniteSet(Tasks)
    /\ Child \in [Tasks -> Tasks \cup {None}]
    /\ InitialTasks \in Seq(Tasks)
    /\ \A i, j \in DOMAIN InitialTasks : InitialTasks[i] = InitialTasks[j] => i = j
    /\ \A p, q \in Tasks : Child[p] = Child[q] /\ Child[p] # None => p = q
    /\ \A p \in Tasks, i \in DOMAIN InitialTasks : Child[p] # InitialTasks[i]

(* Every task is submitted by main, or by a task that main submitted, and so *)
(* on: a set of tasks with the initial ones and the children of its own has  *)
(* them all.                                                                 *)
EveryTaskHasSource ==
    \A S \in SUBSET Tasks :
        /\ \A i \in DOMAIN InitialTasks : InitialTasks[i] \in S
        /\ \A p \in S : Child[p] # None => Child[p] \in S
        => S = Tasks

VARIABLES
    mpc,        \* where the main thread is
    boot,       \* how many servers main has begun to set up
    todo,       \* initial tasks not yet submitted
    seen,       \* completed_tasks as loaded by all_tasks_completed
    wait, done, \* the two AtomicBool flags
    total, completed, \* TaskStats
    tasks,      \* TaskQueue.queue
    finished,   \* the tasks whose closure has returned
    known,      \* the keys of Server.states, which never change
    spc,        \* where each scheduling server is
    cur,        \* the worker a booting server switches to
    registered, \* registered_workers of start_server
    states,     \* Server.states: the WorkerStatus the server believes in
    pending, running, \* WorkerQueues
    channel,    \* event_consumer: events routed to each server
    rpc, rbuf,  \* the EventRoutingServer and the events it has yet to route
    wpc,        \* where each worker thread is
    sys,        \* the syscall a worker is in
    inbox,      \* task_rx of each worker
    job         \* the task a worker executes

mainVars == <<mpc, boot, todo, seen, known>>
flagVars == <<wait, done>>
taskVars == <<total, completed, tasks, finished>>
schedVars == <<spc, cur, registered, states, pending, running>>
routerVars == <<rpc, rbuf>>
wkVars == <<wpc, sys, inbox, job>>
vars == <<kernelVars, mainVars, flagVars, taskVars, schedVars, channel,
          routerVars, wkVars>>

WorkerStatus == {"Initializing", "Running", "Blocked", "Waiting"}

(* The values each piece of state can hold: in particular, only a task with   *)
(* a child submits one, so that the queue never holds anything but tasks.    *)
TypeOK ==
    /\ KernelTypeOK
    /\ mpc \in {"boot", "register", "enqueue", "poll", "loaded", "finished", "timedout"}
    /\ boot \in 1..Len(BootOrder)
    /\ todo \in Seq(Tasks) /\ tasks \in Seq(Tasks) /\ finished \subseteq Tasks
    /\ seen \in Nat /\ total \in Nat /\ completed \in Nat
    /\ wait \in BOOLEAN /\ done \in BOOLEAN
    /\ spc \in [Schedulers -> {"off", "boot", "bootgot", "bootswitch", "spin", "sched",
                               "schedswitch", "drain", "wakeswitch", "stopped"}]
    /\ known \in [Schedulers -> SUBSET Workers]
    /\ cur \in [Schedulers -> Workers \cup {None}]
    /\ registered \in [Schedulers -> SUBSET Workers]
    /\ states \in [Workers -> WorkerStatus]
    /\ pending \in [Schedulers -> Seq(Workers)] /\ running \in [Schedulers -> Seq(Workers)]
    /\ channel \in [Schedulers -> Seq(Words)]
    /\ rpc \in {"off", "loop", "waiting", "route", "stopped"} /\ rbuf \in Seq(Words)
    /\ wpc \in [Workers -> {"spawned", "loop", "sleep", "spawn", "enqueue", "finish", "wait"}]
    /\ sys \in [Workers -> {"none", "io", "wait"}]
    /\ inbox \in [Workers -> Seq(Tasks)] /\ job \in [Workers -> Tasks \cup {None}]

(* The servers hold back until wait is cleared, if it is set. *)
InitWith(held) ==
    /\ KernelInit
    /\ mpc = "boot" /\ boot = 1 /\ todo = InitialTasks /\ seen = 0
    /\ wait = held /\ done = FALSE
    /\ total = 0 /\ completed = 0 /\ tasks = <<>> /\ finished = {}
    /\ spc = [s \in Schedulers |-> "off"]
    /\ known = [s \in Schedulers |-> {}]
    /\ cur = [s \in Schedulers |-> None]
    /\ registered = [s \in Schedulers |-> {}]
    /\ states = [w \in Workers |-> "Initializing"]
    /\ pending = [s \in Schedulers |-> <<>>] /\ running = [s \in Schedulers |-> <<>>]
    /\ channel = [s \in Schedulers |-> <<>>]
    /\ rpc = "off" /\ rbuf = <<>>
    /\ wpc = [w \in Workers |-> "spawned"]
    /\ sys = [w \in Workers |-> "none"]
    /\ inbox = [w \in Workers |-> <<>>] /\ job = [w \in Workers |-> None]

Init == InitWith(TRUE)

(* ArrayQueue::push, which refuses when the queue is full. *)
Pushed(q, x, capacity) == IF Len(q) < capacity THEN Append(q, x) ELSE q

(* The locals that held the result of a call of s go out of scope. *)
Discard(s) ==
    /\ delivered' = [delivered EXCEPT ![s] = <<>>]
    /\ ret' = [ret EXCEPT ![s] = "OK"]
    /\ UNCHANGED <<workerVars, queueVars, srv, req, mailbox, watch>>

-----------------------------------------------------------------------------
(* TaskHandle::submit counts the task, then queues it; a full queue drops it. *)
RegisterTask == total' = total + 1 /\ UNCHANGED <<completed, tasks, finished>>
(* Mutant: a task that the queue refuses is not counted any more. *)
AddTaskUncounted(t) ==
    /\ tasks' = Pushed(tasks, t, QueueCapacity)
    /\ total' = IF Len(tasks) < QueueCapacity THEN total ELSE total - 1
    /\ UNCHANGED <<completed, finished>>

AddTask(t) ==
    tasks' = Pushed(tasks, t, QueueCapacity) /\ UNCHANGED <<total, completed, finished>>

(* initialize_workers spawns the workers, sleeps 3 s and copies the maps     *)
(* they have entered; a worker that is late is unknown to its server.  Then  *)
(* the server starts.                                                        *)
MainStartServer ==
    /\ mpc = "boot" /\ spc[BootOrder[boot]] = "off"
    /\ LET s == BootOrder[boot]
           mapped == {w \in Own(s) : wpc[w] # "spawned"}
       IN  /\ mapped = Own(s) \/ LateWorkers
           /\ known' = [known EXCEPT ![s] = mapped]
           /\ spc' = [spc EXCEPT ![s] = "boot"]
    /\ UNCHANGED <<kernelVars, mpc, boot, todo, seen, flagVars, taskVars, cur, registered,
                   states, pending, running, channel, routerVars, wkVars>>

(* run_dynamic_task_attempt2_demo goes on when all are marked Waiting. *)
MainWorkersReady ==
    /\ mpc = "boot"
    /\ \A w \in Own(BootOrder[boot]) : states[w] = "Waiting"
    /\ IF boot < Len(BootOrder)
       THEN boot' = boot + 1 /\ UNCHANGED <<mpc, rpc, wait>>
       ELSE mpc' = "register" /\ rpc' = "loop" /\ wait' = FALSE /\ UNCHANGED boot
    /\ UNCHANGED <<kernelVars, todo, seen, known, done, taskVars, schedVars, channel, rbuf,
                   wkVars>>

MainRegisterTask ==
    /\ mpc = "register"
    /\ IF todo = <<>>
       THEN mpc' = "poll" /\ UNCHANGED taskVars
       ELSE mpc' = "enqueue" /\ RegisterTask
    /\ UNCHANGED <<kernelVars, boot, todo, seen, known, flagVars, schedVars, channel,
                   routerVars, wkVars>>

MainAddTask ==
    /\ mpc = "enqueue"
    /\ mpc' = "register"
    /\ todo' = Tail(todo)
    /\ AddTask(Head(todo))
    /\ UNCHANGED <<kernelVars, boot, seen, known, flagVars, schedVars, channel, routerVars,
                   wkVars>>

(* TaskStats::all_tasks_completed loads completed_tasks, then total_tasks;   *)
(* when it says no, main tries again, or its 30 s are over.                  *)
LoadFirst ==
    /\ mpc = "poll"
    /\ mpc' = "loaded" /\ seen' = completed
    /\ UNCHANGED <<kernelVars, boot, todo, known, flagVars, taskVars, schedVars, channel,
                   routerVars, wkVars>>

LoadSecond ==
    /\ mpc = "loaded"
    /\ LET completes == seen > 0 /\ seen = total
       IN  \/ completes /\ mpc' = "finished" /\ done' = TRUE
           \/ ~completes /\ mpc' = "poll" /\ UNCHANGED done
           \/ ~completes /\ Impatient /\ mpc' = "timedout" /\ done' = TRUE
    /\ seen' = 0
    /\ UNCHANGED <<kernelVars, boot, todo, known, wait, taskVars, schedVars, channel,
                   routerVars, wkVars>>

(* Mutant: total_tasks is loaded before completed_tasks. *)
AllTasksCompletedSwapped ==
    /\ \/ mpc = "poll" /\ mpc' = "loaded" /\ seen' = total /\ UNCHANGED done
       \/ /\ mpc = "loaded" /\ seen' = 0
          /\ IF completed > 0 /\ completed = seen
             THEN mpc' = "finished" /\ done' = TRUE
             ELSE mpc' = "poll" /\ UNCHANGED done
    /\ UNCHANGED <<kernelVars, boot, todo, known, wait, taskVars, schedVars, channel,
                   routerVars, wkVars>>

AllTasksCompleted == LoadFirst \/ LoadSecond

MainStep ==
    \/ MainStartServer \/ MainWorkersReady \/ MainRegisterTask \/ MainAddTask
    \/ AllTasksCompleted

-----------------------------------------------------------------------------
(* Worker threads (Worker::spawn, Worker::start). *)

Spawned(w) == \E i \in 1..boot : BootOrder[i] = Owner[w]

(* The thread enters both maps while it holds the lock of the first. *)
WorkerEnterMaps(w) ==
    /\ Spawned(w) /\ wpc[w] = "spawned"
    /\ wpc' = [wpc EXCEPT ![w] = "loop"]
    /\ UNCHANGED <<kernelVars, mainVars, flagVars, taskVars, schedVars, channel,
                   routerVars, sys, inbox, job>>

WorkerRegister(w) ==
    /\ wpc[w] # "spawned"
    /\ RegisterWorker(w)
    /\ UNCHANGED <<mainVars, flagVars, taskVars, schedVars, channel, routerVars, wkVars>>

Executing(w) == OnCpu(w) /\ status[w] = "RUNNING"

(* try_recv: run the task, or wait for one. *)
WorkerTryRecv(w) ==
    /\ Executing(w) /\ wpc[w] = "loop"
    /\ IF inbox[w] = <<>>
       THEN wpc' = [wpc EXCEPT ![w] = "wait"] /\ UNCHANGED <<inbox, job>>
       ELSE /\ wpc' = [wpc EXCEPT ![w] = "sleep"]
            /\ job' = [job EXCEPT ![w] = Head(inbox[w])]
            /\ inbox' = [inbox EXCEPT ![w] = Tail(@)]
    /\ UNCHANGED <<kernelVars, mainVars, flagVars, taskVars, schedVars, channel,
                   routerVars, sys>>

(* thread::sleep in the demo's closures, or a contended println! at boot. *)
WorkerIo(w) ==
    /\ Executing(w)
    /\ \/ wpc[w] = "sleep" /\ wpc' = [wpc EXCEPT ![w] = "spawn"]
       \/ BlockAtBoot /\ states[w] = "Initializing" /\ wpc[w] = "loop" /\ UNCHANGED wpc
    /\ SyscallEnter(w)
    /\ sys' = [sys EXCEPT ![w] = "io"]
    /\ UNCHANGED <<mainVars, flagVars, taskVars, schedVars, channel, routerVars,
                   inbox, job>>

WorkerIoEnd(w) ==
    /\ sys[w] = "io"
    /\ SyscallBlock(w) \/ SyscallReturn(w)
    /\ sys' = [sys EXCEPT ![w] = "none"]
    /\ UNCHANGED <<mainVars, flagVars, taskVars, schedVars, channel, routerVars,
                   wpc, inbox, job>>

WorkerUnblock(w) ==
    /\ Unblock(w)
    /\ UNCHANGED <<mainVars, flagVars, taskVars, schedVars, channel, routerVars, wkVars>>

WorkerAnnounce(w) ==
    /\ UnblockAnnounce(w)
    /\ UNCHANGED <<mainVars, flagVars, taskVars, schedVars, channel, routerVars, wkVars>>

(* Mutant: a task without child submits one. *)
WorkerSpawnAlways(w) ==
    /\ Executing(w) /\ wpc[w] = "spawn"
    /\ wpc' = [wpc EXCEPT ![w] = "enqueue"] /\ RegisterTask
    /\ UNCHANGED <<kernelVars, mainVars, flagVars, schedVars, channel, routerVars,
                   sys, inbox, job>>

(* The closure submits its child through the TaskHandle. *)
WorkerSpawn(w) ==
    /\ Executing(w) /\ wpc[w] = "spawn"
    /\ IF Child[job[w]] = None
       THEN wpc' = [wpc EXCEPT ![w] = "finish"] /\ UNCHANGED taskVars
       ELSE wpc' = [wpc EXCEPT ![w] = "enqueue"] /\ RegisterTask
    /\ UNCHANGED <<kernelVars, mainVars, flagVars, schedVars, channel, routerVars,
                   sys, inbox, job>>

WorkerAddTask(w) ==
    /\ Executing(w) /\ wpc[w] = "enqueue"
    /\ wpc' = [wpc EXCEPT ![w] = "finish"]
    /\ AddTask(Child[job[w]])
    /\ UNCHANGED <<kernelVars, mainVars, flagVars, schedVars, channel, routerVars,
                   sys, inbox, job>>

(* mark_completed, at the end of the wrapped closure. *)
WorkerFinish(w) ==
    /\ Executing(w) /\ wpc[w] = "finish"
    /\ wpc' = [wpc EXCEPT ![w] = "wait"]
    /\ completed' = completed + 1
    /\ finished' = finished \cup {job[w]}
    /\ job' = [job EXCEPT ![w] = None]
    /\ UNCHANGED <<kernelVars, mainVars, flagVars, total, tasks, schedVars, channel,
                   routerVars, sys, inbox>>

(* UmcgCmd::Wait, after which the loop starts again. *)
WorkerWaitEnter(w) ==
    /\ Executing(w) /\ wpc[w] = "wait"
    /\ SyscallEnter(w)
    /\ sys' = [sys EXCEPT ![w] = "wait"]
    /\ UNCHANGED <<mainVars, flagVars, taskVars, schedVars, channel, routerVars,
                   wpc, inbox, job>>

WorkerWaitCall(w) ==
    /\ sys[w] = "wait"
    /\ WorkerWait(w, FALSE)
    /\ sys' = [sys EXCEPT ![w] = "none"]
    /\ wpc' = [wpc EXCEPT ![w] = "loop"]
    /\ UNCHANGED <<mainVars, flagVars, taskVars, schedVars, channel, routerVars,
                   inbox, job>>

WorkerWaitSend(w) ==
    /\ WorkerWaitPost(w)
    /\ UNCHANGED <<mainVars, flagVars, taskVars, schedVars, channel, routerVars, wkVars>>

WorkerPreempt(w) ==
    /\ Preemptible /\ Executing(w) /\ job[w] # None
    /\ Preempt(w)
    /\ UNCHANGED <<mainVars, flagVars, taskVars, schedVars, channel, routerVars, wkVars>>

WorkerStep(w) ==
    \/ WorkerEnterMaps(w) \/ WorkerRegister(w) \/ WorkerTryRecv(w)
    \/ WorkerIo(w) \/ WorkerIoEnd(w) \/ WorkerUnblock(w) \/ WorkerAnnounce(w)
    \/ WorkerSpawn(w) \/ WorkerAddTask(w) \/ WorkerFinish(w)
    \/ WorkerWaitEnter(w) \/ WorkerWaitCall(w) \/ WorkerWaitSend(w)

-----------------------------------------------------------------------------
(* Scheduling servers. *)

(* UmcgCmd::CtxSwitch: the server sleeps, or is refused. *)
CtxSwitch(s, w) == ServerCtxSwitch(s, w, SwitchSlots) \/ ServerCtxSwitchFail(s, w)

At(s, place) == spc[s] = place /\ srv[s] = "user"
Goto(s, place) == spc' = [spc EXCEPT ![s] = place]

(* start_server: collect the workers' registration events. *)
BootWait(s) ==
    /\ At(s, "boot") /\ Cardinality(registered[s]) < Cardinality(known[s])
    /\ ServerWait(s, SwitchSlots, FALSE)
    /\ Goto(s, "bootgot")
    /\ UNCHANGED <<cur, registered, states, pending, running, channel>>

BootDone(s) ==
    /\ At(s, "boot") /\ Cardinality(registered[s]) >= Cardinality(known[s])
    /\ Goto(s, "spin")
    /\ UNCHANGED <<kernelVars, cur, registered, states, pending, running, channel>>

BootEvent(s) ==
    /\ At(s, "bootgot")
    /\ LET e == Head(delivered[s])
       IN  IF e.type = "WAKE" /\ e.worker \notin registered[s]
           THEN /\ CtxSwitch(s, e.worker)
                /\ cur' = [cur EXCEPT ![s] = e.worker]
                /\ Goto(s, "bootswitch")
           ELSE Goto(s, "boot") /\ Discard(s) /\ UNCHANGED cur
    /\ UNCHANGED <<registered, states, pending, running, channel>>

(* The events of this switch are not looked at. *)
BootSwitched(s) ==
    /\ At(s, "bootswitch")
    /\ IF ret[s] = "OK" /\ cur[s] \in known[s]
       THEN /\ states' = [states EXCEPT ![cur[s]] = "Waiting"]
            /\ pending' = [pending EXCEPT ![s] = Pushed(@, cur[s], Cardinality(Own(s)))]
            /\ registered' = [registered EXCEPT ![s] = @ \cup {cur[s]}]
       ELSE UNCHANGED <<states, pending, registered>>
    /\ cur' = [cur EXCEPT ![s] = None]
    /\ Goto(s, "boot")
    /\ Discard(s)
    /\ UNCHANGED <<running, channel>>

Spin(s) ==
    /\ At(s, "spin") /\ ~wait
    /\ Goto(s, IF done THEN "stopped" ELSE "sched")
    /\ UNCHANGED <<kernelVars, cur, registered, states, pending, running, channel>>

(* handle_event: what the server does with one event, then goes on at k; an  *)
(* error ends the caller and leaves the server in run_event_loop.            *)
HandleBlock(s, w, k) ==
    /\ states' = [states EXCEPT ![w] = IF @ = "Running" THEN "Blocked" ELSE @]
    /\ Goto(s, k) /\ Discard(s)
    /\ UNCHANGED <<pending, running>>

(* Mutant: the woken worker is not switched to. *)
HandleWakeNoSwitch(s, w, k) ==
    /\ states' = [states EXCEPT ![w] = IF @ = "Blocked" THEN "Running" ELSE @]
    /\ Goto(s, k) /\ Discard(s)
    /\ UNCHANGED <<pending, running>>

(* A WAKE comes from the channel only, never from a switch with SwitchSlots. *)
HandleWake(s, w, k) ==
    IF states[w] = "Blocked"
    THEN /\ states' = [states EXCEPT ![w] = "Running"]
         /\ CtxSwitch(s, w)
         /\ Goto(s, "wakeswitch")
         /\ UNCHANGED <<pending, running>>
    ELSE Goto(s, k) /\ Discard(s) /\ UNCHANGED <<states, pending, running>>

(* Mutants: the worker is not put back into pending; running is not popped. *)
HandleWaitForgotten(s, w, k) ==
    /\ states' = [states EXCEPT ![w] = "Waiting"]
    /\ running' = [running EXCEPT ![s] = Tail(@)]
    /\ Goto(s, k) /\ Discard(s)
    /\ UNCHANGED pending

HandleWaitNoPop(s, w, k) ==
    /\ states' = [states EXCEPT ![w] = "Waiting"]
    /\ pending' = [pending EXCEPT ![s] = Pushed(@, w, Cardinality(Own(s)))]
    /\ Goto(s, k) /\ Discard(s)
    /\ UNCHANGED running

HandleWait(s, w, k) ==
    /\ IF states[w] = "Running"
       THEN /\ states' = [states EXCEPT ![w] = "Waiting"]
            /\ running' = [running EXCEPT ![s] = IF @ = <<>> THEN @ ELSE Tail(@)]
       ELSE UNCHANGED <<states, running>>
    /\ pending' = [pending EXCEPT ![s] = Pushed(@, w, Cardinality(Own(s)))]
    /\ Goto(s, k) /\ Discard(s)

HandleEvent(s, e, k) ==
    /\ \/ e.type = "BLOCK" /\ HandleBlock(s, e.worker, k)
       \/ e.type = "WAKE" /\ HandleWake(s, e.worker, k)
       \/ e.type = "WAIT" /\ HandleWait(s, e.worker, k)
       \/ /\ e.type \in {"EXIT", "TIMEOUT", "PREEMPT"}
          /\ Goto(s, "drain") /\ Discard(s)
          /\ UNCHANGED <<states, pending, running>>
    /\ UNCHANGED <<cur, registered>>

(* try_schedule_tasks, one worker popped from the pending queue at a time. *)
Rotate(s) == pending' = [pending EXCEPT ![s] = Append(Tail(@), Head(@))]

SchedEmpty(s) ==
    /\ At(s, "sched") /\ pending[s] = <<>>
    /\ Goto(s, "drain")
    /\ UNCHANGED <<kernelVars, taskVars, cur, registered, states, pending, running, inbox>>

(* The worker goes back to the queue: it is not Waiting after all, or there  *)
(* is no task for it, which ends the loop.                                   *)
SchedPutBack(s) ==
    /\ At(s, "sched") /\ pending[s] # <<>>
    /\ states[Head(pending[s])] # "Waiting" \/ tasks = <<>>
    /\ Rotate(s)
    /\ Goto(s, IF states[Head(pending[s])] = "Waiting" THEN "drain" ELSE "sched")
    /\ UNCHANGED <<kernelVars, taskVars, cur, registered, states, running, inbox>>

(* Mutants: the status is not set to Running; the task stays in the queue. *)
SchedTaskStillWaiting(s) ==
    /\ At(s, "sched") /\ pending[s] # <<>> /\ states[Head(pending[s])] = "Waiting"
    /\ tasks # <<>> /\ tasks' = Tail(tasks)
    /\ pending' = [pending EXCEPT ![s] = Tail(@)]
    /\ running' = [running EXCEPT ![s] = Append(@, Head(pending[s]))]
    /\ inbox' = [inbox EXCEPT ![Head(pending[s])] = Append(@, Head(tasks))]
    /\ CtxSwitch(s, Head(pending[s]))
    /\ Goto(s, "schedswitch")
    /\ UNCHANGED <<total, completed, finished, cur, registered, states>>

SchedTaskPeek(s) ==
    /\ At(s, "sched") /\ pending[s] # <<>> /\ states[Head(pending[s])] = "Waiting"
    /\ tasks # <<>> /\ Len(running[s]) < Cardinality(Own(s))
    /\ states' = [states EXCEPT ![Head(pending[s])] = "Running"]
    /\ pending' = [pending EXCEPT ![s] = Tail(@)]
    /\ running' = [running EXCEPT ![s] = Append(@, Head(pending[s]))]
    /\ inbox' = [inbox EXCEPT ![Head(pending[s])] = Append(@, Head(tasks))]
    /\ CtxSwitch(s, Head(pending[s]))
    /\ Goto(s, "schedswitch")
    /\ UNCHANGED <<taskVars, cur, registered>>

(* A full running queue keeps the worker pending and drops the task. *)
SchedTask(s) ==
    /\ At(s, "sched") /\ pending[s] # <<>> /\ states[Head(pending[s])] = "Waiting"
    /\ tasks # <<>> /\ tasks' = Tail(tasks)
    /\ LET w == Head(pending[s])
       IN  IF Len(running[s]) < Cardinality(Own(s))
           THEN /\ states' = [states EXCEPT ![w] = "Running"]
                /\ pending' = [pending EXCEPT ![s] = Tail(@)]
                /\ running' = [running EXCEPT ![s] = Append(@, w)]
                /\ inbox' = [inbox EXCEPT ![w] = Append(@, Head(tasks))]
                /\ CtxSwitch(s, w)
                /\ Goto(s, "schedswitch")
           ELSE Rotate(s) /\ UNCHANGED <<kernelVars, spc, states, running, inbox>>
    /\ UNCHANGED <<total, completed, finished, cur, registered>>

SchedStep(s) ==
    /\ SchedEmpty(s) \/ SchedPutBack(s) \/ SchedTask(s)
    /\ UNCHANGED <<mainVars, flagVars, channel, routerVars, wpc, sys, job>>

(* The return code of the switch is not looked at; a refused one leaves no   *)
(* events.                                                                   *)
SwitchBack(s, place, k) ==
    /\ At(s, place)
    /\ IF delivered[s] = <<>>
       THEN Goto(s, k) /\ Discard(s) /\ UNCHANGED <<cur, registered, states, pending, running>>
       ELSE HandleEvent(s, Head(delivered[s]), k)
    /\ UNCHANGED channel

SchedBack(s) == SwitchBack(s, "schedswitch", "sched")
WakeBack(s) == SwitchBack(s, "wakeswitch", "drain")

(* run_event_loop: try_recv until the event channel is empty. *)
DrainEvent(s) ==
    /\ At(s, "drain") /\ channel[s] # <<>>
    /\ channel' = [channel EXCEPT ![s] = Tail(@)]
    /\ IF Head(channel[s]).worker \in known[s]
       THEN HandleEvent(s, Head(channel[s]), "drain")
       ELSE UNCHANGED <<kernelVars, schedVars>>

DrainEmpty(s) ==
    /\ At(s, "drain") /\ channel[s] = <<>>
    /\ Goto(s, IF done THEN "stopped" ELSE "sched")
    /\ UNCHANGED <<kernelVars, cur, registered, states, pending, running, channel>>

(* The bottom halves that end a server's blocking call. *)
CallReturns(s) ==
    /\ SwitchResume(s) \/ WaitResume(s)
    /\ UNCHANGED <<schedVars, channel>>

ServerStep(s) ==
    \/ SchedStep(s)
    \/ /\ \/ BootWait(s) \/ BootDone(s) \/ BootEvent(s) \/ BootSwitched(s) \/ Spin(s)
          \/ SchedBack(s) \/ WakeBack(s) \/ DrainEvent(s) \/ DrainEmpty(s) \/ CallReturns(s)
       /\ UNCHANGED <<mainVars, flagVars, taskVars, routerVars, wkVars>>

-----------------------------------------------------------------------------
(* EventRoutingServer::start: wait 50 us for events, send each one to the    *)
(* server of its worker, sleep.                                              *)
RouterWait ==
    /\ rpc = "loop"
    /\ IF done
       THEN rpc' = "stopped" /\ UNCHANGED kernelVars
       ELSE rpc' = "waiting" /\ ServerWait(Router, EventSlots, TRUE)
    /\ UNCHANGED <<rbuf, channel>>

RouterReturns ==
    /\ WaitResume(Router) \/ WaitTimeout(Router)
    /\ UNCHANGED <<rpc, rbuf, channel>>

(* Mutant: the events of a successful wait are dropped. *)
RouterBackDrop ==
    /\ rpc = "waiting" /\ srv[Router] = "user"
    /\ rpc' = "loop"
    /\ Discard(Router)
    /\ UNCHANGED <<rbuf, channel>>

RouterBack ==
    /\ rpc = "waiting" /\ srv[Router] = "user"
    /\ IF ret[Router] = "OK"
       THEN rpc' = "route" /\ rbuf' = delivered[Router]
       ELSE rpc' = "loop" /\ UNCHANGED rbuf
    /\ Discard(Router)
    /\ UNCHANGED channel

(* Mutant: an event is sent twice. *)
RouterSendTwice ==
    /\ rpc = "route" /\ rbuf # <<>>
    /\ LET s == Owner[Head(rbuf).worker]
       IN  /\ Len(channel[s]) + 1 < ChannelSize
           /\ channel' = [channel EXCEPT ![s] = @ \o <<Head(rbuf), Head(rbuf)>>]
    /\ rbuf' = Tail(rbuf)
    /\ UNCHANGED <<kernelVars, rpc>>

RouterSend ==
    /\ rpc = "route" /\ rbuf # <<>>
    /\ LET s == Owner[Head(rbuf).worker]
       IN  /\ Len(channel[s]) < ChannelSize
           /\ channel' = [channel EXCEPT ![s] = Append(@, Head(rbuf))]
    /\ rbuf' = Tail(rbuf)
    /\ UNCHANGED <<kernelVars, rpc>>

RouterSent ==
    /\ rpc = "route" /\ rbuf = <<>>
    /\ rpc' = "loop"
    /\ UNCHANGED <<kernelVars, rbuf, channel>>

RouterStep ==
    /\ RouterWait \/ RouterReturns \/ RouterBack \/ RouterSend \/ RouterSent
    /\ UNCHANGED <<mainVars, flagVars, taskVars, schedVars, wkVars>>

-----------------------------------------------------------------------------
(* main returns and the process ends. *)
Exited == mpc \in {"finished", "timedout"} /\ UNCHANGED vars

Next ==
    \/ MainStep
    \/ \E w \in Workers : WorkerStep(w) \/ WorkerPreempt(w)
    \/ \E s \in Schedulers : ServerStep(s)
    \/ RouterStep
    \/ Exited

Spec == Init /\ [][Next]_vars

(* Every thread keeps running and every I/O completes; nobody owes a         *)
(* preemption.                                                               *)
FairSpec ==
    /\ Spec
    /\ WF_vars(MainStep) /\ WF_vars(RouterStep)
    /\ \A w \in Workers : WF_vars(WorkerStep(w))
    /\ \A s \in Schedulers : WF_vars(ServerStep(s))
-----------------------------------------------------------------------------
(* Where the events of worker w are before its server has handled them. *)

(* Its report from the context switch that its own server sleeps in. *)
Reported(w) ==
    LET s == Owner[w]
    IN  \/ srv[s] = "switched" /\ mailbox[s] # None /\ mailbox[s].worker = w
        \/ /\ spc[s] \in {"schedswitch", "wakeswitch"} /\ srv[s] = "user"
           /\ delivered[s] # <<>> /\ Head(delivered[s]).worker = w

(* Its announcements, collected by the EventRoutingServer. *)
InFlight ==
    IF rpc = "waiting" /\ srv[Router] = "user" THEN delivered[Router] ELSE rbuf
Routed(w) == SelectSeq(InFlight \o channel[Owner[w]], LAMBDA e : e.worker = w)

(* "Waiting, // Ready for new tasks" (WorkerStatus): the klib has the worker *)
(* parked in UMCG wait, so that the switch that starts a task is accepted.   *)
WaitingIsReady ==
    \A w \in Workers : states[w] = "Waiting" => status[w] = "WAITING" /\ call[w] = "none"

(* "Running, // Actively executing a task" (WorkerStatus): the worker runs   *)
(* and reports to its own server, or its report has not been handled yet.    *)
RunningIsExecuting ==
    \A w \in Workers : states[w] = "Running" =>
        (Holds(w) /\ server_event[w] = Owner[w]) \/ Reported(w)

(* A Blocked worker is blocked in the kernel or announced there, or exactly  *)
(* one WAKE is on its way through the EventRoutingServer to its own server;  *)
(* conversely nothing else is ever routed, so that handle_event never sees   *)
(* an unexpected WAKE and resumes every worker once per block.               *)
OneWakePerBlock ==
    \A w \in Workers :
        /\ states[w] = "Blocked" =>
              IF Routed(w) = <<>>
              THEN status[w] \in {"BLOCKED", "IDLE"}
              ELSE status[w] = "RUNNABLE" /\ Len(Routed(w)) = 1
        /\ Routed(w) # <<>> =>
              states[w] = "Blocked" \/ (states[w] = "Running" /\ Reported(w))
        /\ \A i \in DOMAIN Routed(w) : Routed(w)[i].type = "WAKE"

(* The pending queue of a server holds its Waiting workers, each once: the   *)
(* "CRITICAL: ... state management error" of try_schedule_tasks, which would *)
(* spin there for ever, is unreachable and no ready worker is forgotten.     *)
PendingExact ==
    \A s \in Schedulers :
        /\ \A i, j \in DOMAIN pending[s] : pending[s][i] = pending[s][j] => i = j
        /\ {pending[s][i] : i \in DOMAIN pending[s]} =
              {w \in Own(s) : states[w] = "Waiting"}

(* The running queue has as many entries as the server has busy workers,     *)
(* although WAIT pops its head whoever waits: it never overflows, and        *)
(* try_schedule_tasks never drops a task for want of room in it.             *)
RunningCount ==
    \A s \in Schedulers :
        Len(running[s]) = Cardinality({w \in Own(s) : states[w] \in {"Running", "Blocked"}})

(* No context switch of a server is refused: the executor ignores the return *)
(* code, and a refused switch would lose the task just sent to the worker.   *)
NeverRefused == \A s \in Schedulers : ret[s] # "EINVAL"

(* Main reports success only when every task, those submitted by tasks       *)
(* included, has run: the two loads of all_tasks_completed may straddle any  *)
(* submission or completion.                                                 *)
CompletionSound == mpc = "finished" => finished = Tasks

(* Once the snapshot of every server has all its workers, they are booted in *)
(* whatever order they register and are announced in, every task runs, and   *)
(* main finds out.                                                           *)
Completes == (\A s \in Schedulers : known[s] = Own(s)) ~> (mpc = "finished")

(* The place of a task, for the abstract specification. *)
Stage(t) ==
    IF \E w \in Workers : job[w] = t \/ \E i \in DOMAIN inbox[w] : inbox[w][i] = t
    THEN "running"
    ELSE IF \E i \in DOMAIN tasks : tasks[i] = t THEN "queued"
    ELSE IF t \in finished THEN "done" ELSE "new"

(* Tasks that submit has taken and that are nowhere: the queue was full. *)
Submitted(t) ==
    \/ \E i \in DOMAIN InitialTasks : InitialTasks[i] = t /\ i <= Len(InitialTasks) - Len(todo)
    \/ \E p \in Tasks : /\ Child[p] = t
                        /\ p \in finished \/ \E w \in Workers : job[w] = p /\ wpc[w] = "finish"
Dropped == {t \in Tasks : Submitted(t) /\ Stage(t) = "new"}

(* A task that add_task refuses, which submit only logs, stays counted: the  *)
(* counters never agree again, and main can only run out of its 30 s.        *)
DroppedStaysCounted == completed + Cardinality(Dropped) <= total

Verdict ==
    CASE mpc = "finished" -> "success" [] mpc = "timedout" -> "timeout" [] OTHER -> "none"

Abstract == INSTANCE TaskExecution WITH
    Initial <- {InitialTasks[i] : i \in DOMAIN InitialTasks},
    stage <- [t \in Tasks |-> Stage(t)], verdict <- Verdict

(* The executor implements TaskExecution: a task is queued once, handed to   *)
(* one worker, run to its end once, after it submitted its child.            *)
ExecutesTasks == Abstract!Spec
=============================================================================

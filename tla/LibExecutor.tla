---------------------------- MODULE LibExecutor ----------------------------
(***************************************************************************)
(* The executor of src/lib.rs with the counters of src/task_stats.rs, on   *)
(* top of the klib.  Every server owns a pool of workers and a task queue  *)
(* behind a mutex; it registers its workers one by one, then schedules     *)
(* tasks and handles the klib's events itself.  Tasks are dealt to the     *)
(* servers in turn.  Main is run_dynamic_task_demo (Polls) or              *)
(* run_multi_server_demo.                                                  *)
(*                                                                         *)
(* The mutexes are those that a thread can hold while another one looks:   *)
(* Executor.servers and Server.task_queue, both held by a submitter, and   *)
(* WorkerPool.workers, which handle_umcg_event holds across a context      *)
(* switch.  Who holds them follows from where the threads are.             *)
(***************************************************************************)
EXTENDS UmcgKernel

CONSTANTS
    ServerId,       \* Server.id
    Owner,          \* the server whose pool each worker belongs to
    InitialTasks,   \* the tasks main submits, in order
    Child,          \* the task that a task submits while it runs, or None
    QueueCapacity,  \* capacity of TaskQueue.pending
    Polls,          \* main polls all_tasks_completed, then shuts down
    Impatient,      \* main's 30 s may run out
    Preemptible,    \* tasks may outlast UMCG_PREEMPT_INTERVAL
    PrintBlocks     \* println! may find the lock of stdout taken

Tasks == DOMAIN Child
Own(s) == {w \in Workers : Owner[w] = s}
Shutdown == "Shutdown"

(* EVENT_BUFFER_SIZE, also used by context_switch_worker; the array of       *)
(* run_server.                                                               *)
SwitchSlots == 2
LoopSlots == 6

ASSUME LibExecutorAssumption ==
    /\ Owner \in [Workers -> Servers]
    /\ ServerId \in [Servers -> 0..Cardinality(Servers) - 1]
    /\ \A s, t \in Servers : ServerId[s] = ServerId[t] => s = t
    /\ QueueCapacity \in Nat
    /\ {None, Shutdown} \cap Tasks = {}

VARIABLES
    mpc,        \* where the main thread is
    todo,       \* initial tasks not yet submitted
    mtarget,    \* server_idx of main's submit
    seen,       \* completed_count as loaded by all_tasks_completed
    verdict,    \* what main found out
    next_server, \* Executor.next_server, modulo the number of servers
    total_tasks, completed_count, \* TaskStats
    finished,   \* completed_tasks: the tasks marked true
    pending,    \* TaskQueue.pending of each server
    done,       \* Server.done
    spc,        \* where each server is
    cur,        \* the worker it registers or switches to
    events,     \* the events of its last wait that it has yet to handle
    states, current_task, \* WorkerPool: Worker.status and current_task
    wpc,        \* where each worker thread is
    sys,        \* the syscall a worker is in
    task_rx,    \* the channel of each worker
    job,        \* the task a worker executes
    target      \* server_idx of a worker's submit

mainVars == <<mpc, todo, mtarget, seen, verdict>>
statVars == <<total_tasks, completed_count, finished>>
poolVars == <<spc, cur, events, states, current_task>>
wkVars == <<wpc, sys, job, target>>
vars == <<kernelVars, mainVars, next_server, statVars, pending, done, poolVars,
          task_rx, wkVars>>

(* Executor::new and Executor::start: a server counts as ready before it     *)
(* initializes its workers, so that main may submit at once.                 *)
Init ==
    /\ KernelInit
    /\ mpc = "register" /\ todo = InitialTasks /\ mtarget = None /\ seen = 0
    /\ verdict = "none" /\ next_server = 0
    /\ total_tasks = 0 /\ completed_count = 0 /\ finished = {}
    /\ pending = [s \in Servers |-> <<>>] /\ done = [s \in Servers |-> FALSE]
    /\ spc = [s \in Servers |-> "init"]
    /\ cur = [s \in Servers |-> None] /\ events = [s \in Servers |-> <<>>]
    /\ states = [w \in Workers |-> "Unborn"]
    /\ current_task = [w \in Workers |-> None]
    /\ wpc = [w \in Workers |-> "born"] /\ sys = [w \in Workers |-> "none"]
    /\ task_rx = [w \in Workers |-> <<>>] /\ job = [w \in Workers |-> None]
    /\ target = [w \in Workers |-> None]

-----------------------------------------------------------------------------
(* The mutexes. *)

(* Executor.servers, held through submit. *)
ServersFree == mpc # "locked" /\ \A w \in Workers : wpc[w] \notin {"locked", "inside"}

(* Server.task_queue, held through add_task.  Main and the server let go of  *)
(* it without another thread's help.                                         *)
QueueFree(s) == ~\E w \in Workers : wpc[w] = "inside" /\ target[w] = s

(* WorkerPool.workers: the guard in the condition of the if let of           *)
(* handle_umcg_event lives to the end of its body.                           *)
PoolFree(s) == spc[s] # "selflock"

-----------------------------------------------------------------------------
(* Executor::submit and TaskStats, called by main and by tasks. *)

(* TaskStats::register_task, and the turn of the next server. *)
RegisterTask ==
    /\ total_tasks' = total_tasks + 1
    /\ next_server' = (next_server + 1) % Cardinality(Servers)
    /\ UNCHANGED <<completed_count, finished>>
ServerIdx == CHOOSE s \in Servers : ServerId[s] = next_server

(* TaskQueue::enqueue of a Pending entry; a full queue drops it. *)
Enqueue(s, t) ==
    pending' = [pending EXCEPT ![s] = IF Len(@) < QueueCapacity THEN Append(@, t) ELSE @]

(* Mutants: completed_count is not raised; the task is not marked. *)
MarkCompletedUncounted(t) ==
    finished' = finished \cup {t} /\ UNCHANGED <<completed_count, total_tasks>>
MarkCompletedUnmarked(t) ==
    completed_count' = completed_count + 1 /\ UNCHANGED <<finished, total_tasks>>

(* TaskStats::mark_completed counts a task once. *)
MarkCompleted(t) ==
    /\ completed_count' = completed_count + (IF t \in finished THEN 0 ELSE 1)
    /\ finished' = finished \cup {t}
    /\ UNCHANGED total_tasks

MainRegisterTask ==
    /\ mpc = "register"
    /\ IF todo = <<>>
       THEN mpc' = "poll" /\ UNCHANGED <<mtarget, next_server, statVars>>
       ELSE mpc' = "lock" /\ mtarget' = ServerIdx /\ RegisterTask
    /\ UNCHANGED <<todo, seen, verdict, pending, done>>

MainLock ==
    /\ mpc = "lock" /\ ServersFree
    /\ mpc' = "locked"
    /\ UNCHANGED <<todo, mtarget, seen, verdict, next_server, statVars, pending, done>>

MainAddTask ==
    /\ mpc = "locked" /\ PoolFree(mtarget)
    /\ mpc' = "register"
    /\ Enqueue(mtarget, Head(todo))
    /\ todo' = Tail(todo) /\ mtarget' = None
    /\ UNCHANGED <<seen, verdict, next_server, statVars, done>>

(* TaskStats::all_tasks_completed: two loads.  Main tries again, or gives up *)
(* after 30 s; run_multi_server_demo sleeps instead and returns.             *)
LoadCompleted ==
    /\ mpc = "poll"
    /\ IF Polls
       THEN mpc' = "loaded" /\ seen' = completed_count
       ELSE mpc' = "returned" /\ UNCHANGED seen
    /\ UNCHANGED <<todo, mtarget, verdict, next_server, statVars, pending, done>>

LoadTotal ==
    /\ mpc = "loaded"
    /\ LET completes == seen = total_tasks /\ total_tasks > 0
       IN  \/ completes /\ mpc' = "shutdown" /\ verdict' = "success"
           \/ ~completes /\ mpc' = "poll" /\ UNCHANGED verdict
           \/ ~completes /\ Impatient /\ mpc' = "shutdown" /\ verdict' = "timeout"
    /\ seen' = 0
    /\ UNCHANGED <<todo, mtarget, next_server, statVars, pending, done>>

(* Mutant: total_tasks is loaded before completed_count. *)
AllTasksCompletedSwapped ==
    /\ \/ mpc = "poll" /\ mpc' = "loaded" /\ seen' = total_tasks /\ UNCHANGED verdict
       \/ /\ mpc = "loaded" /\ seen' = 0
          /\ IF completed_count = seen /\ seen > 0
             THEN mpc' = "shutdown" /\ verdict' = "success"
             ELSE mpc' = "poll" /\ UNCHANGED verdict
    /\ UNCHANGED <<todo, mtarget, next_server, statVars, pending, done>>

AllTasksCompleted == LoadCompleted \/ LoadTotal

(* Executor::shutdown. *)
MainShutdown ==
    /\ mpc = "shutdown" /\ ServersFree
    /\ mpc' = "returned"
    /\ done' = [s \in Servers |-> TRUE]
    /\ UNCHANGED <<todo, mtarget, seen, verdict, next_server, statVars, pending>>

MainStep ==
    /\ \/ MainRegisterTask \/ MainLock \/ MainAddTask \/ AllTasksCompleted
       \/ MainShutdown
    /\ UNCHANGED <<kernelVars, poolVars, task_rx, wkVars>>

-----------------------------------------------------------------------------
(* Worker threads (WorkerThread::start) and the demos' closures. *)

Executing(w) == OnCpu(w) /\ status[w] = "RUNNING"
Move(w, place) == wpc' = [wpc EXCEPT ![w] = place]
Calls(w, call_) == sys' = [sys EXCEPT ![w] = call_]

WorkerRegister(w) ==
    /\ wpc[w] = "born" /\ states[w] # "Unborn"
    /\ RegisterWorker(w)
    /\ Move(w, "loop")
    /\ UNCHANGED sys

(* A syscall that may block: the sleep of the closure, the 10 ms that        *)
(* TaskHandle::submit sleeps, a println! under the locks of submit, or the   *)
(* futex of a mutex that is taken, after which the worker tries again.       *)
Stalls(w) ==
    \/ wpc[w] = "lock" /\ ~ServersFree
    \/ wpc[w] = "locked" /\ ~PoolFree(target[w])
    \/ wpc[w] \in {"locked", "inside"} /\ PrintBlocks
WorkerIo(w) ==
    /\ Executing(w)
    /\ \/ wpc[w] = "sleep" /\ Move(w, "spawn")
       \/ wpc[w] = "nap" /\ Move(w, "finish")
       \/ Stalls(w) /\ UNCHANGED wpc
    /\ SyscallEnter(w)
    /\ Calls(w, "io")

WorkerIoEnd(w) ==
    /\ sys[w] = "io"
    /\ SyscallBlock(w) \/ SyscallReturn(w)
    /\ Calls(w, "none")
    /\ UNCHANGED wpc

WorkerUnblock(w) == Unblock(w) /\ UNCHANGED <<wpc, sys>>
WorkerAnnounce(w) == UnblockAnnounce(w) /\ UNCHANGED <<wpc, sys>>

(* UMCG_WAIT with the server's id as flags: the klib knows only flag 1.  The *)
(* worker asserts that the call succeeds; otherwise its thread panics, and   *)
(* the klib unregisters it when the thread is gone.                          *)
WorkerWaitEnter(w) ==
    /\ Executing(w) /\ wpc[w] = "wait"
    /\ SyscallEnter(w)
    /\ Calls(w, "wait")
    /\ UNCHANGED wpc

FlagsKnown(flags) == flags \in {0, 1}
WorkerWaitCall(w) ==
    /\ sys[w] = "wait"
    /\ IF FlagsKnown(ServerId[Owner[w]])
       THEN WorkerWait(w, FALSE) /\ Move(w, "loop")
       ELSE Unregister(w) /\ Move(w, "dead")
    /\ Calls(w, "none")

WorkerWaitSend(w) == WorkerWaitPost(w) /\ UNCHANGED <<wpc, sys>>

WorkerCall(w) ==
    /\ \/ WorkerRegister(w) \/ WorkerIo(w) \/ WorkerIoEnd(w) \/ WorkerUnblock(w)
       \/ WorkerAnnounce(w)
       \/ WorkerWaitEnter(w) \/ WorkerWaitCall(w) \/ WorkerWaitSend(w)
    /\ UNCHANGED <<next_server, statVars, pending, task_rx, job, target>>

(* try_recv: run the task, shut down, or wait for a task.  Shutdown is sent  *)
(* by a server that has left its loop, so that nobody switches to the worker *)
(* again; the way out of the worker's loop ends here.                        *)
WorkerTryRecv(w) ==
    /\ wpc[w] = "loop"
    /\ IF task_rx[w] = <<>>
       THEN Move(w, "wait") /\ UNCHANGED <<task_rx, job>>
       ELSE /\ task_rx' = [task_rx EXCEPT ![w] = Tail(@)]
            /\ IF Head(task_rx[w]) = Shutdown
               THEN Move(w, "exit") /\ UNCHANGED job
               ELSE Move(w, "sleep") /\ job' = [job EXCEPT ![w] = Head(task_rx[w])]
    /\ UNCHANGED <<next_server, statVars, pending, target>>

(* The closure submits its child through the TaskHandle. *)
WorkerSpawn(w) ==
    /\ wpc[w] = "spawn"
    /\ IF Child[job[w]] = None
       THEN Move(w, "finish") /\ UNCHANGED <<next_server, statVars, target>>
       ELSE /\ Move(w, "lock") /\ RegisterTask
            /\ target' = [target EXCEPT ![w] = ServerIdx]
    /\ UNCHANGED <<pending, task_rx, job>>

WorkerLock(w) ==
    /\ wpc[w] = "lock" /\ ServersFree
    /\ Move(w, "locked")
    /\ UNCHANGED <<next_server, statVars, pending, task_rx, job, target>>

(* Server::add_task: lock, enqueue, print; then the locks are released. *)
WorkerAddTask(w) ==
    /\ wpc[w] = "locked" /\ PoolFree(target[w])
    /\ Enqueue(target[w], Child[job[w]])
    /\ Move(w, "inside")
    /\ UNCHANGED <<next_server, statVars, task_rx, job, target>>

WorkerUnlock(w) ==
    /\ wpc[w] = "inside"
    /\ Move(w, "nap")
    /\ target' = [target EXCEPT ![w] = None]
    /\ UNCHANGED <<next_server, statVars, pending, task_rx, job>>

WorkerFinish(w) ==
    /\ wpc[w] = "finish"
    /\ MarkCompleted(job[w])
    /\ job' = [job EXCEPT ![w] = None]
    /\ Move(w, "wait")
    /\ UNCHANGED <<next_server, pending, task_rx, target>>

WorkerRun(w) ==
    /\ Executing(w)
    /\ \/ WorkerTryRecv(w) \/ WorkerSpawn(w) \/ WorkerLock(w) \/ WorkerAddTask(w)
       \/ WorkerUnlock(w) \/ WorkerFinish(w)
    /\ UNCHANGED <<kernelVars, sys>>

WorkerStep(w) ==
    /\ WorkerCall(w) \/ WorkerRun(w)
    /\ UNCHANGED <<mainVars, done, poolVars>>

WorkerPreempt(w) ==
    /\ Preemptible /\ Executing(w) /\ job[w] # None
    /\ Preempt(w)
    /\ UNCHANGED <<mainVars, next_server, statVars, pending, done, poolVars, task_rx,
                   wkVars>>

-----------------------------------------------------------------------------
(* Servers (Server::run_server). *)

CtxSwitch(s, w) ==
    /\ ServerCtxSwitch(s, w, SwitchSlots) \/ ServerCtxSwitchFail(s, w)
    /\ cur' = [cur EXCEPT ![s] = w]

At(s, place) == spc[s] = place /\ srv[s] = "user"
Goto(s, place) == spc' = [spc EXCEPT ![s] = place]

(* WorkerPool::update_worker_status. *)
Update(w, state, t) ==
    /\ states' = [states EXCEPT ![w] = state]
    /\ current_task' = [current_task EXCEPT ![w] = t]

(* The locals that held the result of a call go out of scope. *)
Discard(s) ==
    /\ delivered' = [delivered EXCEPT ![s] = <<>>]
    /\ ret' = [ret EXCEPT ![s] = "OK"]
    /\ cur' = [cur EXCEPT ![s] = None]
    /\ UNCHANGED <<workerVars, queueVars, srv, req, mailbox, watch>>

(* initialize_workers starts a worker and waits for its registration event:  *)
(* the first WAKE, whoever sent it.  The 5 s of                              *)
(* wait_for_worker_registration are looked at only between two waits, and    *)
(* the wait has no deadline.                                                 *)
ServerSpawn(s) ==
    /\ At(s, "init")
    /\ \E w \in Own(s) :
          /\ states[w] = "Unborn"
          /\ Update(w, "Registering", None)
          /\ cur' = [cur EXCEPT ![s] = w]
    /\ Goto(s, "register")
    /\ UNCHANGED <<kernelVars, events, pending, task_rx>>

ServerRegister(s) ==
    /\ At(s, "register")
    /\ ServerWait(s, SwitchSlots, FALSE)
    /\ Goto(s, "registering")
    /\ UNCHANGED <<cur, events, states, current_task, pending, task_rx>>

ServerRegistered(s) ==
    /\ At(s, "registering")
    /\ IF Head(delivered[s]).type = "WAKE"
       THEN /\ Update(cur[s], "Waiting", None)
            /\ Goto(s, IF \E w \in Own(s) : states[w] = "Unborn" THEN "init" ELSE "loop")
            /\ Discard(s)
       ELSE Goto(s, "register") /\ UNCHANGED <<kernelVars, cur, states, current_task>>
    /\ UNCHANGED <<events, pending, task_rx>>

(* The receiving end of a worker's channel lives as long as its thread. *)
Alive(w) == wpc[w] # "dead"

(* The loop of run_server ends when done: initiate_shutdown sends Shutdown   *)
(* to the workers and leaves them.                                           *)
InitiateShutdown(s) ==
    /\ At(s, "loop") /\ done[s]
    /\ Goto(s, "stopped")
    /\ task_rx' = [w \in Workers |-> IF w \in Own(s) /\ Alive(w)
                                     THEN Append(task_rx[w], Shutdown)
                                     ELSE task_rx[w]]
    /\ UNCHANGED <<kernelVars, cur, events, states, current_task, pending>>

(* try_schedule_tasks, going on at k: the first task for some Waiting worker *)
(* (the pool is a HashMap).  The task is popped, the worker marked, the task *)
(* sent, and the worker switched to; a send that fails loses the task.       *)
NothingToSchedule(s, k) ==
    /\ \/ \A w \in Own(s) : states[w] # "Waiting"
       \/ QueueFree(s) /\ pending[s] = <<>>
    /\ Goto(s, k)
    /\ UNCHANGED <<kernelVars, cur, states, current_task, pending, task_rx>>

Schedule(s, w, switch, k) ==
    /\ states[w] = "Waiting" /\ QueueFree(s) /\ pending[s] # <<>>
    /\ pending' = [pending EXCEPT ![s] = Tail(@)]
    /\ IF Alive(w)
       THEN /\ Update(w, "Running", Head(pending[s]))
            /\ task_rx' = [task_rx EXCEPT ![w] = Append(@, Head(pending[s]))]
            /\ CtxSwitch(s, w)
            /\ Goto(s, switch)
       ELSE Goto(s, k) /\ UNCHANGED <<kernelVars, cur, states, current_task, task_rx>>

TryScheduleTasks(s, switch, k) ==
    /\ NothingToSchedule(s, k) \/ \E w \in Own(s) : Schedule(s, w, switch, k)
    /\ UNCHANGED events

(* At the top of the loop, and after each event. *)
ServerLoop(s) ==
    /\ At(s, "loop") /\ ~done[s]
    /\ TryScheduleTasks(s, "loopswitch", "wait")
NextEvent(s) == IF events[s] = <<>> THEN "loop" ELSE "events"
ServerResched(s) ==
    /\ At(s, "resched")
    /\ TryScheduleTasks(s, "reschedswitch", NextEvent(s))

(* context_switch_worker has room for one event, that of the worker it       *)
(* switched to; handle_umcg_event accepts all but PREEMPT.                   *)
SwitchOk(s) == ret[s] = "OK" /\ Head(delivered[s]).type \in {"BLOCK", "WAIT", "EXIT"}

(* Mutants: BLOCK is taken for WAIT; BLOCK is ignored; WAIT keeps the task. *)
BlockIsWait(s) ==
    LET w == Head(delivered[s]).worker
    IN  Update(w, IF Head(delivered[s]).type = "EXIT" THEN "Completed" ELSE "Waiting", None)

BlockIgnored(s) ==
    LET w == Head(delivered[s]).worker
    IN  IF Head(delivered[s]).type = "BLOCK"
        THEN UNCHANGED <<states, current_task>>
        ELSE Update(w, "Waiting", None)

WaitKeepsTask(s) ==
    LET w == Head(delivered[s]).worker
    IN  Update(w, IF Head(delivered[s]).type = "BLOCK" THEN "Blocked" ELSE "Waiting",
               current_task[w])

HandleSwitchEvent(s) ==
    LET w == Head(delivered[s]).worker
    IN  CASE Head(delivered[s]).type = "BLOCK" -> Update(w, "Blocked", current_task[w])
          [] Head(delivered[s]).type = "WAIT" -> Update(w, "Waiting", None)
          [] Head(delivered[s]).type = "EXIT" -> Update(w, "Completed", None)

(* In try_schedule_tasks an error ends the server. *)
SchedBack(s, switch, k) ==
    /\ At(s, switch)
    /\ IF SwitchOk(s)
       THEN HandleSwitchEvent(s) /\ Goto(s, k)
       ELSE Update(cur[s], "Waiting", None) /\ Goto(s, "failed")
    /\ Discard(s)
    /\ UNCHANGED <<events, pending, task_rx>>

(* The wait of run_server.  Its deadline, 100 ms after the epoch, has always *)
(* passed.                                                                   *)
ServerWaitEvents(s) ==
    /\ At(s, "wait")
    /\ ServerWait(s, LoopSlots, TRUE)
    /\ Goto(s, "waiting")
    /\ UNCHANGED <<cur, events, states, current_task, pending, task_rx>>

(* Mutant: only the first event is handled. *)
ServerEventsFirst(s) ==
    /\ At(s, "waiting")
    /\ Goto(s, IF delivered[s] = <<>> THEN "loop" ELSE "events")
    /\ events' = [events EXCEPT ![s] = SelectSeq(delivered[s], LAMBDA e : e = Head(delivered[s]))]
    /\ Discard(s)
    /\ UNCHANGED <<states, current_task, pending, task_rx>>

ServerEvents(s) ==
    /\ At(s, "waiting")
    /\ Goto(s, IF delivered[s] = <<>> THEN "loop" ELSE "events")
    /\ events' = [events EXCEPT ![s] = delivered[s]]
    /\ Discard(s)
    /\ UNCHANGED <<states, current_task, pending, task_rx>>

(* handle_umcg_event for the events of that wait, all of them WAKE.          *)

(* A Running worker is taken to have ended its task, and gets the next one.  *)
(* The pool stays locked meanwhile, and whatever comes of the switch is      *)
(* recorded under that lock: the server waits for itself.                    *)
WakeRunning(s, w) ==
    /\ current_task[w] # None => QueueFree(s)
    /\ IF current_task[w] = None \/ pending[s] = <<>>
       THEN /\ Update(w, "Waiting", None)
            /\ Goto(s, "resched")
            /\ UNCHANGED <<kernelVars, cur, pending, task_rx>>
       ELSE /\ Update(w, "Running", Head(pending[s]))
            /\ pending' = [pending EXCEPT ![s] = Tail(@)]
            /\ IF Alive(w)
               THEN /\ task_rx' = [task_rx EXCEPT ![w] = Append(@, Head(pending[s]))]
                    /\ CtxSwitch(s, w)
               ELSE UNCHANGED <<kernelVars, cur, task_rx>>
            /\ Goto(s, "selflock")

WakeBlocked(s, w) ==
    /\ Update(w, "Running", current_task[w])
    /\ CtxSwitch(s, w)
    /\ Goto(s, "resumeswitch")
    /\ UNCHANGED <<pending, task_rx>>

(* Waiting, Completed, or a worker of another server. *)
WakeIgnored(s) ==
    /\ Goto(s, "resched")
    /\ UNCHANGED <<kernelVars, cur, states, current_task, pending, task_rx>>

HandleWake(s) ==
    /\ At(s, "events")
    /\ events' = [events EXCEPT ![s] = Tail(@)]
    /\ LET w == Head(events[s]).worker
       IN  \/ w \in Own(s) /\ states[w] = "Running" /\ WakeRunning(s, w)
           \/ w \in Own(s) /\ states[w] = "Blocked" /\ WakeBlocked(s, w)
           \/ (w \in Own(s) => states[w] \notin {"Running", "Blocked"}) /\ WakeIgnored(s)

(* An error of this switch is only logged. *)
ResumeBack(s) ==
    /\ At(s, "resumeswitch")
    /\ IF SwitchOk(s) THEN HandleSwitchEvent(s) ELSE UNCHANGED <<states, current_task>>
    /\ Goto(s, "resched")
    /\ Discard(s)
    /\ UNCHANGED <<events, pending, task_rx>>

(* The bottom halves that end a server's blocking call. *)
CallReturns(s) ==
    /\ SwitchResume(s) \/ WaitResume(s)
    /\ UNCHANGED <<poolVars, pending, task_rx>>

ServerStep(s) ==
    /\ \/ ServerSpawn(s) \/ ServerRegister(s) \/ ServerRegistered(s)
       \/ InitiateShutdown(s) \/ ServerLoop(s) \/ SchedBack(s, "loopswitch", "wait")
       \/ ServerWaitEvents(s) \/ ServerEvents(s) \/ HandleWake(s) \/ ResumeBack(s)
       \/ ServerResched(s) \/ SchedBack(s, "reschedswitch", NextEvent(s)) \/ CallReturns(s)
    /\ UNCHANGED <<mainVars, next_server, statVars, done, wkVars>>

(* The timer of the wait may end it too. *)
ServerTimer(s) ==
    /\ WaitTimeout(s)
    /\ UNCHANGED <<mainVars, next_server, statVars, pending, done, poolVars, task_rx,
                   wkVars>>

-----------------------------------------------------------------------------
(* Main has returned; the other threads go on. *)
Returned == mpc = "returned" /\ UNCHANGED vars

Next ==
    \/ MainStep
    \/ \E w \in Workers : WorkerStep(w) \/ WorkerPreempt(w)
    \/ \E s \in Servers : ServerStep(s) \/ ServerTimer(s)
    \/ Returned

Spec == Init /\ [][Next]_vars

(* Every thread keeps running and every I/O completes; the timer of a wait   *)
(* need not fire.                                                            *)
FairSpec ==
    /\ Spec
    /\ WF_vars(MainStep)
    /\ \A w \in Workers : WF_vars(WorkerStep(w))
    /\ \A s \in Servers : WF_vars(ServerStep(s))

-----------------------------------------------------------------------------
(* Worker w runs and will report to its server; its report is still to be    *)
(* handled.                                                                  *)
ReportsToOwner(w) == Holds(w) /\ server_event[w] = Owner[w]
Reported(w) ==
    LET s == Owner[w]
    IN  \/ srv[s] = "switched" /\ mailbox[s] # None /\ mailbox[s].worker = w
        \/ /\ spc[s] \in {"loopswitch", "reschedswitch", "resumeswitch"} /\ srv[s] = "user"
           /\ delivered[s] # <<>> /\ Head(delivered[s]).worker = w

(* The WAKEs of worker w that its server has read and not handled. *)
InHand(w) ==
    LET s == Owner[w]
        read == IF At(s, "waiting") THEN delivered[s] ELSE events[s]
    IN  SelectSeq(read, LAMBDA e : e.worker = w)

(* "Waiting, // Ready for new tasks" (WorkerStatus): the worker has no task  *)
(* under way, receives what is sent to it, and the klib lets it be switched  *)
(* to.                                                                       *)
WaitingIsReady ==
    \A w \in Workers : states[w] = "Waiting" =>
        /\ status[w] \in {"RUNNABLE", "WAITING"} /\ call[w] = "none"
        /\ job[w] = None /\ Alive(w)

(* "Running, // Actively executing a task" (WorkerStatus): the worker runs   *)
(* and reports to its own server, or its report has not been handled yet.    *)
RunningIsExecuting ==
    \A w \in Workers : states[w] = "Running" =>
        ReportsToOwner(w) \/ Reported(w)

(* "If worker was Blocked and we get a Wake: They can continue their task"   *)
(* (handle_umcg_event): a Blocked worker is blocked in the kernel, or        *)
(* announced there, or its one WAKE is in the hands of its own server; and   *)
(* the WAKEs that a server reads are those of its Blocked workers, others    *)
(* "shouldn't happen".                                                       *)
OneWakePerBlock ==
    \A w \in Workers :
        /\ states[w] = "Blocked" =>
              \/ status[w] \in {"BLOCKED", "IDLE"} /\ InHand(w) = <<>>
              \/ status[w] = "RUNNABLE" /\ Len(InHand(w)) = 1
        /\ InHand(w) # <<>> => states[w] = "Blocked"

(* The pool and the worker agree on the task: what a worker executes is its  *)
(* current_task, and current_task is in execution, or in the channel, or has *)
(* run to its end without the server knowing yet.                            *)
TaskOfWorker ==
    \A w \in Workers :
        /\ job[w] # None => current_task[w] = job[w]
        /\ \/ current_task[w] \in {None, job[w]} \/ task_rx[w] = <<current_task[w]>>
           \/ current_task[w] \in finished /\ (ReportsToOwner(w) \/ Reported(w))

(* Every task that register_task counted and mark_completed did not is in a  *)
(* queue, in a channel, in execution, or in the hands of its submitter: no   *)
(* failed switch or stolen event makes a task disappear.                     *)
Outstanding ==
    LET Submitting == {w \in Workers : wpc[w] \in {"lock", "locked"}}
        Queued == UNION {{<<s, i>> : i \in DOMAIN pending[s]} : s \in Servers}
        Sent == UNION {{<<w, i>> : i \in {j \in DOMAIN task_rx[w] : task_rx[w][j] # Shutdown}}
                          : w \in Workers}
    IN  Cardinality(Queued) + Cardinality(Sent) + Cardinality(Submitting)
          + Cardinality({w \in Workers : job[w] # None})
          + (IF mpc \in {"lock", "locked"} THEN 1 ELSE 0)
NoTaskLost == total_tasks - completed_count = Outstanding

(* Main reports success only when every task has run. *)
CompletionSound == verdict = "success" => finished = Tasks

(* "Add a short timeout (e.g., 100ms) so we don't block forever"             *)
(* (run_server): the wait of the loop ends, by an event or by its timer.     *)
WaitReturns(s) == (spc[s] = "waiting" /\ srv[s] = "parked") ~> srv[s] # "parked"

(* As long as no server blocks forever in the wait of its loop, every task   *)
(* runs, main finds out, and the servers stop.                               *)
Completes ==
    (\A s \in Servers : WaitReturns(s)) =>
        <>(verdict = "success" /\ \A s \in Servers : spc[s] = "stopped")

(* assert_eq!(wait_result, 0, "Worker {} UMCG wait failed", self.id): no     *)
(* worker's thread ends because its UMCG_WAIT was refused.                   *)
WaitAccepted == \A w \in Workers : wpc[w] # "dead"

(* The place of a task, for the abstract specification. *)
Stage(t) ==
    IF \E w \in Workers : job[w] = t \/ \E i \in DOMAIN task_rx[w] : task_rx[w][i] = t
    THEN "running"
    ELSE IF \E s \in Servers : \E i \in DOMAIN pending[s] : pending[s][i] = t THEN "queued"
    ELSE IF t \in finished THEN "done" ELSE "new"

Abstract == INSTANCE TaskExecution WITH
    Initial <- {InitialTasks[i] : i \in DOMAIN InitialTasks},
    stage <- [t \in Tasks |-> Stage(t)]

(* This executor, too, implements TaskExecution. *)
ExecutesTasks == Abstract!Spec
=============================================================================

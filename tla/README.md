# A TLA+ model of UMCG on Nanos and of the programs above it

UMCG lets a program schedule its own threads. *Worker* threads run tasks. *Server*
threads decide which worker runs next: a server switches to a worker and sleeps until
that worker blocks, waits, exits, times out or is preempted. The repository holds the
kernel part (`resources/umcg_with_logs.c`, a klib of the Nanos unikernel, called through
the syscall `umcg_ctl`), two executors in Rust (`src/attempt2.rs` and the earlier
`src/lib.rs`), an echo server on the first of them, and tests of the klib in `main.rs`.
This project models all of these, checks them with TLC, and proves with TLAPS the main
safety properties of the klib, and that the executor of `attempt2.rs` reports success only
when all tasks have run, for any number of workers, servers and tasks.

Line numbers below refer to those files. `PROJECT.json` maps every definition to the
lines it models.

## 1. Inventory

| Component | State | Operations | Interacts through |
|---|---|---|---|
| klib (`umcg_with_logs.c`) | one `umcg_worker` per worker thread (status, event, `server_bq`, `server_event`, timer); `idle_workers`; `wake_idle_server`; the bottom halves of blocked server calls | `umcg_ctl` with six commands; timer handler; context callbacks (`pause`, `schedule_return`, thread end) | syscalls; event buffers; block queues |
| scheduling server (`Server`, attempt2 425-1193) | `states`, `pending` and `running` queues, event channel | boot (`start_server`), `run_event_loop`, `try_schedule_tasks`, `handle_event` | klib; task queue; channel from the router; channel to each worker |
| `EventRoutingServer` (316-423) | its event buffer, worker to server map | wait 50 us for events, send each to the worker's server | klib; bounded channels |
| worker (`Worker`, 83-243) | `task_rx`, the running closure | register, `try_recv`, run, UMCG wait | klib; `task_rx`; task queue (a task submits tasks) |
| task queue and counters (1445-1573) | bounded queue; `total_tasks`, `completed_tasks` | `submit`, `remove_task`, `mark_completed`, `all_tasks_completed` | shared by all threads |
| main (`run_dynamic_task_attempt2_demo`, 1779-1933) | `wait`, `done` flags | boot the servers one by one, submit, poll, give up after 30 s | all of the above |
| syscall wrappers (`umcg_base.rs`) | none | retry on EINTR, absolute deadline, error to result | klib |
| echo server (`run_echo_server_demo`, 1974-2136; `handle_connection`, 2178-2210) | listener backlog, open connections | accept tasks that never end, one task per connection | task queue, executor |
| earlier executor (`lib.rs`, `task_stats.rs`) | worker pool, task queue behind a mutex, per server; counters | `run_server`, `try_schedule_tasks`, `handle_umcg_event`, `submit`, shutdown | klib; channels; mutexes that are held across calls |
| self-tests (`main.rs` 150-780; `run_full_tests` has their calls commented out) | `DONE`, `worker_exit`, `worker_ids` | five basic tests, server to server wake-up, error returns, benchmark, demo | klib |
| `test.rs`, `umcg_test.rs`, `executor.rs`, `close.rs`, `http2.rs`, `umcg_http_test.rs` | | | not compiled, or comments only |

What is hard here, and what correctness means:

- **klib.** Several processors change statuses, slots and lists without a common lock. A
  worker writes its event through a raw pointer into the closure of a sleeping call.
  Correct: the pointer is live and not shared, no server sleeps for ever, every idle
  worker is announced exactly once, no two servers run one worker, buffers are not
  overrun, a timeout is reported exactly when its handler won the race for the worker.
- **executor.** A server keeps its own idea of each worker's status, and learns of
  changes by two routes: its own context switches, and the router. Correct: that idea
  agrees with the klib, every blocked worker is resumed once, no task is lost or run
  twice, main reports success only when all tasks are done, and eventually does.
- **earlier executor.** Servers handle the klib's events themselves, and the klib gives an
  event to whoever asks first. Mutexes are held across context switches and across
  syscalls that block. Correct: the same as above, as far as it goes (section 3).
- **echo server.** An accept task holds its worker for good, and shares the queue with the
  connections. Correct: every connection is answered, by one worker, and the count of open
  connections is exact.
- **self-tests.** They assert which event comes next. Correct: no interleaving makes an
  assertion fail, and a test leaves nothing that the next one would stumble over.

`PROJECT.json` lists the hazards at their lines.

## 2. Modules

| Module | Models |
|---|---|
| `UmcgKernel` | the klib: state, and one action per command, callback or bottom half |
| `UmcgClient` | the klib under the most general program that respects its protocol; klib properties |
| `MCUmcgClient` | constants for TLC |
| `UmcgClientProofs`, `UmcgTokenProofs` | theorems about `UmcgClient` |
| `Attempt2` | the executor of `attempt2.rs` on top of `UmcgKernel`, with main of the dynamic task demo |
| `EchoServer` | `run_echo_server_demo`: the threads of `Attempt2` with other closures and another main |
| `LibExecutor` | the executor of `lib.rs` with the counters of `task_stats.rs`, on top of `UmcgKernel` |
| `UmcgSelfTest` | the tests, the benchmark and the demo of `main.rs`, on top of `UmcgKernel` |
| `TaskExecution` | abstract specification of an executor |
| `MCAttempt2`, `MCEchoServer`, `MCLibExecutor`, `MCUmcgSelfTest` | constants for TLC |
| `Attempt2FlowProofs`, `Attempt2WorkerProofs`, `Attempt2SubmitProofs`, `Attempt2StepProofs`, `Attempt2Proofs` | theorems about `Attempt2` |

The models other than `TaskExecution` extend `UmcgKernel`, so the executors and the tests run on the same klib the
theorems are about. Operators marked *Mutant* are broken variants of a definition that
follows them; each is used to confirm that a property can fail.

### The klib

`status` carries `umcg_worker.status`; `UNREGISTERED` stands for a thread without a
`umcg_worker`, `IDLE_TIMEOUT` for `UMCG_WORKER_IDLE | UMCG_WORKER_TIMEOUT`.
`server_event` and `server_bq` name the server instead of pointing into its closure and
its `thread_bq`. `mailbox[s]` is the `event` bound in the closure of
`umcg_server_ctx_switch_bh`. `srv[s]` is where a server thread is: in user space, on the
common block queue (`parked`, `woken`), in a context switch (`switching`, `switched`), or
waiting for one worker (`watching`, `watched`). The second name of each pair means that
it was woken and its bottom half has not run yet. An event word is a record of worker,
type and a flag for the WAIT, TIMEOUT pair that one worker may produce.

Steps are as fine as the races need. A status changes outside `umcg.lock`, and what follows
from it is a step of its own, in which others come in between:

| Code | Steps |
|---|---|
| a worker's `umcg_wait` (423-428) | `WorkerWait`: status and timer; `WorkerWaitPost`: return value 0, then the event |
| wake-up (171-182) | `Unblock`: BLOCKED to IDLE; `UnblockAnnounce`: on the list, wake a server |
| timeout handler (126-139) | `WorkerTimeout`: compare and swap; `WorkerTimeoutAnnounce`: on the list; `WorkerTimeoutReturn`: -ETIMEDOUT |
| a worker's context switch (514-545) | `WorkerCtxSwitch`: the two statuses; `...Announce`: on the list; `...Arm`: timer; `...Hand`: server pointers, return value, and the next worker starts |
| `UMCG_WAKE` (566-573) | `WakeServer`: the flag; `WakeServerTry`: the rest |

`call[w]` says which half of its call a worker is in, `handler[w]` where its timeout handler
is. The last step of the handler writes the registers of a thread that a server may have
started by then: the store is in time, or has no effect (`TimedOut`). If the worker has even
been freed (257), the thread it names is any worker's, or none's. Taken as atomic:

- `umcg_server_get_events`, which holds `umcg.lock` and settles its race with the timer
  by compare and swap;
- a server's context switch up to its sleep: the worker starts only at 534-536, and the
  bottom half looks at the slot before it blocks;
- `umcg_syscall_pause`: the worker cannot wake up before it has paused;
- `umcg_worker_event_idle`: between the push (112) and the wake (114) a server may take the
  worker from the list, but none can park over it, since servers look at the list and park
  under the lock of the block queue.

`remove_timer` (external) is taken to stop a handler that has not made its compare and swap,
and a handler to end before it is started again.

Not modelled: argument checks that return EINVAL at once (but see the self-tests), ENOMEM, EFAULT, ESRCH, signals
(EINTR, ERESTARTSYS), reference counts of block queues. The block queue serves waiters in
order; the model lets any waiter be next. The syscall number is 450 in the klib and 449
in `umcg_base.rs`; the model starts from a call that reaches the klib.

### The general client

Any thread may make any call at any time, with one rule: a worker is switched to only by
someone who has an unspent announcement of it. `ready` is the set of workers with such an
announcement, shared by all servers. `Features` selects calls that only some programs
make: worker waits with a deadline, worker to worker switches, waits for one worker. The
executors use none of them; the tests in `main.rs` use all, with one server. `fired` (the
handler's compare and swap won), `told` (a server read the timeout) and `heeded` are history
variables for the properties on timeouts and on `UMCG_WAKE`.

`IdleListExact` leaves out a worker that is IDLE and not yet listed (`Unlisted`), so it says
that such a worker gets on the list once and is not taken for one that is there.
`TimeoutReported` relates the reports to the handler's races with `umcg_server_get_events`
and `umcg_ctx_switch`, and says nothing of what the worker's call returns; that is the subject of
`SelfTestTimeout`. `TimerOnlyWhileParked` is about the start of the handler, with one server:
a worker's context switch arms the timer when the worker is already listed (523-526), and a
second server could run and free it before.

### The executor

`Attempt2` composes the klib with main, the scheduling servers, the router and the
workers, each with a program counter (`mpc`, `spc`, `rpc`, `wpc`). One action is one
stretch of code between two points where another thread can be seen. A task is one
blocking or non-blocking I/O (the demo's `thread::sleep`), then the submission of its
child if it has one, then its end. `Discard` clears the result of a call when the locals
that hold it go out of scope, which keeps states apart only where the program can tell.

`initialize_workers` (1340-1413) spawns the threads, sleeps 3 s, and copies the maps that
they have entered. `MainStartServer` is that snapshot. With `LateWorkers` it may come
before a thread has entered the maps; the server then does not know the worker (`known`),
and main, which waits for all of them to be marked Waiting (1389-1391), polls for ever.
Without `LateWorkers` the 3 s are enough.

Three more constants switch on behaviour that breaks the executor, so that what holds
without it can still be stated: `Preemptible` (a task outlasts the klib's interval),
`BlockAtBoot` (a worker blocks before its first wait, as a contended `println!` may do),
`Impatient` (main's 30 s run out).

Left out: logging and its stdout lock, metrics, `Server::shutdown`,
`ServerRouter::forward_event` and `ServerQueue` (never called).

`TaskExecution` says what an executor promises: a task is submitted at most once, by main
or by its running parent, then started once, then finished once, after its child was
submitted; success means all are finished. `Attempt2!Abstract` maps a task that is in a
worker's channel or hands to *running*, one in the queue to *queued*. A task started a
second time after its end would go back to *running*, which `TaskExecution` forbids. Both
executors are checked against it.

### The echo server

`EchoServer` extends `Attempt2` and reuses its servers, its router and most of its worker
steps. The closures differ. An accept task is in `accept()` (`sleep`), counts the
connection and submits a task for it (`spawn`, `enqueue`), and starts again; it ends when
`accept()` fails. `stream[w]` is the connection between the two. A connection task reads
with a deadline of 50 ms, answers, and lowers the count at its end. `backlog` is the
listener's queue (external). The servers of this demo do not hold back (`InitWith(FALSE)`),
and main only prints. Request and answer are left out, and so are the other statistics,
which are timings.

### The earlier executor

`LibExecutor` has the same shape as `Attempt2`. `states` and `current_task` are the pool's
`Worker.status` and its task, `events` what a server has read and not yet handled.
Registration is one worker at a time and takes the first WAKE that comes, whoever sent it
(`ServerRegistered`). `submit` takes the lock of the server list, then the one of the
task queue of the server whose turn it is; `mpc` and `wpc` tell who holds them
(`ServersFree`, `QueueFree`). `handle_umcg_event` keeps the pool locked in the arm for a
Running worker, in which it switches and then locks the pool again: `selflock` is the
place where that server stops for good. The deadline passed to the wait of `run_server`
is 100 ms after the epoch (994), so the wait always has a timer that may fire at once
(`ServerTimer`); whether it does is left open (section 3, Fairness). A worker passes its
server's id as flags (524), of which the klib knows 0 and 1: the workers of a third server
die of their assert. `Polls` tells the two demos apart. The fields
`preempted`, `in_progress` and `completed_cycles` are never filled and are left out.

### The self-tests

A thread of `UmcgSelfTest` executes a script, one instruction per call, with what the code
asserts about the result. `WaitAny`, `Switch` and the others stand for the helpers
`umcg_wait_any_worker`, `umcg_ctxsw_assert_worker_event` and so on. `Errno` is what the
klib's argument checks return for the calls of `run_basic_tests` and `umcg_test_errors`;
the thread ids 1 and 999999 are taken not to exist. A loop until the duration is over or
`DONE` is set is a loop in the script. A worker that spins is preempted as long as its
flag is not set; no other worker is, since the others are short. `futex_perftest` makes no
UMCG call and is left out.

## 3. Runs

| Run | Instance | Checks | Result | Distinct states |
|---|---|---|---|---|
| `KernelServers` | 2 workers, 2 servers, no optional calls, buffers of 3, one server calls `UMCG_WAKE` | slots, stranded servers, `idle_workers`, wake-ups, tokens, `UMCG_WAKE` | holds | 316,520 |
| `KernelCalls` | 2 workers, 1 server, all optional calls, buffers of 2 and 3 | timers, timeouts, `idle_workers`, buffers, switchability | holds | 1,280,341 |
| `ExecutorSafety` | 2+1 workers on 2 servers, 3 tasks, a task queue of 1 | the servers' view of the workers, their queues, the counters | holds | 642,848 |
| `ExecutorTasks` | 1+1 workers, 3 tasks, late threads, fairness | `Completes` | holds | 143,908 |
| `ExecutorFaults` | 1+1 workers, 2 tasks; preemption, blocking at boot, impatience | `ExecutesTasks`: refinement of `TaskExecution` | holds | 745,718 |
| `ExecutorPreempt` | 1+1 workers, 2 tasks, preemption | `RunningIsExecuting` | violated | |
| `EchoConnections` | 3 workers, 1 accept task, 2 connections, `accept()` may fail, fairness | `Served`, `OneHandler`, `ConnectionsCounted` | holds | 175,197 |
| `SelfTestSuite` | 9 workers, 2 server threads: all tests but that of a passed deadline, or the demo; fairness | `AssertionsHold`, `LeavesNothing`, `TestsFinish` | holds | 1,465 |
| `SelfTestTimeout` | the test of a passed deadline | `AssertionsHold` | violated | |
| `LibTasks` | 1 server, 2 workers, 3 tasks, fairness | the pool's view of the workers, the counters, `Completes` | holds | 23,887 |
| `LibFaults` | 1+1 workers, 3 tasks; preemption, prints that block, impatience | `NoTaskLost`, `ExecutesTasks` | holds | 608,367 |
| `LibServers` | 3 servers with 1 worker and 1 task each | `WaitAccepted` | violated | |

What the three violations show:

- *ExecutorPreempt.* `handle_event` rejects PREEMPT (1109); the worker is never resumed.
- *SelfTestTimeout.* A reported timeout can be returned as success, against the assert of
  `main.rs` 428. The handler lists the worker (134) before it stores -ETIMEDOUT (138), and
  the server may run the worker in between, as in the trace that TLC prints. Also,
  `umcg_wait` arms the timer (425) before it presets the return value to 0 (427).
- *LibServers.* The worker of server 2 calls `UMCG_WAIT` with flags 2 (524), gets EINVAL, and
  dies of the assert at 533 or 551. `run_multi_server_demo` starts three servers.

What `Completes` of `LibTasks` says. The comment after line 1346 of `lib.rs` reports that this
demo "works sometimes, but then fails other times", and gives two logs. In both, the wait at
994 returns only when there is an event, never by its deadline; in the failing one it does
not return at all, and the submitted tasks stay in the queue. Submitting wakes nobody, so the
executor lives on this wait returning, as the comment at 989 wants ("so we don't block
forever"). Why the timer does not fire is a question about the kernel, which is not
under `src/`. So `Completes` has it as a premise that the wait returns, and shows that nothing
else stands in the way with one server and without preemption: the failure is to be looked
for in that wait.

`Completes` of `ExecutorTasks` has the logging left out. `resources/latest_failing_attempt.txt`
is the log of a run of the demo that ends in "Timeout waiting for tasks to complete! (4/8
completed)". A `println!` under the lock of stdout (attempt2 44) by a worker that then blocks
or is preempted is a possible cause, and a hazard that no run covers. Preemption, which
`ExecutorTasks` excludes, is another (`ExecutorPreempt`).

### Where the code departs from its comments or stops

These are not runs of their own. Those that name a property can be seen by changing the
constants of a run as indicated.

| Where | What happens | How to see it |
|---|---|---|
| klib 138, 257 | the handler reads `worker->t` after it has listed the worker, which may be run, end and be freed meanwhile | `WorkerTimeoutReturn`, its case of an UNREGISTERED worker, in `KernelCalls` |
| klib 523-528 | a worker is on `idle_workers` before its server pointers are copied; a second server switches to it in between, and the first sleeps for ever | `KernelServers` with `Features <- Handover`: `NoServerStranded` |
| klib 425-428 | the timer is armed before WAIT is sent; if it fires first, a second server runs the worker and the WAIT lands in that server's slot | `KernelServers` with `Features <- Deadline`: `NoServerStranded` |
| attempt2 555-567 | `start_server` ignores the events of its switch and takes a blocked worker for a ready one | `ExecutorSafety` with `BlockAtBoot = TRUE`: `WaitingIsReady` |
| attempt2 1081 | WAIT pops the head of `running`, whoever that is, so "Worker stays in running queue while blocked" (982) is not so; the length stays right | `RunningCount` holds |
| attempt2 1389-1391 | a thread that misses the snapshot keeps main in its boot loop | `ExecutorTasks`: without its premise `Completes` fails |
| lib 672, 923 | a server drops the WAKE of another server's worker, which stays blocked | `LibTasks` with two servers: `OneWakePerBlock` |
| lib 655-672 | a server takes another worker's registration for its own's; its 5 s are looked at only between two waits, and the wait has no deadline | `LibTasks` with two servers: `WaitingIsReady` |
| lib 787-836 | PREEMPT ends the server, which marks the worker Waiting; locks that the worker holds are never released | `LibTasks` with `Preemptible = TRUE`: `WaitingIsReady` |
| lib 747 | a server waits for the lock of its task queue, which its own blocked worker holds while it prints | `LibTasks` with `PrintBlocks = TRUE`: deadlock |
| lib 815 | a server locks its pool twice and stops | `spc[s] = "selflock"`, reached with three servers and a chain of four tasks |
| lib 1088 | "Signal all workers to shutdown": the message is sent to workers that nobody switches to any more, and the arm that reads it (535) is not reached | `LibFaults`: no state has `wpc[w] = "exit"` |
| main 237-281 | `run_demo_test` switches to none of its workers, and hangs | `TestsFinish` leaves the demo out |

### Bounds

Two servers are needed for one to interfere with another's worker. Two workers let each
server have one, or one server both. With a third worker the properties of `KernelServers`
hold too (4,629,075 states, ten minutes on three cores, so not a routine run), and the
tokens are proved for any number. Buffers of two and three words are the two cases of
`umcg_server_get_events`: in a context switch, two words leave no room for a second worker
and three do; `KernelCalls` has both, `KernelServers` three. In the executor, one server has two workers (its queues
have an order) and the other has one (routing matters); one task with a child and one
without make a submission race with completions and with main's two loads. A task queue of
one place refuses tasks; elsewhere it has four and, like the channels, is larger than what
can be in it, as in the program (100000 and 10000). The router's buffer is 3 words instead
of 10, so it can fill. The echo server has more workers than accept tasks, as the program
does (`EchoAssumption`), and two of them are left for two connections, so that connections
are served side by side and behind each other. The self-tests are the program itself, with
its loops over a duration left at any round. The earlier executor needs two workers of one
server for a wake-up behind another, two servers for stolen events, three for the third
server's flags, each with a task, since tasks go to the servers in turn. There is no counter that would need a cap.

### Deadlock

TLC checks for deadlock in `ExecutorSafety`, `ExecutorFaults`, `ExecutorPreempt`,
`EchoConnections`, `SelfTestTimeout` and `LibTasks`; there main's end, where there
is one, is the only state that may stutter. It is not checked where the system really may stop: in the klib runs (with
every server parked and no worker registered nothing has to happen), in `ExecutorTasks`
(main polls for ever after an incomplete snapshot, and its polls change nothing), in
`SelfTestSuite` (the demo hangs), in `LibFaults` and `LibServers` (the hangs above).

### Fairness

`FairSpec` of both executors: weak fairness of main, of the router, of each worker and of
each scheduling server. All are kernel threads with a processor that loop or sleep for a
bounded time, and the I/O of the demos is `thread::sleep`, which ends. The timer of the wait
in `lib.rs` 994 is not owed to anyone (`ServerTimer` has no fairness), for the reason given
above. The router of `attempt2.rs` computes its deadline from the clock, and its loop goes on
to the end of the log in `resources/latest_failing_attempt.txt`. A preemption is not owed to anyone either, and in the runs that check `Completes` tasks are short and main is patient.
In the echo server (`EchoFairSpec`) reads end by their deadline; `accept()` ends when a
connection is there, but no client has to come, and `accept()` need not fail (`AcceptFails`
has no fairness). In the self-tests (`FairSpec`) threads go on, timers fire, and the
duration of a benchmark passes.

## 4. Proofs

`UmcgClientProofs` proves `Spec => []TypeOK` for every choice of `Workers`, `Servers`,
`EventSizes`, `Features` and `Wakers`. The lemmas say what the helpers return (how many workers
`Taken` takes, that `Announcements` are words, what waking a thread does), then one per
group of steps.

`UmcgTokenProofs` proves, for programs without the optional calls (`Features = {}`), that
`IInv` is inductive, and from it `SlotIsLive`, `NoServerStranded`, `IdleListExact` and
`OneToken`. None of these is inductive alone. A worker's report is safe because its slot
is live; the slot is live because the server that switched to the worker was the only one
that could; that is so because the right to switch is a token that exists once; it exists
once because `idle_workers` lists every idle worker once, and not before its wake-up has got
that far (`Listed`); and a server leaves its context
switch only when its slot is filled (`Undisturbed`), which fails if a blocked worker keeps
its server's wait queue. `IInv` is the conjunction, and TLC checks each part in
`KernelServers`.

The argument groups the actions by what they do to tokens:

| Lemma | Actions |
|---|---|
| `QuietStep` | parking, waking, timing out of servers: no token moves |
| `StayStep` | a worker enters or leaves a syscall, or begins to wait: it keeps its server |
| `ReportStep` | BLOCK, PREEMPT, EXIT, WAIT: the worker gives its server up, and all but BLOCK and EXIT put a token in its slot |
| `WakeupStep` | a blocked worker becomes IDLE: no token yet |
| `AnnounceStep` | registration, and the second half of a wake-up: a token appears on `idle_workers` |
| `SwitchStep` | a server spends a token |
| `CollectStep` | a server takes tokens from its slot and from `idle_workers` |

Assumptions: `None` is not a worker, server or event word (`KernelAssumption`); the set
of servers is finite, buffers have at least two words, which `umcg_wait` demands
(`ClientAssumption`). `Features = {}` is needed: with the optional calls and two servers
the theorems are false, as the first two rows of the table of departures in section 3 show.
Who calls `UMCG_WAKE` does not matter.

`Attempt2Proofs` proves two properties of the executor of `attempt2.rs` for every number of
servers, workers and tasks and every capacity, and whatever the switches of section 2 are
set to:

- `SuccessIsSound`: `Spec => []CompletionSound`. The counters are two variables and
  `all_tasks_completed` reads them one after the other, while tasks are counted, queued,
  dropped, run and finished.
- `DroppedTasksStayCounted`: `Spec => []DroppedStaysCounted`.

Neither is inductive. `IInv` follows the tasks: each is in one place at most (`OnePlace`),
got there through `add_task` (`AllSubmitted`), a worker has a task in hand exactly at the
places where it runs one (`JobsInHand`), main's remaining tasks are the rest of its list
(`MainOrder`), and the counters are cardinalities (`Counters`): `total` that of the tasks
that `register_task` has seen, `completed` that of `finished`. `OnePlace` is what makes a
task be counted and finished once. `InWait` ties the waiting call of a worker to its place
in the loop. What main loads first is at most `completed`; if it equals `total`, the
finished tasks are all the counted ones, and then, by closure under `Child`, all tasks.
Nothing is needed of the klib or of the servers' view of their workers, so the result does
not depend on scheduling.

`Attempt2FlowProofs` has the invariant, what a step that moves a task has to show
(`QuietStep`, `MoveStep`), and main's steps; `Attempt2WorkerProofs` and
`Attempt2SubmitProofs` have the workers' steps, `Attempt2StepProofs` those of the servers
and all of them together, `Attempt2Proofs` the theorems.

Assumptions: tasks are finitely many, and main and the tasks submit different closures
(`TaskAssumption`); for `SuccessIsSound`, every task descends from one that main submits
(`EveryTaskHasSource`, a hypothesis of the theorem, which `MCAttempt2` has TLC evaluate for
the instances).

Only model-checked: liveness; `NoLostWakeup` (it counts servers); `WakeMeansWoken`; all but
`TypeOK` of the klib with optional calls; the servers' view of the workers in `Attempt2`;
the refinement of `TaskExecution`, which also needs that no task is dropped; `EchoServer`,
`LibExecutor` and `UmcgSelfTest`. Liveness under fairness, `ENABLED` and induction over
data are out of the prover's reach.

## 5. Not modelled

- `close.rs`, `http2.rs`, `executor.rs` and `umcg_http_test.rs` consist of comments, and so does
  `lib.rs` after line 1346, which holds the two logs of section 3 and older code. `test.rs` and `umcg_test.rs` are near-duplicates of `main.rs` and
  `lib.rs` that no target compiles.
- `ContextSwitchMetrics`, `ServerStats` other than the open connections, and all
  diagnostics: nothing reads them for control.
- The lock of stdout, which every print takes. The effect of a print that blocks is
  modelled where it matters: at boot (`BlockAtBoot`) and under the locks of `submit`
  (`PrintBlocks`).
- `futex_perftest` (no UMCG call), `set_cpu_affinity`, the EINTR branches of the wrappers
  and `umcg_wait_retry_simple`.
- `Server::shutdown`, `ServerRouter::forward_event` and `ServerQueue` of `attempt2.rs`, and
  the fields of `lib.rs` named in section 2: never called or filled.

## 6. Plan

1. Theorems: `TypeOK`, `PendingExact` and `RunningCount` of `Attempt2`; the refinement of
   `TaskExecution` from these and `OnePlace`; success is sound in `LibExecutor`, along the
   same lines.
2. Theorems about the klib with one server and all optional calls; `BufferFits`.
3. The lock of stdout composed with a server and its workers (attempt2 44).
4. The chain of four tasks with three servers that leads to `selflock` in `LibExecutor`
   (lib 815), in an instance small enough to be checked.

---------------------------- MODULE UmcgSelfTest ----------------------------
(***************************************************************************)
(* The tests, the benchmark and the demo of src/main.rs, on the klib.      *)
(* Every thread executes a script: one instruction per call it makes, with *)
(* what the program asserts of the outcome.  A thread whose assertion      *)
(* fails is recorded in failed and stops.                                  *)
(*                                                                         *)
(* The main thread runs the tests one after another and spawns the other   *)
(* threads, which go by their roles.                                       *)
(***************************************************************************)
EXTENDS UmcgKernel, SequencesExt

CONSTANT Tests  \* what main may be started to run: sequences of tests

VARIABLES
    tests,    \* what main runs, in order
    pc,       \* the next instruction of each thread
    entered,  \* it is inside the call of that instruction
    spawned,  \* the threads that have been started
    ids,      \* worker_ids
    raised,   \* which of DONE and worker_exit are set
    clock,    \* the test's duration: "off", "running" or "over"
    failed    \* the threads that an assertion has stopped

testVars == <<tests, pc, entered, spawned, ids, raised, clock, failed>>
vars == <<kernelVars, testVars>>

Threads == Workers \cup Servers

-----------------------------------------------------------------------------
(* Instructions of every thread. *)
While(flag, n) == [op |-> "while", flag |-> flag, over |-> n]
Repeat(n) == [op |-> "repeat", by |-> n]
Ctl(args, errno) == [op |-> "ctl", args |-> args, errno |-> errno]

(* Of the server threads: thread::spawn, join, the flags and the clock;       *)
(* umcg_wait_any_worker, which learns worker_ids[i] or must get it again;     *)
(* umcg_ctxsw_assert_worker_event on worker i, with the event of worker j;    *)
(* umcg_wait_retry on a worker; umcg_wait; UMCG_WAKE until it is accepted.    *)
Spawn(t) == [op |-> "spawn", who |-> t]
Join(t) == [op |-> "join", who |-> t]
Raise(flag) == [op |-> "raise", flag |-> flag]
StartClock == [op |-> "start"]
RaiseIfOver == [op |-> "raiseifover"]
WaitAny(i, type) == [op |-> "waitany", id |-> i, type |-> type, learn |-> TRUE]
WaitSame(i, type) == [op |-> "waitany", id |-> i, type |-> type, learn |-> FALSE]
SwitchTo(i, j, type) == [op |-> "ctxsw", id |-> i, from |-> j, type |-> type]
Switch(i, type) == SwitchTo(i, i, type)
WaitWorker(i) == [op |-> "waitworker", id |-> i]
Wait(n, outcome) == [op |-> "wait", sz |-> n, deadline |-> FALSE, outcome |-> outcome]
TimedWait(n) == [op |-> "wait", sz |-> n, deadline |-> TRUE, outcome |-> "ETIMEDOUT"]
Poll(n) == [op |-> "poll", sz |-> n, outcome |-> "ETIMEDOUT"]
Wake == [op |-> "wake", again |-> FALSE]
WakeUntilOk == [op |-> "wake", again |-> TRUE]

(* Of the workers; timedout lists the outcomes that the program accepts. *)
Register == [op |-> "register"]
Sleeps == [op |-> "sleep"]
SpinUntil(flag) == [op |-> "spin", flag |-> flag]
Yield == [op |-> "yield", deadline |-> FALSE, accept |-> {FALSE}]
YieldUntilNow == [op |-> "yield", deadline |-> TRUE, accept |-> {TRUE}]
SwitchUntilNow(i) == [op |-> "hand", id |-> i, accept |-> BOOLEAN]
Ends == [op |-> "unregister"]

-----------------------------------------------------------------------------
(* The argument checks of umcg_ctl.  tid is "0", the caller, or a thread that *)
(* does not exist; a timeout is "0", "now" or a worker id with event bits.    *)
Args(cmd, tid, timeout, events, sz) ==
    [cmd |-> cmd, tid |-> tid, timeout |-> timeout, events |-> events, sz |-> sz]

Plain(cmd) == Args(cmd, "0", "0", FALSE, 0)

(* Mutant: the size of the event buffer is not checked. *)
ErrnoAnySize(isWorker, a) ==
    IF a.cmd = "CTX_SWITCH" THEN IF a.tid = "self" THEN "EINVAL" ELSE "ESRCH"
    ELSE IF a.cmd = "REGISTER_WORKER" THEN "EINVAL"
    ELSE IF a.cmd = "WAIT" /\ (isWorker \/ a.tid # "0") THEN "EINVAL" ELSE "0"

Errno(isWorker, a) ==
    LET more == a.tid # "0" \/ a.events \/ a.sz # 0
        einval ==
            CASE a.cmd = "REGISTER_WORKER" -> more \/ a.timeout = "tagged" \/ isWorker
              [] a.cmd \in {"REGISTER_SERVER", "UNREGISTER"} -> more \/ a.timeout # "0"
              [] a.cmd = "WAIT" -> \/ isWorker /\ more
                                   \/ ~isWorker /\ a.tid # "0"
                                      /\ (a.timeout # "0" \/ a.events \/ a.sz # 0)
                                   \/ ~isWorker /\ a.tid = "0" /\ a.sz < 2
              [] a.cmd = "CTX_SWITCH" -> a.tid = "self"
    IN  IF einval THEN "EINVAL"
        ELSE IF a.cmd = "CTX_SWITCH" \/ a.tid # "0" THEN "ESRCH" ELSE "0"

-----------------------------------------------------------------------------
(* The threads of umcg_test_basic, umcg_perftest and run_demo_test. *)
BlockingWorker == <<Register, Sleeps, Ends>>
TimeoutWorker == <<Register, YieldUntilNow, Ends>>
DummyWorker == <<Register, Ends>>
HandoverWorker == <<Register, SwitchUntilNow(1), Ends>>
PreemptedWorker == <<Register, SpinUntil("worker_exit"), Ends>>
ExitingWorker ==
    <<Register,
      Ctl(Plain("REGISTER_WORKER"), "EINVAL"),
      Ctl(Args("CTX_SWITCH", "self", "0", FALSE, 0), "EINVAL"),
      Ctl(Args("WAIT", "self", "0", FALSE, 0), "EINVAL"),
      Ctl(Args("WAIT", "0", "0", TRUE, 0), "EINVAL"),
      Ctl(Args("WAIT", "0", "0", FALSE, 2), "EINVAL"),
      Ends>>
PerfWorker == <<Register, While("DONE", 2), Yield, Repeat(2), Ends>>
demo_worker_a == <<Register, While("DONE", 2), Yield, Repeat(2), Ends>>
demo_worker_b == <<Register, While("DONE", 2), Sleeps, Repeat(2), Ends>>
demo_worker_c == <<Register, While("DONE", 2), Sleeps, Repeat(2), Ends>>

(* The other server of umcg_test_server2server. *)
HelperServer ==
    <<Ctl(Plain("REGISTER_SERVER"), "0"), Wait(2, "woken"), Ctl(Plain("UNREGISTER"), "0")>>

(* The five parts of umcg_test_basic. *)
BlockingTest ==
    <<Ctl(Plain("REGISTER_SERVER"), "0"),
      Spawn("blocking"), WaitAny(1, "WAKE"), Switch(1, "BLOCK"), WaitWorker(1),
      WaitSame(1, "WAKE"), Switch(1, "EXIT"), Join("blocking")>>
TimeoutTest ==
    <<Spawn("timeout"), WaitAny(1, "WAKE"), Switch(1, "WAIT"),
      WaitSame(1, "TIMEOUT"), Switch(1, "EXIT"), Join("timeout")>>
HandoverTest ==
    <<Spawn("dummy"), WaitAny(1, "WAKE"), Spawn("handover"), WaitAny(2, "WAKE"),
      SwitchTo(2, 1, "EXIT"), Wait(2, "handed over"), Switch(2, "EXIT"),
      Join("dummy"), Join("handover")>>
PreemptTest ==
    <<Spawn("preempted"), WaitAny(1, "WAKE"), Switch(1, "PREEMPT"),
      Raise("worker_exit"), Switch(1, "EXIT"), Join("preempted")>>
ExitTest ==
    <<Spawn("exiting"), WaitAny(1, "WAKE"), Switch(1, "EXIT"), Join("exiting"),
      Ctl(Plain("UNREGISTER"), "0")>>

run_basic_tests ==
    <<Ctl(Plain("REGISTER_SERVER"), "0"),
      Ctl(Args("REGISTER_WORKER", "0", "tagged", FALSE, 0), "EINVAL"),
      Ctl(Args("CTX_SWITCH", "self", "0", TRUE, 2), "EINVAL"),
      Ctl(Plain("UNREGISTER"), "0")>>

(* Mutant: the other server is not joined. *)
Server2ServerUnjoined ==
    <<Ctl(Plain("REGISTER_SERVER"), "0"), Spawn("helper"), WakeUntilOk,
      Ctl(Plain("UNREGISTER"), "0")>>

umcg_test_server2server ==
    <<Ctl(Plain("REGISTER_SERVER"), "0"), Spawn("helper"), WakeUntilOk,
      Join("helper"), Ctl(Plain("UNREGISTER"), "0")>>

umcg_test_errors ==
    <<Ctl(Args("REGISTER_WORKER", "0", "tagged", FALSE, 0), "EINVAL"),
      Ctl(Plain("REGISTER_SERVER"), "0"),
      Ctl(Args("CTX_SWITCH", "self", "0", TRUE, 2), "EINVAL"),
      Ctl(Args("WAIT", "0", "0", TRUE, 1), "EINVAL"),
      TimedWait(2), Poll(2),
      Ctl(Args("WAIT", "nobody", "0", TRUE, 0), "EINVAL"),
      Ctl(Args("WAIT", "nobody", "0", FALSE, 2), "EINVAL"),
      Ctl(Args("CTX_SWITCH", "nobody", "now", TRUE, 2), "ESRCH"),
      Ctl(Args("CTX_SWITCH", "nobody", "0", TRUE, 2), "ESRCH"),
      Wake, Ctl(Plain("UNREGISTER"), "0")>>

umcg_perftest ==
    <<Spawn("perf"), Ctl(Plain("REGISTER_SERVER"), "0"), WaitAny(1, "WAKE"),
      StartClock, While("DONE", 3), Switch(1, "WAIT"), RaiseIfOver, Repeat(3),
      Switch(1, "EXIT"), Join("perf")>>

run_demo_test ==
    <<Ctl(Plain("REGISTER_SERVER"), "0"), Spawn("a"), Spawn("b"), Spawn("c"),
      StartClock, While("DONE and no worker", 3), Wait(6, "OK"), RaiseIfOver, Repeat(3),
      Join("a"), Join("b"), Join("c")>>

Test(name) ==
    CASE name = "blocking" -> BlockingTest
      [] name = "timeout" -> TimeoutTest
      [] name = "handover" -> HandoverTest
      [] name = "preempt" -> PreemptTest
      [] name = "exit" -> ExitTest
      [] name = "basic" -> run_basic_tests
      [] name = "server2server" -> umcg_test_server2server
      [] name = "errors" -> umcg_test_errors
      [] name = "perf" -> umcg_perftest
      [] name = "demo" -> run_demo_test

ScriptOf(t) ==
    CASE t = "main" -> FlattenSeq([i \in DOMAIN tests |-> Test(tests[i])])
      [] t = "helper" -> HelperServer
      [] t = "blocking" -> BlockingWorker
      [] t = "timeout" -> TimeoutWorker
      [] t = "dummy" -> DummyWorker
      [] t = "handover" -> HandoverWorker
      [] t = "preempted" -> PreemptedWorker
      [] t = "exiting" -> ExitingWorker
      [] t = "perf" -> PerfWorker
      [] t = "a" -> demo_worker_a
      [] t = "b" -> demo_worker_b
      [] t = "c" -> demo_worker_c

Script == [t \in Threads |-> ScriptOf(t)]

-----------------------------------------------------------------------------
Init ==
    /\ KernelInit
    /\ tests \in Tests
    /\ pc = [t \in Threads |-> 1] /\ entered = [t \in Threads |-> FALSE]
    /\ spawned = {"main"} /\ failed = {}
    /\ ids = [i \in {1, 2} |-> None]
    /\ raised = {} /\ clock = "off"

Ended(t) == pc[t] > Len(Script[t])
Instr(t) == Script[t][pc[t]]

(* Thread t executes instruction op, before or inside its call. *)
At(t, op) == t \in spawned \ failed /\ ~Ended(t) /\ Instr(t).op = op
Calls(t, op) == At(t, op) /\ ~entered[t]
Inside(t, op) == At(t, op) /\ entered[t]

Enter(t) ==
    /\ entered' = [entered EXCEPT ![t] = TRUE]
    /\ UNCHANGED <<tests, pc, spawned, ids, raised, clock, failed>>

(* The call is over; assert! on its outcome stops the thread or lets it go on. *)
Jump(t, n) ==
    /\ pc' = [pc EXCEPT ![t] = @ + n] /\ entered' = [entered EXCEPT ![t] = FALSE]
    /\ UNCHANGED tests
Expect(t, ok) ==
    /\ IF ok THEN Jump(t, 1) /\ UNCHANGED failed
             ELSE failed' = failed \cup {t} /\ UNCHANGED <<tests, pc, entered>>
    /\ UNCHANGED <<spawned, raised, clock>>

-----------------------------------------------------------------------------
(* Steps that leave the klib alone. *)

(* WorkerThreads.count: the demo's workers past their registration. *)
Counted == {w \in Workers : pc[w] > 1 /\ pc[w] < Len(Script[w])}

LoopTest(t) ==
    /\ At(t, "while")
    /\ LET over == IF Instr(t).flag = "DONE" THEN "DONE" \in raised
                   ELSE "DONE" \in raised /\ Counted = {}
       IN  Jump(t, IF over THEN Instr(t).over + 1 ELSE 1)
    /\ t \in Workers => OnCpu(t)
    /\ UNCHANGED <<kernelVars, spawned, ids, raised, clock, failed>>

LoopBack(t) ==
    /\ At(t, "repeat")
    /\ t \in Workers => OnCpu(t)
    /\ Jump(t, -Instr(t).by)
    /\ UNCHANGED <<kernelVars, spawned, ids, raised, clock, failed>>

(* A call that umcg_ctl refuses, or accepts with nothing to do. *)
CtlCall(t) ==
    /\ At(t, "ctl")
    /\ t \in Workers => OnCpu(t)
    /\ Expect(t, Errno(t \in Workers, Instr(t).args) = Instr(t).errno)
    /\ UNCHANGED <<kernelVars, ids>>

SpawnThread(s) ==
    /\ At(s, "spawn")
    /\ spawned' = spawned \cup {Instr(s).who}
    /\ Jump(s, 1)
    /\ UNCHANGED <<kernelVars, ids, raised, clock, failed>>

(* handle.join().unwrap() *)
JoinThread(s) ==
    /\ At(s, "join")
    /\ Ended(Instr(s).who) \/ Instr(s).who \in failed
    /\ Expect(s, Instr(s).who \notin failed)
    /\ UNCHANGED <<kernelVars, ids>>

Flags(s) ==
    /\ \/ At(s, "raise") /\ raised' = raised \cup {Instr(s).flag} /\ UNCHANGED clock
       \/ At(s, "start") /\ clock' = "running" /\ UNCHANGED raised
       \/ /\ At(s, "raiseifover")
          /\ raised' = IF clock = "over" THEN raised \cup {"DONE"} ELSE raised
          /\ UNCHANGED clock
    /\ Jump(s, 1)
    /\ UNCHANGED <<kernelVars, spawned, ids, failed>>

Elapse ==
    /\ clock = "running" /\ clock' = "over"
    /\ UNCHANGED <<kernelVars, tests, pc, entered, spawned, ids, raised, failed>>

-----------------------------------------------------------------------------
(* The calls of a server thread. *)

ServerCall(s) ==
    /\ \/ Calls(s, "waitany") /\ ServerWait(s, 2, FALSE)
       \/ Calls(s, "wait") /\ ServerWait(s, Instr(s).sz, Instr(s).deadline)
       \/ Calls(s, "poll") /\ ServerPoll(s, Instr(s).sz)
       \/ Calls(s, "ctxsw") /\ ServerCtxSwitch(s, ids[Instr(s).id], 2)
       \/ Calls(s, "ctxsw") /\ ServerCtxSwitchFail(s, ids[Instr(s).id])
       \/ Calls(s, "waitworker") /\ ServerWaitWorker(s, ids[Instr(s).id])
       \/ Calls(s, "wake") /\ WakeServer(s)
    /\ Enter(s)

ServerResume(s) ==
    /\ WaitResume(s) \/ WaitTimeout(s) \/ SwitchResume(s) \/ WaitWorkerResume(s)
       \/ WakeServerTry(s)
    /\ UNCHANGED testVars

(* The user's buffer holds this one event and zeroes. *)
Only(s, w, type) == ret[s] = "OK" /\ delivered[s] = <<Word(w, type, FALSE)>>

umcg_wait_any_worker(s) ==
    /\ Inside(s, "waitany") /\ srv[s] = "user"
    /\ LET i == Instr(s)
           from == {w \in Workers : Only(s, w, i.type) /\ (i.learn \/ ids[i.id] = w)}
       IN  /\ Expect(s, from # {})
           /\ ids' = IF from = {} THEN ids ELSE [ids EXCEPT ![i.id] = CHOOSE w \in from : TRUE]
    /\ UNCHANGED kernelVars

umcg_ctxsw_assert_worker_event(s) ==
    /\ Inside(s, "ctxsw") /\ srv[s] = "user"
    /\ Expect(s, Only(s, ids[Instr(s).from], Instr(s).type))
    /\ UNCHANGED <<kernelVars, ids>>

(* The other calls, each with its own assertion on the outcome. *)
Outcome(s, outcome) ==
    CASE outcome = "woken" -> ret[s] = "OK" /\ delivered[s] = <<>>
      [] outcome = "handed over" ->
            /\ ret[s] = "OK"
            /\ \E late \in BOOLEAN : delivered[s] = <<Word(ids[2], "WAIT", late)>>
      [] OTHER -> ret[s] = outcome

umcg_wait_retry(s) ==
    /\ srv[s] = "user"
    /\ \/ Inside(s, "waitworker") /\ Expect(s, ret[s] = "OK")
       \/ Inside(s, "wait") /\ Expect(s, Outcome(s, Instr(s).outcome))
       \/ Inside(s, "poll") /\ Expect(s, Outcome(s, Instr(s).outcome))
    /\ UNCHANGED <<kernelVars, ids>>

(* Mutant: the loop goes on after UMCG_WAKE has returned 0. *)
WakeDoneNoBreak(s) ==
    /\ Inside(s, "wake") /\ srv[s] = "user"
    /\ Jump(s, 0)
    /\ UNCHANGED <<kernelVars, ids, spawned, raised, clock, failed>>

(* UMCG_WAKE: in umcg_test_server2server again until it returns 0. *)
WakeDone(s) ==
    /\ Inside(s, "wake") /\ srv[s] = "user"
    /\ IF Instr(s).again /\ ret[s] = "EAGAIN"
       THEN Jump(s, 0) /\ UNCHANGED <<spawned, raised, clock, failed>>
       ELSE Expect(s, ret[s] = IF Instr(s).again THEN "OK" ELSE "EAGAIN")
    /\ UNCHANGED <<kernelVars, ids>>

ServerStep(s) ==
    \/ LoopTest(s) \/ LoopBack(s) \/ CtlCall(s)
    \/ SpawnThread(s) \/ JoinThread(s) \/ Flags(s)
    \/ ServerCall(s) \/ ServerResume(s)
    \/ umcg_wait_any_worker(s) \/ umcg_ctxsw_assert_worker_event(s)
    \/ umcg_wait_retry(s) \/ WakeDone(s)

-----------------------------------------------------------------------------
(* The calls of a worker; umcg_worker_pause comes before each of them.  A    *)
(* switch to a worker that is not RUNNABLE would stop here, against          *)
(* TestsFinish: it does not happen in the suite.                             *)

InSyscall == {"sleep", "yield", "hand", "unregister"}

WorkerEnter(w) ==
    /\ \E op \in InSyscall : Calls(w, op)
    /\ SyscallEnter(w)
    /\ UNCHANGED testVars

WorkerCall(w) ==
    /\ \/ Calls(w, "register") /\ RegisterWorker(w)
       \/ Calls(w, "sleep") /\ SyscallBlock(w)
       \/ Calls(w, "yield") /\ WorkerWait(w, Instr(w).deadline)
       \/ Calls(w, "hand") /\ WorkerCtxSwitch(w, ids[Instr(w).id])
    /\ Enter(w)

(* The rest of the call, in the klib; a sleep ends. *)
WorkerResume(w) ==
    /\ \/ WorkerWaitPost(w)
       \/ WorkerCtxSwitchAnnounce(w)
       \/ WorkerCtxSwitchArm(w, TRUE)
       \/ WorkerCtxSwitchHand(w)
       \/ Inside(w, "sleep") /\ Unblock(w)
       \/ UnblockAnnounce(w)
    /\ UNCHANGED testVars

(* A server has switched to the worker and its call returns. *)
WorkerReturn(w) ==
    /\ OnCpu(w)
    /\ \/ (Inside(w, "register") \/ Inside(w, "sleep")) /\ Expect(w, TRUE)
       \/ Inside(w, "yield") /\ Expect(w, timedout[w] \in Instr(w).accept)
       \/ Inside(w, "hand") /\ Expect(w, timedout[w] \in Instr(w).accept)
    /\ UNCHANGED <<kernelVars, ids>>

(* UMCG_UNREGISTER; or, in test 5, the end of the thread. *)
WorkerEnd(w) ==
    /\ Calls(w, "unregister")
    /\ Unregister(w)
    /\ Expect(w, TRUE) /\ UNCHANGED ids

(* A worker that spins sees the flag, or uses up its time slice. *)
Spin(w) ==
    /\ At(w, "spin") /\ OnCpu(w)
    /\ \/ /\ Instr(w).flag \in raised
          /\ Expect(w, TRUE) /\ UNCHANGED <<kernelVars, ids>>
       \/ /\ Instr(w).flag \notin raised
          /\ Preempt(w) /\ UNCHANGED testVars

WorkerStep(w) ==
    \/ LoopTest(w) \/ LoopBack(w) \/ CtlCall(w)
    \/ WorkerEnter(w) \/ WorkerCall(w)
    \/ WorkerResume(w) \/ WorkerReturn(w) \/ WorkerEnd(w) \/ Spin(w)

Timer(w) ==
    /\ WorkerTimeout(w) \/ WorkerTimeoutAnnounce(w) \/ WorkerTimeoutReturn(w)
    /\ UNCHANGED testVars

(* main has returned. *)
Returned == Ended("main") /\ UNCHANGED vars

Next ==
    \/ \E s \in Servers : ServerStep(s)
    \/ \E w \in Workers : WorkerStep(w) \/ Timer(w)
    \/ Elapse \/ Returned

Spec == Init /\ [][Next]_vars

(* A thread that can go on does, timers fire, time passes. *)
FairSpec ==
    /\ Spec
    /\ \A s \in Servers : WF_vars(ServerStep(s))
    /\ \A w \in Workers : WF_vars(WorkerStep(w)) /\ WF_vars(Timer(w))
    /\ WF_vars(Elapse)

-----------------------------------------------------------------------------
(* Every assert of main.rs holds, whatever order the threads, the timers and *)
(* the klib's wake-ups come in.                                              *)
AssertionsHold == failed = {}

(* The tests end: no thread waits for an event that was taken or never sent. *)
(* run_demo_test is not among them: it switches to none of its workers, and   *)
(* waits for events that do not come.                                         *)
TestsFinish == tests # <<"demo">> => <>Ended("main")

(* What a test leaves behind would be the next test's first event: when main *)
(* unregisters at the end of a test, or returns, no worker is registered or  *)
(* queued, no timer armed, and no wake-up is pending.                        *)
LeavesNothing ==
    (Ended("main") \/ Instr("main") = Ctl(Plain("UNREGISTER"), "0")) =>
        /\ \A w \in Workers : status[w] = "UNREGISTERED" /\ ~tmr[w]
        /\ idle_workers = <<>>
        /\ ~wake_idle_server
=============================================================================

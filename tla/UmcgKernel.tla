----------------------------- MODULE UmcgKernel -----------------------------
(***************************************************************************)
(* The UMCG klib of the Nanos unikernel (resources/umcg_with_logs.c): the  *)
(* state it keeps per worker thread, the global list of idle workers, and  *)
(* one action per syscall, callback or bottom half.  Who calls what, and   *)
(* when, is left to the modules that extend this one.                      *)
(*                                                                         *)
(* A server thread blocks in one of three places: on umcg.server_bq        *)
(* ("parked", then "woken" until its bottom half runs), in a context       *)
(* switch on its own thread_bq ("switching", then "switched"), or waiting  *)
(* for one worker on the same thread_bq ("watching", then "watched").      *)
(***************************************************************************)
EXTENDS Integers, FiniteSets, Sequences

CONSTANTS Workers,  \* threads that register as UMCG workers
          Servers,  \* threads that act as UMCG servers
          None      \* the null pointer

VARIABLES
    status,           \* umcg_worker.status, "UNREGISTERED" without a umcg_worker
    event,            \* umcg_worker.event: what an idle worker will report
    server_event,     \* umcg_worker.server_event: the server whose slot it is
    server_bq,        \* umcg_worker.server_bq: the server whose thread_bq it is
    tmr,              \* umcg_worker.tmr is armed
    timedout,         \* the worker resumes, or has resumed, with -ETIMEDOUT
    call,             \* where a worker is inside umcg_wait, umcg_ctx_switch or
                      \* umcg_worker_schedule_return
    next,             \* the worker it is switching to, in umcg_ctx_switch
    handler,          \* where its umcg_worker_timeout is
    idle_workers,     \* umcg.idle_workers
    wake_idle_server, \* umcg.wake_idle_server
    srv,              \* where each server thread is
    req,              \* event_sz of its call, and whether it has a deadline
    mailbox,          \* the event slot bound in umcg_server_ctx_switch_bh
    watch,            \* the worker bound in umcg_server_wait_worker_bh
    delivered,        \* what its last call wrote to the user's event buffer
    ret               \* what its last call returned

workerVars == <<status, event, server_event, server_bq, tmr, timedout, call,
                next, handler>>
queueVars == <<idle_workers, wake_idle_server>>
serverVars == <<srv, req, mailbox, watch, delivered, ret>>
kernelVars == <<workerVars, queueVars, serverVars>>

-----------------------------------------------------------------------------
(* enum umcg_worker_status; IDLE_TIMEOUT is UMCG_WORKER_IDLE | UMCG_WORKER_TIMEOUT *)
Status == {"UNREGISTERED", "IDLE", "IDLE_TIMEOUT", "RUNNABLE", "RUNNING",
           "PAUSED", "BLOCKED", "WAITING"}

(* enum umcg_event_type *)
EventType == {"BLOCK", "WAKE", "WAIT", "EXIT", "TIMEOUT", "PREEMPT"}

Idle == {"IDLE", "IDLE_TIMEOUT"}

(* An entry of the user's buffer: worker id | event type.  The pair of      *)
(* words WAIT, TIMEOUT that umcg_server_get_events writes for one worker is *)
(* one entry with timeout set.                                              *)
Word(w, e, t) == [worker |-> w, type |-> e, timeout |-> t]
Words == [worker : Workers, type : EventType, timeout : BOOLEAN]

ASSUME KernelAssumption == None \notin Workers \cup Servers \cup Words

(* The number of u64 slots a sequence of entries takes. *)
SlotsUsed(words) ==
    Len(words) + Cardinality({i \in DOMAIN words : words[i].timeout})

KernelTypeOK ==
    /\ status \in [Workers -> Status]
    /\ event \in [Workers -> EventType]
    /\ server_event \in [Workers -> Servers \cup {None}]
    /\ server_bq \in [Workers -> Servers \cup {None}]
    /\ tmr \in [Workers -> BOOLEAN]
    /\ timedout \in [Workers -> BOOLEAN]
    /\ call \in [Workers -> {"none", "post", "yield", "arm", "hand", "arrive",
                             "wake"}]
    /\ next \in [Workers -> Workers \cup {None}]
    /\ handler \in [Workers -> {"none", "announce", "return"}]
    /\ idle_workers \in Seq(Workers)
    /\ wake_idle_server \in BOOLEAN
    /\ srv \in [Servers -> {"user", "parked", "woken", "switching", "switched",
                            "watching", "watched", "waking"}]
    /\ req \in [Servers -> [sz : Nat, timed : BOOLEAN]]
    /\ mailbox \in [Servers -> Words \cup {None}]
    /\ watch \in [Servers -> Workers \cup {None}]
    /\ delivered \in [Servers -> Seq(Words)]
    /\ ret \in [Servers -> {"OK", "EINVAL", "ETIMEDOUT", "EAGAIN"}]

KernelInit ==
    /\ status = [w \in Workers |-> "UNREGISTERED"]
    /\ event = [w \in Workers |-> "WAKE"]
    /\ server_event = [w \in Workers |-> None]
    /\ server_bq = [w \in Workers |-> None]
    /\ tmr = [w \in Workers |-> FALSE]
    /\ timedout = [w \in Workers |-> FALSE]
    /\ call = [w \in Workers |-> "none"]
    /\ next = [w \in Workers |-> None]
    /\ handler = [w \in Workers |-> "none"]
    /\ idle_workers = <<>>
    /\ wake_idle_server = FALSE
    /\ srv = [s \in Servers |-> "user"]
    /\ req = [s \in Servers |-> [sz |-> 0, timed |-> FALSE]]
    /\ mailbox = [s \in Servers |-> None]
    /\ watch = [s \in Servers |-> None]
    /\ delivered = [s \in Servers |-> <<>>]
    /\ ret = [s \in Servers |-> "OK"]

-----------------------------------------------------------------------------
(* Waking threads. *)

(* blockq_wake_one(&umcg.server_bq): some parked server, if there is one.   *)
(* The block queue is first-in first-out; the model lets any waiter be the  *)
(* first.                                                                   *)
Parked == {s \in Servers : srv[s] = "parked"}
WakeOne(sv) ==
    IF Parked = {} THEN {sv} ELSE {[sv EXCEPT ![s] = "woken"] : s \in Parked}

(* blockq_wake_one(bq) on the thread_bq of server s: the waiter's bottom     *)
(* half will run.                                                            *)
Rouse(place) ==
    CASE place = "switching" -> "switched"
      [] place = "watching" -> "watched"
      [] OTHER -> place
WakeThread(s) == [t \in Servers |-> IF t = s THEN Rouse(srv[t]) ELSE srv[t]]

(* Mutant: the slot gets the worker id without the event type. *)
EventToServerUntyped(w, e) ==
    /\ mailbox' = [s \in Servers |-> IF s = server_event[w] THEN w ELSE mailbox[s]]
    /\ srv' = WakeThread(server_bq[w])

(* umcg_worker_event_to_server: write the slot, wake the server. *)
EventToServer(w, e) ==
    /\ mailbox' = [s \in Servers |->
                      IF s = server_event[w] THEN Word(w, e, FALSE) ELSE mailbox[s]]
    /\ srv' = WakeThread(server_bq[w])

(* Mutant: nobody is woken. *)
EventIdleSilent(w, e) ==
    /\ event' = [event EXCEPT ![w] = e]
    /\ idle_workers' = Append(idle_workers, w)
    /\ UNCHANGED srv

(* umcg_worker_event_idle: the worker is listed, and a parked server woken.  *)
(* Servers look at the list and park under the lock of the block queue, so   *)
(* that nothing is gained from a step between the two.                       *)
EventIdle(w, e) ==
    /\ event' = [event EXCEPT ![w] = e]
    /\ idle_workers' = Append(idle_workers, w)
    /\ srv' \in WakeOne(srv)

-----------------------------------------------------------------------------
(* The worker's side. *)

(* umcg_register_worker: the thread sleeps until a server switches to it. *)
RegisterWorker(w) ==
    /\ status[w] = "UNREGISTERED"
    /\ status' = [status EXCEPT ![w] = "IDLE"]
    /\ tmr' = [tmr EXCEPT ![w] = FALSE]
    /\ timedout' = [timedout EXCEPT ![w] = FALSE]
    /\ EventIdle(w, "WAKE")
    /\ UNCHANGED <<server_event, server_bq, call, next, handler,
                   wake_idle_server, req, mailbox, watch, delivered, ret>>

(* A worker executes only while no umcg call of it is in progress. *)
OnCpu(w) == call[w] = "none" /\ status[w] \in {"RUNNING", "PAUSED"}

(* The worker on whose behalf a server sleeps in a context switch: it runs,  *)
(* or is about to send its WAIT, or is about to hand its server over.        *)
Holds(w) == OnCpu(w) \/ call[w] \in {"post", "yield", "arm", "hand"}

(* An idle worker that is not on idle_workers yet: the statuses change       *)
(* outside umcg.lock, before umcg_worker_event_idle lists the worker.        *)
Unlisted(w) == call[w] \in {"yield", "wake"} \/ handler[w] = "announce"

(* umcg_worker_pause: the worker enters a syscall. *)
SyscallEnter(w) ==
    /\ OnCpu(w) /\ status[w] = "RUNNING"
    /\ status' = [status EXCEPT ![w] = "PAUSED"]
    /\ UNCHANGED <<event, server_event, server_bq, tmr, timedout, call, next,
                   handler, queueVars, serverVars>>

(* Mutant: the worker keeps its server's wait queue. *)
SyscallBlockKeepBq(w) ==
    /\ OnCpu(w) /\ status[w] = "PAUSED"
    /\ status' = [status EXCEPT ![w] = "BLOCKED"]
    /\ EventToServer(w, "BLOCK")
    /\ UNCHANGED <<event, server_event, server_bq, tmr, timedout, call, next,
                   handler, queueVars, req, watch, delivered, ret>>

(* umcg_syscall_pause: the syscall blocks. *)
SyscallBlock(w) ==
    /\ OnCpu(w) /\ status[w] = "PAUSED"
    /\ status' = [status EXCEPT ![w] = "BLOCKED"]
    /\ server_bq' = [server_bq EXCEPT ![w] = None]
    /\ EventToServer(w, "BLOCK")
    /\ UNCHANGED <<event, server_event, tmr, timedout, call, next, handler,
                   queueVars, req, watch, delivered, ret>>

(* umcg_worker_schedule_return, three outcomes: a blocked worker becomes     *)
(* runnable, wakes the server that waits for it, if any, and is announced;   *)
(* the time slice is over; the worker goes on.                               *)
Unblock(w) ==
    /\ status[w] = "BLOCKED"
    /\ status' = [status EXCEPT ![w] = "IDLE"]
    /\ call' = [call EXCEPT ![w] = "wake"]
    /\ srv' = WakeThread(server_bq[w])
    /\ UNCHANGED <<event, server_event, server_bq, tmr, timedout, next, handler,
                   queueVars, req, mailbox, watch, delivered, ret>>

UnblockAnnounce(w) ==
    /\ call[w] = "wake"
    /\ call' = [call EXCEPT ![w] = "none"]
    /\ EventIdle(w, "WAKE")
    /\ UNCHANGED <<status, server_event, server_bq, tmr, timedout, next,
                   handler, wake_idle_server, req, mailbox, watch, delivered,
                   ret>>

(* Mutant: the server is not told. *)
PreemptUnreported(w) ==
    /\ OnCpu(w)
    /\ status' = [status EXCEPT ![w] = "RUNNABLE"]
    /\ UNCHANGED <<event, server_event, server_bq, tmr, timedout, call, next,
                   handler, queueVars, serverVars>>

Preempt(w) ==
    /\ OnCpu(w)
    /\ status' = [status EXCEPT ![w] = "RUNNABLE"]
    /\ EventToServer(w, "PREEMPT")
    /\ UNCHANGED <<event, server_event, server_bq, tmr, timedout, call, next,
                   handler, queueVars, req, watch, delivered, ret>>

SyscallReturn(w) ==
    /\ OnCpu(w) /\ status[w] = "PAUSED"
    /\ status' = [status EXCEPT ![w] = "RUNNING"]
    /\ UNCHANGED <<event, server_event, server_bq, tmr, timedout, call, next,
                   handler, queueVars, serverVars>>

(* Mutant: the exit is reported as a wait. *)
UnregisterAsWait(w) ==
    /\ OnCpu(w) /\ status[w] = "PAUSED"
    /\ status' = [status EXCEPT ![w] = "UNREGISTERED"]
    /\ EventToServer(w, "WAIT")
    /\ UNCHANGED <<event, server_event, server_bq, tmr, timedout, call, next,
                   handler, queueVars, req, watch, delivered, ret>>

(* umcg_unregister, from UMCG_UNREGISTER or from the thread's end. *)
Unregister(w) ==
    /\ OnCpu(w) /\ status[w] = "PAUSED"
    /\ status' = [status EXCEPT ![w] = "UNREGISTERED"]
    /\ EventToServer(w, "EXIT")
    /\ UNCHANGED <<event, server_event, server_bq, tmr, timedout, call, next,
                   handler, queueVars, req, watch, delivered, ret>>

(* umcg_wait called by a worker.  The status and the timer are visible to     *)
(* every processor before the syscall's return value is preset to 0 and the  *)
(* event is sent, so these are two steps.                                    *)
WorkerWait(w, deadline) ==
    /\ OnCpu(w) /\ status[w] = "PAUSED"
    /\ status' = [status EXCEPT ![w] = "WAITING"]
    /\ tmr' = [tmr EXCEPT ![w] = @ \/ deadline]
    /\ call' = [call EXCEPT ![w] = "post"]
    /\ UNCHANGED <<event, server_event, server_bq, timedout, next, handler,
                   queueVars, serverVars>>

(* Mutant: the WAIT is not sent. *)
WorkerWaitPostUnsent(w) ==
    /\ call[w] = "post"
    /\ call' = [call EXCEPT ![w] = "none"]
    /\ timedout' = [timedout EXCEPT ![w] = FALSE]
    /\ UNCHANGED <<status, event, server_event, server_bq, tmr, next, handler,
                   queueVars, serverVars>>

WorkerWaitPost(w) ==
    /\ call[w] = "post"
    /\ call' = [call EXCEPT ![w] = "none"]
    /\ timedout' = [timedout EXCEPT ![w] = FALSE]
    /\ EventToServer(w, "WAIT")
    /\ UNCHANGED <<status, event, server_event, server_bq, tmr, next, handler,
                   queueVars, req, watch, delivered, ret>>

(* Mutant: a worker that is idle already is announced again. *)
WorkerTimeoutAgain(w) ==
    /\ tmr[w] /\ handler[w] = "none"
    /\ tmr' = [tmr EXCEPT ![w] = FALSE]
    /\ status[w] \in {"WAITING", "IDLE"}
    /\ status' = [status EXCEPT ![w] = "IDLE"]
    /\ handler' = [handler EXCEPT ![w] = "announce"]
    /\ UNCHANGED <<event, server_event, server_bq, timedout, call, next,
                   queueVars, serverVars>>

(* umcg_worker_timeout, the handler of the timer of umcg_wait or             *)
(* umcg_ctx_switch, on another processor: the compare and swap, the          *)
(* announcement of a WAITING worker, and the return value.  Servers may run  *)
(* the worker before the last step.  remove_timer (external) stops a handler *)
(* that has not made its compare and swap, and a handler ends before it is   *)
(* started again.                                                            *)
WorkerTimeout(w) ==
    /\ tmr[w] /\ handler[w] = "none"
    /\ tmr' = [tmr EXCEPT ![w] = FALSE]
    /\ \/ /\ status[w] = "WAITING"
          /\ status' = [status EXCEPT ![w] = "IDLE"]
          /\ handler' = [handler EXCEPT ![w] = "announce"]
       \/ /\ status[w] = "IDLE"
          /\ status' = [status EXCEPT ![w] = "IDLE_TIMEOUT"]
          /\ handler' = [handler EXCEPT ![w] = "return"]
       \/ /\ status[w] \notin {"WAITING", "IDLE"}
          /\ UNCHANGED <<status, handler>>
    /\ UNCHANGED <<event, server_event, server_bq, timedout, call, next,
                   queueVars, serverVars>>

WorkerTimeoutAnnounce(w) ==
    /\ handler[w] = "announce"
    /\ handler' = [handler EXCEPT ![w] = "return"]
    /\ EventIdle(w, "TIMEOUT")
    /\ UNCHANGED <<status, server_event, server_bq, tmr, timedout, call, next,
                   wake_idle_server, req, mailbox, watch, delivered, ret>>

(* set_syscall_return(t, -ETIMEDOUT) changes the saved registers of thread v: *)
(* it takes effect when v does not execute, and may when v has just been     *)
(* switched to; a syscall under way sets its own return value later.         *)
TimedOut(v) ==
    LET set == [timedout EXCEPT ![v] = TRUE]
    IN  CASE status[v] \in Idle \cup {"RUNNABLE", "WAITING"} -> {set}
          [] status[v] = "RUNNING" -> {set, timedout}
          [] OTHER -> {timedout}

(* The thread is read from the umcg_worker.  If that has been freed in the   *)
(* meantime, the memory may be in use for any other worker, or for none.     *)
WorkerTimeoutReturn(w) ==
    /\ handler[w] = "return"
    /\ handler' = [handler EXCEPT ![w] = "none"]
    /\ \E v \in IF status[w] = "UNREGISTERED" THEN Workers ELSE {w} :
          timedout' \in TimedOut(v)
    /\ UNCHANGED <<status, event, server_event, server_bq, tmr, call, next,
                   queueVars, serverVars>>

(* umcg_ctx_switch called by worker w: v takes over and w is idle; w is      *)
(* listed; its timer is armed; its server is handed to v and its return      *)
(* value preset to 0.  A target that is not RUNNABLE is -EINVAL: an ordinary *)
(* return to w.                                                              *)
WorkerCtxSwitch(w, v) ==
    /\ OnCpu(w) /\ status[w] = "PAUSED"
    /\ status[v] = "RUNNABLE"
    /\ status' = [status EXCEPT ![v] = "RUNNING", ![w] = "IDLE"]
    /\ call' = [call EXCEPT ![w] = "yield", ![v] = "arrive"]
    /\ next' = [next EXCEPT ![w] = v]
    /\ UNCHANGED <<event, server_event, server_bq, tmr, timedout, handler,
                   queueVars, serverVars>>

WorkerCtxSwitchAnnounce(w) ==
    /\ call[w] = "yield"
    /\ call' = [call EXCEPT ![w] = "arm"]
    /\ EventIdle(w, "WAIT")
    /\ UNCHANGED <<status, server_event, server_bq, tmr, timedout, next,
                   handler, wake_idle_server, req, mailbox, watch, delivered,
                   ret>>

WorkerCtxSwitchArm(w, deadline) ==
    /\ call[w] = "arm"
    /\ call' = [call EXCEPT ![w] = "hand"]
    /\ tmr' = [tmr EXCEPT ![w] = @ \/ deadline]
    /\ UNCHANGED <<status, event, server_event, server_bq, timedout, next,
                   handler, queueVars, serverVars>>

WorkerCtxSwitchHand(w) ==
    /\ call[w] = "hand"
    /\ tmr' = [tmr EXCEPT ![next[w]] = FALSE]
    /\ timedout' = [timedout EXCEPT ![w] = FALSE]
    /\ server_event' = [server_event EXCEPT ![next[w]] = server_event[w]]
    /\ server_bq' = [server_bq EXCEPT ![next[w]] = server_bq[w]]
    /\ call' = [call EXCEPT ![w] = "none", ![next[w]] = "none"]
    /\ next' = [next EXCEPT ![w] = None]
    /\ UNCHANGED <<status, event, handler, queueVars, serverVars>>

-----------------------------------------------------------------------------
(* The server's side. *)

(* Mutant: a timeout that found the worker IDLE is not reported. *)
AnnouncedUntimed(w) == Word(w, event[w], FALSE)

(* umcg_server_get_events with room for n words: the loop takes the next     *)
(* idle worker while more than one slot is left.                             *)
Announced(w) == Word(w, event[w], event[w] = "WAIT" /\ status[w] = "IDLE_TIMEOUT")
Announcements(k) == [i \in 1..k |-> Announced(idle_workers[i])]
(* Mutant: the loop goes on while any slot is left. *)
TakenOneMore(n) == Cardinality({k \in 1..Len(idle_workers) :
                                   n - SlotsUsed(Announcements(k - 1)) > 0})
Taken(n) == Cardinality({k \in 1..Len(idle_workers) :
                            n - SlotsUsed(Announcements(k - 1)) > 1})

(* Mutant: the workers taken from the list stay IDLE. *)
GetEventsStillIdle(n) ==
    /\ idle_workers' = SubSeq(idle_workers, Taken(n) + 1, Len(idle_workers))
    /\ UNCHANGED status

GetEvents(n) ==
    LET k == Taken(n)
        took == {idle_workers[i] : i \in 1..k}
    IN  /\ status' = [w \in Workers |-> IF w \in took THEN "RUNNABLE" ELSE status[w]]
        /\ idle_workers' = SubSeq(idle_workers, k + 1, Len(idle_workers))

(* A call of server s returns to user space. *)
Return(s, r, words) ==
    /\ srv' = [srv EXCEPT ![s] = "user"]
    /\ ret' = [ret EXCEPT ![s] = r]
    /\ delivered' = [delivered EXCEPT ![s] = words]

(* It sleeps in the kernel, with nothing in the caller's buffer yet. *)
Sleep(s, place) ==
    /\ srv' = [srv EXCEPT ![s] = place]
    /\ delivered' = [delivered EXCEPT ![s] = <<>>]
    /\ UNCHANGED ret

(* umcg_server_wait_bh, as run by umcg_wait and again after every wake-up. *)
WaitBh(s, n) ==
    /\ \/ /\ Taken(n) > 0
          /\ Return(s, "OK", Announcements(Taken(n)))
          /\ GetEvents(n)
          /\ UNCHANGED wake_idle_server
       \/ /\ Taken(n) = 0 /\ wake_idle_server
          /\ wake_idle_server' = FALSE
          /\ Return(s, "OK", <<>>)
          /\ UNCHANGED <<status, idle_workers>>
       \/ /\ Taken(n) = 0 /\ ~wake_idle_server
          /\ Sleep(s, "parked")
          /\ UNCHANGED <<wake_idle_server, status, idle_workers>>
    /\ UNCHANGED <<event, server_event, server_bq, tmr, timedout, call, next,
                   handler, mailbox, watch>>

(* umcg_wait called by a server without next_tid. *)
ServerWait(s, n, deadline) ==
    /\ srv[s] = "user"
    /\ n >= 2
    /\ req' = [req EXCEPT ![s] = [sz |-> n, timed |-> deadline]]
    /\ WaitBh(s, n)

WaitResume(s) ==
    /\ srv[s] = "woken"
    /\ WaitBh(s, req[s].sz)
    /\ UNCHANGED req

(* The deadline of umcg_wait: umcg_server_wait_bh with BLOCKQ_ACTION_TIMEDOUT. *)
WaitTimeout(s) ==
    /\ srv[s] = "parked" /\ req[s].timed
    /\ Return(s, "ETIMEDOUT", <<>>)
    /\ UNCHANGED <<workerVars, queueVars, req, mailbox, watch>>

(* umcg_wait with abs_timeout = 1 does not block. *)
ServerPoll(s, n) ==
    /\ srv[s] = "user"
    /\ n >= 2
    /\ req' = [req EXCEPT ![s] = [sz |-> n, timed |-> TRUE]]
    /\ \/ /\ Taken(n) > 0
          /\ Return(s, "OK", Announcements(Taken(n)))
          /\ GetEvents(n)
       \/ /\ Taken(n) = 0
          /\ Return(s, "ETIMEDOUT", <<>>)
          /\ UNCHANGED <<status, idle_workers>>
    /\ UNCHANGED <<event, server_event, server_bq, tmr, timedout, call, next,
                   handler, wake_idle_server, mailbox, watch>>

(* Mutants: the event slot is not bound; the timer is not removed. *)
ServerCtxSwitchUnbound(s, v, n) ==
    /\ srv[s] = "user"
    /\ status[v] \in {"RUNNABLE", "WAITING"}
    /\ status' = [status EXCEPT ![v] = "RUNNING"]
    /\ server_bq' = [server_bq EXCEPT ![v] = s]
    /\ tmr' = [tmr EXCEPT ![v] = FALSE]
    /\ mailbox' = [mailbox EXCEPT ![s] = None]
    /\ req' = [req EXCEPT ![s] = [sz |-> n, timed |-> FALSE]]
    /\ Sleep(s, "switching")
    /\ UNCHANGED <<event, server_event, timedout, call, next, handler,
                   queueVars, watch>>

ServerCtxSwitchTimerKept(s, v, n) ==
    /\ srv[s] = "user"
    /\ status[v] \in {"RUNNABLE", "WAITING"}
    /\ status' = [status EXCEPT ![v] = "RUNNING"]
    /\ server_event' = [server_event EXCEPT ![v] = s]
    /\ server_bq' = [server_bq EXCEPT ![v] = s]
    /\ mailbox' = [mailbox EXCEPT ![s] = None]
    /\ req' = [req EXCEPT ![s] = [sz |-> n, timed |-> FALSE]]
    /\ Sleep(s, "switching")
    /\ UNCHANGED <<event, tmr, timedout, call, next, handler, queueVars, watch>>

(* umcg_ctx_switch called by server s on worker v. *)
ServerCtxSwitch(s, v, n) ==
    /\ srv[s] = "user"
    /\ status[v] \in {"RUNNABLE", "WAITING"}
    /\ status' = [status EXCEPT ![v] = "RUNNING"]
    /\ server_event' = [server_event EXCEPT ![v] = s]
    /\ server_bq' = [server_bq EXCEPT ![v] = s]
    /\ tmr' = [tmr EXCEPT ![v] = FALSE]
    /\ mailbox' = [mailbox EXCEPT ![s] = None]
    /\ req' = [req EXCEPT ![s] = [sz |-> n, timed |-> FALSE]]
    /\ Sleep(s, "switching")
    /\ UNCHANGED <<event, timedout, call, next, handler, queueVars, watch>>

(* Mutant: a WAITING worker is refused too. *)
ServerCtxSwitchFailWaiting(s, v) ==
    /\ srv[s] = "user"
    /\ status[v] # "RUNNABLE"
    /\ Return(s, "EINVAL", <<>>)
    /\ UNCHANGED <<workerVars, queueVars, req, mailbox, watch>>

(* The same call on a worker that is not registered, or neither RUNNABLE nor *)
(* WAITING.                                                                  *)
ServerCtxSwitchFail(s, v) ==
    /\ srv[s] = "user"
    /\ status[v] \notin {"RUNNABLE", "WAITING"}
    /\ Return(s, "EINVAL", <<>>)
    /\ UNCHANGED <<workerVars, queueVars, req, mailbox, watch>>

(* umcg_server_ctx_switch_bh after a wake-up: without an event it blocks     *)
(* again; the event comes first, other workers' events fill the buffer.      *)
SwitchResume(s) ==
    /\ srv[s] = "switched"
    /\ \/ /\ mailbox[s] = None
          /\ Sleep(s, "switching")
          /\ UNCHANGED <<status, idle_workers, mailbox>>
       \/ /\ mailbox[s] # None
          /\ mailbox' = [mailbox EXCEPT ![s] = None]
          /\ LET n == req[s].sz - 1
             IN  /\ Return(s, "OK", <<mailbox[s]>> \o Announcements(Taken(n)))
                 /\ GetEvents(n)
    /\ UNCHANGED <<event, server_event, server_bq, tmr, timedout, call, next,
                   handler, wake_idle_server, req, watch>>

(* umcg_wait called by server s with next_tid: umcg_server_wait_worker_bh    *)
(* blocks while the worker is BLOCKED.  The worker's server_bq is replaced   *)
(* whatever its status is.                                                   *)
WaitWorkerBh(s, v) ==
    \/ /\ status[v] = "BLOCKED"
       /\ Sleep(s, "watching")
    \/ /\ status[v] # "BLOCKED"
       /\ Return(s, "OK", <<>>)

ServerWaitWorker(s, v) ==
    /\ srv[s] = "user"
    /\ status[v] # "UNREGISTERED"
    /\ server_bq' = [server_bq EXCEPT ![v] = s]
    /\ watch' = [watch EXCEPT ![s] = v]
    /\ WaitWorkerBh(s, v)
    /\ UNCHANGED <<status, event, server_event, tmr, timedout, call, next,
                   handler, queueVars, req, mailbox>>

WaitWorkerResume(s) ==
    /\ srv[s] = "watched"
    /\ WaitWorkerBh(s, watch[s])
    /\ UNCHANGED <<workerVars, queueVars, req, mailbox, watch>>

(* UMCG_WAKE: set the flag, then try to wake a parked server; with none to   *)
(* wake, take the flag back and report -EAGAIN.                              *)
WakeServer(s) ==
    /\ srv[s] = "user"
    /\ wake_idle_server' = TRUE
    /\ srv' = [srv EXCEPT ![s] = "waking"]
    /\ UNCHANGED <<workerVars, idle_workers, req, mailbox, watch, delivered,
                   ret>>

(* Mutant: the flag is not taken back. *)
WakeServerTryKeep(s) ==
    /\ srv[s] = "waking"
    /\ srv' \in WakeOne([srv EXCEPT ![s] = "user"])
    /\ delivered' = [delivered EXCEPT ![s] = <<>>]
    /\ ret' = [ret EXCEPT ![s] = "OK"]
    /\ UNCHANGED <<workerVars, queueVars, req, mailbox, watch>>

WakeServerTry(s) ==
    /\ srv[s] = "waking"
    /\ srv' \in WakeOne([srv EXCEPT ![s] = "user"])
    /\ delivered' = [delivered EXCEPT ![s] = <<>>]
    /\ IF Parked = {} /\ wake_idle_server
       THEN wake_idle_server' = FALSE /\ ret' = [ret EXCEPT ![s] = "EAGAIN"]
       ELSE UNCHANGED wake_idle_server /\ ret' = [ret EXCEPT ![s] = "OK"]
    /\ UNCHANGED <<workerVars, idle_workers, req, mailbox, watch>>
=============================================================================

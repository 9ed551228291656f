----------------------------- MODULE UmcgClient -----------------------------
(***************************************************************************)
(* The klib under the most general program that respects its protocol: any *)
(* thread may make any call at any time, except that a worker is switched  *)
(* to only by someone who holds an announcement of it (a WAKE, WAIT,       *)
(* TIMEOUT or PREEMPT event not yet spent).  Announced workers form one    *)
(* user-space run queue shared by all servers.                             *)
(*                                                                         *)
(* Features selects the calls that only some programs make:                *)
(*   "deadline"     a worker waits with abs_timeout                        *)
(*   "handover"     a worker switches to another worker                    *)
(*   "wait_worker"  a server waits for one worker by its tid               *)
(* The executors of attempt2.rs and lib.rs use none of them, with several  *)
(* servers; the tests of main.rs use all of them, with one server.         *)
(***************************************************************************)
EXTENDS UmcgKernel

CONSTANTS Features,   \* the optional calls this program makes
          Wakers,     \* the servers that call UMCG_WAKE
          EventSizes  \* the event_sz values its servers pass

ASSUME ClientAssumption ==
    /\ Features \subseteq {"deadline", "handover", "wait_worker"}
    /\ Wakers \subseteq Servers
    /\ EventSizes \subseteq Nat \ {0, 1}
    /\ IsFiniteSet(Servers)

VARIABLES ready,  \* announced workers, each in the hands of one server
          fired,  \* the timeout handler's compare and swap found it parked
          told,   \* the servers were told that this worker timed out
          heeded  \* callers of UMCG_WAKE whose flag ended some umcg_wait

clientVars == <<ready, fired, told, heeded>>
vars == <<kernelVars, clientVars>>

(* The values each piece of state can hold: in particular an event slot or   *)
(* buffer never holds anything but a worker id tagged with an event type.    *)
TypeOK ==
    /\ KernelTypeOK
    /\ ready \subseteq Workers
    /\ fired \in [Workers -> BOOLEAN]
    /\ told \in [Workers -> BOOLEAN]
    /\ heeded \subseteq Servers

Init ==
    /\ KernelInit
    /\ ready = {}
    /\ fired = [w \in Workers |-> FALSE]
    /\ told = [w \in Workers |-> FALSE]
    /\ heeded = {}

Deadlines == IF "deadline" \in Features THEN BOOLEAN ELSE {FALSE}

-----------------------------------------------------------------------------
(* A server reads the events its call returned. *)
Switchable(word) == word.type \in {"WAKE", "WAIT", "TIMEOUT", "PREEMPT"}
Learn(words) ==
    /\ ready' = ready \cup {words[i].worker :
                              i \in {j \in DOMAIN words : Switchable(words[j])}}
    /\ told' = [w \in Workers |->
                  told[w] \/ \E i \in DOMAIN words :
                                /\ words[i].worker = w
                                /\ words[i].timeout \/ words[i].type = "TIMEOUT"]

(* A call of s that has returned hands its events over, one that blocks none. *)
LearnIfBack(s) ==
    IF srv'[s] = "user" THEN Learn(delivered'[s]) ELSE UNCHANGED <<ready, told>>

(* A wait of s that took the flag answers everyone who is setting it. *)
Heed ==
    heeded' = IF wake_idle_server /\ ~wake_idle_server'
              THEN heeded \cup {s \in Servers : srv[s] = "waking"} ELSE heeded

(* A worker starts a new call. *)
Forget(w) ==
    /\ fired' = [fired EXCEPT ![w] = FALSE]
    /\ told' = [told EXCEPT ![w] = FALSE]
    /\ UNCHANGED heeded

-----------------------------------------------------------------------------
Register(w) == RegisterWorker(w) /\ Forget(w) /\ UNCHANGED ready
Enter(w) == SyscallEnter(w) /\ UNCHANGED clientVars
Block(w) == SyscallBlock(w) /\ UNCHANGED clientVars
Wakeup(w) == Unblock(w) /\ UNCHANGED clientVars
WakeupAnnounce(w) == UnblockAnnounce(w) /\ UNCHANGED clientVars
Expire(w) == Preempt(w) /\ UNCHANGED clientVars
Leave(w) == SyscallReturn(w) /\ UNCHANGED clientVars
Exit(w) == Unregister(w) /\ UNCHANGED clientVars
Wait(w) == \E d \in Deadlines : WorkerWait(w, d) /\ Forget(w) /\ UNCHANGED ready
WaitPost(w) == WorkerWaitPost(w) /\ UNCHANGED clientVars
Timeout(w) ==
    /\ WorkerTimeout(w)
    /\ fired' = [fired EXCEPT ![w] = status'[w] # status[w]]
    /\ UNCHANGED <<ready, told, heeded>>
TimeoutAnnounce(w) == WorkerTimeoutAnnounce(w) /\ UNCHANGED clientVars
TimeoutReturn(w) == WorkerTimeoutReturn(w) /\ UNCHANGED clientVars
SwitchTo(w) ==
    /\ "handover" \in Features
    /\ \E v \in ready : WorkerCtxSwitch(w, v) /\ ready' = ready \ {v}
    /\ Forget(w)
SwitchAnnounce(w) == WorkerCtxSwitchAnnounce(w) /\ UNCHANGED clientVars
SwitchArm(w) ==
    \E d \in Deadlines : WorkerCtxSwitchArm(w, d) /\ UNCHANGED clientVars
Hand(w) == WorkerCtxSwitchHand(w) /\ UNCHANGED clientVars

ServerSwitch(s) ==
    \E v \in ready, n \in EventSizes :
        /\ ServerCtxSwitch(s, v, n)
        /\ ready' = ready \ {v}
        /\ UNCHANGED <<fired, told, heeded>>
ServerSwitchBack(s) ==
    SwitchResume(s) /\ LearnIfBack(s) /\ UNCHANGED <<fired, heeded>>
ServerIdle(s) ==
    \E n \in EventSizes, d \in BOOLEAN :
        ServerWait(s, n, d) /\ LearnIfBack(s) /\ Heed /\ UNCHANGED fired
ServerIdleBack(s) ==
    WaitResume(s) /\ LearnIfBack(s) /\ Heed /\ UNCHANGED fired
ServerIdleTimeout(s) == WaitTimeout(s) /\ UNCHANGED clientVars
ServerIdlePoll(s) ==
    \E n \in EventSizes :
        ServerPoll(s, n) /\ LearnIfBack(s) /\ UNCHANGED <<fired, heeded>>
ServerWatch(s) ==
    /\ "wait_worker" \in Features
    /\ \E v \in Workers : ServerWaitWorker(s, v)
    /\ UNCHANGED clientVars
ServerWatchBack(s) == WaitWorkerResume(s) /\ UNCHANGED clientVars
ServerWake(s) == s \in Wakers /\ WakeServer(s) /\ UNCHANGED clientVars
ServerWakeTry(s) ==
    WakeServerTry(s) /\ heeded' = heeded \ {s} /\ UNCHANGED <<ready, fired, told>>

WorkerStep(w) ==
    \/ Register(w) \/ Enter(w) \/ Block(w) \/ Wakeup(w) \/ WakeupAnnounce(w)
    \/ Expire(w) \/ Leave(w) \/ Exit(w) \/ Wait(w) \/ WaitPost(w) \/ Timeout(w)
    \/ TimeoutAnnounce(w) \/ TimeoutReturn(w) \/ SwitchTo(w) \/ SwitchAnnounce(w)
    \/ SwitchArm(w) \/ Hand(w)

ServerStep(s) ==
    \/ ServerSwitch(s) \/ ServerSwitchBack(s) \/ ServerIdle(s) \/ ServerIdleBack(s)
    \/ ServerIdleTimeout(s) \/ ServerIdlePoll(s) \/ ServerWatch(s)
    \/ ServerWatchBack(s) \/ ServerWake(s) \/ ServerWakeTry(s)

Next == (\E w \in Workers : WorkerStep(w)) \/ (\E s \in Servers : ServerStep(s))

Spec == Init /\ [][Next]_vars

-----------------------------------------------------------------------------
(* A worker that will report to a server has that server asleep in the       *)
(* context switch, with an empty event slot and the right wait queue; no two *)
(* workers report to the same slot (umcg_worker_event_to_server writes       *)
(* *server_event unchecked: a stale pointer would hit a finished call, a     *)
(* shared one would overwrite an event).                                     *)
SlotIsLive ==
    /\ \A w \in Workers : Holds(w) =>
          /\ server_event[w] \in Servers
          /\ server_bq[w] = server_event[w]
          /\ srv[server_event[w]] = "switching"
          /\ mailbox[server_event[w]] = None
    /\ \A v, w \in Workers :
          Holds(v) /\ Holds(w) /\ server_event[v] = server_event[w] => v = w

(* A server asleep in umcg_ctx_switch has a worker that will report to it: no *)
(* interleaving of waits, timeouts, wake-ups and switches strands a server.   *)
NoServerStranded ==
    \A s \in Servers : srv[s] = "switching" =>
        \E w \in Workers : Holds(w) /\ server_event[w] = s /\ server_bq[w] = s

(* A worker that belongs on idle_workers. *)
Listed(w) == status[w] \in Idle /\ ~Unlisted(w)

(* idle_workers holds exactly the IDLE workers, each once, but for those     *)
(* whose status has changed and whose umcg_worker_event_idle is still to     *)
(* come: every blocked or timed-out worker is announced once, and none is    *)
(* taken from the list between the two and announced again.                  *)
IdleListExact ==
    /\ \A i, j \in DOMAIN idle_workers : idle_workers[i] = idle_workers[j] => i = j
    /\ \A w \in Workers : Listed(w) <=> \E i \in DOMAIN idle_workers : idle_workers[i] = w

(* A worker the program may switch to is in a status the klib accepts, so    *)
(* that umcg_ctx_switch cannot fail with EINVAL for a program that respects  *)
(* the protocol -- unless it is a waiting worker whose deadline has passed   *)
(* and whose TIMEOUT is still to be announced or read.                       *)
ReadyIsSwitchable ==
    \A w \in ready :
        \/ status[w] \in {"RUNNABLE", "WAITING"}
        \/ status[w] = "IDLE" /\ (handler[w] = "announce" \/ event[w] = "TIMEOUT")

(* Server s holds, in its slot, an announcement of w that nobody has read. *)
Announcing(s, w) ==
    mailbox[s] # None /\ mailbox[s].worker = w /\ Switchable(mailbox[s])

(* A worker that waits to be switched to, its own call complete. *)
Offered(w) == status[w] \in {"RUNNABLE", "WAITING"} /\ call[w] = "none"

(* Without the optional calls, the right to switch to a worker is a token    *)
(* that exists once: in the hands of the servers, in one server's event      *)
(* slot, on idle_workers, or with the klib while the worker runs or blocks.  *)
(* This is why two servers never run the same worker, although the klib      *)
(* checks nothing but the status in umcg_ctx_switch.                         *)
OneToken ==
    /\ \A w \in ready : Offered(w)
    /\ \A s \in Servers, w \in Workers : Announcing(s, w) => Offered(w) /\ w \notin ready
    /\ \A s, t \in Servers, w \in Workers : Announcing(s, w) /\ Announcing(t, w) => s = t

(* Without the optional calls, no timer is armed, a worker between the two   *)
(* halves of umcg_wait is WAITING, one that woke up and is not listed yet is *)
(* IDLE, a blocked one has let go of its server (umcg_syscall_pause clears   *)
(* server_bq, so that its wake-up cannot disturb a later switch), and a      *)
(* server leaves the context switch exactly when its slot is filled.         *)
Undisturbed ==
    /\ \A w \in Workers :
          /\ ~tmr[w] /\ handler[w] = "none" /\ call[w] \in {"none", "post", "wake"}
          /\ call[w] = "post" => status[w] = "WAITING"
          /\ call[w] = "wake" => status[w] = "IDLE"
          /\ status[w] = "BLOCKED" => server_bq[w] = None
    /\ \A s \in Servers :
          /\ srv[s] \notin {"watching", "watched"}
          /\ mailbox[s] # None <=> srv[s] = "switched"

(* Parked servers do not sleep over announcements: while one is still        *)
(* parked, every idle worker has a woken server on its way to collect it.    *)
NoLostWakeup ==
    (\E s \in Servers : srv[s] = "parked") =>
        Len(idle_workers) <= Cardinality({s \in Servers : srv[s] = "woken"})

(* The status in which a worker goes on after a parked call. *)
Resumed(w) == status[w] \in {"RUNNABLE", "RUNNING", "PAUSED"} /\ call[w] = "none"

(* A worker goes on after its deadline won the race with                     *)
(* umcg_server_get_events and umcg_ctx_switch exactly when the servers were  *)
(* told of the timeout: none is lost and none is invented ("use              *)
(* compare_and_swap to protect against race with timeout handler").  What    *)
(* the worker's own call returns is another matter: umcg_worker_timeout sets *)
(* it after the worker is announced.                                         *)
TimeoutReported == \A w \in Workers : Resumed(w) => (told[w] <=> fired[w])

(* UMCG_WAKE returns 0 only when it wakes a parked server or its flag has    *)
(* ended a umcg_wait: main.rs retries on EAGAIN until then and joins the     *)
(* woken server.                                                             *)
WakeMeansWoken ==
    [][\A s \in Servers :
          srv[s] = "waking" /\ srv'[s] = "user" /\ ret'[s] = "OK" =>
             s \in heeded \/ \E t \in Servers : srv[t] = "parked" /\ srv'[t] = "woken"]_vars

(* No timer is armed on a worker that runs, blocks or is gone: with one      *)
(* server, the handler never starts on a worker that is not parked, or on a  *)
(* freed umcg_worker.                                                        *)
TimerOnlyWhileParked ==
    \A w \in Workers :
        tmr[w] => \/ status[w] \in {"WAITING", "IDLE", "RUNNABLE"}
                  \/ call[w] = "arrive"  \* until umcg_ctx_switch removes it

(* umcg_server_get_events never writes past the event_sz words of the        *)
(* caller's buffer, also when one worker takes two of them.                  *)
BufferFits ==
    \A s \in Servers : SlotsUsed(delivered[s]) <= req[s].sz
=============================================================================

----------------------------- MODULE EchoServer -----------------------------
(***************************************************************************)
(* run_echo_server_demo of src/attempt2.rs: the executor of Attempt2 with  *)
(* tasks that never end.  An accept task sits in accept(), and submits a   *)
(* task for every connection; that task reads the request, answers and     *)
(* closes.  The servers do not hold back, main only prints statistics, and *)
(* nobody ever sets done.                                                  *)
(***************************************************************************)
EXTENDS Attempt2

CONSTANTS
    Clients,       \* the connections, in the order the clients open them
    AcceptErrors   \* accept() may fail, which ends its accept task

VARIABLES
    coming,   \* connections that clients have yet to open
    backlog,  \* connections that wait in the listener
    stream,   \* what accept() returned to a worker, until it is submitted
    current_connections  \* ServerStats

listenVars == <<coming, backlog, stream>>
echoVars == <<listenVars, current_connections>>
allVars == <<vars, echoVars>>

Connections == {Clients[i] : i \in DOMAIN Clients}
Acceptors == {InitialTasks[i] : i \in DOMAIN InitialTasks}

(* WORKER_COUNT is larger than ACCEPT_TASK_COUNT: an accept task keeps its   *)
(* worker for good.                                                          *)
ASSUME EchoAssumption ==
    /\ Tasks = Connections \cup Acceptors /\ Connections \cap Acceptors = {}
    /\ Cardinality(Workers) > Len(InitialTasks)

EchoInit ==
    /\ InitWith(FALSE)
    /\ coming = Clients /\ backlog = <<>>
    /\ stream = [w \in Workers |-> None]
    /\ current_connections = 0

ClientConnect ==
    /\ coming # <<>>
    /\ backlog' = Append(backlog, Head(coming)) /\ coming' = Tail(coming)
    /\ UNCHANGED <<vars, stream, current_connections>>

(* The monitor loop changes nothing. *)
EchoMain ==
    /\ MainStartServer \/ MainWorkersReady \/ MainRegisterTask \/ MainAddTask
    /\ UNCHANGED echoVars

-----------------------------------------------------------------------------
(* The closures.  The call that may block is accept() or, in                 *)
(* handle_connection, the read with its deadline of 50 ms.                   *)
Accepts(w) == job[w] \in Acceptors

(* accept() takes a connection. *)
Accepted(w) ==
    /\ backlog # <<>>
    /\ stream' = [stream EXCEPT ![w] = Head(backlog)]
    /\ backlog' = Tail(backlog)
    /\ UNCHANGED <<coming, current_connections>>

(* accept() fails, at once or after it has blocked. *)
AcceptFails(w) ==
    /\ AcceptErrors /\ Accepts(w)
    /\ \/ WorkerIoEnd(w) /\ status'[w] # "BLOCKED"
       \/ WorkerUnblock(w)
    /\ UNCHANGED echoVars

CallEnd(w) ==
    /\ WorkerIoEnd(w)
    /\ IF Accepts(w) /\ status'[w] # "BLOCKED"
       THEN Accepted(w)
       ELSE (Accepts(w) => backlog = <<>>) /\ UNCHANGED echoVars

(* Mutant: the read of handle_connection has no deadline. *)
CallUnblockNoDeadline(w) == Accepts(w) /\ WorkerUnblock(w) /\ Accepted(w)

CallUnblock(w) ==
    /\ WorkerUnblock(w)
    /\ IF Accepts(w) THEN Accepted(w) ELSE UNCHANGED echoVars

(* Mutant: the connection is not counted when it is accepted. *)
SubmitUncounted(w) ==
    /\ Executing(w) /\ wpc[w] = "spawn"
    /\ IF Accepts(w) /\ stream[w] # None
       THEN wpc' = [wpc EXCEPT ![w] = "enqueue"] /\ RegisterTask
       ELSE wpc' = [wpc EXCEPT ![w] = "finish"] /\ UNCHANGED taskVars
    /\ UNCHANGED <<kernelVars, mainVars, flagVars, schedVars, channel, routerVars,
                   sys, inbox, job, echoVars>>

(* The connection is counted and submit counts the task; or the closure ends. *)
CountAndSubmit(w) ==
    /\ Executing(w) /\ wpc[w] = "spawn"
    /\ IF Accepts(w) /\ stream[w] # None
       THEN /\ wpc' = [wpc EXCEPT ![w] = "enqueue"] /\ RegisterTask
            /\ current_connections' = current_connections + 1
       ELSE wpc' = [wpc EXCEPT ![w] = "finish"] /\ UNCHANGED <<taskVars, current_connections>>
    /\ UNCHANGED <<kernelVars, mainVars, flagVars, schedVars, channel, routerVars,
                   sys, inbox, job, listenVars>>

(* Mutant: a queue that holds a task already refuses the next one. *)
SubmitRefused(w) ==
    /\ Executing(w) /\ wpc[w] = "enqueue"
    /\ IF tasks = <<>> THEN AddTask(stream[w]) ELSE UNCHANGED taskVars
    /\ stream' = [stream EXCEPT ![w] = None]
    /\ wpc' = [wpc EXCEPT ![w] = "sleep"]
    /\ UNCHANGED <<kernelVars, mainVars, flagVars, schedVars, channel, routerVars,
                   sys, inbox, job, coming, backlog, current_connections>>

(* The task is queued, and the accept loop starts again. *)
Submit(w) ==
    /\ Executing(w) /\ wpc[w] = "enqueue"
    /\ AddTask(stream[w])
    /\ stream' = [stream EXCEPT ![w] = None]
    /\ wpc' = [wpc EXCEPT ![w] = "sleep"]
    /\ UNCHANGED <<kernelVars, mainVars, flagVars, schedVars, channel, routerVars,
                   sys, inbox, job, coming, backlog, current_connections>>

EchoFinish(w) ==
    /\ WorkerFinish(w)
    /\ current_connections' = current_connections - IF Accepts(w) THEN 0 ELSE 1
    /\ UNCHANGED listenVars

EchoWorker(w) ==
    \/ CallEnd(w) \/ CallUnblock(w) \/ CountAndSubmit(w) \/ Submit(w) \/ EchoFinish(w)
    \/ /\ \/ WorkerEnterMaps(w) \/ WorkerRegister(w) \/ WorkerTryRecv(w) \/ WorkerIo(w)
          \/ WorkerAnnounce(w)
          \/ WorkerWaitEnter(w) \/ WorkerWaitCall(w) \/ WorkerWaitSend(w)
       /\ UNCHANGED echoVars

EchoServerStep(s) == ServerStep(s) /\ UNCHANGED echoVars
EchoRouter == RouterStep /\ UNCHANGED echoVars

EchoNext ==
    \/ ClientConnect \/ EchoMain \/ EchoRouter
    \/ \E w \in Workers : EchoWorker(w) \/ AcceptFails(w)
    \/ \E s \in Schedulers : EchoServerStep(s)

EchoSpec == EchoInit /\ [][EchoNext]_allVars

(* Every thread keeps running and every read ends; no client has to come, and *)
(* accept() need not fail.                                                    *)
EchoFairSpec ==
    /\ EchoSpec
    /\ WF_allVars(EchoMain) /\ WF_allVars(EchoRouter)
    /\ \A w \in Workers : WF_allVars(EchoWorker(w))
    /\ \A s \in Schedulers : WF_allVars(EchoServerStep(s))

-----------------------------------------------------------------------------
(* The places of connection q between accept() and the end of its task. *)
Handlers(q) ==
    {<<"stream", w>> : w \in {v \in Workers : stream[v] = q}}
    \cup {<<"queue", i>> : i \in {j \in DOMAIN tasks : tasks[j] = q}}
    \cup {<<"inbox", w>> : w \in {v \in Workers : \E i \in DOMAIN inbox[v] : inbox[v][i] = q}}
    \cup {<<"job", w>> : w \in {v \in Workers : job[v] = q}}

(* A connection that accept() returned is in the hands of one closure at a   *)
(* time until it has been answered, and of none before and after: no two     *)
(* workers answer it and it is not forgotten.                                *)
OneHandler ==
    \A q \in Connections :
        Cardinality(Handlers(q)) =
            IF \/ q \in finished
               \/ \E i \in DOMAIN coming : coming[i] = q
               \/ \E i \in DOMAIN backlog : backlog[i] = q
            THEN 0 ELSE 1

(* ServerStats.current_connections is the number of the connections that     *)
(* were accepted and are not closed, up to those whose accept() has just     *)
(* returned; the unsigned counter does not wrap around.                      *)
ConnectionsCounted ==
    LET open == {q \in Connections : Handlers(q) # {}}
        uncounted == {w \in Workers : stream[w] # None /\ wpc[w] = "spawn"}
    IN  current_connections = Cardinality(open) - Cardinality(uncounted)

(* Every connection that reaches the listener is answered, although accept   *)
(* tasks and connection tasks share the workers and the one task queue;      *)
(* unless accept() has failed in every accept task.                          *)
Served ==
    \A q \in Connections :
        (\E i \in DOMAIN backlog : backlog[i] = q) ~> (q \in finished \/ Acceptors \subseteq finished)
=============================================================================

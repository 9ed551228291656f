-------------------------- MODULE UmcgClientProofs --------------------------
(* Theorems about the klib under its most general client, for every set of  *)
(* workers, every finite set of servers and every buffer size.              *)
EXTENDS UmcgClient, TLAPS, FiniteSetTheorems, SequenceTheorems

-----------------------------------------------------------------------------
(* What umcg_server_get_events takes. *)

(* The loop takes a prefix of idle_workers. *)
LEMMA TakenBound ==
    ASSUME idle_workers \in Seq(Workers), NEW n
    PROVE  Taken(n) \in 0..Len(idle_workers)
<1> DEFINE L == Len(idle_workers)
           T == {k \in 1..L : n - SlotsUsed(Announcements(k - 1)) > 1}
<1>1. L \in Nat
  BY LenProperties
<1>2. IsFiniteSet(1..L) /\ Cardinality(1..L) = L
  BY <1>1, FS_Interval
<1>3. T \in SUBSET (1..L)
  OBVIOUS
<1> HIDE DEF T
<1>4. IsFiniteSet(T) /\ Cardinality(T) <= L
  BY <1>2, <1>3, FS_Subset
<1>5. Cardinality(T) \in Nat
  BY <1>4, FS_CardinalityType
<1>6. Cardinality(T) \in 0..L
  BY <1>1, <1>4, <1>5
<1> QED
  BY <1>6 DEF Taken, T

(* The words it writes are well-formed. *)
LEMMA AnnouncementsType ==
    ASSUME KernelTypeOK, NEW k \in 0..Len(idle_workers)
    PROVE  /\ Announcements(k) \in Seq(Words)
           /\ Len(Announcements(k)) = k
           /\ \A i \in 1..k : Announcements(k)[i] = Announced(idle_workers[i])
<1>1. idle_workers \in [1..Len(idle_workers) -> Workers] /\ Len(idle_workers) \in Nat
  BY LenProperties DEF KernelTypeOK
<1>2. ASSUME NEW w \in Workers PROVE Announced(w) \in Words
  BY <1>2 DEF KernelTypeOK, Announced, Word, Words
<1>3. Announcements(k) \in [1..k -> Words]
  BY <1>1, <1>2 DEF Announcements
<1>4. k \in Nat
  BY <1>1
<1>5. Announcements(k) \in Seq(Words)
  BY <1>3, <1>4, SeqDef
<1>6. Len(Announcements(k)) = k
  BY <1>3, <1>4, <1>5, LenProperties DEF Announcements
<1> QED
  BY <1>5, <1>6 DEF Announcements

(* What is left of idle_workers. *)
LEMMA RestType ==
    ASSUME idle_workers \in Seq(Workers), NEW k \in 0..Len(idle_workers)
    PROVE  LET rest == SubSeq(idle_workers, k + 1, Len(idle_workers))
           IN  /\ rest \in Seq(Workers)
               /\ Len(rest) = Len(idle_workers) - k
               /\ \A i \in 1..Len(rest) : rest[i] = idle_workers[k + i]
<1>1. idle_workers \in [1..Len(idle_workers) -> Workers] /\ Len(idle_workers) \in Nat
  BY LenProperties
<1>2. k \in Nat /\ k + 1 \in Int /\ k <= Len(idle_workers)
  BY <1>1
<1>3. \A i \in (k + 1)..Len(idle_workers) : idle_workers[i] \in Workers
  BY <1>1, <1>2
<1> DEFINE L == Len(idle_workers)
           rest == SubSeq(idle_workers, k + 1, L)
<1>4. rest \in Seq(Workers) /\ Len(rest) = IF k + 1 <= L THEN L - (k + 1) + 1 ELSE 0
  BY <1>1, <1>2, <1>3, SubSeqProperties
<1>7. \A i \in 1..(L - (k + 1) + 1) : rest[i] = idle_workers[(k + 1) + i - 1]
  BY <1>1, <1>2, <1>3, SubSeqProperties
<1>8. L \in Nat /\ k \in Nat /\ k <= L
  BY <1>1, <1>2
<1> HIDE DEF rest, L
<1>5. Len(rest) = L - k
  BY <1>4, <1>8
<1>6. ASSUME NEW i \in 1..Len(rest) PROVE rest[i] = idle_workers[k + i]
  <2>1. i \in 1..(L - (k + 1) + 1) /\ (k + 1) + i - 1 = k + i
    BY <1>5, <1>6, <1>8
  <2> QED
    BY <1>7, <2>1
<1> QED
  BY <1>4, <1>5, <1>6 DEF rest, L

-----------------------------------------------------------------------------
(* Type correctness. *)

Places == {"user", "parked", "woken", "switching", "switched", "watching", "watched",
           "waking"}

CallPlaces == {"none", "post", "yield", "arm", "hand", "arrive", "wake"}
HandlerPlaces == {"none", "announce", "return"}

(* Waking a parked server leaves every server at a place it can be in. *)
LEMMA WakeOneType ==
    ASSUME NEW sv \in [Servers -> Places], NEW next_sv \in WakeOne(sv)
    PROVE  next_sv \in [Servers -> Places]
  BY DEF WakeOne, Parked, Places

(* So does waking the server of a worker. *)
LEMMA WakeThreadType ==
    ASSUME KernelTypeOK, NEW s
    PROVE  WakeThread(s) \in [Servers -> Places]
  BY DEF KernelTypeOK, WakeThread, Rouse, Places

(* umcg_server_get_events leaves a list of workers and valid statuses. *)
LEMMA GetEventsType ==
    ASSUME KernelTypeOK, NEW n, GetEvents(n)
    PROVE  status' \in [Workers -> Status] /\ idle_workers' \in Seq(Workers)
<1>1. Taken(n) \in 0..Len(idle_workers)
  BY TakenBound DEF KernelTypeOK
<1>2. idle_workers' \in Seq(Workers)
  BY <1>1, RestType DEF KernelTypeOK, GetEvents
<1>3. status' \in [Workers -> Status]
  BY DEF KernelTypeOK, GetEvents, Status
<1> QED
  BY <1>2, <1>3

Results == {"OK", "EINVAL", "ETIMEDOUT", "EAGAIN"}

(* An empty buffer is a sequence of words. *)
LEMMA NoWords == <<>> \in Seq(Words)
  BY EmptySeq

(* A call that returns leaves a well-formed result. *)
LEMMA ReturnType ==
    ASSUME KernelTypeOK, NEW s \in Servers, NEW r \in Results, NEW words \in Seq(Words),
           Return(s, r, words)
    PROVE  /\ srv' \in [Servers -> Places]
           /\ ret' \in [Servers -> Results]
           /\ delivered' \in [Servers -> Seq(Words)]
  BY DEF KernelTypeOK, Return, Places, Results

(* A call that blocks leaves the server asleep with an empty buffer. *)
LEMMA SleepType ==
    ASSUME KernelTypeOK, NEW s \in Servers, NEW p \in Places, Sleep(s, p)
    PROVE  /\ srv' \in [Servers -> Places]
           /\ ret' \in [Servers -> Results]
           /\ delivered' \in [Servers -> Seq(Words)]
  BY NoWords DEF KernelTypeOK, Sleep, Places, Results

(* The bottom half of umcg_wait keeps the server and the list well-formed. *)
LEMMA WaitBhType ==
    ASSUME KernelTypeOK, NEW s \in Servers, NEW n, WaitBh(s, n),
           req' \in [Servers -> [sz : Nat, timed : BOOLEAN]]
    PROVE  KernelTypeOK'
<1>1. CASE Taken(n) > 0 /\ Return(s, "OK", Announcements(Taken(n))) /\ GetEvents(n)
           /\ UNCHANGED wake_idle_server
  <2>1. Announcements(Taken(n)) \in Seq(Words)
    BY TakenBound, AnnouncementsType DEF KernelTypeOK
  <2>2. status' \in [Workers -> Status] /\ idle_workers' \in Seq(Workers)
    BY <1>1, GetEventsType
  <2> QED
    BY <1>1, <2>1, <2>2 DEF KernelTypeOK, WaitBh, Return
<1>2. CASE Taken(n) = 0 /\ wake_idle_server /\ wake_idle_server' = FALSE
           /\ Return(s, "OK", <<>>) /\ UNCHANGED <<status, idle_workers>>
  BY <1>2, EmptySeq DEF KernelTypeOK, WaitBh, Return
<1>3. CASE Taken(n) = 0 /\ ~wake_idle_server /\ Sleep(s, "parked")
           /\ UNCHANGED <<wake_idle_server, status, idle_workers>>
  BY <1>3, EmptySeq DEF KernelTypeOK, WaitBh, Sleep
<1> QED
  BY <1>1, <1>2, <1>3 DEF WaitBh

(* umcg_worker_event_idle appends a worker and wakes a server. *)
LEMMA EventIdleType ==
    ASSUME KernelTypeOK, NEW w \in Workers, NEW e \in EventType,
           EventIdle(w, e)
    PROVE  /\ event' \in [Workers -> EventType]
           /\ idle_workers' \in Seq(Workers)
           /\ srv' \in [Servers -> Places]
<1>1. idle_workers' \in Seq(Workers)
  BY AppendProperties DEF KernelTypeOK, EventIdle
<1>2. srv' \in [Servers -> Places]
  <2>1. srv \in [Servers -> Places]
    BY DEF KernelTypeOK, Places
  <2> QED
    BY <2>1, WakeOneType DEF EventIdle
<1> QED
  BY <1>1, <1>2 DEF KernelTypeOK, EventIdle

(* umcg_worker_event_to_server fills a slot with a word. *)
LEMMA EventToServerType ==
    ASSUME KernelTypeOK, NEW w \in Workers, NEW e \in EventType, EventToServer(w, e)
    PROVE  /\ mailbox' \in [Servers -> Words \cup {None}]
           /\ srv' \in [Servers -> Places]
<1>1. Word(w, e, FALSE) \in Words
  BY DEF Word, Words
<1> QED
  BY <1>1, WakeThreadType DEF KernelTypeOK, EventToServer

(* A worker's step keeps the types. *)
LEMMA WorkerStepType ==
    ASSUME KernelTypeOK, ready \subseteq Workers, NEW w \in Workers, WorkerStep(w)
    PROVE  KernelTypeOK'
<1> USE DEF Status
<1>1. CASE Register(w)
  BY <1>1, EventIdleType DEF KernelTypeOK, Register, RegisterWorker, Places, EventType
<1>2. CASE Enter(w)
  BY <1>2 DEF KernelTypeOK, Enter, SyscallEnter, queueVars, serverVars
<1>3. CASE Block(w)
  BY <1>3, EventToServerType
     DEF KernelTypeOK, Block, SyscallBlock, Places, EventType, queueVars
<1>4. CASE Wakeup(w)
  BY <1>4, WakeThreadType DEF KernelTypeOK, Wakeup, Unblock, Places, queueVars
<1>4a. CASE WakeupAnnounce(w)
  BY <1>4a, EventIdleType
     DEF KernelTypeOK, WakeupAnnounce, UnblockAnnounce, Places, EventType
<1>5. CASE Expire(w)
  BY <1>5, EventToServerType
     DEF KernelTypeOK, Expire, Preempt, Places, EventType, queueVars
<1>6. CASE Leave(w)
  BY <1>6 DEF KernelTypeOK, Leave, SyscallReturn, queueVars, serverVars
<1>7. CASE Exit(w)
  BY <1>7, EventToServerType
     DEF KernelTypeOK, Exit, Unregister, Places, EventType, queueVars
<1>8. CASE Wait(w)
  <2>1. PICK d \in Deadlines : WorkerWait(w, d)
    BY <1>8 DEF Wait
  <2>2. d \in BOOLEAN
    BY DEF Deadlines
  <2> QED
    BY <2>1, <2>2 DEF KernelTypeOK, WorkerWait, queueVars, serverVars
<1>9. CASE WaitPost(w)
  BY <1>9, EventToServerType
     DEF KernelTypeOK, WaitPost, WorkerWaitPost, Places, EventType, queueVars
<1>10. CASE Timeout(w)
  <2>1. /\ status' \in [Workers -> Status] /\ tmr' \in [Workers -> BOOLEAN]
        /\ handler' \in [Workers -> HandlerPlaces]
    BY <1>10 DEF KernelTypeOK, Timeout, WorkerTimeout, HandlerPlaces
  <2> QED
    BY <1>10, <2>1
       DEF KernelTypeOK, Timeout, WorkerTimeout, HandlerPlaces, queueVars, serverVars
<1>10a. CASE TimeoutAnnounce(w)
  BY <1>10a, EventIdleType
     DEF KernelTypeOK, TimeoutAnnounce, WorkerTimeoutAnnounce, Places, EventType
<1>10b. CASE TimeoutReturn(w)
  <2>1. PICK v \in Workers : timedout' \in TimedOut(v)
    BY <1>10b DEF TimeoutReturn, WorkerTimeoutReturn
  <2>2. timedout' \in {timedout, [timedout EXCEPT ![v] = TRUE]}
    BY <2>1 DEF TimedOut
  <2>3. timedout' \in [Workers -> BOOLEAN]
    BY <2>2 DEF KernelTypeOK
  <2> QED
    BY <1>10b, <2>3
       DEF KernelTypeOK, TimeoutReturn, WorkerTimeoutReturn, queueVars, serverVars
<1>11. CASE SwitchTo(w)
  <2>1. PICK v \in ready : WorkerCtxSwitch(w, v)
    BY <1>11 DEF SwitchTo
  <2> QED
    BY <2>1 DEF KernelTypeOK, WorkerCtxSwitch, queueVars, serverVars
<1>11a. CASE SwitchAnnounce(w)
  BY <1>11a, EventIdleType
     DEF KernelTypeOK, SwitchAnnounce, WorkerCtxSwitchAnnounce, Places, EventType
<1>11b. CASE SwitchArm(w)
  <2>1. PICK d \in Deadlines : WorkerCtxSwitchArm(w, d)
    BY <1>11b DEF SwitchArm
  <2>2. d \in BOOLEAN
    BY DEF Deadlines
  <2> QED
    BY <2>1, <2>2 DEF KernelTypeOK, WorkerCtxSwitchArm, queueVars, serverVars
<1>12. CASE Hand(w)
  BY <1>12 DEF KernelTypeOK, Hand, WorkerCtxSwitchHand, queueVars, serverVars
<1> QED
  BY <1>1, <1>2, <1>3, <1>4, <1>4a, <1>5, <1>6, <1>7, <1>8, <1>9, <1>10, <1>10a, <1>10b,
     <1>11, <1>11a, <1>11b, <1>12
     DEF WorkerStep

(* The bottom half of umcg_ctx_switch keeps the state well-formed. *)
LEMMA SwitchResumeType ==
    ASSUME KernelTypeOK, NEW s \in Servers, SwitchResume(s)
    PROVE  KernelTypeOK'
<1>1. CASE mailbox[s] = None
  <2>1. Sleep(s, "switching") /\ UNCHANGED <<status, idle_workers, mailbox>>
    BY <1>1 DEF SwitchResume
  <2>2. /\ srv' \in [Servers -> Places]
        /\ ret' \in [Servers -> Results]
        /\ delivered' \in [Servers -> Seq(Words)]
    BY <2>1, SleepType DEF Places
  <2> QED
    BY <2>1, <2>2 DEF KernelTypeOK, SwitchResume, Places, Results
<1>2. CASE mailbox[s] # None
  <2> DEFINE n == req[s].sz - 1
             words == <<mailbox[s]>> \o Announcements(Taken(n))
  <2>1. Announcements(Taken(n)) \in Seq(Words)
    BY TakenBound, AnnouncementsType DEF KernelTypeOK
  <2>2. <<mailbox[s]>> \in Seq(Words)
    BY <1>2 DEF KernelTypeOK
  <2>3. words \in Seq(Words)
    BY <2>1, <2>2, ConcatProperties
  <2> HIDE DEF words, n
  <2>4. Return(s, "OK", words) /\ GetEvents(n)
    BY <1>2 DEF SwitchResume, words, n
  <2>5. status' \in [Workers -> Status] /\ idle_workers' \in Seq(Workers)
    BY <2>4, GetEventsType
  <2>6. mailbox' \in [Servers -> Words \cup {None}]
    BY <1>2 DEF SwitchResume, KernelTypeOK
  <2> QED
    BY <2>3, <2>4, <2>5, <2>6 DEF KernelTypeOK, SwitchResume, Return
<1> QED
  BY <1>1, <1>2

(* A server's step keeps the types. *)
LEMMA ServerStepType ==
    ASSUME KernelTypeOK, ready \subseteq Workers, NEW s \in Servers, ServerStep(s)
    PROVE  KernelTypeOK'
<1> USE DEF Status
<1>1. CASE ServerSwitch(s)
  <2>1. PICK v \in ready, n \in EventSizes : ServerCtxSwitch(s, v, n)
    BY <1>1 DEF ServerSwitch
  <2>2. n \in Nat
    BY ClientAssumption
  <2> QED
    BY <2>1, <2>2, EmptySeq DEF KernelTypeOK, ServerCtxSwitch, Sleep, queueVars
<1>2. CASE ServerSwitchBack(s)
  BY <1>2, SwitchResumeType DEF ServerSwitchBack
<1>3. CASE ServerIdle(s)
  <2>1. PICK n \in EventSizes, d \in BOOLEAN : ServerWait(s, n, d)
    BY <1>3 DEF ServerIdle
  <2>2. n \in Nat
    BY ClientAssumption
  <2>3. req' \in [Servers -> [sz : Nat, timed : BOOLEAN]]
    BY <2>1, <2>2 DEF KernelTypeOK, ServerWait
  <2> QED
    BY <2>1, <2>3, WaitBhType DEF ServerWait
<1>4. CASE ServerIdleBack(s)
  <2>1. req' \in [Servers -> [sz : Nat, timed : BOOLEAN]]
    BY <1>4 DEF KernelTypeOK, ServerIdleBack, WaitResume
  <2> QED
    BY <1>4, <2>1, WaitBhType DEF ServerIdleBack, WaitResume
<1>5. CASE ServerIdleTimeout(s)
  BY <1>5, EmptySeq
     DEF KernelTypeOK, ServerIdleTimeout, WaitTimeout, Return, workerVars, queueVars
<1>6. CASE ServerIdlePoll(s)
  <2>1. PICK n \in EventSizes : ServerPoll(s, n)
    BY <1>6 DEF ServerIdlePoll
  <2>2. n \in Nat
    BY ClientAssumption
  <2>3. req' \in [Servers -> [sz : Nat, timed : BOOLEAN]]
    BY <2>1, <2>2 DEF KernelTypeOK, ServerPoll
  <2>6. UNCHANGED <<event, server_event, server_bq, tmr, timedout, call, next, handler,
                    wake_idle_server, mailbox, watch>>
    BY <2>1 DEF ServerPoll
  <2>4. CASE Taken(n) > 0
    <3>1. Announcements(Taken(n)) \in Seq(Words)
      BY TakenBound, AnnouncementsType DEF KernelTypeOK
    <3>2. status' \in [Workers -> Status] /\ idle_workers' \in Seq(Workers)
      BY <2>1, <2>4, GetEventsType DEF ServerPoll
    <3>3. /\ srv' \in [Servers -> Places]
          /\ ret' \in [Servers -> Results]
          /\ delivered' \in [Servers -> Seq(Words)]
      <4>1. Return(s, "OK", Announcements(Taken(n)))
        BY <2>1, <2>4 DEF ServerPoll
      <4> QED
        BY <3>1, <4>1, ReturnType DEF Results
    <3> QED
      BY <2>3, <2>6, <3>2, <3>3 DEF KernelTypeOK, Places, Results
  <2>5. CASE Taken(n) = 0
    <3>1. /\ srv' \in [Servers -> Places]
          /\ ret' \in [Servers -> Results]
          /\ delivered' \in [Servers -> Seq(Words)]
      <4>1. Return(s, "ETIMEDOUT", <<>>)
        BY <2>1, <2>5 DEF ServerPoll
      <4> QED
        BY <4>1, NoWords, ReturnType DEF Results
    <3>2. UNCHANGED <<status, idle_workers>>
      BY <2>1, <2>5 DEF ServerPoll
    <3> QED
      BY <2>3, <2>6, <3>1, <3>2 DEF KernelTypeOK, Places, Results
  <2> QED
    BY <2>1, <2>4, <2>5 DEF ServerPoll
<1>7. CASE ServerWatch(s)
  <2>1. PICK v \in Workers : ServerWaitWorker(s, v)
    BY <1>7 DEF ServerWatch
  <2>2. /\ srv' \in [Servers -> Places]
        /\ ret' \in [Servers -> Results]
        /\ delivered' \in [Servers -> Seq(Words)]
    BY <2>1, NoWords, ReturnType, SleepType
       DEF ServerWaitWorker, WaitWorkerBh, Places, Results
  <2> QED
    BY <2>1, <2>2 DEF KernelTypeOK, ServerWaitWorker, queueVars, Places, Results
<1>8. CASE ServerWatchBack(s)
  <2>1. /\ srv' \in [Servers -> Places]
        /\ ret' \in [Servers -> Results]
        /\ delivered' \in [Servers -> Seq(Words)]
    BY <1>8, NoWords, ReturnType, SleepType
       DEF ServerWatchBack, WaitWorkerResume, WaitWorkerBh, Places, Results
  <2> QED
    BY <1>8, <2>1
       DEF KernelTypeOK, ServerWatchBack, WaitWorkerResume, workerVars, queueVars, Places, Results
<1>9. CASE ServerWake(s)
  BY <1>9 DEF KernelTypeOK, ServerWake, WakeServer, workerVars
<1>10. CASE ServerWakeTry(s)
  <2>1. [srv EXCEPT ![s] = "user"] \in [Servers -> Places]
    BY DEF KernelTypeOK, Places
  <2>2. srv' \in [Servers -> Places]
    BY <1>10, <2>1, WakeOneType DEF ServerWakeTry, WakeServerTry
  <2> QED
    BY <1>10, <2>2, EmptySeq
       DEF KernelTypeOK, ServerWakeTry, WakeServerTry, workerVars, Places
<1> QED
  BY <1>1, <1>2, <1>3, <1>4, <1>5, <1>6, <1>7, <1>8, <1>9, <1>10 DEF ServerStep

(* The announcements a program holds are announcements of workers. *)
LEMMA LearnType ==
    ASSUME ready \subseteq Workers, told \in [Workers -> BOOLEAN],
           NEW words \in Seq(Words), Learn(words)
    PROVE  ready' \subseteq Workers /\ told' \in [Workers -> BOOLEAN]
<1>0. \A i \in DOMAIN words : words[i] \in Words
  BY LenProperties
<1>1. \A i \in DOMAIN words : words[i].worker \in Workers
  BY <1>0 DEF Words
<1>2. ready' \subseteq Workers
  BY <1>1 DEF Learn
<1>3. told' \in [Workers -> BOOLEAN]
  BY DEF Learn
<1> QED
  BY <1>2, <1>3

(* A step of the client keeps the types of its own variables. *)
LEMMA ClientStepType ==
    ASSUME TypeOK, KernelTypeOK', Next
    PROVE  /\ ready' \subseteq Workers /\ heeded' \subseteq Servers
           /\ fired' \in [Workers -> BOOLEAN] /\ told' \in [Workers -> BOOLEAN]
<1>1. ASSUME NEW w \in Workers, WorkerStep(w)
      PROVE  /\ ready' \subseteq Workers /\ heeded' \subseteq Servers
             /\ fired' \in [Workers -> BOOLEAN] /\ told' \in [Workers -> BOOLEAN]
  <2> USE DEF Register, Enter, Block, Wakeup, WakeupAnnounce, Expire, Leave, Exit, Wait,
              WaitPost, Timeout, TimeoutAnnounce, TimeoutReturn, SwitchTo, SwitchAnnounce,
              SwitchArm, Hand, clientVars
  <2>1. ready' \subseteq ready
    BY <1>1 DEF WorkerStep
  <2>2. told' \in {told, [told EXCEPT ![w] = FALSE]} /\ heeded' = heeded
    BY <1>1 DEF WorkerStep, Forget
  <2>3. \/ fired' \in {fired, [fired EXCEPT ![w] = FALSE]}
        \/ fired' = [fired EXCEPT ![w] = status'[w] # status[w]]
    BY <1>1 DEF WorkerStep, Forget
  <2> QED
    BY <2>1, <2>2, <2>3 DEF TypeOK
<1>2. ASSUME NEW s \in Servers, ServerStep(s)
      PROVE  /\ ready' \subseteq Workers /\ heeded' \subseteq Servers
             /\ fired' \in [Workers -> BOOLEAN] /\ told' \in [Workers -> BOOLEAN]
  <2>0. fired' = fired
    BY <1>2 DEF ServerStep, ServerSwitch, ServerSwitchBack, ServerIdle, ServerIdleBack,
                ServerIdleTimeout, ServerIdlePoll, ServerWatch, ServerWatchBack, ServerWake,
                ServerWakeTry, clientVars
  <2>1. heeded' \subseteq Servers
    BY <1>2 DEF ServerStep, ServerSwitch, ServerSwitchBack, ServerIdle, ServerIdleBack,
                ServerIdleTimeout, ServerIdlePoll, ServerWatch, ServerWatchBack, ServerWake,
                ServerWakeTry, Heed, clientVars, TypeOK
  <2>2. \/ LearnIfBack(s)
        \/ ready' \subseteq ready /\ told' = told
    BY <1>2 DEF ServerStep, ServerSwitch, ServerSwitchBack, ServerIdle, ServerIdleBack,
                ServerIdleTimeout, ServerIdlePoll, ServerWatch, ServerWatchBack, ServerWake,
                ServerWakeTry, clientVars
  <2>3. CASE LearnIfBack(s)
    <3>1. delivered'[s] \in Seq(Words)
      BY DEF KernelTypeOK
    <3> QED
      BY <2>0, <2>1, <2>3, <3>1, LearnType DEF LearnIfBack, TypeOK
  <2> QED
    BY <2>0, <2>1, <2>2, <2>3 DEF TypeOK
<1> QED
  BY <1>1, <1>2 DEF Next

(* The klib starts in a well-formed state. *)
LEMMA InitType == Init => TypeOK
<1>1. KernelInit => KernelTypeOK
  <2>1. <<>> \in Seq(Workers)
    BY EmptySeq
  <2> SUFFICES ASSUME KernelInit PROVE KernelTypeOK
    OBVIOUS
  <2>2. /\ idle_workers \in Seq(Workers)
        /\ delivered \in [Servers -> Seq(Words)]
        /\ req \in [Servers -> [sz : Nat, timed : BOOLEAN]]
    BY <2>1, NoWords DEF KernelInit
  <2>3. /\ status \in [Workers -> Status]
        /\ event \in [Workers -> EventType]
        /\ server_event \in [Workers -> Servers \cup {None}]
        /\ server_bq \in [Workers -> Servers \cup {None}]
        /\ tmr \in [Workers -> BOOLEAN]
        /\ timedout \in [Workers -> BOOLEAN]
        /\ call \in [Workers -> CallPlaces]
        /\ next \in [Workers -> Workers \cup {None}]
        /\ handler \in [Workers -> HandlerPlaces]
        /\ wake_idle_server \in BOOLEAN
    BY DEF KernelInit, Status, EventType, CallPlaces, HandlerPlaces
  <2>4. /\ srv \in [Servers -> Places]
        /\ mailbox \in [Servers -> Words \cup {None}]
        /\ watch \in [Servers -> Workers \cup {None}]
        /\ ret \in [Servers -> Results]
    BY DEF KernelInit, Places, Results
  <2> QED
    BY <2>2, <2>3, <2>4 DEF KernelTypeOK, Places, Results, CallPlaces, HandlerPlaces
<1> QED
  BY <1>1 DEF Init, TypeOK

(* Every step of every thread keeps the state well-formed. *)
LEMMA NextType ==
    ASSUME TypeOK, [Next]_vars
    PROVE  TypeOK'
<1>1. CASE Next
  <2>1. KernelTypeOK'
    BY <1>1, WorkerStepType, ServerStepType DEF Next, TypeOK
  <2> QED
    BY <1>1, <2>1, ClientStepType DEF TypeOK
<1>2. CASE UNCHANGED vars
  BY <1>2 DEF TypeOK, KernelTypeOK, vars, kernelVars, workerVars, queueVars, serverVars,
              clientVars
<1> QED
  BY <1>1, <1>2

(* Whatever calls the program makes, the state of the klib stays well-formed: *)
(* statuses, events, queue, slots and buffers never hold anything else.       *)
THEOREM TypeCorrect == Spec => []TypeOK
<1>1. TypeOK /\ [Next]_vars => TypeOK'
  BY NextType
<1> QED
  BY InitType, <1>1, PTL DEF Spec
=============================================================================

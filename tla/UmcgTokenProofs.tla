--------------------------- MODULE UmcgTokenProofs ---------------------------
(* Servers and workers never lose each other: the proof that, for a program *)
(* that makes none of the optional calls (as attempt2.rs and lib.rs), the    *)
(* event slots are live, no server is stranded in umcg_ctx_switch,           *)
(* idle_workers is exact and every worker has one token.                     *)
EXTENDS UmcgClientProofs

(* The inductive invariant. *)
IInv ==
    /\ TypeOK
    /\ SlotIsLive
    /\ NoServerStranded
    /\ IdleListExact
    /\ OneToken
    /\ Undisturbed

Protocol == SlotIsLive /\ NoServerStranded /\ IdleListExact /\ OneToken /\ Undisturbed

(* Places of a server that have nothing to do with a context switch. *)
Away == {"user", "parked", "woken", "waking"}

-----------------------------------------------------------------------------
(* One lemma per kind of step. *)

(* Servers go to sleep, are woken or return, and nothing else happens. *)
LEMMA QuietStep ==
    ASSUME IInv,
           UNCHANGED <<status, server_event, server_bq, tmr, call, handler, idle_workers,
                       mailbox, ready>>,
           \A s \in Servers : srv'[s] = srv[s] \/ (srv[s] \in Away /\ srv'[s] \in Away)
    PROVE  Protocol'
<1>1. SlotIsLive'
  BY DEF IInv, SlotIsLive, Holds, OnCpu, Away
<1>2. NoServerStranded'
  BY DEF IInv, NoServerStranded, Holds, OnCpu, Away
<1>3. IdleListExact'
  BY DEF IInv, IdleListExact, Listed, Unlisted
<1>4. OneToken'
  BY DEF IInv, OneToken, Offered, Announcing
<1>5. Undisturbed'
  BY DEF IInv, Undisturbed, Away
<1> QED
  BY <1>1, <1>2, <1>3, <1>4, <1>5 DEF Protocol

(* A worker goes on, or begins to wait, without telling anyone. *)
LEMMA StayStep ==
    ASSUME IInv, NEW w \in Workers, OnCpu(w),
           NEW st \in {"RUNNING", "PAUSED", "WAITING"},
           status' = [status EXCEPT ![w] = st],
           call' = [call EXCEPT ![w] = IF st = "WAITING" THEN "post" ELSE "none"],
           UNCHANGED <<server_event, server_bq, tmr, handler, idle_workers, srv, mailbox, ready>>
    PROVE  Protocol'
<1>0. status \in [Workers -> Status] /\ call \in [Workers -> CallPlaces]
  BY DEF IInv, TypeOK, KernelTypeOK, CallPlaces
<1>h. \A v \in Workers : Holds(v)' <=> Holds(v)
  BY <1>0 DEF Holds, OnCpu
<1>1. SlotIsLive'
  BY <1>h DEF IInv, SlotIsLive
<1>2. NoServerStranded'
  BY <1>h DEF IInv, NoServerStranded
<1>3. IdleListExact'
  <2>1. \A v \in Workers : Listed(v)' <=> Listed(v)
    BY <1>0 DEF OnCpu, Idle, Listed, Unlisted
  <2> QED
    BY <2>1 DEF IInv, IdleListExact
<1>4. OneToken'
  <2>1. \A v \in Workers : Offered(v) => v # w /\ Offered(v)'
    BY <1>0 DEF Offered, OnCpu
  <2> QED
    BY <2>1 DEF IInv, OneToken, Announcing, TypeOK
<1>5. Undisturbed'
  BY <1>0 DEF IInv, Undisturbed
<1> QED
  BY <1>1, <1>2, <1>3, <1>4, <1>5 DEF Protocol

(* A worker that held a server reports to it and lets it go. *)
LEMMA ReportStep ==
    ASSUME IInv, NEW w \in Workers, Holds(w),
           NEW st \in {"RUNNABLE", "WAITING", "BLOCKED", "UNREGISTERED"},
           NEW e \in EventType,
           st \in {"BLOCKED", "UNREGISTERED"} => e \in {"BLOCK", "EXIT"},
           EventToServer(w, e),
           status' = [status EXCEPT ![w] = st],
           call' = [call EXCEPT ![w] = "none"],
           server_bq' = IF st = "BLOCKED" THEN [server_bq EXCEPT ![w] = None] ELSE server_bq,
           UNCHANGED <<server_event, tmr, handler, idle_workers, ready>>
    PROVE  Protocol'
<1>0. /\ status \in [Workers -> Status]
      /\ call \in [Workers -> CallPlaces]
      /\ server_bq \in [Workers -> Servers \cup {None}]
      /\ srv \in [Servers -> Places]
      /\ mailbox \in [Servers -> Words \cup {None}]
      /\ ready \subseteq Workers
  BY DEF IInv, TypeOK, KernelTypeOK, Places, CallPlaces
<1> DEFINE s == server_event[w]
           m == Word(w, e, FALSE)
<1>1. /\ s \in Servers /\ server_bq[w] = s
      /\ srv[s] = "switching" /\ mailbox[s] = None
  BY DEF IInv, SlotIsLive
<1>2. srv' = [srv EXCEPT ![s] = "switched"]
  BY <1>0, <1>1 DEF EventToServer, WakeThread, Rouse, IInv, Undisturbed
<1>3. mailbox' = [mailbox EXCEPT ![s] = m]
  BY <1>0, <1>1 DEF EventToServer
<1>h. \A v \in Workers : Holds(v)' <=> Holds(v) /\ v # w
  BY <1>0 DEF Holds, OnCpu
<1>o. \A v \in Workers : Holds(v) /\ v # w => server_event[v] # s
  BY DEF IInv, SlotIsLive
<1>m. m # None /\ m.worker = w /\ m.type = e
  <2>1. m \in Words
    BY DEF Word, Words
  <2>2. m.worker = w /\ m.type = e
    BY DEF Word
  <2> QED
    BY <2>1, <2>2, KernelAssumption
<1>4. SlotIsLive'
  BY <1>0, <1>1, <1>2, <1>3, <1>h, <1>o DEF IInv, SlotIsLive
<1>5. NoServerStranded'
  BY <1>0, <1>1, <1>2, <1>h, <1>o DEF IInv, NoServerStranded
<1>6. IdleListExact'
  <2>1. \A v \in Workers : Listed(v)' <=> Listed(v)
    BY <1>0 DEF Holds, OnCpu, Idle, IInv, Undisturbed, Listed, Unlisted
  <2> QED
    BY <2>1 DEF IInv, IdleListExact
<1>7. OneToken'
  <2>1. \A v \in Workers : Offered(v) => v # w /\ Offered(v)'
    BY <1>0 DEF Offered, Holds, OnCpu
  <2> HIDE DEF m, s
  <2>2. \A t \in Servers, v \in Workers :
           Announcing(t, v)' => IF t = s THEN v = w /\ st \in {"RUNNABLE", "WAITING"}
                                ELSE Announcing(t, v)
    BY <1>0, <1>1, <1>3, <1>m DEF Announcing, Switchable
  <2>3. \A t \in Servers : ~Announcing(t, w)
    BY <2>1 DEF IInv, OneToken
  <2>4. w \notin ready
    BY <2>1 DEF IInv, OneToken
  <2>5. st \in {"RUNNABLE", "WAITING"} => Offered(w)'
    BY <1>0 DEF Offered
  <2>6. \A v \in ready : Offered(v)'
    BY <1>0, <2>1 DEF IInv, OneToken
  <2>7. \A t \in Servers, v \in Workers : Announcing(t, v)' => Offered(v)' /\ v \notin ready
    BY <2>1, <2>2, <2>4, <2>5 DEF IInv, OneToken
  <2>8. \A t, u \in Servers, v \in Workers :
           Announcing(t, v)' /\ Announcing(u, v)' => t = u
    BY <2>2, <2>3 DEF IInv, OneToken
  <2> QED
    BY <2>6, <2>7, <2>8 DEF OneToken
<1>8. Undisturbed'
  BY <1>0, <1>1, <1>2, <1>3, <1>m DEF IInv, Undisturbed
<1> QED
  BY <1>4, <1>5, <1>6, <1>7, <1>8 DEF Protocol

(* blockq_wake_one on server_bq touches parked servers only. *)
LEMMA WakeOneAway ==
    ASSUME srv \in [Servers -> Places], srv' \in WakeOne(srv)
    PROVE  \A s \in Servers : srv'[s] = srv[s] \/ (srv[s] \in Away /\ srv'[s] \in Away)
  BY DEF WakeOne, Parked, Away

(* A blocked worker becomes runnable; it is not listed yet. *)
LEMMA WakeupStep ==
    ASSUME IInv, NEW w \in Workers, status[w] = "BLOCKED", call[w] = "none",
           status' = [status EXCEPT ![w] = "IDLE"],
           call' = [call EXCEPT ![w] = "wake"],
           UNCHANGED <<server_event, server_bq, tmr, handler, idle_workers, srv, mailbox, ready>>
    PROVE  Protocol'
<1>0. status \in [Workers -> Status] /\ call \in [Workers -> CallPlaces]
  BY DEF IInv, TypeOK, KernelTypeOK, CallPlaces
<1>h. \A v \in Workers : Holds(v)' <=> Holds(v)
  BY <1>0 DEF Holds, OnCpu
<1>1. SlotIsLive'
  BY <1>h DEF IInv, SlotIsLive
<1>2. NoServerStranded'
  BY <1>h DEF IInv, NoServerStranded
<1>3. IdleListExact'
  <2>1. \A v \in Workers : Listed(v)' <=> Listed(v)
    BY <1>0 DEF Idle, Listed, Unlisted
  <2> QED
    BY <2>1 DEF IInv, IdleListExact
<1>4. OneToken'
  <2>1. \A v \in Workers : Offered(v) => v # w /\ Offered(v)'
    BY <1>0 DEF Offered
  <2> QED
    BY <2>1 DEF IInv, OneToken, Announcing, TypeOK
<1>5. Undisturbed'
  BY <1>0 DEF IInv, Undisturbed
<1> QED
  BY <1>1, <1>2, <1>3, <1>4, <1>5 DEF Protocol

(* A worker that holds no server, newly registered or woken up, is listed. *)
LEMMA AnnounceStep ==
    ASSUME IInv, NEW w \in Workers,
           \/ status[w] = "UNREGISTERED" /\ call[w] = "none"
           \/ status[w] = "IDLE" /\ call[w] = "wake",
           NEW e, EventIdle(w, e),
           status' = [status EXCEPT ![w] = "IDLE"],
           call' = [call EXCEPT ![w] = "none"],
           \A v \in Workers : tmr'[v] => tmr[v],
           UNCHANGED <<server_event, server_bq, handler, mailbox, ready>>
    PROVE  Protocol'
<1>0. /\ status \in [Workers -> Status]
      /\ call \in [Workers -> CallPlaces]
      /\ idle_workers \in Seq(Workers)
      /\ srv \in [Servers -> Places]
      /\ ready \subseteq Workers
  BY DEF IInv, TypeOK, KernelTypeOK, Places, CallPlaces
<1>s. \A s \in Servers : srv'[s] = srv[s] \/ (srv[s] \in Away /\ srv'[s] \in Away)
  BY <1>0, WakeOneAway DEF EventIdle
<1>h. \A v \in Workers : Holds(v)' <=> Holds(v)
  BY <1>0 DEF Holds, OnCpu
<1>1. SlotIsLive'
  BY <1>h, <1>s DEF IInv, SlotIsLive, Away
<1>2. NoServerStranded'
  BY <1>h, <1>s DEF IInv, NoServerStranded, Away
<1>3. IdleListExact'
  <2> DEFINE L == Len(idle_workers)
  <2>1. /\ L \in Nat /\ DOMAIN idle_workers = 1..L
        /\ DOMAIN idle_workers' = 1..(L + 1)
        /\ \A i \in 1..L : idle_workers'[i] = idle_workers[i]
        /\ idle_workers'[L + 1] = w
    BY <1>0, AppendProperties, LenProperties DEF EventIdle
  <2>2. \A i \in 1..L : idle_workers[i] # w
    BY <2>1 DEF IInv, IdleListExact, Idle, Listed, Unlisted
  <2>3. \A i \in 1..(L + 1) : i \in 1..L \/ i = L + 1
    BY <2>1
  <2>4. L + 1 \in 1..(L + 1) /\ \A i \in 1..L : i \in 1..(L + 1)
    BY <2>1
  <2> HIDE DEF L
  <2>5. \A i, j \in 1..(L + 1) : idle_workers'[i] = idle_workers'[j] => i = j
    BY <2>1, <2>2, <2>3 DEF IInv, IdleListExact
  <2>6. ASSUME NEW v \in Workers
        PROVE  Listed(v)' <=> \E i \in 1..(L + 1) : idle_workers'[i] = v
    <3>1. CASE v = w
      <4>1. Listed(w)'
        BY <1>0 DEF Idle, Listed, Unlisted, IInv, Undisturbed
      <4> QED
        BY <2>1, <2>4, <3>1, <4>1
    <3>2. CASE v # w
      <4>1. Listed(v)' <=> Listed(v)
        BY <1>0, <3>2 DEF Listed, Unlisted
      <4>2. Listed(v) <=> \E i \in 1..L : idle_workers[i] = v
        BY <2>1 DEF IInv, IdleListExact
      <4>3. (\E i \in 1..L : idle_workers[i] = v)
               <=> \E i \in 1..(L + 1) : idle_workers'[i] = v
        BY <2>1, <2>3, <2>4, <3>2
      <4> QED
        BY <4>1, <4>2, <4>3
    <3> QED
      BY <3>1, <3>2
  <2> QED
    BY <2>1, <2>5, <2>6 DEF IdleListExact
<1>4. OneToken'
  <2>1. \A v \in Workers : Offered(v) => Offered(v)'
    BY <1>0 DEF Offered
  <2> QED
    BY <1>0, <2>1 DEF IInv, OneToken, Announcing
<1>5. Undisturbed'
  BY <1>0, <1>s DEF IInv, Undisturbed, Away
<1> QED
  BY <1>1, <1>2, <1>3, <1>4, <1>5 DEF Protocol

(* A server spends its token and sleeps in the context switch. *)
LEMMA SwitchStep ==
    ASSUME IInv, NEW s \in Servers, NEW v \in ready, NEW n,
           ServerCtxSwitch(s, v, n), ready' = ready \ {v}
    PROVE  Protocol'
<1>0. /\ status \in [Workers -> Status]
      /\ server_event \in [Workers -> Servers \cup {None}]
      /\ server_bq \in [Workers -> Servers \cup {None}]
      /\ tmr \in [Workers -> BOOLEAN]
      /\ srv \in [Servers -> Places]
      /\ mailbox \in [Servers -> Words \cup {None}]
      /\ v \in Workers /\ ready \subseteq Workers
  BY DEF IInv, TypeOK, KernelTypeOK, Places
<1>1. /\ srv[s] = "user"
      /\ status' = [status EXCEPT ![v] = "RUNNING"]
      /\ server_event' = [server_event EXCEPT ![v] = s]
      /\ server_bq' = [server_bq EXCEPT ![v] = s]
      /\ tmr' = [tmr EXCEPT ![v] = FALSE]
      /\ mailbox' = [mailbox EXCEPT ![s] = None]
      /\ srv' = [srv EXCEPT ![s] = "switching"]
      /\ call' = call /\ handler' = handler /\ idle_workers' = idle_workers
  BY DEF ServerCtxSwitch, Sleep, queueVars
<1>2. Offered(v) /\ mailbox[s] = None
  BY <1>1 DEF IInv, OneToken, Undisturbed
<1>3. mailbox' = mailbox
  BY <1>0, <1>1, <1>2
<1>h. \A u \in Workers : Holds(u)' <=> Holds(u) \/ u = v
  BY <1>0, <1>1, <1>2 DEF Holds, OnCpu, Offered
<1>n. \A u \in Workers : Holds(u) => server_event[u] # s /\ u # v
  BY <1>1, <1>2 DEF IInv, SlotIsLive, Holds, OnCpu, Offered
<1>4. SlotIsLive'
  BY <1>0, <1>1, <1>2, <1>3, <1>h, <1>n DEF IInv, SlotIsLive
<1>5. NoServerStranded'
  BY <1>0, <1>1, <1>h, <1>n DEF IInv, NoServerStranded
<1>6. IdleListExact'
  <2>1. \A u \in Workers : Listed(u)' <=> Listed(u)
    BY <1>0, <1>1, <1>2 DEF Offered, Idle, Listed, Unlisted
  <2> QED
    BY <1>1, <2>1 DEF IInv, IdleListExact
<1>7. OneToken'
  <2>1. \A u \in Workers : u # v /\ Offered(u) => Offered(u)'
    BY <1>0, <1>1 DEF Offered
  <2>2. \A t \in Servers : ~Announcing(t, v)
    BY <1>0 DEF IInv, OneToken
  <2> QED
    BY <1>0, <1>3, <2>1, <2>2 DEF IInv, OneToken, Announcing
<1>8. Undisturbed'
  BY <1>0, <1>1, <1>2, <1>3 DEF IInv, Undisturbed, Offered
<1> QED
  BY <1>4, <1>5, <1>6, <1>7, <1>8 DEF Protocol

(* The workers that get_events takes off the list. *)
Took(n) == {idle_workers[i] : i \in 1..Taken(n)}

(* The list stays exact when a prefix of it is taken. *)
LEMMA GetEventsExact ==
    ASSUME IInv, NEW n, GetEvents(n), UNCHANGED <<call, handler>>
    PROVE  /\ IdleListExact'
           /\ \A w \in Workers : status'[w] = IF w \in Took(n) THEN "RUNNABLE" ELSE status[w]
           /\ \A w \in Took(n) : w \in Workers /\ Listed(w)
<1> DEFINE L == Len(idle_workers)
           k == Taken(n)
           rest == SubSeq(idle_workers, k + 1, L)
<1>0. idle_workers \in Seq(Workers)
  BY DEF IInv, TypeOK, KernelTypeOK
<1>1. L \in Nat /\ DOMAIN idle_workers = 1..L /\ \A i \in 1..L : idle_workers[i] \in Workers
  BY <1>0, LenProperties
<1>2. k \in 0..L
  BY <1>0, TakenBound
<1>3. /\ rest \in Seq(Workers) /\ Len(rest) = L - k
      /\ \A i \in 1..Len(rest) : rest[i] = idle_workers[k + i]
  BY <1>0, <1>2, RestType
<1>4. idle_workers' = rest
  BY DEF GetEvents
<1>5. \A w \in Workers : status'[w] = IF w \in Took(n) THEN "RUNNABLE" ELSE status[w]
  BY DEF GetEvents, Took
<1>6. DOMAIN rest = 1..(L - k)
  BY <1>3, LenProperties
<1>t. Took(n) = {idle_workers[i] : i \in 1..k}
  BY DEF Took
<1> HIDE DEF L, k, rest
<1>7. \A i \in 1..k : i \in 1..L
  BY <1>1, <1>2
<1>8. \A i \in 1..(L - k) : k + i \in 1..L /\ k + i \notin 1..k
  BY <1>1, <1>2
<1>9. \A i \in 1..L : i \in 1..k \/ (i - k \in 1..(L - k) /\ k + (i - k) = i)
  BY <1>1, <1>2
<1>10. \A i, j \in 1..(L - k) : k + i = k + j => i = j
  BY <1>1, <1>2
<1>11. \A i, j \in 1..L : idle_workers[i] = idle_workers[j] => i = j
  BY <1>1 DEF IInv, IdleListExact
<1>12. \A w \in Workers : Listed(w) <=> \E i \in 1..L : idle_workers[i] = w
  BY <1>1 DEF IInv, IdleListExact
<1>13. \A w \in Took(n) : w \in Workers /\ Listed(w)
  BY <1>1, <1>7, <1>12, <1>t
<1>14. \A i \in 1..(L - k) : rest[i] = idle_workers[k + i]
  BY <1>3
<1>15. \A i, j \in 1..(L - k) : rest[i] = rest[j] => i = j
  BY <1>8, <1>10, <1>11, <1>14
<1>16. ASSUME NEW w \in Workers
       PROVE  Listed(w)' <=> \E i \in 1..(L - k) : rest[i] = w
  <2>1. CASE w \in Took(n)
    <3>1. PICK j \in 1..k : idle_workers[j] = w
      BY <1>t, <2>1
    <3>2. \A i \in 1..(L - k) : rest[i] # w
      BY <1>7, <1>8, <1>11, <1>14, <3>1
    <3>3. ~Listed(w)'
      BY <1>5, <2>1 DEF Idle, Listed
    <3> QED
      BY <3>2, <3>3
  <2>2. CASE w \notin Took(n)
    <3>1. Listed(w)' <=> Listed(w)
      BY <1>5, <2>2 DEF Listed, Unlisted
    <3>2. \A i \in 1..k : idle_workers[i] # w
      BY <1>t, <2>2
    <3>3. (\E i \in 1..L : idle_workers[i] = w) <=> \E i \in 1..(L - k) : rest[i] = w
      BY <1>8, <1>9, <1>14, <3>2
    <3> QED
      BY <1>12, <3>1, <3>3
  <2> QED
    BY <2>1, <2>2
<1>17. IdleListExact'
  BY <1>4, <1>6, <1>15, <1>16 DEF IdleListExact
<1> QED
  BY <1>5, <1>13, <1>17

(* A server returns with the workers it took and its own worker's report. *)
LEMMA CollectStep ==
    ASSUME IInv, NEW s \in Servers, srv[s] \in {"user", "woken", "switched"},
           NEW n, GetEvents(n),
           srv' = [srv EXCEPT ![s] = "user"],
           mailbox' = [mailbox EXCEPT ![s] = None],
           ready' \subseteq ready \cup Took(n) \cup {w \in Workers : Announcing(s, w)},
           UNCHANGED <<server_event, server_bq, tmr, call, handler>>
    PROVE  Protocol'
<1>0. /\ status \in [Workers -> Status]
      /\ srv \in [Servers -> Places]
      /\ mailbox \in [Servers -> Words \cup {None}]
      /\ ready \subseteq Workers
  BY DEF IInv, TypeOK, KernelTypeOK, Places
<1>1. /\ IdleListExact'
      /\ \A w \in Workers : status'[w] = IF w \in Took(n) THEN "RUNNABLE" ELSE status[w]
      /\ \A w \in Took(n) : w \in Workers /\ status[w] \in Idle /\ ~Unlisted(w)
  BY GetEventsExact DEF Listed
<1>2. \A w \in Took(n) : call[w] = "none" /\ ~Offered(w) /\ Offered(w)'
  BY <1>1 DEF IInv, Undisturbed, Idle, Offered, Unlisted
<1>h. \A w \in Workers : Holds(w)' <=> Holds(w)
  BY <1>1, <1>2 DEF Holds, OnCpu, Idle
<1>n. \A w \in Workers : Holds(w) => server_event[w] # s
  BY DEF IInv, SlotIsLive
<1>3. SlotIsLive'
  BY <1>0, <1>h, <1>n DEF IInv, SlotIsLive
<1>4. NoServerStranded'
  BY <1>0, <1>h DEF IInv, NoServerStranded
<1>5. OneToken'
  <2>1. \A w \in Workers : Offered(w) => Offered(w)'
    BY <1>1, <1>2 DEF Offered
  <2>2. \A t \in Servers, w \in Workers : Announcing(t, w)' => Announcing(t, w) /\ t # s
    BY <1>0 DEF Announcing
  <2>3. \A w \in ready' : Offered(w)'
    BY <1>0, <1>2, <2>1 DEF IInv, OneToken
  <2>4. ASSUME NEW t \in Servers, NEW w \in Workers, Announcing(t, w)'
        PROVE  Offered(w)' /\ w \notin ready'
    <3>1. Announcing(t, w) /\ t # s
      BY <2>2, <2>4
    <3>2. Offered(w) /\ w \notin ready /\ ~Announcing(s, w)
      BY <3>1 DEF IInv, OneToken
    <3>3. w \notin Took(n)
      BY <1>2, <3>2
    <3> QED
      BY <2>1, <3>2, <3>3
  <2>5. \A t, u \in Servers, w \in Workers : Announcing(t, w)' /\ Announcing(u, w)' => t = u
    BY <2>2 DEF IInv, OneToken
  <2> QED
    BY <2>3, <2>4, <2>5 DEF OneToken
<1>6. Undisturbed'
  BY <1>0, <1>1, <1>2 DEF IInv, Undisturbed, Idle
<1> QED
  BY <1>1, <1>3, <1>4, <1>5, <1>6 DEF Protocol

(* What a server learns from the words get_events wrote for it. *)
LEMMA LearnTook ==
    ASSUME KernelTypeOK, NEW n, Learn(Announcements(Taken(n)))
    PROVE  ready' \subseteq ready \cup Took(n)
<1>1. Taken(n) \in 0..Len(idle_workers)
  BY TakenBound DEF KernelTypeOK
<1>2. DOMAIN Announcements(Taken(n)) = 1..Taken(n)
  BY DEF Announcements
<1>3. \A i \in 1..Taken(n) : Announcements(Taken(n))[i].worker = idle_workers[i]
  BY DEF Announcements, Announced, Word
<1> QED
  BY <1>2, <1>3 DEF Learn, Took

(* What it learns when its own worker's report comes first. *)
LEMMA LearnReportAndTook ==
    ASSUME KernelTypeOK, NEW s \in Servers, mailbox[s] # None, NEW n,
           Learn(<<mailbox[s]>> \o Announcements(Taken(n)))
    PROVE  ready' \subseteq ready \cup Took(n) \cup {w \in Workers : Announcing(s, w)}
<1> DEFINE k == Taken(n)
           a == Announcements(k)
           words == <<mailbox[s]>> \o a
<1>1. k \in 0..Len(idle_workers) /\ Len(idle_workers) \in Nat
  BY TakenBound, LenProperties DEF KernelTypeOK
<1>2. a \in Seq(Words) /\ Len(a) = k
  BY <1>1, AnnouncementsType
<1>3. mailbox[s] \in Words
  BY DEF KernelTypeOK
<1>4. <<mailbox[s]>> \in Seq(Words) /\ Len(<<mailbox[s]>>) = 1 /\ <<mailbox[s]>>[1] = mailbox[s]
  BY <1>3
<1>5. \A i \in 1..k : a[i].worker = idle_workers[i]
  BY DEF Announcements, Announced, Word
<1>6. /\ words \in Seq(Words) /\ Len(words) = 1 + k
      /\ \A i \in 1..(1 + k) : words[i] = IF i <= 1 THEN <<mailbox[s]>>[i] ELSE a[i - 1]
  BY <1>2, <1>4, ConcatProperties
<1>7. DOMAIN words = 1..(1 + k)
  BY <1>6, LenProperties
<1> HIDE DEF words, a, k
<1>8. \A i \in 1..(1 + k) : i = 1 \/ (i - 1 \in 1..k /\ ~(i <= 1))
  BY <1>1
<1>9. words[1] = mailbox[s]
  BY <1>1, <1>4, <1>6
<1>10. \A i \in 1..(1 + k) : words[i] = mailbox[s] \/ words[i].worker \in Took(n)
  <2> TAKE i \in 1..(1 + k)
  <2>1. CASE i = 1
    BY <1>9, <2>1
  <2>2. CASE i - 1 \in 1..k /\ ~(i <= 1)
    <3>1. words[i] = a[i - 1]
      BY <1>6, <2>2
    <3>2. words[i].worker = idle_workers[i - 1]
      BY <1>5, <2>2, <3>1
    <3> QED
      BY <2>2, <3>2 DEF Took, k
  <2> QED
    BY <1>8, <2>1, <2>2
<1>11. ready' = ready \cup {words[i].worker : i \in {j \in 1..(1 + k) : Switchable(words[j])}}
  BY <1>7 DEF Learn, words, a, k
<1>12. mailbox[s].worker \in Workers
  BY <1>3 DEF Words
<1>13. \A i \in 1..(1 + k) : Switchable(words[i]) =>
          words[i].worker \in Took(n) \cup {w \in Workers : Announcing(s, w)}
  BY <1>10, <1>12 DEF Announcing
<1> QED
  BY <1>11, <1>13

-----------------------------------------------------------------------------
(* Every call and every callback of a worker keeps the protocol. *)
LEMMA WorkerPreserves ==
    ASSUME Features = {}, IInv, NEW w \in Workers, WorkerStep(w)
    PROVE  Protocol'
<1>0. /\ status \in [Workers -> Status]
      /\ call \in [Workers -> CallPlaces]
      /\ srv \in [Servers -> Places]
      /\ tmr \in [Workers -> BOOLEAN]
      /\ \A v \in Workers : ~tmr[v] /\ handler[v] = "none"
      /\ \A v \in Workers : call[v] \in {"none", "post", "wake"}
      /\ \A v \in Workers : call[v] = "post" => status[v] = "WAITING"
      /\ \A v \in Workers : call[v] = "wake" => status[v] = "IDLE"
  BY DEF IInv, TypeOK, KernelTypeOK, Places, CallPlaces, Undisturbed
<1>c. call[w] = "none" => call = [call EXCEPT ![w] = "none"]
  BY <1>0
<1>1. CASE Register(w)
  <2>1. call[w] = "none"
    BY <1>0, <1>1 DEF Register, RegisterWorker
  <2>2. \A v \in Workers : tmr'[v] => tmr[v]
    BY <1>0, <1>1 DEF Register, RegisterWorker
  <2> QED
    BY <1>c, <1>1, <2>1, <2>2, AnnounceStep DEF Register, RegisterWorker
<1>2. CASE Enter(w)
  BY <1>c, <1>2, StayStep DEF Enter, SyscallEnter, clientVars, queueVars, serverVars, OnCpu
<1>3. CASE Block(w)
  BY <1>c, <1>3, ReportStep
     DEF Block, SyscallBlock, clientVars, queueVars, OnCpu, Holds, EventType
<1>4. CASE Wakeup(w)
  <2>1. status[w] = "BLOCKED" /\ server_bq[w] = None /\ call[w] = "none"
    BY <1>0, <1>4 DEF Wakeup, Unblock, IInv, Undisturbed
  <2>2. WakeThread(server_bq[w]) = srv
    BY <1>0, <2>1, KernelAssumption DEF WakeThread
  <2> QED
    BY <1>4, <2>1, <2>2, WakeupStep DEF Wakeup, Unblock, clientVars, queueVars
<1>4a. CASE WakeupAnnounce(w)
  <2>1. status[w] = "IDLE" /\ call[w] = "wake" /\ status = [status EXCEPT ![w] = "IDLE"]
    BY <1>0, <1>4a DEF WakeupAnnounce, UnblockAnnounce
  <2> QED
    BY <1>4a, <2>1, AnnounceStep DEF WakeupAnnounce, UnblockAnnounce, clientVars
<1>5. CASE Expire(w)
  BY <1>c, <1>5, ReportStep
     DEF Expire, Preempt, clientVars, queueVars, OnCpu, Holds, EventType
<1>6. CASE Leave(w)
  BY <1>c, <1>6, StayStep DEF Leave, SyscallReturn, clientVars, queueVars, serverVars, OnCpu
<1>7. CASE Exit(w)
  BY <1>c, <1>7, ReportStep
     DEF Exit, Unregister, clientVars, queueVars, OnCpu, Holds, EventType
<1>8. CASE Wait(w)
  <2>1. WorkerWait(w, FALSE) /\ UNCHANGED ready
    BY <1>8 DEF Wait, Deadlines
  <2>2. tmr' = tmr
    BY <1>0, <2>1 DEF WorkerWait
  <2> QED
    BY <2>1, <2>2, StayStep DEF WorkerWait, queueVars, serverVars
<1>9. CASE WaitPost(w)
  <2>1. status = [status EXCEPT ![w] = "WAITING"]
    BY <1>0, <1>9 DEF WaitPost, WorkerWaitPost
  <2> QED
    BY <1>9, <2>1, ReportStep
       DEF WaitPost, WorkerWaitPost, clientVars, queueVars, Holds, EventType
<1>10. CASE Timeout(w)
  BY <1>0, <1>10 DEF Timeout, WorkerTimeout
<1>10a. CASE TimeoutAnnounce(w) \/ TimeoutReturn(w)
  BY <1>0, <1>10a
     DEF TimeoutAnnounce, WorkerTimeoutAnnounce, TimeoutReturn, WorkerTimeoutReturn
<1>11. CASE SwitchTo(w)
  BY <1>11 DEF SwitchTo
<1>12. CASE SwitchAnnounce(w) \/ SwitchArm(w) \/ Hand(w)
  BY <1>0, <1>12 DEF SwitchAnnounce, WorkerCtxSwitchAnnounce, SwitchArm, WorkerCtxSwitchArm,
                     Hand, WorkerCtxSwitchHand
<1> QED
  BY <1>1, <1>2, <1>3, <1>4, <1>4a, <1>5, <1>6, <1>7, <1>8, <1>9, <1>10, <1>10a, <1>11, <1>12
     DEF WorkerStep

(* A call that came back with nothing teaches nothing. *)
LEMMA LearnNothing ==
    ASSUME NEW s \in Servers, LearnIfBack(s), delivered'[s] = <<>>
    PROVE  ready' = ready
<1>1. DOMAIN <<>> = {}
  BY EmptySeq, LenProperties
<1>2. DOMAIN delivered'[s] = {}
  BY <1>1
<1>3. CASE srv'[s] = "user"
  <2>1. ready' = ready \cup {delivered'[s][i].worker :
                               i \in {j \in DOMAIN delivered'[s] : Switchable(delivered'[s][j])}}
    BY <1>3 DEF LearnIfBack, Learn
  <2> QED
    BY <1>2, <2>1
<1> QED
  BY <1>3 DEF LearnIfBack

(* The bottom half of umcg_wait, whoever runs it. *)
LEMMA WaitBhPreserves ==
    ASSUME IInv, NEW s \in Servers, srv[s] \in {"user", "woken"}, NEW n, WaitBh(s, n),
           LearnIfBack(s)
    PROVE  Protocol'
<1>0. /\ srv \in [Servers -> Places]
      /\ mailbox \in [Servers -> Words \cup {None}]
      /\ delivered \in [Servers -> Seq(Words)]
      /\ mailbox[s] = None
  BY DEF IInv, TypeOK, KernelTypeOK, Places, Undisturbed
<1>1. CASE Taken(n) > 0 /\ Return(s, "OK", Announcements(Taken(n))) /\ GetEvents(n)
  <2>1. srv' = [srv EXCEPT ![s] = "user"] /\ delivered'[s] = Announcements(Taken(n))
    BY <1>0, <1>1 DEF Return
  <2>2. Learn(Announcements(Taken(n)))
    BY <1>0, <2>1 DEF LearnIfBack
  <2>3. ready' \subseteq ready \cup Took(n)
    BY <2>2, LearnTook DEF IInv, TypeOK
  <2>4. mailbox' = [mailbox EXCEPT ![s] = None]
    BY <1>0 DEF WaitBh
  <2>5. UNCHANGED <<server_event, server_bq, tmr, call, handler>>
    BY DEF WaitBh
  <2> QED
    BY <1>1, <2>1, <2>3, <2>4, <2>5, CollectStep
<1>2. CASE /\ Return(s, "OK", <<>>) \/ Sleep(s, "parked")
           /\ UNCHANGED <<status, idle_workers>>
  <2>1. delivered'[s] = <<>>
    BY <1>0, <1>2 DEF Return, Sleep
  <2>2. ready' = ready
    BY <2>1, LearnNothing
  <2>3. \A t \in Servers : srv'[t] = srv[t] \/ (srv[t] \in Away /\ srv'[t] \in Away)
    BY <1>0, <1>2 DEF Return, Sleep, Away
  <2> QED
    BY <1>2, <2>2, <2>3, QuietStep DEF WaitBh
<1> QED
  BY <1>1, <1>2 DEF WaitBh

(* Every call and every bottom half of a server keeps the protocol. *)
LEMMA ServerPreserves ==
    ASSUME Features = {}, IInv, NEW s \in Servers, ServerStep(s)
    PROVE  Protocol'
<1>0. /\ srv \in [Servers -> Places]
      /\ mailbox \in [Servers -> Words \cup {None}]
      /\ delivered \in [Servers -> Seq(Words)]
      /\ srv[s] # "switched" => mailbox[s] = None
      /\ srv[s] = "switched" => mailbox[s] # None
      /\ srv[s] \notin {"watching", "watched"}
  BY DEF IInv, TypeOK, KernelTypeOK, Places, Undisturbed
<1>1. CASE ServerSwitch(s)
  BY <1>1, SwitchStep DEF ServerSwitch
<1>2. CASE ServerSwitchBack(s)
  <2> DEFINE n == req[s].sz - 1
             words == <<mailbox[s]>> \o Announcements(Taken(n))
  <2>1. srv[s] = "switched" /\ mailbox[s] # None
    BY <1>0, <1>2 DEF ServerSwitchBack, SwitchResume
  <2>2. /\ mailbox' = [mailbox EXCEPT ![s] = None]
        /\ Return(s, "OK", words) /\ GetEvents(n)
        /\ UNCHANGED <<server_event, server_bq, tmr, call, handler>>
    BY <1>2, <2>1 DEF ServerSwitchBack, SwitchResume
  <2> HIDE DEF words
  <2>3. srv' = [srv EXCEPT ![s] = "user"] /\ delivered'[s] = words
    BY <1>0, <2>2 DEF Return
  <2>4. Learn(words)
    BY <1>0, <1>2, <2>3 DEF ServerSwitchBack, LearnIfBack
  <2>5. ready' \subseteq ready \cup Took(n) \cup {w \in Workers : Announcing(s, w)}
    BY <2>1, <2>4, LearnReportAndTook DEF IInv, TypeOK, words
  <2> QED
    BY <2>1, <2>2, <2>3, <2>5, CollectStep
<1>3. CASE ServerIdle(s)
  BY <1>3, WaitBhPreserves DEF ServerIdle, ServerWait
<1>4. CASE ServerIdleBack(s)
  BY <1>4, WaitBhPreserves DEF ServerIdleBack, WaitResume
<1>5. CASE ServerIdleTimeout(s)
  <2>1. \A t \in Servers : srv'[t] = srv[t] \/ (srv[t] \in Away /\ srv'[t] \in Away)
    BY <1>0, <1>5 DEF ServerIdleTimeout, WaitTimeout, Return, Away
  <2> QED
    BY <1>5, <2>1, QuietStep
       DEF ServerIdleTimeout, WaitTimeout, workerVars, queueVars, clientVars
<1>6. CASE ServerIdlePoll(s)
  <2>1. PICK n \in EventSizes : ServerPoll(s, n) /\ LearnIfBack(s)
    BY <1>6 DEF ServerIdlePoll
  <2>2. CASE Taken(n) > 0 /\ Return(s, "OK", Announcements(Taken(n))) /\ GetEvents(n)
    <3>1. srv' = [srv EXCEPT ![s] = "user"] /\ delivered'[s] = Announcements(Taken(n))
      BY <1>0, <2>2 DEF Return
    <3>2. Learn(Announcements(Taken(n)))
      BY <1>0, <2>1, <3>1 DEF LearnIfBack
    <3>3. ready' \subseteq ready \cup Took(n)
      BY <3>2, LearnTook DEF IInv, TypeOK
    <3>4. srv[s] = "user" /\ mailbox' = [mailbox EXCEPT ![s] = None]
      BY <1>0, <2>1 DEF ServerPoll
    <3>5. UNCHANGED <<server_event, server_bq, tmr, call, handler>>
      BY <2>1 DEF ServerPoll
    <3> QED
      BY <2>2, <3>1, <3>3, <3>4, <3>5, CollectStep
  <2>3. CASE Return(s, "ETIMEDOUT", <<>>) /\ UNCHANGED <<status, idle_workers>>
    <3>1. delivered'[s] = <<>>
      BY <1>0, <2>3 DEF Return
    <3>2. ready' = ready
      BY <2>1, <3>1, LearnNothing
    <3>3. \A t \in Servers : srv'[t] = srv[t] \/ (srv[t] \in Away /\ srv'[t] \in Away)
      BY <1>0, <2>1, <2>3 DEF ServerPoll, Return, Away
    <3> QED
      BY <2>1, <2>3, <3>2, <3>3, QuietStep DEF ServerPoll
  <2> QED
    BY <2>1, <2>2, <2>3 DEF ServerPoll
<1>7. CASE ServerWatch(s)
  BY <1>7 DEF ServerWatch
<1>8. CASE ServerWatchBack(s)
  BY <1>0, <1>8 DEF ServerWatchBack, WaitWorkerResume
<1>9. CASE ServerWake(s)
  <2>1. \A t \in Servers : srv'[t] = srv[t] \/ (srv[t] \in Away /\ srv'[t] \in Away)
    BY <1>0, <1>9 DEF ServerWake, WakeServer, Away
  <2> QED
    BY <1>9, <2>1, QuietStep DEF ServerWake, WakeServer, workerVars, clientVars
<1>10. CASE ServerWakeTry(s)
  <2>1. \A t \in Servers : srv'[t] = srv[t] \/ (srv[t] \in Away /\ srv'[t] \in Away)
    BY <1>0, <1>10 DEF ServerWakeTry, WakeServerTry, WakeOne, Parked, Away
  <2> QED
    BY <1>10, <2>1, QuietStep DEF ServerWakeTry, WakeServerTry, workerVars
<1> QED
  BY <1>1, <1>2, <1>3, <1>4, <1>5, <1>6, <1>7, <1>8, <1>9, <1>10 DEF ServerStep

-----------------------------------------------------------------------------
(* For every number of workers and servers and every buffer size, a program  *)
(* that makes none of the optional calls keeps the inductive invariant.      *)
THEOREM InvariantHolds == ASSUME Features = {} PROVE Spec => []IInv
<1>1. Init => IInv
  <2> SUFFICES ASSUME Init PROVE IInv
    OBVIOUS
  <2>1. TypeOK
    BY InitType
  <2>2. /\ idle_workers = <<>> /\ ready = {}
        /\ \A w \in Workers : status[w] = "UNREGISTERED" /\ call[w] = "none"
        /\ \A w \in Workers : ~tmr[w] /\ handler[w] = "none"
        /\ \A s \in Servers : srv[s] = "user" /\ mailbox[s] = None
    BY DEF Init, KernelInit
  <2>3. \A w \in Workers : ~Holds(w)
    BY <2>2 DEF Holds, OnCpu
  <2>4. SlotIsLive /\ NoServerStranded
    BY <2>2, <2>3 DEF SlotIsLive, NoServerStranded
  <2>5. IdleListExact
    BY <2>2 DEF IdleListExact, Idle, Listed
  <2>6. OneToken /\ Undisturbed
    BY <2>2 DEF OneToken, Announcing, Undisturbed
  <2> QED
    BY <2>1, <2>4, <2>5, <2>6 DEF IInv
<1>2. IInv /\ [Next]_vars => IInv'
  <2> SUFFICES ASSUME IInv, [Next]_vars PROVE IInv'
    OBVIOUS
  <2>1. TypeOK'
    BY NextType DEF IInv
  <2>2. CASE Next
    <3>1. Protocol'
      BY <2>2, WorkerPreserves, ServerPreserves DEF Next
    <3> QED
      BY <2>1, <3>1 DEF IInv, Protocol
  <2>3. CASE UNCHANGED vars
    <3>1. Protocol'
      BY <2>3, QuietStep DEF vars, kernelVars, workerVars, queueVars, serverVars, clientVars
    <3> QED
      BY <2>1, <3>1 DEF IInv, Protocol
  <2> QED
    BY <2>2, <2>3
<1> QED
  BY <1>1, <1>2, PTL DEF Spec

(* A worker about to report finds its server asleep in the context switch    *)
(* with an empty slot, and shares it with nobody.                            *)
THEOREM SlotsAreLive == ASSUME Features = {} PROVE Spec => []SlotIsLive
  BY InvariantHolds, PTL DEF IInv

(* No server sleeps in a context switch that nobody will end. *)
THEOREM NobodyStranded == ASSUME Features = {} PROVE Spec => []NoServerStranded
  BY InvariantHolds, PTL DEF IInv

(* Every idle worker is on idle_workers, once, or on its way there. *)
THEOREM IdleWorkersExact == ASSUME Features = {} PROVE Spec => []IdleListExact
  BY InvariantHolds, PTL DEF IInv

(* The right to switch to a worker exists once. *)
THEOREM TokensAreUnique == ASSUME Features = {} PROVE Spec => []OneToken
  BY InvariantHolds, PTL DEF IInv
=============================================================================

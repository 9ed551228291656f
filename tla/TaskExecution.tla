--------------------------- MODULE TaskExecution ---------------------------
(***************************************************************************)
(* What an executor promises: a task is submitted at most once (by main,   *)
(* or by the task whose child it is, while that runs), then started once,  *)
(* then finished once, and success is reported only when all are finished. *)
(***************************************************************************)
CONSTANTS Tasks,    \* all tasks
          Initial,  \* the tasks main submits
          Child,    \* the task each task submits, or None
          None

VARIABLES stage,    \* where each task is
          verdict   \* what main reported

vars == <<stage, verdict>>

Init ==
    /\ stage = [t \in Tasks |-> "new"]
    /\ verdict = "none"

Submit(t) ==
    /\ stage[t] = "new"
    /\ t \in Initial \/ \E p \in Tasks : Child[p] = t /\ stage[p] = "running"
    /\ stage' = [stage EXCEPT ![t] = "queued"]
    /\ UNCHANGED verdict

Start(t) ==
    /\ stage[t] = "queued"
    /\ stage' = [stage EXCEPT ![t] = "running"]
    /\ UNCHANGED verdict

Finish(t) ==
    /\ stage[t] = "running"
    /\ Child[t] # None => stage[Child[t]] # "new"
    /\ stage' = [stage EXCEPT ![t] = "done"]
    /\ UNCHANGED verdict

Succeed ==
    /\ verdict = "none"
    /\ \A t \in Tasks : stage[t] = "done"
    /\ verdict' = "success"
    /\ UNCHANGED stage

GiveUp ==
    /\ verdict = "none"
    /\ verdict' = "timeout"
    /\ UNCHANGED stage

Next == (\E t \in Tasks : Submit(t) \/ Start(t) \/ Finish(t)) \/ Succeed \/ GiveUp

Spec == Init /\ [][Next]_vars
=============================================================================

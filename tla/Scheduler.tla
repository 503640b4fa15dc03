----------------------------- MODULE Scheduler -----------------------------
(***************************************************************************)
(* The scheduled_jobs table and the beat task that empties it              *)
(* (services/scheduler.py, workers/scheduler_tasks.py).  The module has    *)
(* the actions of this component; a module that EXTENDS it says what else  *)
(* happens when a job is handled, and has the next-state relation.         *)
(* An operator marked "wrong" is the one after it with a plausible slip:   *)
(* it is never used, and shows that some property notices the slip.        *)
(***************************************************************************)
EXTENDS Naturals, FiniteSets

CONSTANTS
    JobIds,         \* primary keys of scheduled_jobs
    Ticks,          \* run_due_jobs tasks that may be at work at once
    Targets,        \* what a payload names: a run, a campaign, a conversation
    NoJob,
    NoTarget,       \* the payload lacks the id, or the type is not known
    ClaimLimit,     \* 100
    MaxAttempts,    \* 5
    JobFaults       \* which of "refused" (apply_async raises) and "tick" (the
                    \* task's process dies) happen

ASSUME JobAssumption == /\ NoJob \notin JobIds /\ NoTarget \notin Targets
                        /\ ClaimLimit \in Nat \ {0}
                        /\ MaxAttempts \in Nat \ {0}

VARIABLES
    jobs,           \* the scheduled_jobs rows
    tick,           \* the local state of the run_due_jobs tasks
    fired           \* ghost: how often each job's handler succeeded, up to 2

jobVars == <<jobs, tick, fired>>

JobStatus == {"absent", "pending", "claimed", "completed", "failed"}
Job == [status : JobStatus, target : Targets \cup {NoTarget},
        due : BOOLEAN, attempts : 0..MaxAttempts]
NewJob == [status |-> "absent", target |-> NoTarget, due |-> FALSE,
           attempts |-> 0]
Tick == [todo : SUBSET JobIds, cur : JobIds \cup {NoJob}, raised : BOOLEAN]
IdleTick == [todo |-> {}, cur |-> NoJob, raised |-> FALSE]

JobsTypeOK ==
    /\ jobs \in [JobIds -> Job]
    /\ tick \in [Ticks -> Tick]
    /\ fired \in [JobIds -> 0..2]

JobsInit ==
    /\ jobs = [j \in JobIds |-> NewJob]
    /\ tick = [t \in Ticks |-> IdleTick]
    /\ fired = [j \in JobIds |-> 0]

\* A row PostgreSQL has not stored yet, the same one for every caller.
FreeJob(j) == /\ jobs[j].status = "absent"
              /\ j = CHOOSE i \in JobIds : jobs[i].status = "absent"

\* schedule_job: insert and commit.
ScheduleJob(j, target) ==
    /\ FreeJob(j)
    /\ jobs' = [jobs EXCEPT ![j] = [NewJob EXCEPT !.status = "pending",
                                                  !.target = target]]
    /\ UNCHANGED <<tick, fired>>

\* run_at passes.
JobComesDue(j) ==
    /\ jobs[j].status = "pending" /\ ~jobs[j].due
    /\ jobs' = [jobs EXCEPT ![j].due = TRUE]
    /\ UNCHANGED <<tick, fired>>

DueOrClaimed ==                                                      \* wrong
    {j \in JobIds : /\ jobs[j].status \in {"pending", "claimed"} /\ jobs[j].due
                    /\ jobs[j].attempts < MaxAttempts}
Due == {j \in JobIds : jobs[j].status = "pending" /\ jobs[j].due}

\* No ORDER BY: any ClaimLimit of the due rows.
Claims == {S \in SUBSET Due :
             /\ S # {}
             /\ \/ S = Due /\ Cardinality(Due) <= ClaimLimit
                \/ Cardinality(S) = ClaimLimit}

\* claim_due_jobs: select FOR UPDATE SKIP LOCKED, CLAIMED, one commit.
ClaimDueJobs(t) ==
    /\ tick[t].todo = {} /\ tick[t].cur = NoJob
    /\ \E S \in Claims :
         /\ tick' = [tick EXCEPT ![t].todo = S]
         /\ jobs' = [j \in JobIds |->
                       IF j \in S
                       THEN [jobs[j] EXCEPT !.status = "claimed",
                                            !.attempts = @ + 1]
                       ELSE jobs[j]]
    /\ UNCHANGED fired

\* _handle_job gave the broker its message, or found nothing to do.
HandleJob(t, j) ==
    /\ tick[t].cur = NoJob /\ j \in tick[t].todo
    /\ tick' = [tick EXCEPT ![t].cur = j, ![t].todo = @ \ {j},
                            ![t].raised = FALSE]
    /\ fired' = [fired EXCEPT ![j] = IF @ = 2 THEN 2 ELSE @ + 1]
    /\ UNCHANGED jobs

\* apply_async raised and no message was stored.
HandlerRaises(t, j) ==
    /\ "refused" \in JobFaults
    /\ tick[t].cur = NoJob /\ j \in tick[t].todo
    /\ jobs[j].target # NoTarget
    /\ tick' = [tick EXCEPT ![t].cur = j, ![t].todo = @ \ {j},
                            ![t].raised = TRUE]
    /\ UNCHANGED <<jobs, fired>>

\* What the loop of _run_due_jobs writes after a handler.
RetriedForEver(j, raised) == IF raised THEN "pending" ELSE "completed"  \* wrong
Result(j, raised) ==
    IF ~raised THEN "completed"
    ELSE IF jobs[j].attempts >= MaxAttempts THEN "failed" ELSE "pending"

RecordJob(t) ==
    LET j == tick[t].cur IN
    /\ j # NoJob
    /\ jobs' = [jobs EXCEPT ![j].status = Result(j, tick[t].raised)]
    /\ tick' = [tick EXCEPT ![t].cur = NoJob, ![t].raised = FALSE]
    /\ UNCHANGED fired

\* The process dies; what it had claimed stays CLAIMED, for nothing looks at
\* CLAIMED rows.
TickCrash(t) ==
    /\ "tick" \in JobFaults
    /\ tick[t] # IdleTick
    /\ tick' = [tick EXCEPT ![t] = IdleTick]
    /\ UNCHANGED <<jobs, fired>>
=============================================================================

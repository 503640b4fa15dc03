----------------------------- MODULE Automation -----------------------------
(***************************************************************************)
(* One automation, the runs started from it, the Celery queue              *)
(* "automations", the workers that execute a run node by node              *)
(* (workers/automation_tasks.py) and, through Scheduler, the jobs that     *)
(* wake a run from a long delay.  Requests are API handlers: they read     *)
(* their row, and write it some awaits later.                              *)
(***************************************************************************)
EXTENDS Scheduler, Sequences

CONSTANTS
    Nodes,          \* node ids of any graph
    Graphs,         \* the graphs an editor may save, the first one included
    FirstGraph,
    Runs,           \* rows of automation_runs
    Workers,        \* Celery processes that consume "automations"
    Requests,       \* API requests at work at once
    NoRun, NoNode,
    Ops,            \* the operations issued in this instance
    StepFloor, StepCeiling,     \* 25 and 500
    RunFaults       \* which of "worker" and "request" processes may die or lose
                    \* the database or the broker, and whether an action's call
                    \* may raise ("action")

\* The kinds of node.  "short" and "long" are delays of at most and of more
\* than SYNC_DELAY_MAX_SECONDS; "send" is an action that commits before it
\* calls the provider, "action" any other one, "alien" a kind the code lacks.
Kinds == {"trigger", "condition", "short", "long", "stop", "send", "action"}
GraphShape == [nodes : SUBSET Nodes, kind : [Nodes -> Kinds \cup {"alien"}],
               next : [Nodes -> Seq(Nodes)], other : [Nodes -> Seq(Nodes)]]

ASSUME GraphAssumption == /\ Graphs \subseteq GraphShape /\ FirstGraph \in Graphs
                          /\ \A g \in Graphs : IsFiniteSet(g.nodes)
ASSUME RunAssumption == NoRun \notin Runs /\ NoNode \notin Nodes /\ Targets = Runs
ASSUME StepAssumption == StepFloor \in Nat \ {0} /\ StepCeiling \in Nat \ {0}

VARIABLES
    automation,     \* the automations row: status and graph
    run,            \* the automation_runs rows
    queue,          \* undelivered execute messages per run
    worker, request,
    history         \* ghost: what happened to each run

runVars == <<automation, run, queue, worker, request, history>>
vars == <<automation, run, queue, worker, request, history, jobs, tick, fired>>

AutomationStatus == {"draft", "active", "paused", "archived"}
RunStatus == {"absent", "queued", "running", "waiting", "succeeded", "failed",
              "stopped"}
Finished == {"succeeded", "failed", "stopped"}
WorkerPc == {"idle", "begin", "loop", "enter", "node", "sent", "park", "schedule"}

Row == [status : RunStatus, resume : Seq(Nodes), steps : Nat, max : Nat,
        cancel : BOOLEAN, late : BOOLEAN]
NewRow == [status |-> "absent", resume |-> <<>>, steps |-> 0, max |-> 0,
           cancel |-> FALSE, late |-> FALSE]
Worker == [pc : WorkerPc, run : Runs \cup {NoRun}, graph : Graphs,
           todo : Seq(Nodes), node : Nodes \cup {NoNode},
           seen : RunStatus, steps : Nat]
IdleWorker == [pc |-> "idle", run |-> NoRun, graph |-> FirstGraph, todo |-> <<>>,
               node |-> NoNode, seen |-> "absent", steps |-> 0]
Request == [op : {"none", "edit", "publish", "pause", "test", "event", "cancel"},
            pc : {"idle", "write", "dispatch"}, seen : AutomationStatus,
            graph : Graphs, run : Runs \cup {NoRun}]
IdleRequest == [op |-> "none", pc |-> "idle", seen |-> "draft",
                graph |-> FirstGraph, run |-> NoRun]
History == [graph : Graphs, done : SUBSET Nodes, begun : Nat, after : Nat,
            cut : BOOLEAN, lost : BOOLEAN]

TypeOK ==
    /\ automation \in [status : AutomationStatus, graph : Graphs]
    /\ run \in [Runs -> Row]
    /\ queue \in [Runs -> Nat]
    /\ worker \in [Workers -> Worker]
    /\ request \in [Requests -> Request]
    /\ history \in [Runs -> History]
    /\ JobsTypeOK

Init ==
    /\ automation = [status |-> "draft", graph |-> FirstGraph]
    /\ run = [r \in Runs |-> NewRow]
    /\ queue = [r \in Runs |-> 0]
    /\ worker = [w \in Workers |-> IdleWorker]
    /\ request = [q \in Requests |-> IdleRequest]
    /\ history = [r \in Runs |->
                    [graph |-> FirstGraph, done |-> {}, begun |-> 0, after |-> 0,
                     cut |-> FALSE, lost |-> FALSE]]
    /\ JobsInit

-----------------------------------------------------------------------------
(* The graph *)

Triggers(g) == {n \in g.nodes : g.kind[n] = "trigger"}
Elements(s) == {s[i] : i \in 1..Len(s)}
Successors(g, n) == Elements(g.next[n]) \cup Elements(g.other[n])
Closed(g, S) == \A n \in S : Successors(g, n) \subseteq S

\* validate_publishable_graph: one trigger, known kinds, edges between nodes of
\* the graph, every node reached from the trigger, no cycle.
Publishable(g) ==
    /\ Cardinality(Triggers(g)) = 1
    /\ \A n \in g.nodes : g.kind[n] \in Kinds
    /\ Closed(g, g.nodes)
    /\ \A S \in SUBSET g.nodes :
         Closed(g, S) /\ Triggers(g) \subseteq S => S = g.nodes
    /\ \A S \in SUBSET g.nodes \ {{}} : \E n \in S : Successors(g, n) \cap S = {}

\* max_steps of a new run.
Budget(g) ==
    LET wanted == 3 * Cardinality(g.nodes)
        raised == IF wanted > StepFloor THEN wanted ELSE StepFloor
    IN IF raised < StepCeiling THEN raised ELSE StepCeiling

-----------------------------------------------------------------------------
(* Requests *)

\* The handler reads the automation, or the caller's transaction selects the
\* ACTIVE ones with a matching trigger.
Accepts(op) ==
    CASE op \in {"publish", "test"} -> Publishable(automation.graph)
      [] op = "event" -> automation.status = "active"
      [] OTHER -> TRUE

ReadAutomation(q, op) ==
    /\ request[q].pc = "idle" /\ op \in Ops \cap {"edit", "publish", "pause", "test", "event"}
    /\ Accepts(op)
    /\ request' = [request EXCEPT ![q] =
                     [IdleRequest EXCEPT !.op = op, !.pc = "write",
                        !.seen = automation.status, !.graph = automation.graph]]
    /\ UNCHANGED <<automation, run, queue, worker, history, jobVars>>

\* A column is written when its value differs from the one in the session.
Status(seen, status) == IF seen = status THEN automation.status ELSE status

\* The history of the runs that a change of the graph reaches.
Touched(g) ==
    [r \in Runs |-> IF g # automation.graph /\ run[r].status \notin Finished \cup {"absent"}
                    THEN [history[r] EXCEPT !.cut = TRUE] ELSE history[r]]

\* update_automation stores a graph without validating it, and a status if the
\* request has one; a graph turns ACTIVE, old or new, into DRAFT.
EditGraph(q) ==
    LET seen == request[q].seen IN
    /\ request[q].pc = "write" /\ request[q].op = "edit"
    /\ \E g \in Graphs, status \in {seen} \cup AutomationStatus :
         /\ automation' = [graph |-> g,
                            status |-> Status(seen, IF status = "active" THEN "draft"
                                                    ELSE status)]
         /\ history' = Touched(g)
    /\ request' = [request EXCEPT ![q] = IdleRequest]
    /\ UNCHANGED <<run, queue, worker, jobVars>>

EditStatus(q) ==
    /\ request[q].pc = "write" /\ request[q].op = "edit"
    /\ \E status \in AutomationStatus :
         automation' = [automation EXCEPT !.status = Status(request[q].seen, status)]
    /\ request' = [request EXCEPT ![q] = IdleRequest]
    /\ UNCHANGED <<run, queue, worker, history, jobVars>>

PublishAutomation(q) ==
    /\ request[q].pc = "write" /\ request[q].op = "publish"
    /\ automation' = [automation EXCEPT
                        !.status = Status(request[q].seen, "active")]
    /\ request' = [request EXCEPT ![q] = IdleRequest]
    /\ UNCHANGED <<run, queue, worker, history, jobVars>>

PauseAutomation(q) ==
    /\ request[q].pc = "write" /\ request[q].op = "pause"
    /\ automation' = [automation EXCEPT
                        !.status = Status(request[q].seen, "paused")]
    /\ request' = [request EXCEPT ![q] = IdleRequest]
    /\ UNCHANGED <<run, queue, worker, history, jobVars>>

\* create_test_run, or queue_automation_runs with its caller's commit.
CreateRun(q, r) ==
    LET me == request[q] IN
    /\ me.pc = "write" /\ me.op \in {"test", "event"}
    /\ run[r].status = "absent"
    /\ r = CHOOSE x \in Runs : run[x].status = "absent"
    /\ run' = [run EXCEPT ![r] = [NewRow EXCEPT !.status = "queued",
                                                !.max = Budget(me.graph)]]
    /\ history' = [history EXCEPT ![r].graph = me.graph,
                                  ![r].cut = (me.graph # automation.graph)]
    /\ request' = [request EXCEPT ![q].pc = "dispatch", ![q].run = r]
    /\ UNCHANGED <<automation, queue, worker, jobVars>>

\* execute_automation_run.apply_async after the commit.
DispatchRun(q) ==
    LET me == request[q] IN
    /\ me.pc = "dispatch"
    /\ queue' = [queue EXCEPT ![me.run] = @ + 1]
    /\ request' = [request EXCEPT ![q] = IdleRequest]
    /\ UNCHANGED <<automation, run, worker, history, jobVars>>

\* request_run_cancellation reads the run ...
ReadCancel(q, r) ==
    /\ request[q].pc = "idle" /\ "cancel" \in Ops
    /\ run[r].status \notin Finished \cup {"absent"} /\ ~run[r].cancel
    /\ request' = [request EXCEPT ![q] =
                     [IdleRequest EXCEPT !.op = "cancel", !.pc = "write", !.run = r]]
    /\ UNCHANGED <<automation, run, queue, worker, history, jobVars>>

\* A worker's flush of current_node_id locks the run's row until its commit.
LockedBy(r, w) == worker[w].run = r /\ worker[w].pc = "node"

\* ... and updates it once nobody holds its lock.
CancelRun(q) ==
    LET r == request[q].run IN
    /\ request[q].pc = "write" /\ request[q].op = "cancel"
    /\ \A w \in Workers : ~LockedBy(r, w)
    /\ run' = [run EXCEPT ![r].cancel = TRUE]
    /\ request' = [request EXCEPT ![q] = IdleRequest]
    /\ UNCHANGED <<automation, queue, worker, history, jobVars>>

\* The process that serves the request dies, or the broker refuses apply_async
\* after the run was committed: the run stays QUEUED.
RequestCrash(q) ==
    /\ "request" \in RunFaults /\ request[q].pc # "idle"
    /\ request' = [request EXCEPT ![q] = IdleRequest]
    /\ UNCHANGED <<automation, run, queue, worker, history, jobVars>>

RequestStep(q) ==
    \/ EditGraph(q) \/ EditStatus(q) \/ PublishAutomation(q) \/ PauseAutomation(q)
    \/ CancelRun(q) \/ DispatchRun(q)
    \/ \E r \in Runs : CreateRun(q, r)

-----------------------------------------------------------------------------
(* The worker *)

Written(r, seen, status) == IF seen = status THEN run[r].status ELSE status

\* The task's last commit.
EndRun(w, status) ==
    LET me == worker[w] IN
    /\ run' = [run EXCEPT ![me.run].status = Written(me.run, me.seen, status)]
    /\ worker' = [worker EXCEPT ![w] = IdleWorker]
    /\ UNCHANGED <<automation, queue, request, history, jobVars>>

DoneWith(r) == run[r].status \in Finished \cup {"waiting"}            \* wrong
AlreadyFinished(r) == run[r].status \in Finished

\* The nodes to execute: the resume queue if the run is WAITING and the list is
\* not empty, else the trigger, as for a new run.
ResumedOneTooFar(r, t) ==                                             \* wrong
    IF run[r].status = "waiting" /\ run[r].resume # <<>> THEN Tail(run[r].resume)
    ELSE <<t>>
ToExecute(r, t) ==
    IF run[r].status = "waiting" /\ run[r].resume # <<>> THEN run[r].resume
    ELSE <<t>>

\* Delivery, and the reads of the run and of the automation as it now is.
Receive(w, r) ==
    LET g == automation.graph IN
    /\ worker[w].pc = "idle" /\ queue[r] > 0
    /\ queue' = [queue EXCEPT ![r] = @ - 1]
    /\ IF AlreadyFinished(r)
       THEN UNCHANGED <<run, worker>>
       ELSE IF Triggers(g) = {}
       THEN /\ run' = [run EXCEPT ![r].status = "failed"]
            /\ UNCHANGED worker
       ELSE \E t \in Triggers(g) :
              /\ worker' = [worker EXCEPT ![w] =
                   [IdleWorker EXCEPT !.pc = "begin", !.run = r, !.graph = g,
                      !.todo = ToExecute(r, t),
                      !.seen = run[r].status]]
              /\ UNCHANGED run
    /\ UNCHANGED <<automation, request, history, jobVars>>

\* RUNNING, and the context without its resume queue.
Begin(w) ==
    LET me == worker[w] IN
    /\ me.pc = "begin"
    /\ \A v \in Workers : ~LockedBy(me.run, v)
    /\ run' = [run EXCEPT ![me.run].status = Written(me.run, me.seen, "running"),
                          ![me.run].resume = <<>>]
    /\ worker' = [worker EXCEPT ![w].pc = "loop", ![w].seen = "running"]
    /\ UNCHANGED <<automation, queue, request, history, jobVars>>

\* What _guard refuses; a node that left the graph is refused right after it.
CancelledWhileWaiting(r) == run[r].cancel /\ run[r].status = "waiting"  \* wrong
Cancelled(r) == run[r].cancel
OverBudgetByOne(r) == run[r].steps > run[r].max                        \* wrong
OverBudget(r) == run[r].steps >= run[r].max
NotRunnable(w) ==
    \/ run[worker[w].run].late \/ OverBudget(worker[w].run)
    \/ Head(worker[w].todo) \notin worker[w].graph.nodes

Refuse(w) ==
    LET r == worker[w].run IN
    /\ worker[w].pc = "loop" /\ worker[w].todo # <<>>
    /\ Cancelled(r) \/ NotRunnable(w)
    /\ run' = [run EXCEPT ![r].status = IF Cancelled(r) THEN "stopped" ELSE "failed"]
    /\ worker' = [worker EXCEPT ![w] = IdleWorker]
    /\ UNCHANGED <<automation, queue, request, history, jobVars>>

\* _guard refreshes the run and lets the node pass ...
Guard(w) ==
    LET me == worker[w] IN
    /\ me.pc = "loop" /\ me.todo # <<>>
    /\ ~Cancelled(me.run) /\ ~NotRunnable(w)
    /\ worker' = [worker EXCEPT ![w].pc = "enter", ![w].node = Head(me.todo),
                    ![w].todo = Tail(me.todo), ![w].seen = run[me.run].status,
                    ![w].steps = run[me.run].steps]
    /\ UNCHANGED <<automation, run, queue, request, history, jobVars>>

\* ... and the step's flush takes the lock of the row.
Enter(w) ==
    LET r == worker[w].run IN
    /\ worker[w].pc = "enter"
    /\ \A v \in Workers : ~LockedBy(r, v)
    /\ worker' = [worker EXCEPT ![w].pc = "node"]
    /\ history' = [history EXCEPT ![r].begun = @ + 1,
                     ![r].after = IF run[r].cancel THEN @ + 1 ELSE @]
    /\ UNCHANGED <<automation, run, queue, request, jobVars>>

\* send_text_message stores and commits its row before it calls the provider.
SendCommits(w) ==
    LET me == worker[w] IN
    /\ me.pc = "node" /\ me.graph.kind[me.node] = "send"
    /\ worker' = [worker EXCEPT ![w].pc = "sent"]
    /\ UNCHANGED <<automation, run, queue, request, history, jobVars>>

\* The node's successors: the edges of the branch taken, none after a stop.
Follow(g, n) ==
    CASE g.kind[n] = "condition" -> {g.next[n], g.other[n]}
      [] g.kind[n] = "stop" -> {<<>>}
      [] OTHER -> {g.next[n]}

AtWork(w) ==
    LET kind == worker[w].graph.kind[worker[w].node] IN
    \/ worker[w].pc = "node" /\ kind \notin {"send", "long"}
    \/ worker[w].pc = "sent" /\ \A v \in Workers : ~LockedBy(worker[w].run, v)

\* The node is done: the step, the count and the context, in one commit.
Complete(w) ==
    LET me == worker[w] IN
    /\ AtWork(w) /\ me.graph.kind[me.node] # "alien"
    /\ run' = [run EXCEPT ![me.run].steps = me.steps + 1]
    /\ history' = [history EXCEPT ![me.run].done = @ \cup {me.node}]
    /\ \E S \in Follow(me.graph, me.node) :
         worker' = [worker EXCEPT ![w].pc = "loop", ![w].todo = @ \o S,
                      ![w].node = NoNode, ![w].steps = me.steps + 1]
    /\ UNCHANGED <<automation, queue, request, jobVars>>

\* An action raises, or a short delay outlasts the deadline.
NodeFails(w) ==
    LET me == worker[w]
        kind == me.graph.kind[me.node]
    IN
    /\ AtWork(w)
    /\ \/ kind \in {"send", "action"} /\ "action" \in RunFaults
       \/ kind = "short" /\ run[me.run].late
       \/ kind = "alien"
    /\ EndRun(w, "failed")

\* A long delay: its step is committed, ...
CompleteDelay(w) ==
    LET me == worker[w] IN
    /\ me.pc = "node" /\ me.graph.kind[me.node] = "long"
    /\ run' = [run EXCEPT ![me.run].steps = me.steps + 1]
    /\ history' = [history EXCEPT ![me.run].done = @ \cup {me.node},
                     ![me.run].cut = @ \/ me.todo # <<>>]
    /\ worker' = [worker EXCEPT ![w].pc = "park"]
    /\ UNCHANGED <<automation, queue, request, jobVars>>

\* ... then WAITING with the delay's own successors, ...
Park(w) ==
    LET me == worker[w] IN
    /\ me.pc = "park"
    /\ \A v \in Workers : ~LockedBy(me.run, v)
    /\ run' = [run EXCEPT ![me.run].status = Written(me.run, me.seen, "waiting"),
                          ![me.run].resume = me.graph.next[me.node]]
    /\ worker' = [worker EXCEPT ![w].pc = "schedule"]
    /\ UNCHANGED <<automation, queue, request, history, jobVars>>

\* ... then the job that will wake it.
ScheduleResume(w, j) ==
    /\ worker[w].pc = "schedule"
    /\ ScheduleJob(j, worker[w].run)
    /\ worker' = [worker EXCEPT ![w] = IdleWorker]
    /\ UNCHANGED <<automation, run, queue, request, history>>

Succeed(w) ==
    /\ worker[w].pc = "loop" /\ worker[w].todo = <<>>
    /\ \A v \in Workers : ~LockedBy(worker[w].run, v)
    /\ EndRun(w, "succeeded")

\* The process dies; or the database fails a read, a flush or a commit: the
\* except branch commits without a rollback, which raises again, and the row stays
\* as it was last committed.  The message is gone either way.
WorkerCrash(w) ==
    /\ "worker" \in RunFaults /\ worker[w].pc # "idle"
    /\ worker' = [worker EXCEPT ![w] = IdleWorker]
    /\ history' = [history EXCEPT ![worker[w].run].lost = TRUE]
    /\ UNCHANGED <<automation, run, queue, request, jobVars>>

WorkerStep(w) ==
    \/ Begin(w) \/ Refuse(w) \/ Guard(w) \/ Enter(w) \/ SendCommits(w)
    \/ Complete(w) \/ NodeFails(w) \/ CompleteDelay(w) \/ Park(w) \/ Succeed(w)
    \/ \E j \in JobIds : ScheduleResume(w, j)

-----------------------------------------------------------------------------
(* The scheduler, and time *)

\* _handle_job for "automation.resume" dispatches the run.
HandleResume(t, j) ==
    /\ HandleJob(t, j)
    /\ queue' = [queue EXCEPT ![jobs[j].target] = @ + 1]
    /\ UNCHANGED <<automation, run, worker, request, history>>

TickStep(t) ==
    \/ \E j \in JobIds : HandleResume(t, j)
    \/ \E j \in JobIds : HandlerRaises(t, j) /\ UNCHANGED runVars
    \/ RecordJob(t) /\ UNCHANGED runVars

DeadlinePasses(r) ==
    /\ run[r].status \notin Finished \cup {"absent"} /\ ~run[r].late
    /\ run' = [run EXCEPT ![r].late = TRUE]
    /\ UNCHANGED <<automation, queue, worker, request, history, jobVars>>

Next ==
    \/ \E q \in Requests : \/ \E op \in Ops : ReadAutomation(q, op)
                           \/ \E r \in Runs : ReadCancel(q, r)
                           \/ RequestStep(q) \/ RequestCrash(q)
    \/ \E w \in Workers : \/ \E r \in Runs : Receive(w, r)
                          \/ WorkerStep(w) \/ WorkerCrash(w)
    \/ \E t \in Ticks : \/ TickStep(t)
                        \/ ClaimDueJobs(t) /\ UNCHANGED runVars
                        \/ TickCrash(t) /\ UNCHANGED runVars
    \/ \E j \in JobIds : JobComesDue(j) /\ UNCHANGED runVars
    \/ \E r \in Runs : DeadlinePasses(r)

Spec == Init /\ [][Next]_vars

\* The workers that consume "automations" go on and Celery delivers to one of
\* them.  Nobody has to send a request, and the beat task run_due_jobs need not
\* run: its queue is not one that the deployed worker consumes (celery_app.py:31-35,
\* compose.yaml:35).
FairSpec ==
    /\ Spec
    /\ \A w \in Workers : WF_vars(WorkerStep(w))
    /\ \A r \in Runs : SF_vars(\E w \in Workers : Receive(w, r))

-----------------------------------------------------------------------------
(* Properties *)

\* A run is in one pair of hands: its request's, the broker's, a worker's, or a
\* job's.  Nothing claims a run before executing it, so this is all that keeps
\* two workers from doing its actions twice.
Hands(r) ==
    {<<"request", q>> : q \in {x \in Requests : request[x].pc = "dispatch" /\ request[x].run = r}}
      \cup {<<"worker", w>> : w \in {x \in Workers : worker[x].run = r}}
      \cup {<<"job", j>> : j \in {x \in JobIds :
               /\ jobs[x].target = r /\ fired[x] = 0
               /\ jobs[x].status \in {"pending", "claimed"}}}
OneExecutor ==
    \A r \in Runs : Cardinality(Hands(r)) + queue[r] <= 1

\* _guard bounds a run: whatever it resumes, restarts or loops through, it begins
\* at most max_steps nodes.  Nothing else does, for an edit may put any graph
\* under a run and a status into an automation whose graph no one validated.
StepsWithinBudget ==
    \A r \in Runs : history[r].begun <= run[r].max

\* After a cancellation is stored at most the node that had already passed its
\* guard is still executed.
CancelledStops == \A r \in Runs : history[r].after <= 1

\* seen holds a trigger, and what every done node leads to by one of its branches.
LeadsOn(g, done, seen) ==
    /\ Triggers(g) \cap seen # {}
    /\ \A n \in done : \/ g.kind[n] = "stop"
                      \/ Elements(g.next[n]) \subseteq seen
                      \/ /\ g.kind[n] = "condition"
                         /\ Elements(g.other[n]) \subseteq seen

\* A run that SUCCEEDED did every node its branches led to, also across long
\* delays, unless its graph was edited under it or a long delay was reached
\* while nodes of another branch were still queued.
SucceededIsComplete ==
    \A r \in Runs : run[r].status = "succeeded" /\ ~history[r].cut =>
       LeadsOn(history[r].graph, history[r].done, history[r].done)

Life == INSTANCE RunLife WITH
    stage <- [r \in Runs |-> run[r].status],
    limit <- [r \in Runs |-> run[r].max],
    begun <- [r \in Runs |-> history[r].begun],
    asked <- [r \in Runs |-> run[r].cancel]

\* A run lives as RunLife says: a node is begun only by a run that is RUNNING, and
\* a run that ended stays as it ended, although the task's last commit and the
\* one that starts it write a status without looking at the row's.
LivesOnce == Life!Spec

\* The run waits, and a job that was not handled yet will wake it.
Parked(r) ==
    /\ run[r].status = "waiting"
    /\ \E j \in JobIds : /\ jobs[j].target = r /\ fired[j] = 0
                         /\ jobs[j].status \in {"pending", "claimed"}

\* A run the broker has a message for is brought to an end, a graph that loops
\* included, or to a long delay with the job that ends it stored; all that can
\* strand it is that its worker dies or loses the database.
RunsFinish ==
    \A r \in Runs :
        queue[r] > 0 ~> run[r].status \in Finished \/ Parked(r) \/ history[r].lost
=============================================================================

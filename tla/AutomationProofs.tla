-------------------------- MODULE AutomationProofs --------------------------
(***************************************************************************)
(* What holds of Automation for any number of graphs, runs, workers,       *)
(* requests, ticks and jobs, any limits and every fault.                   *)
(***************************************************************************)
EXTENDS Automation, FiniteSetTheorems, TLAPS

(* Where each process is *)

AtNode == {"enter", "node", "sent", "park", "schedule"}

\* What the local variables hold at each place of the code.
Places ==
    /\ \A w \in Workers :
         /\ IF worker[w].pc = "idle" THEN worker[w] = IdleWorker
                                     ELSE worker[w].run \in Runs
         /\ worker[w].pc \in AtNode => worker[w].node \in Nodes
    /\ \A q \in Requests :
         /\ request[q].pc = "idle" => request[q] = IdleRequest
         /\ request[q].pc = "dispatch" \/ (request[q].pc = "write" /\ request[q].op = "cancel")
            => request[q].run \in Runs

\* A job is in the hands of the one tick that claimed it, if at all.
Tickets ==
    /\ \A j \in JobIds :
         /\ jobs[j].status # "absent" => jobs[j].target \in Runs
         /\ jobs[j].status = "pending" => jobs[j].attempts < MaxAttempts
         /\ jobs[j].status \in {"absent", "pending"} => fired[j] = 0
    /\ \A t \in Ticks :
         /\ tick[t].cur \notin tick[t].todo
         /\ \A j \in tick[t].todo : jobs[j].status = "claimed" /\ fired[j] = 0
         /\ tick[t].cur # NoJob =>
              /\ jobs[tick[t].cur].status = "claimed"
              /\ tick[t].raised <=> fired[tick[t].cur] = 0
         /\ \A u \in Ticks \ {t} : \A j \in tick[t].todo \cup {tick[t].cur} :
              j # NoJob => j \notin tick[u].todo \cup {tick[u].cur}

Typed == TypeOK /\ Places /\ Tickets

-----------------------------------------------------------------------------
(* Values of the right type *)

LEMMA IdleTypes ==
  /\ IdleWorker \in Worker /\ IdleRequest \in Request /\ IdleTick \in Tick
  /\ NewRow \in Row /\ NewJob \in Job
  /\ IdleWorker.pc = "idle" /\ IdleWorker.run = NoRun
  /\ IdleRequest.pc = "idle" /\ IdleRequest.run = NoRun
  /\ IdleTick.todo = {} /\ IdleTick.cur = NoJob
  /\ NewJob.status = "absent" /\ NewJob.attempts = 0
<1>1. <<>> \in Seq(Nodes) /\ 0 \in 0..MaxAttempts
  BY JobAssumption
<1> QED BY <1>1, GraphAssumption
        DEF IdleWorker, Worker, WorkerPc, IdleRequest, Request, IdleTick, Tick,
            NewRow, Row, NewJob, Job, JobStatus, RunStatus, AutomationStatus

LEMMA GraphType ==
  ASSUME NEW g \in Graphs, NEW n \in Nodes
  PROVE  /\ g.next[n] \in Seq(Nodes) /\ g.other[n] \in Seq(Nodes)
         /\ g.nodes \subseteq Nodes
         /\ Triggers(g) \subseteq Nodes
         /\ Follow(g, n) \subseteq Seq(Nodes)
<1>1. /\ g.next \in [Nodes -> Seq(Nodes)] /\ g.other \in [Nodes -> Seq(Nodes)]
      /\ g.nodes \subseteq Nodes
  BY GraphAssumption DEF GraphShape
<1>2. Follow(g, n) \in {{g.next[n], g.other[n]}, {<<>>}, {g.next[n]}}
  BY Zenon DEF Follow
<1>3. <<>> \in Seq(Nodes) /\ g.next[n] \in Seq(Nodes) /\ g.other[n] \in Seq(Nodes)
  BY <1>1
<1>4. Follow(g, n) \subseteq Seq(Nodes)
  BY <1>2, <1>3
<1> QED BY <1>1, <1>3, <1>4 DEF Triggers

LEMMA BudgetType == ASSUME NEW g \in Graphs PROVE Budget(g) \in Nat
<1>1. Cardinality(g.nodes) \in Nat
  BY GraphAssumption, FS_CardinalityType
<1> QED BY <1>1, StepAssumption DEF Budget

LEMMA WrittenType ==
  ASSUME TypeOK, NEW r \in Runs, NEW seen, NEW status \in RunStatus
  PROVE  Written(r, seen, status) \in RunStatus
  BY DEF TypeOK, Written, Row

LEMMA StatusType ==
  ASSUME TypeOK, NEW seen, NEW status \in AutomationStatus
  PROVE  Status(seen, status) \in AutomationStatus
  BY DEF TypeOK, Status

-----------------------------------------------------------------------------
(* Steps of the scheduler *)

LEMMA ScheduleTickets ==
  ASSUME Typed, NEW j \in JobIds, NEW r \in Runs, ScheduleJob(j, r)
  PROVE  JobsTypeOK' /\ Tickets'
<1>1. /\ jobs \in [JobIds -> Job] /\ tick \in [Ticks -> Tick]
      /\ fired \in [JobIds -> 0..2]
  BY DEF Typed, TypeOK, JobsTypeOK
<1> DEFINE new == [NewJob EXCEPT !.status = "pending", !.target = r]
<1>2. new \in Job /\ new.status = "pending" /\ new.target = r /\ new.attempts = 0
  BY IdleTypes, RunAssumption DEF Job, JobStatus
<1>3. /\ jobs' = [jobs EXCEPT ![j] = new] /\ UNCHANGED <<tick, fired>>
      /\ jobs[j].status = "absent"
  BY DEF ScheduleJob, FreeJob
<1> HIDE DEF new
<1>4. jobs'[j] = new /\ \A i \in JobIds : i # j => jobs'[i] = jobs[i]
  BY <1>1, <1>3
<1>5. JobsTypeOK'
  BY <1>1, <1>2, <1>3 DEF JobsTypeOK
<1>6. Tickets'
  BY <1>1, <1>2, <1>3, <1>4, JobAssumption DEF Typed, Tickets, Tick
<1> QED BY <1>5, <1>6

LEMMA DueTickets ==
  ASSUME Typed, NEW j \in JobIds, JobComesDue(j)
  PROVE  JobsTypeOK' /\ Tickets'
<1>0. jobs \in [JobIds -> Job] /\ tick \in [Ticks -> Tick] /\ fired \in [JobIds -> 0..2]
  BY DEF Typed, TypeOK, JobsTypeOK
<1>1. /\ jobs' \in [JobIds -> Job] /\ UNCHANGED <<tick, fired>>
      /\ \A i \in JobIds : /\ jobs'[i].status = jobs[i].status
                           /\ jobs'[i].target = jobs[i].target
                           /\ jobs'[i].attempts = jobs[i].attempts
  <2> DEFINE row == [jobs[j] EXCEPT !.due = TRUE]
  <2>1. /\ row \in Job /\ row.status = jobs[j].status
        /\ row.target = jobs[j].target /\ row.attempts = jobs[j].attempts
    BY <1>0 DEF Job
  <2>2. jobs' = [jobs EXCEPT ![j] = row] /\ UNCHANGED <<tick, fired>>
    BY <1>0 DEF JobComesDue
  <2> HIDE DEF row
  <2> QED BY <1>0, <2>1, <2>2
<1>2. JobsTypeOK'
  BY <1>0, <1>1 DEF JobsTypeOK
<1>3. \A u \in Ticks : /\ tick[u].todo \subseteq JobIds
                       /\ tick[u].cur # NoJob => tick[u].cur \in JobIds
  BY <1>0 DEF Tick
<1>4. Tickets'
  BY <1>1, <1>3 DEF Typed, Tickets
<1> QED BY <1>2, <1>4

LEMMA TickTickets ==
  ASSUME Typed, NEW t \in Ticks,
         \/ \E j \in JobIds : HandleJob(t, j) \/ HandlerRaises(t, j)
         \/ RecordJob(t) \/ ClaimDueJobs(t) \/ TickCrash(t)
  PROVE  JobsTypeOK' /\ Tickets'
<1>1. /\ jobs \in [JobIds -> Job] /\ tick \in [Ticks -> Tick]
      /\ fired \in [JobIds -> 0..2] /\ tick[t] \in Tick
  BY DEF Typed, TypeOK, JobsTypeOK
<1>2. ASSUME NEW j \in JobIds, HandleJob(t, j) PROVE JobsTypeOK' /\ Tickets'
  <2> DEFINE me == [tick[t] EXCEPT !.cur = j, !.todo = @ \ {j}, !.raised = FALSE]
  <2>1. /\ me \in Tick /\ me.cur = j /\ me.todo = tick[t].todo \ {j} /\ ~me.raised
    BY <1>1 DEF Tick
  <2>2. tick' = [tick EXCEPT ![t] = me]
    BY <1>1, <1>2 DEF HandleJob
  <2> HIDE DEF me
  <2>3. tick'[t] = me /\ \A u \in Ticks : u # t => tick'[u] = tick[u]
    BY <1>1, <2>2
  <2> DEFINE once == IF fired[j] = 2 THEN 2 ELSE fired[j] + 1
  <2>a. once \in 0..2 /\ once # 0
    BY <1>1
  <2>b. fired' = [fired EXCEPT ![j] = once]
    BY <1>1, <1>2 DEF HandleJob
  <2> HIDE DEF once
  <2>4. /\ fired' \in [JobIds -> 0..2] /\ fired'[j] # 0 /\ UNCHANGED jobs
        /\ \A i \in JobIds : i # j => fired'[i] = fired[i]
        /\ j \in tick[t].todo /\ tick[t].cur = NoJob
    BY <1>1, <1>2, <2>a, <2>b DEF HandleJob
  <2>5. JobsTypeOK'
    BY <1>1, <2>1, <2>2, <2>4 DEF JobsTypeOK
  <2>6. Tickets'
    <3>1. /\ jobs[j].status = "claimed"
          /\ \A u \in Ticks \ {t} : j \notin tick[u].todo /\ tick[u].cur # j
      BY <2>4, JobAssumption DEF Typed, Tickets
    <3>2. \A i \in JobIds :
            /\ jobs'[i].status # "absent" => jobs'[i].target \in Runs
            /\ jobs'[i].status = "pending" => jobs'[i].attempts < MaxAttempts
            /\ jobs'[i].status \in {"absent", "pending"} => fired'[i] = 0
      BY <2>4, <3>1 DEF Typed, Tickets
    <3>3. \A u \in Ticks \ {t} :
             /\ tick'[u].cur \notin tick'[u].todo
             /\ \A i \in tick'[u].todo : jobs'[i].status = "claimed" /\ fired'[i] = 0
             /\ tick'[u].cur # NoJob =>
                  /\ jobs'[tick'[u].cur].status = "claimed"
                  /\ tick'[u].raised <=> fired'[tick'[u].cur] = 0
      <4>1. \A u \in Ticks : /\ tick[u].todo \subseteq JobIds
                             /\ tick[u].cur # NoJob => tick[u].cur \in JobIds
        BY <1>1 DEF Tick
      <4> QED BY <4>1, <2>3, <2>4, <3>1 DEF Typed, Tickets
    <3>4. /\ tick'[t].cur \notin tick'[t].todo
          /\ \A i \in tick'[t].todo : jobs'[i].status = "claimed" /\ fired'[i] = 0
          /\ jobs'[tick'[t].cur].status = "claimed"
          /\ tick'[t].raised <=> fired'[tick'[t].cur] = 0
      <4>1. tick[t].todo \subseteq JobIds
        BY <1>1 DEF Tick
      <4> QED BY <4>1, <2>1, <2>3, <2>4, <3>1 DEF Typed, Tickets
    <3>5. \A u \in Ticks : \A v \in Ticks \ {u} :
             \A i \in tick'[u].todo \cup {tick'[u].cur} :
              i # NoJob => i \notin tick'[v].todo \cup {tick'[v].cur}
      BY <2>1, <2>3, <2>4, <3>1 DEF Typed, Tickets
    <3> QED BY <3>2, <3>3, <3>4, <3>5 DEF Tickets
  <2> QED BY <2>5, <2>6
<1>3. ASSUME NEW j \in JobIds, HandlerRaises(t, j) PROVE JobsTypeOK' /\ Tickets'
  <2> DEFINE me == [tick[t] EXCEPT !.cur = j, !.todo = @ \ {j}, !.raised = TRUE]
  <2>1. /\ me \in Tick /\ me.cur = j /\ me.todo = tick[t].todo \ {j} /\ me.raised
    BY <1>1 DEF Tick
  <2>2. tick' = [tick EXCEPT ![t] = me]
    BY <1>1, <1>3 DEF HandlerRaises
  <2> HIDE DEF me
  <2>3. tick'[t] = me /\ \A u \in Ticks : u # t => tick'[u] = tick[u]
    BY <1>1, <2>2
  <2>4. /\ UNCHANGED <<jobs, fired>>
        /\ j \in tick[t].todo /\ tick[t].cur = NoJob
    BY <1>1, <1>3 DEF HandlerRaises
  <2>5. JobsTypeOK'
    BY <1>1, <2>1, <2>2, <2>4 DEF JobsTypeOK
  <2>6. Tickets'
    BY <1>1, <2>1, <2>3, <2>4, JobAssumption DEF Typed, Tickets, Tick
  <2> QED BY <2>5, <2>6
<1>4. CASE RecordJob(t)
  <2> DEFINE j == tick[t].cur
             me == [tick[t] EXCEPT !.cur = NoJob, !.raised = FALSE]
             row == [jobs[j] EXCEPT !.status = Result(j, tick[t].raised)]
  <2>1. /\ me \in Tick /\ me.cur = NoJob /\ me.todo = tick[t].todo
    BY <1>1 DEF Tick
  <2>2. j \in JobIds /\ j # NoJob
    BY <1>1, <1>4 DEF RecordJob, Tick
  <2>3. /\ row \in Job /\ row.status \in {"pending", "completed", "failed"}
        /\ row.status = "pending" => row.attempts < MaxAttempts /\ tick[t].raised
        /\ row.target = jobs[j].target
    BY <1>1, <2>2, JobAssumption DEF Job, JobStatus, Result
  <2>4. tick' = [tick EXCEPT ![t] = me] /\ jobs' = [jobs EXCEPT ![j] = row]
        /\ UNCHANGED fired
    BY <1>1, <1>4 DEF RecordJob
  <2>5. jobs[j].status = "claimed" /\ (tick[t].raised <=> fired[j] = 0)
    BY <2>2 DEF Typed, Tickets
  <2> HIDE DEF me, row
  <2>6. /\ tick'[t] = me /\ \A u \in Ticks : u # t => tick'[u] = tick[u]
        /\ jobs'[j] = row /\ \A i \in JobIds : i # j => jobs'[i] = jobs[i]
    BY <1>1, <2>2, <2>4
  <2>7. JobsTypeOK'
    BY <1>1, <2>1, <2>2, <2>3, <2>4 DEF JobsTypeOK
  <2>8. Tickets'
    <3>1. \A i \in JobIds :
            /\ jobs'[i].status # "absent" => jobs'[i].target \in Runs
            /\ jobs'[i].status = "pending" => jobs'[i].attempts < MaxAttempts
            /\ jobs'[i].status \in {"absent", "pending"} => fired'[i] = 0
      BY <2>2, <2>3, <2>4, <2>5, <2>6 DEF Typed, Tickets
    <3>2. \A u \in Ticks : \A i \in tick'[u].todo : i # j
      BY <1>1, <2>1, <2>2, <2>6 DEF Typed, Tickets
    <3>3. \A u \in Ticks : tick'[u].cur # j
      BY <1>1, <2>1, <2>2, <2>6 DEF Typed, Tickets
    <3>4. \A u \in Ticks : /\ tick'[u].todo = tick[u].todo
                           /\ tick'[u].cur # NoJob => tick'[u] = tick[u]
      BY <2>1, <2>6
    <3>5. \A u \in Ticks : tick'[u].cur \notin tick'[u].todo
      BY <1>1, <2>1, <2>6, JobAssumption DEF Typed, Tickets, Tick
    <3>6. \A u \in Ticks : \A i \in tick'[u].todo :
             jobs'[i].status = "claimed" /\ fired'[i] = 0
      BY <1>1, <2>4, <2>6, <3>2, <3>4 DEF Typed, Tickets, Tick
    <3>7. \A u \in Ticks : tick'[u].cur # NoJob =>
              /\ jobs'[tick'[u].cur].status = "claimed"
              /\ tick'[u].raised <=> fired'[tick'[u].cur] = 0
      BY <1>1, <2>4, <2>6, <3>3, <3>4 DEF Typed, Tickets, Tick
    <3>8. \A u \in Ticks : \A v \in Ticks \ {u} :
             \A i \in tick'[u].todo \cup {tick'[u].cur} :
              i # NoJob => i \notin tick'[v].todo \cup {tick'[v].cur}
      BY <1>1, <3>4, <2>1, <2>6 DEF Typed, Tickets
    <3> QED BY <3>1, <3>5, <3>6, <3>7, <3>8 DEF Tickets
  <2> QED BY <2>7, <2>8
<1>5. CASE ClaimDueJobs(t)
  <2>1. PICK S \in Claims :
          /\ tick' = [tick EXCEPT ![t].todo = S]
          /\ jobs' = [j \in JobIds |->
                        IF j \in S THEN [jobs[j] EXCEPT !.status = "claimed",
                                                        !.attempts = @ + 1]
                        ELSE jobs[j]]
    BY <1>5 DEF ClaimDueJobs
  <2>2. S \subseteq JobIds /\ \A j \in S : jobs[j].status = "pending"
    BY DEF Claims, Due
  <2>3. UNCHANGED fired /\ tick[t].todo = {} /\ tick[t].cur = NoJob
    BY <1>5 DEF ClaimDueJobs
  <2>4. /\ tick' \in [Ticks -> Tick] /\ tick'[t].todo = S /\ tick'[t].cur = NoJob
        /\ \A u \in Ticks : u # t => tick'[u] = tick[u]
    BY <1>1, <2>1, <2>2, <2>3 DEF Tick
  <2>5. \A j \in JobIds :
          IF j \in S THEN /\ jobs'[j] \in Job /\ jobs'[j].status = "claimed"
                          /\ jobs'[j].target = jobs[j].target
          ELSE jobs'[j] = jobs[j]
    <3>1. ASSUME NEW j \in S
          PROVE  /\ jobs'[j] \in Job /\ jobs'[j].status = "claimed"
                 /\ jobs'[j].target = jobs[j].target
      <4>1. /\ jobs[j] \in Job /\ jobs[j].attempts + 1 \in 0..MaxAttempts
        BY <1>1, <2>2, JobAssumption DEF Job, Typed, Tickets
      <4>2. jobs'[j] = [jobs[j] EXCEPT !.status = "claimed", !.attempts = @ + 1]
        BY <2>1, <2>2
      <4> QED BY <4>1, <4>2 DEF Job, JobStatus
    <3> QED BY <3>1, <2>1
  <2>6. jobs' \in [JobIds -> Job]
    BY <1>1, <2>1, <2>5
  <2>7. JobsTypeOK'
    BY <1>1, <2>3, <2>4, <2>6 DEF JobsTypeOK
  <2>8. Tickets'
    <3>1. \A j \in JobIds :
            /\ jobs'[j].status # "absent" => jobs'[j].target \in Runs
            /\ jobs'[j].status = "pending" => jobs'[j].attempts < MaxAttempts
            /\ jobs'[j].status \in {"absent", "pending"} => fired'[j] = 0
      BY <2>2, <2>3, <2>5 DEF Typed, Tickets
    <3>2. \A u \in Ticks \ {t} : /\ tick[u].todo \cap S = {} /\ tick[u].cur \notin S
                                 /\ tick[u].todo \subseteq JobIds
      BY <1>1, <2>2, JobAssumption DEF Typed, Tickets, Tick
    <3>3. \A j \in S : fired'[j] = 0 /\ j # NoJob
      BY <2>2, <2>3, JobAssumption DEF Typed, Tickets
    <3>4. \A u \in Ticks \ {t} :
             /\ tick'[u].cur \notin tick'[u].todo
             /\ \A j \in tick'[u].todo : jobs'[j].status = "claimed" /\ fired'[j] = 0
             /\ tick'[u].cur # NoJob =>
                  /\ jobs'[tick'[u].cur].status = "claimed"
                  /\ tick'[u].raised <=> fired'[tick'[u].cur] = 0
      <4>1. \A u \in Ticks \ {t} : tick[u].cur # NoJob => tick[u].cur \in JobIds
        BY <1>1 DEF Tick
      <4> QED BY <4>1, <2>3, <2>4, <2>5, <3>2 DEF Typed, Tickets
    <3>5. /\ tick'[t].cur \notin tick'[t].todo
          /\ \A j \in tick'[t].todo : jobs'[j].status = "claimed" /\ fired'[j] = 0
      BY <2>2, <2>4, <2>5, <3>3
    <3>6. \A u \in Ticks : \A v \in Ticks \ {u} :
             \A i \in tick'[u].todo \cup {tick'[u].cur} :
              i # NoJob => i \notin tick'[v].todo \cup {tick'[v].cur}
      BY <2>4, <3>2, <3>3 DEF Typed, Tickets
    <3> QED BY <3>1, <3>4, <3>5, <3>6, <2>4 DEF Tickets
  <2> QED BY <2>7, <2>8
<1>6. CASE TickCrash(t)
  <2>1. tick' = [tick EXCEPT ![t] = IdleTick] /\ UNCHANGED <<jobs, fired>>
    BY <1>6 DEF TickCrash
  <2>2. tick'[t] = IdleTick /\ \A u \in Ticks : u # t => tick'[u] = tick[u]
    BY <1>1, <2>1
  <2>3. JobsTypeOK'
    BY <1>1, <2>1, IdleTypes DEF JobsTypeOK
  <2>4. Tickets'
    BY <2>1, <2>2, IdleTypes DEF Typed, Tickets
  <2> QED BY <2>3, <2>4
<1> QED BY <1>2, <1>3, <1>4, <1>5, <1>6

-----------------------------------------------------------------------------
(* Steps of the requests *)

LEMMA Shapes ==
  ASSUME Typed
  PROVE  /\ automation \in [status : AutomationStatus, graph : Graphs]
         /\ automation.graph \in Graphs /\ automation.status \in AutomationStatus
         /\ run \in [Runs -> Row] /\ \A r \in Runs : run[r] \in Row
         /\ queue \in [Runs -> Nat]
         /\ worker \in [Workers -> Worker] /\ \A w \in Workers : worker[w] \in Worker
         /\ request \in [Requests -> Request]
         /\ \A q \in Requests : request[q] \in Request
         /\ history \in [Runs -> History] /\ \A r \in Runs : history[r] \in History
         /\ JobsTypeOK /\ Tickets /\ Places
  BY DEF Typed, TypeOK

LEMMA RequestGoes ==
  ASSUME Typed, NEW q \in Requests, NEW me \in Request,
         request' = [request EXCEPT ![q] = me],
         me.pc = "idle" => me = IdleRequest,
         me.pc = "dispatch" \/ (me.pc = "write" /\ me.op = "cancel") => me.run \in Runs
  PROVE  /\ request' \in [Requests -> Request]
         /\ request'[q] = me /\ \A p \in Requests : p # q => request'[p] = request[p]
         /\ worker' = worker => Places'
  BY Shapes DEF Places

LEMMA RequestRests ==
  ASSUME Typed, NEW q \in Requests, request' = [request EXCEPT ![q] = IdleRequest]
  PROVE  /\ request' \in [Requests -> Request]
         /\ request'[q] = IdleRequest
         /\ \A p \in Requests : p # q => request'[p] = request[p]
         /\ worker' = worker => Places'
  BY RequestGoes, IdleTypes

LEMMA ReadTyped ==
  ASSUME Typed, NEW q \in Requests,
         \/ \E op \in Ops : ReadAutomation(q, op)
         \/ \E r \in Runs : ReadCancel(q, r)
  PROVE  Typed' /\ request'[q].pc = "write"
         /\ \A p \in Requests : p # q => request'[p] = request[p]
<1>1. ASSUME NEW op \in Ops, ReadAutomation(q, op)
      PROVE  /\ request' \in [Requests -> Request] /\ Places' /\ request'[q].pc = "write"
             /\ \A p \in Requests : p # q => request'[p] = request[p]
  <2> DEFINE me == [IdleRequest EXCEPT !.op = op, !.pc = "write",
                      !.seen = automation.status, !.graph = automation.graph]
  <2>1. op \in {"edit", "publish", "pause", "test", "event"}
    BY <1>1 DEF ReadAutomation
  <2>2. me \in Request /\ me.pc = "write" /\ me.op # "cancel"
    BY <2>1, IdleTypes, Shapes DEF Request, IdleRequest
  <2>3. request' = [request EXCEPT ![q] = me] /\ worker' = worker
    BY <1>1 DEF ReadAutomation
  <2> HIDE DEF me
  <2> QED BY <2>2, <2>3, RequestGoes
<1>2. ASSUME NEW r \in Runs, ReadCancel(q, r)
      PROVE  /\ request' \in [Requests -> Request] /\ Places' /\ request'[q].pc = "write"
             /\ \A p \in Requests : p # q => request'[p] = request[p]
  <2> DEFINE me == [IdleRequest EXCEPT !.op = "cancel", !.pc = "write", !.run = r]
  <2>1. me \in Request /\ me.pc = "write" /\ me.run = r
    BY IdleTypes DEF Request, IdleRequest
  <2>2. request' = [request EXCEPT ![q] = me] /\ worker' = worker
    BY <1>2 DEF ReadCancel
  <2> HIDE DEF me
  <2> QED BY <2>1, <2>2, RequestGoes
<1>3. UNCHANGED <<automation, run, queue, worker, history, jobs, tick, fired>>
  BY DEF ReadAutomation, ReadCancel, jobVars
<1> QED BY <1>1, <1>2, <1>3 DEF Typed, TypeOK, JobsTypeOK, Tickets

LEMMA EditTyped ==
  ASSUME Typed, NEW q \in Requests,
         EditGraph(q) \/ EditStatus(q) \/ PublishAutomation(q) \/ PauseAutomation(q)
  PROVE  /\ Typed'
         /\ request' = [request EXCEPT ![q] = IdleRequest]
         /\ UNCHANGED <<run, queue, worker, jobs, tick, fired>>
         /\ \A r \in Runs : /\ history'[r].begun = history[r].begun
                            /\ history'[r].after = history[r].after
<1>1. /\ request' = [request EXCEPT ![q] = IdleRequest]
      /\ UNCHANGED <<run, queue, worker, jobs, tick, fired>>
  BY DEF EditGraph, EditStatus, PublishAutomation, PauseAutomation, jobVars
<1>2. /\ request' \in [Requests -> Request] /\ Places'
  BY <1>1, RequestRests
<1>3. automation' \in [status : AutomationStatus, graph : Graphs]
  <2>1. ASSUME NEW g \in Graphs, NEW status \in {request[q].seen} \cup AutomationStatus
        PROVE  Status(request[q].seen, IF status = "active" THEN "draft" ELSE status)
                 \in AutomationStatus
    <3>1. request[q].seen \in AutomationStatus
      BY Shapes DEF Request
    <3> QED BY <3>1, StatusType DEF Typed, AutomationStatus
  <2>2. CASE EditGraph(q)
    BY <2>1, <2>2 DEF EditGraph
  <2>3. ASSUME NEW status \in AutomationStatus,
               automation' = [automation EXCEPT !.status = Status(request[q].seen, status)]
        PROVE  automation' \in [status : AutomationStatus, graph : Graphs]
    BY <2>3, StatusType, Shapes DEF Typed
  <2>4. "active" \in AutomationStatus /\ "paused" \in AutomationStatus
    BY DEF AutomationStatus
  <2> QED BY <2>2, <2>3, <2>4 DEF EditStatus, PublishAutomation, PauseAutomation
<1>4. /\ history' \in [Runs -> History]
      /\ \A r \in Runs : /\ history'[r].begun = history[r].begun
                         /\ history'[r].after = history[r].after
  <2>1. ASSUME NEW g
        PROVE  /\ Touched(g) \in [Runs -> History]
               /\ \A r \in Runs : /\ Touched(g)[r].begun = history[r].begun
                                  /\ Touched(g)[r].after = history[r].after
    BY Shapes DEF Touched, History
  <2>2. history' = history \/ \E g \in Graphs : history' = Touched(g)
    BY DEF EditGraph, EditStatus, PublishAutomation, PauseAutomation
  <2> QED BY <2>1, <2>2, Shapes
<1> QED BY <1>1, <1>2, <1>3, <1>4 DEF Typed, TypeOK, JobsTypeOK, Tickets

LEMMA CreateTyped ==
  ASSUME Typed, NEW q \in Requests, NEW r \in Runs, CreateRun(q, r)
  PROVE  /\ Typed'
         /\ request[q].pc = "write" /\ request[q].op # "cancel"
         /\ request'[q].pc = "dispatch" /\ request'[q].run = r
         /\ \A p \in Requests : p # q => request'[p] = request[p]
         /\ run[r].status = "absent" /\ run'[r].status = "queued"
         /\ run'[r].steps = 0 /\ run'[r].max \in Nat /\ ~run'[r].cancel
         /\ \A x \in Runs : x # r => run'[x] = run[x]
         /\ \A x \in Runs : /\ history'[x].begun = history[x].begun
                            /\ history'[x].after = history[x].after
         /\ UNCHANGED <<queue, worker, jobs, tick, fired>>
<1> DEFINE me == [request[q] EXCEPT !.pc = "dispatch", !.run = r]
           row == [NewRow EXCEPT !.status = "queued", !.max = Budget(request[q].graph)]
           past == [history[r] EXCEPT !.graph = request[q].graph,
                                      !.cut = (request[q].graph # automation.graph)]
<1>1. /\ request[q].pc = "write" /\ request[q].op # "cancel"
      /\ run[r].status = "absent"
      /\ run' = [run EXCEPT ![r] = row] /\ history' = [history EXCEPT ![r] = past]
      /\ request' = [request EXCEPT ![q] = me]
      /\ UNCHANGED <<automation, queue, worker, jobs, tick, fired>>
  BY Shapes DEF CreateRun, jobVars
<1>2. request[q].graph \in Graphs
  BY Shapes DEF Request
<1>3. me \in Request /\ me.pc = "dispatch" /\ me.run = r
  BY Shapes DEF Request
<1>4. /\ row \in Row /\ row.status = "queued" /\ row.steps = 0 /\ row.max \in Nat
      /\ ~row.cancel
  <2>1. Budget(request[q].graph) \in Nat /\ <<>> \in Seq(Nodes)
    BY <1>2, BudgetType
  <2> QED BY <2>1 DEF Row, NewRow, RunStatus
<1>5. past \in History /\ past.begun = history[r].begun /\ past.after = history[r].after
  BY <1>2, Shapes DEF History
<1> HIDE DEF me, row, past
<1>6. /\ request' \in [Requests -> Request] /\ request'[q] = me /\ Places'
      /\ \A p \in Requests : p # q => request'[p] = request[p]
  BY <1>1, <1>3, RequestGoes
<1>7. /\ run' \in [Runs -> Row] /\ run'[r] = row
      /\ \A x \in Runs : x # r => run'[x] = run[x]
  BY <1>1, <1>4, Shapes
<1>8. /\ history' \in [Runs -> History]
      /\ \A x \in Runs : /\ history'[x].begun = history[x].begun
                         /\ history'[x].after = history[x].after
  BY <1>1, <1>5, Shapes
<1>9. Typed'
  BY <1>1, <1>6, <1>7, <1>8 DEF Typed, TypeOK, JobsTypeOK, Tickets
<1> QED BY <1>1, <1>3, <1>4, <1>6, <1>7, <1>8, <1>9

LEMMA DispatchTyped ==
  ASSUME Typed, NEW q \in Requests, DispatchRun(q)
  PROVE  /\ Typed' /\ request[q].run \in Runs
         /\ queue' = [queue EXCEPT ![request[q].run] = @ + 1]
         /\ request' = [request EXCEPT ![q] = IdleRequest]
         /\ UNCHANGED <<automation, run, worker, history, jobs, tick, fired>>
<1>1. /\ queue' = [queue EXCEPT ![request[q].run] = @ + 1]
      /\ request' = [request EXCEPT ![q] = IdleRequest]
      /\ UNCHANGED <<automation, run, worker, history, jobs, tick, fired>>
  BY DEF DispatchRun, jobVars
<1>2. request[q].run \in Runs
  BY Shapes DEF Places, DispatchRun
<1>3. queue' \in [Runs -> Nat]
  BY <1>1, <1>2, Shapes
<1>4. request' \in [Requests -> Request] /\ Places'
  BY <1>1, RequestRests
<1> QED BY <1>1, <1>2, <1>3, <1>4 DEF Typed, TypeOK, JobsTypeOK, Tickets

LEMMA CancelTyped ==
  ASSUME Typed, NEW q \in Requests, CancelRun(q)
  PROVE  /\ Typed' /\ request[q].pc = "write"
         /\ request' = [request EXCEPT ![q] = IdleRequest]
         /\ run' \in [Runs -> Row]
         /\ \A x \in Runs : /\ run'[x].steps = run[x].steps /\ run'[x].max = run[x].max
                            /\ run'[x].status = run[x].status
                            /\ run[x].cancel => run'[x].cancel
         /\ UNCHANGED <<automation, queue, worker, history, jobs, tick, fired>>
<1> DEFINE r == request[q].run
           row == [run[r] EXCEPT !.cancel = TRUE]
<1>1. /\ run' = [run EXCEPT ![r] = row] /\ request[q].pc = "write"
      /\ request' = [request EXCEPT ![q] = IdleRequest]
      /\ UNCHANGED <<automation, queue, worker, history, jobs, tick, fired>>
  BY DEF CancelRun, jobVars
<1>2. r \in Runs
  BY Shapes DEF Places, CancelRun
<1>3. /\ row \in Row /\ row.cancel /\ row.steps = run[r].steps
      /\ row.max = run[r].max /\ row.status = run[r].status
  BY <1>2, Shapes DEF Row
<1> HIDE DEF r, row
<1>4. /\ run' \in [Runs -> Row]
      /\ \A x \in Runs : /\ run'[x].steps = run[x].steps /\ run'[x].max = run[x].max
                         /\ run'[x].status = run[x].status
                         /\ run[x].cancel => run'[x].cancel
  BY <1>1, <1>2, <1>3, Shapes
<1>5. request' \in [Requests -> Request] /\ Places'
  BY <1>1, RequestRests
<1> QED BY <1>1, <1>4, <1>5 DEF Typed, TypeOK, JobsTypeOK, Tickets

LEMMA RequestCrashTyped ==
  ASSUME Typed, NEW q \in Requests, RequestCrash(q)
  PROVE  /\ Typed'
         /\ request' = [request EXCEPT ![q] = IdleRequest]
         /\ UNCHANGED <<automation, run, queue, worker, history, jobs, tick, fired>>
<1>1. /\ request' = [request EXCEPT ![q] = IdleRequest]
      /\ UNCHANGED <<automation, run, queue, worker, history, jobs, tick, fired>>
  BY DEF RequestCrash, jobVars
<1>2. request' \in [Requests -> Request] /\ Places'
  BY <1>1, RequestRests
<1> QED BY <1>1, <1>2 DEF Typed, TypeOK, JobsTypeOK, Tickets

-----------------------------------------------------------------------------
(* Steps of the workers *)

\* A row that keeps its count, its limit and its cancellation, and exists on.
Kept(r) == /\ run'[r].steps = run[r].steps /\ run'[r].max = run[r].max
           /\ run'[r].cancel = run[r].cancel
           /\ run'[r].status = "absent" => run[r].status = "absent"

LEMMA WorkerGoes ==
  ASSUME Typed, NEW w \in Workers, NEW me \in Worker,
         worker' = [worker EXCEPT ![w] = me],
         IF me.pc = "idle" THEN me = IdleWorker ELSE me.run \in Runs,
         me.pc \in AtNode => me.node \in Nodes
  PROVE  /\ worker' \in [Workers -> Worker]
         /\ worker'[w] = me /\ \A v \in Workers : v # w => worker'[v] = worker[v]
         /\ request' = request => Places'
  BY Shapes DEF Places

LEMMA WorkerRests ==
  ASSUME Typed, NEW w \in Workers, worker' = [worker EXCEPT ![w] = IdleWorker]
  PROVE  /\ worker' \in [Workers -> Worker]
         /\ worker'[w] = IdleWorker
         /\ \A v \in Workers : v # w => worker'[v] = worker[v]
         /\ request' = request => Places'
  BY WorkerGoes, IdleTypes DEF AtNode

LEMMA StatusWritten ==
  ASSUME Typed, NEW r \in Runs, NEW status \in RunStatus \ {"absent"},
         run' = [run EXCEPT ![r].status = status]
  PROVE  run' \in [Runs -> Row] /\ \A x \in Runs : Kept(x)
<1> DEFINE row == [run[r] EXCEPT !.status = status]
<1>1. /\ row \in Row /\ row.steps = run[r].steps /\ row.max = run[r].max
      /\ row.cancel = run[r].cancel /\ row.status = status
  BY Shapes DEF Row
<1>2. run' = [run EXCEPT ![r] = row]
  BY Shapes
<1> HIDE DEF row
<1> QED BY <1>1, <1>2, Shapes DEF Kept

LEMMA WrittenStatus ==
  ASSUME Typed, NEW r \in Runs, NEW seen, NEW status \in RunStatus \ {"absent"}
  PROVE  /\ Written(r, seen, status) \in RunStatus
         /\ Written(r, seen, status) = "absent" => run[r].status = "absent"
  BY WrittenType DEF Typed, Written

LEMMA EndRunTyped ==
  ASSUME Typed, NEW w \in Workers, NEW status \in Finished, EndRun(w, status),
         worker[w].pc # "idle"
  PROVE  /\ Typed' /\ worker' = [worker EXCEPT ![w] = IdleWorker]
         /\ \A x \in Runs : Kept(x)
         /\ UNCHANGED <<queue, request, history, jobs, tick, fired>>
<1> DEFINE r == worker[w].run
           s == Written(r, worker[w].seen, status)
           row == [run[r] EXCEPT !.status = s]
<1>1. /\ run' = [run EXCEPT ![r] = row]
      /\ worker' = [worker EXCEPT ![w] = IdleWorker]
      /\ UNCHANGED <<automation, queue, request, history, jobs, tick, fired>>
  BY Shapes DEF EndRun, jobVars
<1>2. r \in Runs
  BY Shapes DEF Places
<1>3. s \in RunStatus /\ (s = "absent" => run[r].status = "absent")
  BY <1>2, WrittenStatus DEF Finished, RunStatus
<1> HIDE DEF s
<1>4. /\ row \in Row /\ row.steps = run[r].steps /\ row.max = run[r].max
      /\ row.cancel = run[r].cancel /\ row.status = s
  BY <1>2, <1>3, Shapes DEF Row
<1> HIDE DEF row, r
<1>5. run' \in [Runs -> Row] /\ \A x \in Runs : Kept(x)
  BY <1>1, <1>2, <1>3, <1>4, Shapes DEF Kept
<1>6. worker' \in [Workers -> Worker] /\ Places'
  BY <1>1, WorkerRests
<1> QED BY <1>1, <1>5, <1>6 DEF Typed, TypeOK, JobsTypeOK, Tickets

LEMMA ReceiveTyped ==
  ASSUME Typed, NEW w \in Workers, NEW r \in Runs, Receive(w, r)
  PROVE  /\ Typed' /\ queue[r] > 0 /\ queue' = [queue EXCEPT ![r] = @ - 1]
         /\ worker[w].pc = "idle"
         /\ \/ worker' = worker
            \/ worker'[w].run = r /\ worker'[w].pc = "begin"
         /\ \A v \in Workers : v # w => worker'[v] = worker[v]
         /\ \A x \in Runs : Kept(x)
         /\ UNCHANGED <<request, history, jobs, tick, fired>>
<1>1. /\ queue[r] > 0 /\ queue' = [queue EXCEPT ![r] = @ - 1]
      /\ worker[w].pc = "idle"
      /\ UNCHANGED <<automation, request, history, jobs, tick, fired>>
  BY DEF Receive, jobVars
<1>2. queue' \in [Runs -> Nat]
  BY <1>1, Shapes
<1>3. CASE run' = run /\ worker' = worker
  BY <1>1, <1>2, <1>3 DEF Typed, TypeOK, JobsTypeOK, Tickets, Places, Kept
<1>4. CASE run' = [run EXCEPT ![r].status = "failed"] /\ worker' = worker
  <2>1. run' \in [Runs -> Row] /\ \A x \in Runs : Kept(x)
    BY <1>4, StatusWritten DEF RunStatus
  <2> QED BY <1>1, <1>2, <1>4, <2>1 DEF Typed, TypeOK, JobsTypeOK, Tickets, Places
<1>5. ASSUME run' = run,
             NEW t \in Triggers(automation.graph),
             worker' = [worker EXCEPT ![w] =
                   [IdleWorker EXCEPT !.pc = "begin", !.run = r, !.graph = automation.graph,
                      !.todo = ToExecute(r, t),
                      !.seen = run[r].status]]
      PROVE  /\ Typed' /\ worker'[w].run = r /\ worker'[w].pc = "begin"
             /\ \A v \in Workers : v # w => worker'[v] = worker[v]
             /\ \A x \in Runs : Kept(x)
  <2> DEFINE todo == ToExecute(r, t)
             me == [IdleWorker EXCEPT !.pc = "begin", !.run = r, !.graph = automation.graph,
                      !.todo = todo, !.seen = run[r].status]
  <2>1. automation.graph \in Graphs /\ run[r] \in Row
    BY Shapes
  <2>2. t \in Nodes
    BY <2>1, GraphAssumption DEF Triggers, GraphShape
  <2>3. todo \in Seq(Nodes)
    BY <2>1, <2>2 DEF ToExecute, Row
  <2> HIDE DEF todo
  <2>4. me \in Worker /\ me.pc = "begin" /\ me.run = r
    BY <2>1, <2>3, IdleTypes DEF Worker, WorkerPc, Row, IdleWorker
  <2>5. worker' = [worker EXCEPT ![w] = me]
    BY <1>5 DEF todo
  <2> HIDE DEF me
  <2>6. /\ worker' \in [Workers -> Worker] /\ Places' /\ worker'[w] = me
        /\ \A v \in Workers : v # w => worker'[v] = worker[v]
    BY <1>1, <2>4, <2>5, WorkerGoes DEF AtNode
  <2> QED BY <1>1, <1>2, <1>5, <2>4, <2>6
          DEF Typed, TypeOK, JobsTypeOK, Tickets, Kept
<1> QED BY <1>1, <1>3, <1>4, <1>5 DEF Receive

LEMMA BeginTyped ==
  ASSUME Typed, NEW w \in Workers, Begin(w)
  PROVE  /\ Typed' /\ worker[w].pc = "begin"
         /\ worker'[w].pc = "loop" /\ worker'[w].run = worker[w].run
         /\ \A v \in Workers : v # w => worker'[v] = worker[v]
         /\ \A x \in Runs : Kept(x)
         /\ UNCHANGED <<queue, request, history, jobs, tick, fired>>
<1> DEFINE r == worker[w].run
           s == Written(r, worker[w].seen, "running")
           row == [run[r] EXCEPT !.status = s, !.resume = <<>>]
           me == [worker[w] EXCEPT !.pc = "loop", !.seen = "running"]
<1>1. /\ worker[w].pc = "begin" /\ run' = [run EXCEPT ![r] = row]
      /\ worker' = [worker EXCEPT ![w] = me]
      /\ UNCHANGED <<automation, queue, request, history, jobs, tick, fired>>
  BY Shapes DEF Begin, jobVars
<1>2. r \in Runs
  BY <1>1, Shapes DEF Places
<1>3. s \in RunStatus /\ (s = "absent" => run[r].status = "absent")
  BY <1>2, WrittenStatus DEF RunStatus
<1> HIDE DEF s
<1>4. /\ row \in Row /\ row.steps = run[r].steps /\ row.max = run[r].max
      /\ row.cancel = run[r].cancel /\ row.status = s
  <2>1. <<>> \in Seq(Nodes)
    OBVIOUS
  <2> QED BY <2>1, <1>2, <1>3, Shapes DEF Row
<1>5. me \in Worker /\ me.pc = "loop" /\ me.run = worker[w].run
  BY Shapes DEF Worker, WorkerPc, RunStatus
<1> HIDE DEF row, me
<1>6. run' \in [Runs -> Row] /\ \A x \in Runs : Kept(x)
  BY <1>1, <1>2, <1>3, <1>4, Shapes DEF Kept
<1>7. /\ worker' \in [Workers -> Worker] /\ Places' /\ worker'[w] = me
      /\ \A v \in Workers : v # w => worker'[v] = worker[v]
  BY <1>1, <1>2, <1>5, WorkerGoes DEF AtNode
<1> QED BY <1>1, <1>5, <1>6, <1>7 DEF Typed, TypeOK, JobsTypeOK, Tickets

LEMMA RefuseTyped ==
  ASSUME Typed, NEW w \in Workers, Refuse(w)
  PROVE  /\ Typed' /\ worker' = [worker EXCEPT ![w] = IdleWorker]
         /\ \A x \in Runs : Kept(x)
         /\ UNCHANGED <<queue, request, history, jobs, tick, fired>>
<1> DEFINE r == worker[w].run
<1>1. PICK s \in {"stopped", "failed"} : run' = [run EXCEPT ![r].status = s]
  BY DEF Refuse
<1>2. /\ worker[w].pc = "loop" /\ worker' = [worker EXCEPT ![w] = IdleWorker]
      /\ UNCHANGED <<automation, queue, request, history, jobs, tick, fired>>
  BY DEF Refuse, jobVars
<1>3. r \in Runs /\ s \in RunStatus \ {"absent"}
  BY <1>2, Shapes DEF Places, RunStatus
<1> HIDE DEF r
<1>4. run' \in [Runs -> Row] /\ \A x \in Runs : Kept(x)
  BY <1>1, <1>3, StatusWritten
<1>5. worker' \in [Workers -> Worker] /\ Places'
  BY <1>2, WorkerRests
<1> QED BY <1>2, <1>4, <1>5 DEF Typed, TypeOK, JobsTypeOK, Tickets

LEMMA GuardTyped ==
  ASSUME Typed, NEW w \in Workers, Guard(w)
  PROVE  /\ Typed' /\ worker[w].pc = "loop"
         /\ worker'[w].pc = "enter" /\ worker'[w].run = worker[w].run
         /\ worker'[w].steps = run[worker[w].run].steps
         /\ ~Cancelled(worker[w].run) /\ ~OverBudget(worker[w].run)
         /\ \A v \in Workers : v # w => worker'[v] = worker[v]
         /\ UNCHANGED <<run, queue, request, history, jobs, tick, fired>>
<1> DEFINE r == worker[w].run
           me == [worker[w] EXCEPT !.pc = "enter", !.node = Head(worker[w].todo),
                    !.todo = Tail(@), !.seen = run[r].status,
                    !.steps = run[r].steps]
<1>1. /\ worker[w].pc = "loop" /\ worker[w].todo # <<>>
      /\ worker' = [worker EXCEPT ![w] = me]
      /\ ~Cancelled(r) /\ ~OverBudget(r)
      /\ UNCHANGED <<automation, run, queue, request, history, jobs, tick, fired>>
  BY Shapes DEF Guard, NotRunnable, jobVars
<1>2. r \in Runs
  BY <1>1, Shapes DEF Places
<1>3. Head(worker[w].todo) \in Nodes /\ Tail(worker[w].todo) \in Seq(Nodes)
  <2>1. worker[w].todo \in Seq(Nodes)
    BY Shapes DEF Worker
  <2> QED BY <1>1, <2>1
<1>4. /\ me \in Worker /\ me.pc = "enter" /\ me.run = r /\ me.steps = run[r].steps
      /\ me.node \in Nodes
  BY <1>2, <1>3, Shapes DEF Worker, WorkerPc, Row
<1> HIDE DEF me
<1>5. /\ worker' \in [Workers -> Worker] /\ Places' /\ worker'[w] = me
      /\ \A v \in Workers : v # w => worker'[v] = worker[v]
  BY <1>1, <1>2, <1>4, WorkerGoes
<1> QED BY <1>1, <1>4, <1>5 DEF Typed, TypeOK, JobsTypeOK, Tickets

LEMMA EnterTyped ==
  ASSUME Typed, NEW w \in Workers, Enter(w)
  PROVE  LET r == worker[w].run IN
         /\ Typed' /\ worker[w].pc = "enter" /\ r \in Runs
         /\ worker'[w].pc = "node" /\ worker'[w].run = r
         /\ worker'[w].steps = worker[w].steps
         /\ \A v \in Workers : v # w => worker'[v] = worker[v]
         /\ history'[r].begun = history[r].begun + 1
         /\ history'[r].after = IF run[r].cancel THEN history[r].after + 1
                                ELSE history[r].after
         /\ \A x \in Runs : x # r => history'[x] = history[x]
         /\ UNCHANGED <<run, queue, request, jobs, tick, fired>>
<1> DEFINE r == worker[w].run
           me == [worker[w] EXCEPT !.pc = "node"]
           after == IF run[r].cancel THEN history[r].after + 1 ELSE history[r].after
           past == [history[r] EXCEPT !.begun = @ + 1, !.after = after]
<1>1. /\ worker[w].pc = "enter" /\ worker' = [worker EXCEPT ![w] = me]
      /\ history' = [history EXCEPT ![r] = past]
      /\ UNCHANGED <<automation, run, queue, request, jobs, tick, fired>>
  BY Shapes DEF Enter, jobVars
<1>2. r \in Runs /\ worker[w].node \in Nodes
  BY <1>1, Shapes DEF Places, AtNode
<1>3. /\ me \in Worker /\ me.pc = "node" /\ me.run = r /\ me.steps = worker[w].steps
      /\ me.node = worker[w].node
  BY <1>2, Shapes DEF Worker, WorkerPc
<1>4. after \in Nat /\ history[r] \in History
  BY <1>2, Shapes DEF History
<1> HIDE DEF after
<1>5. past \in History /\ past.begun = history[r].begun + 1 /\ past.after = after
  <2> DEFINE old == history[r]
             n == old.begun + 1
  <2>1. old \in History /\ n \in Nat
    BY <1>4 DEF History
  <2>2. past = [old EXCEPT !.begun = n, !.after = after]
    OBVIOUS
  <2> HIDE DEF past, old, n
  <2>3. past \in History /\ past.begun = n /\ past.after = after
    BY <1>4, <2>1, <2>2 DEF History
  <2> QED BY <2>3 DEF n, old
<1> HIDE DEF me, past
<1>6. /\ worker' \in [Workers -> Worker] /\ Places' /\ worker'[w] = me
      /\ \A v \in Workers : v # w => worker'[v] = worker[v]
  BY <1>1, <1>2, <1>3, WorkerGoes
<1>7. /\ history' \in [Runs -> History] /\ history'[r] = past
      /\ \A x \in Runs : x # r => history'[x] = history[x]
  BY <1>1, <1>2, <1>5, Shapes
<1>8. Typed'
  BY <1>1, <1>6, <1>7 DEF Typed, TypeOK, JobsTypeOK, Tickets
<1> QED BY <1>1, <1>2, <1>3, <1>5, <1>6, <1>7, <1>8 DEF after

LEMMA SendTyped ==
  ASSUME Typed, NEW w \in Workers, SendCommits(w)
  PROVE  /\ Typed' /\ worker[w].pc = "node"
         /\ worker'[w].pc = "sent" /\ worker'[w].run = worker[w].run
         /\ worker'[w].steps = worker[w].steps
         /\ \A v \in Workers : v # w => worker'[v] = worker[v]
         /\ UNCHANGED <<run, queue, request, history, jobs, tick, fired>>
<1> DEFINE me == [worker[w] EXCEPT !.pc = "sent"]
<1>1. /\ worker[w].pc = "node" /\ worker' = [worker EXCEPT ![w] = me]
      /\ UNCHANGED <<automation, run, queue, request, history, jobs, tick, fired>>
  BY Shapes DEF SendCommits, jobVars
<1>2. worker[w].run \in Runs /\ worker[w].node \in Nodes
  BY <1>1, Shapes DEF Places, AtNode
<1>3. /\ me \in Worker /\ me.pc = "sent" /\ me.run = worker[w].run
      /\ me.steps = worker[w].steps /\ me.node = worker[w].node
  BY Shapes DEF Worker, WorkerPc
<1> HIDE DEF me
<1>4. /\ worker' \in [Workers -> Worker] /\ Places' /\ worker'[w] = me
      /\ \A v \in Workers : v # w => worker'[v] = worker[v]
  BY <1>1, <1>2, <1>3, WorkerGoes
<1> QED BY <1>1, <1>3, <1>4 DEF Typed, TypeOK, JobsTypeOK, Tickets

LEMMA CompleteTyped ==
  ASSUME Typed, NEW w \in Workers, Complete(w)
  PROVE  LET r == worker[w].run IN
         /\ Typed' /\ worker[w].pc \in {"node", "sent"} /\ r \in Runs
         /\ worker'[w].pc = "loop" /\ worker'[w].run = r
         /\ \A v \in Workers : v # w => worker'[v] = worker[v]
         /\ run'[r].steps = worker[w].steps + 1 /\ run'[r].max = run[r].max
         /\ run'[r].cancel = run[r].cancel /\ run'[r].status = run[r].status
         /\ \A x \in Runs : x # r => run'[x] = run[x]
         /\ \A x \in Runs : /\ history'[x].begun = history[x].begun
                            /\ history'[x].after = history[x].after
         /\ UNCHANGED <<queue, request, jobs, tick, fired>>
<1> DEFINE old == worker[w]
           r == old.run
           n == old.steps + 1
           row == [run[r] EXCEPT !.steps = n]
           past == [history[r] EXCEPT !.done = @ \cup {old.node}]
<1>1. PICK S \in Follow(old.graph, old.node) :
        worker' = [worker EXCEPT ![w].pc = "loop", ![w].todo = @ \o S,
                      ![w].node = NoNode, ![w].steps = n]
  BY DEF Complete
<1>2. /\ old.pc \in {"node", "sent"}
      /\ run' = [run EXCEPT ![r] = row] /\ history' = [history EXCEPT ![r] = past]
      /\ UNCHANGED <<automation, queue, request, jobs, tick, fired>>
  BY Shapes DEF Complete, AtWork, jobVars
<1>3. old \in Worker /\ r \in Runs /\ old.node \in Nodes /\ n \in Nat
  BY <1>2, Shapes DEF Places, AtNode, Worker
<1>4. S \in Seq(Nodes)
  BY <1>1, <1>3, GraphType DEF Worker
<1> DEFINE t == old.todo \o S
           me == [old EXCEPT !.pc = "loop", !.todo = t, !.node = NoNode, !.steps = n]
<1>5. t \in Seq(Nodes)
  BY <1>3, <1>4 DEF Worker
<1>6. worker' = [worker EXCEPT ![w] = me]
  BY <1>1, Shapes
<1> HIDE DEF t, n
<1>7. me \in Worker /\ me.pc = "loop" /\ me.run = r
  BY <1>3, <1>5 DEF Worker, WorkerPc
<1>8. /\ row \in Row /\ row.steps = n /\ row.max = run[r].max
      /\ row.cancel = run[r].cancel /\ row.status = run[r].status
  BY <1>3, Shapes DEF Row
<1>9. past \in History /\ past.begun = history[r].begun /\ past.after = history[r].after
  BY <1>3, Shapes DEF History
<1> HIDE DEF me, row, past
<1>10. /\ worker' \in [Workers -> Worker] /\ Places' /\ worker'[w] = me
       /\ \A v \in Workers : v # w => worker'[v] = worker[v]
  BY <1>2, <1>3, <1>6, <1>7, WorkerGoes DEF AtNode
<1>11. /\ run' \in [Runs -> Row] /\ run'[r] = row
       /\ \A x \in Runs : x # r => run'[x] = run[x]
  BY <1>2, <1>3, <1>8, Shapes
<1>12. /\ history' \in [Runs -> History]
       /\ \A x \in Runs : /\ history'[x].begun = history[x].begun
                          /\ history'[x].after = history[x].after
  BY <1>2, <1>3, <1>9, Shapes
<1>13. Typed'
  BY <1>2, <1>10, <1>11, <1>12 DEF Typed, TypeOK, JobsTypeOK, Tickets
<1> QED BY <1>2, <1>3, <1>7, <1>8, <1>10, <1>11, <1>12, <1>13 DEF n

LEMMA DelayTyped ==
  ASSUME Typed, NEW w \in Workers, CompleteDelay(w)
  PROVE  LET r == worker[w].run IN
         /\ Typed' /\ worker[w].pc = "node" /\ r \in Runs
         /\ worker'[w].pc = "park" /\ worker'[w].run = r
         /\ \A v \in Workers : v # w => worker'[v] = worker[v]
         /\ run'[r].steps = worker[w].steps + 1 /\ run'[r].max = run[r].max
         /\ run'[r].cancel = run[r].cancel /\ run'[r].status = run[r].status
         /\ \A x \in Runs : x # r => run'[x] = run[x]
         /\ \A x \in Runs : /\ history'[x].begun = history[x].begun
                            /\ history'[x].after = history[x].after
         /\ UNCHANGED <<queue, request, jobs, tick, fired>>
<1> DEFINE old == worker[w]
           r == old.run
           n == old.steps + 1
           cut == history[r].cut \/ old.todo # <<>>
           row == [run[r] EXCEPT !.steps = n]
           past == [history[r] EXCEPT !.done = @ \cup {old.node}, !.cut = cut]
           me == [old EXCEPT !.pc = "park"]
<1>1. /\ old.pc = "node"
      /\ run' = [run EXCEPT ![r] = row] /\ worker' = [worker EXCEPT ![w] = me]
      /\ UNCHANGED <<automation, queue, request, jobs, tick, fired>>
  BY Shapes DEF CompleteDelay, jobVars
<1>2. old \in Worker /\ r \in Runs /\ old.node \in Nodes /\ n \in Nat
  BY <1>1, Shapes DEF Places, AtNode, Worker
<1>3. history' = [history EXCEPT ![r] = past]
  BY <1>2, Shapes DEF CompleteDelay
<1>4. cut \in BOOLEAN
  BY Zenon
<1> HIDE DEF n, cut
<1>5. me \in Worker /\ me.pc = "park" /\ me.run = r /\ me.node = old.node
  BY <1>2 DEF Worker, WorkerPc
<1>6. /\ row \in Row /\ row.steps = n /\ row.max = run[r].max
      /\ row.cancel = run[r].cancel /\ row.status = run[r].status
  BY <1>2, Shapes DEF Row
<1>7. past \in History /\ past.begun = history[r].begun /\ past.after = history[r].after
  BY <1>2, <1>4, Shapes DEF History
<1> HIDE DEF me, row, past
<1>8. /\ worker' \in [Workers -> Worker] /\ Places' /\ worker'[w] = me
      /\ \A v \in Workers : v # w => worker'[v] = worker[v]
  BY <1>1, <1>2, <1>5, WorkerGoes
<1>9. /\ run' \in [Runs -> Row] /\ run'[r] = row
      /\ \A x \in Runs : x # r => run'[x] = run[x]
  BY <1>1, <1>2, <1>6, Shapes
<1>10. /\ history' \in [Runs -> History]
       /\ \A x \in Runs : /\ history'[x].begun = history[x].begun
                          /\ history'[x].after = history[x].after
  BY <1>2, <1>3, <1>7, Shapes
<1>11. Typed'
  BY <1>1, <1>8, <1>9, <1>10 DEF Typed, TypeOK, JobsTypeOK, Tickets
<1> QED BY <1>1, <1>2, <1>5, <1>6, <1>8, <1>9, <1>10, <1>11 DEF n

LEMMA ParkTyped ==
  ASSUME Typed, NEW w \in Workers, Park(w)
  PROVE  /\ Typed' /\ worker[w].pc = "park"
         /\ worker'[w].pc = "schedule" /\ worker'[w].run = worker[w].run
         /\ \A v \in Workers : v # w => worker'[v] = worker[v]
         /\ \A x \in Runs : Kept(x)
         /\ UNCHANGED <<queue, request, history, jobs, tick, fired>>
<1> DEFINE old == worker[w]
           r == old.run
           s == Written(r, old.seen, "waiting")
           rest == old.graph.next[old.node]
           row == [run[r] EXCEPT !.status = s, !.resume = rest]
           me == [old EXCEPT !.pc = "schedule"]
<1>1. /\ old.pc = "park" /\ run' = [run EXCEPT ![r] = row]
      /\ worker' = [worker EXCEPT ![w] = me]
      /\ UNCHANGED <<automation, queue, request, history, jobs, tick, fired>>
  BY Shapes DEF Park, jobVars
<1>2. r \in Runs /\ old.node \in Nodes /\ old \in Worker
  BY <1>1, Shapes DEF Places, AtNode
<1>3. s \in RunStatus /\ (s = "absent" => run[r].status = "absent")
  BY <1>2, WrittenStatus DEF RunStatus
<1>4. rest \in Seq(Nodes)
  BY <1>2, GraphType DEF Worker
<1> HIDE DEF s, rest
<1>5. /\ row \in Row /\ row.steps = run[r].steps /\ row.max = run[r].max
      /\ row.cancel = run[r].cancel /\ row.status = s
  BY <1>2, <1>3, <1>4, Shapes DEF Row
<1>6. me \in Worker /\ me.pc = "schedule" /\ me.run = r /\ me.node = old.node
  BY <1>2 DEF Worker, WorkerPc
<1> HIDE DEF row, me
<1>7. run' \in [Runs -> Row] /\ \A x \in Runs : Kept(x)
  BY <1>1, <1>2, <1>3, <1>5, Shapes DEF Kept
<1>8. /\ worker' \in [Workers -> Worker] /\ Places' /\ worker'[w] = me
      /\ \A v \in Workers : v # w => worker'[v] = worker[v]
  BY <1>1, <1>2, <1>6, WorkerGoes
<1> QED BY <1>1, <1>6, <1>7, <1>8 DEF Typed, TypeOK, JobsTypeOK, Tickets

LEMMA ScheduleTyped ==
  ASSUME Typed, NEW w \in Workers, NEW j \in JobIds, ScheduleResume(w, j)
  PROVE  /\ Typed' /\ worker[w].pc = "schedule" /\ worker[w].run \in Runs
         /\ ScheduleJob(j, worker[w].run)
         /\ worker' = [worker EXCEPT ![w] = IdleWorker]
         /\ UNCHANGED <<automation, run, queue, request, history>>
<1>1. /\ worker[w].pc = "schedule" /\ ScheduleJob(j, worker[w].run)
      /\ worker' = [worker EXCEPT ![w] = IdleWorker]
      /\ UNCHANGED <<automation, run, queue, request, history>>
  BY DEF ScheduleResume
<1>2. worker[w].run \in Runs
  BY <1>1, Shapes DEF Places
<1>3. JobsTypeOK' /\ Tickets'
  BY <1>1, <1>2, ScheduleTickets
<1>4. worker' \in [Workers -> Worker] /\ Places'
  BY <1>1, WorkerRests
<1> QED BY <1>1, <1>2, <1>3, <1>4 DEF Typed, TypeOK

\* What is remembered of a run stays, but for whether a worker was lost with it.
Recalls(r) == /\ history'[r].graph = history[r].graph /\ history'[r].done = history[r].done
              /\ history'[r].begun = history[r].begun /\ history'[r].after = history[r].after
              /\ history'[r].cut = history[r].cut

LEMMA CrashTyped ==
  ASSUME Typed, NEW w \in Workers, WorkerCrash(w)
  PROVE  /\ Typed' /\ worker' = [worker EXCEPT ![w] = IdleWorker]
         /\ UNCHANGED <<automation, run, queue, request, jobs, tick, fired>>
         /\ \A r \in Runs : Recalls(r)
<1> DEFINE x == worker[w].run
           past == [history[x] EXCEPT !.lost = TRUE]
<1>1. /\ worker' = [worker EXCEPT ![w] = IdleWorker] /\ worker[w].pc # "idle"
      /\ history' = [history EXCEPT ![x].lost = TRUE]
      /\ UNCHANGED <<automation, run, queue, request, jobs, tick, fired>>
  BY DEF WorkerCrash, jobVars
<1>2. worker' \in [Workers -> Worker] /\ Places'
  BY <1>1, WorkerRests
<1>3. x \in Runs /\ history[x] \in History
  BY <1>1, Shapes DEF Places
<1>4. /\ past \in History /\ past.graph = history[x].graph /\ past.done = history[x].done
      /\ past.begun = history[x].begun /\ past.after = history[x].after
      /\ past.cut = history[x].cut
  BY <1>3 DEF History
<1>5. history' = [history EXCEPT ![x] = past]
  BY <1>1, <1>3, Shapes
<1> HIDE DEF past
<1>6. history' \in [Runs -> History] /\ \A r \in Runs : Recalls(r)
  BY <1>3, <1>4, <1>5, Shapes DEF Recalls
<1> QED BY <1>1, <1>2, <1>6 DEF Typed, TypeOK, JobsTypeOK, Tickets

-----------------------------------------------------------------------------
(* Steps of the ticks, and time *)

LEMMA HandleTyped ==
  ASSUME Typed, NEW t \in Ticks, NEW j \in JobIds, HandleResume(t, j)
  PROVE  /\ Typed' /\ jobs[j].status = "claimed" /\ fired[j] = 0
         /\ jobs[j].target \in Runs
         /\ queue' = [queue EXCEPT ![jobs[j].target] = @ + 1]
         /\ fired'[j] # 0 /\ \A i \in JobIds : i # j => fired'[i] = fired[i]
         /\ UNCHANGED <<automation, run, worker, request, history, jobs>>
<1>1. /\ HandleJob(t, j) /\ queue' = [queue EXCEPT ![jobs[j].target] = @ + 1]
      /\ UNCHANGED <<automation, run, worker, request, history, jobs>>
  BY DEF HandleResume, HandleJob
<1>2. jobs[j].status = "claimed" /\ fired[j] = 0 /\ jobs[j].target \in Runs
  BY <1>1, Shapes DEF HandleJob, Tickets
<1>3. JobsTypeOK' /\ Tickets'
  BY <1>1, TickTickets
<1>4. queue' \in [Runs -> Nat]
  BY <1>1, <1>2, Shapes
<1>5. fired'[j] # 0 /\ \A i \in JobIds : i # j => fired'[i] = fired[i]
  <2>1. fired \in [JobIds -> 0..2]
    BY Shapes DEF JobsTypeOK
  <2> QED BY <1>1, <1>2, <2>1 DEF HandleJob
<1> QED BY <1>1, <1>2, <1>3, <1>4, <1>5 DEF Typed, TypeOK, Places

\* The steps of the scheduler that neither make nor handle a job.
QuietJobs ==
    \/ \E t \in Ticks : \/ \E j \in JobIds : HandlerRaises(t, j)
                        \/ RecordJob(t) \/ ClaimDueJobs(t) \/ TickCrash(t)
    \/ \E j \in JobIds : JobComesDue(j)

LEMMA TickTyped ==
  ASSUME Typed, UNCHANGED runVars, QuietJobs
  PROVE  /\ Typed'
         /\ UNCHANGED <<automation, run, queue, worker, request, history, fired>>
<1>1. /\ UNCHANGED <<automation, run, queue, worker, request, history, fired>>
  BY DEF QuietJobs, runVars, HandlerRaises, RecordJob, ClaimDueJobs, TickCrash, JobComesDue
<1>2. JobsTypeOK' /\ Tickets'
  BY TickTickets, DueTickets DEF QuietJobs
<1> QED BY <1>1, <1>2 DEF Typed, TypeOK, Places

\* Where a job is does not change while a tick looks for others.
LEMMA TickKeeps ==
  ASSUME Typed, NEW j \in JobIds, QuietJobs
  PROVE  /\ jobs'[j].target = jobs[j].target
         /\ jobs'[j].status \in {"pending", "claimed"} /\ fired[j] = 0
            => jobs[j].status \in {"pending", "claimed"}
<1>1. /\ jobs \in [JobIds -> Job] /\ tick \in [Ticks -> Tick]
  BY Shapes DEF JobsTypeOK
<1>2. CASE \E t \in Ticks : (\E i \in JobIds : HandlerRaises(t, i)) \/ TickCrash(t)
  BY <1>2 DEF HandlerRaises, TickCrash
<1>3. ASSUME NEW t \in Ticks, RecordJob(t)
      PROVE  /\ jobs'[j].target = jobs[j].target
             /\ jobs'[j].status \in {"pending", "claimed"} /\ fired[j] = 0
                => jobs[j].status \in {"pending", "claimed"}
  <2> DEFINE i == tick[t].cur
  <2>1. /\ i \in JobIds
        /\ jobs' = [jobs EXCEPT ![i].status = Result(i, tick[t].raised)]
    BY <1>1, <1>3 DEF RecordJob, Tick
  <2>2. jobs[i].status = "claimed"
    BY <2>1, <1>3, Shapes DEF Tickets, RecordJob
  <2> HIDE DEF i
  <2> QED BY <1>1, <2>1, <2>2 DEF Job
<1>4. ASSUME NEW t \in Ticks, ClaimDueJobs(t)
      PROVE  /\ jobs'[j].target = jobs[j].target
             /\ jobs'[j].status \in {"pending", "claimed"} /\ fired[j] = 0
                => jobs[j].status \in {"pending", "claimed"}
  <2>1. PICK S \in Claims :
          jobs' = [i \in JobIds |->
                        IF i \in S THEN [jobs[i] EXCEPT !.status = "claimed",
                                                        !.attempts = @ + 1]
                        ELSE jobs[i]]
    BY <1>4 DEF ClaimDueJobs
  <2>2. \A i \in S : jobs[i].status = "pending"
    BY DEF Claims, Due
  <2> QED BY <1>1, <2>1, <2>2 DEF Job
<1>5. CASE \E i \in JobIds : JobComesDue(i)
  BY <1>1, <1>5 DEF JobComesDue, Job
<1> QED BY <1>2, <1>3, <1>4, <1>5 DEF QuietJobs

LEMMA LateTyped ==
  ASSUME Typed, NEW r \in Runs, DeadlinePasses(r)
  PROVE  /\ Typed' /\ \A x \in Runs : Kept(x)
         /\ UNCHANGED <<automation, queue, worker, request, history, jobs, tick, fired>>
<1> DEFINE row == [run[r] EXCEPT !.late = TRUE]
<1>1. /\ run' = [run EXCEPT ![r] = row]
      /\ UNCHANGED <<automation, queue, worker, request, history, jobs, tick, fired>>
  BY Shapes DEF DeadlinePasses, jobVars
<1>2. /\ row \in Row /\ row.steps = run[r].steps /\ row.max = run[r].max
      /\ row.cancel = run[r].cancel /\ row.status = run[r].status
  BY Shapes DEF Row
<1> HIDE DEF row
<1>3. run' \in [Runs -> Row] /\ \A x \in Runs : Kept(x)
  BY <1>1, <1>2, Shapes DEF Kept
<1> QED BY <1>1, <1>3 DEF Typed, TypeOK, JobsTypeOK, Tickets, Places

-----------------------------------------------------------------------------
(* Type correctness *)

LEMMA InitTyped == ASSUME Init PROVE Typed
<1>1. /\ 0 \in 0..2 /\ FirstGraph \in Graphs /\ "draft" \in AutomationStatus
  BY GraphAssumption DEF AutomationStatus
<1>2. \A r \in Runs : [graph |-> FirstGraph, done |-> {}, begun |-> 0, after |-> 0,
                       cut |-> FALSE, lost |-> FALSE] \in History
  BY <1>1 DEF History
<1>3. JobsTypeOK
  BY <1>1, IdleTypes DEF Init, JobsInit, JobsTypeOK
<1>4. TypeOK
  BY <1>1, <1>2, <1>3, IdleTypes DEF Init, TypeOK
<1>5. Places
  BY IdleTypes DEF Init, Places, AtNode
<1>6. Tickets
  BY IdleTypes DEF Init, JobsInit, Tickets
<1> QED BY <1>4, <1>5, <1>6 DEF Typed

LEMMA NodeFailsTyped ==
  ASSUME Typed, NEW w \in Workers, NodeFails(w)
  PROVE  /\ Typed' /\ worker' = [worker EXCEPT ![w] = IdleWorker]
         /\ \A x \in Runs : Kept(x)
         /\ UNCHANGED <<queue, request, history, jobs, tick, fired>>
<1>1. EndRun(w, "failed") /\ worker[w].pc # "idle"
  BY DEF NodeFails, AtWork
<1> QED BY <1>1, EndRunTyped DEF Finished

LEMMA SucceedTyped ==
  ASSUME Typed, NEW w \in Workers, Succeed(w)
  PROVE  /\ Typed' /\ worker' = [worker EXCEPT ![w] = IdleWorker]
         /\ \A x \in Runs : Kept(x)
         /\ UNCHANGED <<queue, request, history, jobs, tick, fired>>
<1>1. EndRun(w, "succeeded") /\ worker[w].pc # "idle"
  BY DEF Succeed
<1> QED BY <1>1, EndRunTyped DEF Finished

-----------------------------------------------------------------------------
(* In whose hands a run is, and what has been counted *)

RequestHolds(q, r) == request[q].pc = "dispatch" /\ request[q].run = r
WorkerHolds(w, r) == worker[w].run = r
JobHolds(j, r) == /\ jobs[j].target = r /\ fired[j] = 0
                  /\ jobs[j].status \in {"pending", "claimed"}
Free(r) == /\ \A q \in Requests : ~RequestHolds(q, r)
           /\ \A w \in Workers : ~WorkerHolds(w, r)
           /\ \A j \in JobIds : ~JobHolds(j, r)

\* OneExecutor without cardinalities; a run not yet created is in no hands.
Handed(r) ==
    /\ \A p, q \in Requests : RequestHolds(p, r) /\ RequestHolds(q, r) => p = q
    /\ \A v, w \in Workers : WorkerHolds(v, r) /\ WorkerHolds(w, r) => v = w
    /\ \A i, j \in JobIds : JobHolds(i, r) /\ JobHolds(j, r) => i = j
    /\ \A q \in Requests : RequestHolds(q, r) =>
         /\ \A w \in Workers : ~WorkerHolds(w, r)
         /\ \A j \in JobIds : ~JobHolds(j, r)
    /\ \A w \in Workers, j \in JobIds : ~(WorkerHolds(w, r) /\ JobHolds(j, r))
    /\ queue[r] > 0 => queue[r] = 1 /\ Free(r)
    /\ run[r].status = "absent" => queue[r] = 0 /\ Free(r)

\* current_step_count is what was begun, but for the node being executed.
Between == {"begin", "loop", "park", "schedule"}
Executing == {"node", "sent"}
Counted(r) ==
    /\ history[r].begun <= run[r].max
    /\ run[r].status = "absent" => history[r].begun = 0
    /\ \/ queue[r] > 0
       \/ \E q \in Requests : RequestHolds(q, r)
       \/ \E j \in JobIds : JobHolds(j, r)
       => history[r].begun = run[r].steps
    /\ \A w \in Workers : WorkerHolds(w, r) =>
         /\ worker[w].pc \in Between => history[r].begun = run[r].steps
         /\ worker[w].pc = "enter" => /\ history[r].begun = run[r].steps
                                      /\ worker[w].steps = run[r].steps
                                      /\ run[r].steps < run[r].max
         /\ worker[w].pc \in Executing => /\ history[r].begun = run[r].steps + 1
                                          /\ worker[w].steps = run[r].steps

\* Nothing is begun after a cancellation but what had passed its guard.
Stopping(r) ==
    /\ history[r].after <= 1
    /\ run[r].status = "absent" \/ ~run[r].cancel => history[r].after = 0
    /\ \A w \in Workers : WorkerHolds(w, r) /\ worker[w].pc = "enter"
                          => history[r].after = 0

Sound(r) == Handed(r) /\ Counted(r) /\ Stopping(r)
IInv == Typed /\ \A r \in Runs : Sound(r)

\* A step that may take the run out of a pair of hands and gives it to none.
Still(r) ==
    /\ run'[r].steps = run[r].steps /\ run'[r].max = run[r].max
    /\ run[r].cancel => run'[r].cancel
    /\ run'[r].status = "absent" => run[r].status = "absent"
    /\ history'[r].begun = history[r].begun /\ history'[r].after = history[r].after
    /\ queue'[r] = queue[r]
    /\ \A q \in Requests : RequestHolds(q, r)' => RequestHolds(q, r)
    /\ \A j \in JobIds : JobHolds(j, r)' => JobHolds(j, r)
    /\ \A w \in Workers : WorkerHolds(w, r)' =>
         /\ WorkerHolds(w, r)
         /\ \/ worker'[w].pc \in Between /\ worker[w].pc \in Between
            \/ /\ worker'[w].steps = worker[w].steps
               /\ \/ worker'[w].pc = worker[w].pc
                  \/ worker'[w].pc \in Executing /\ worker[w].pc \in Executing

LEMMA StillSound ==
  ASSUME Typed, Typed', NEW r \in Runs, Sound(r), Still(r)
  PROVE  Sound(r)'
<1>1. Handed(r)'
  BY DEF Sound, Still, Handed, Free
<1>2. Counted(r)'
  BY DEF Sound, Still, Counted, Between, Executing
<1>3. Stopping(r)'
  BY DEF Sound, Still, Stopping, Between, Executing
<1> QED BY <1>1, <1>2, <1>3 DEF Sound

\* A run that an idle process lets go of.
LEMMA HandsOff ==
  ASSUME Typed
  PROVE  /\ \A q \in Requests, r \in Runs :
              RequestHolds(q, r) => request[q].pc = "dispatch"
         /\ \A w \in Workers, r \in Runs : WorkerHolds(w, r) => worker[w].pc # "idle"
         /\ \A w \in Workers : worker[w].pc # "idle" => worker[w].run \in Runs
<1>1. NoRun \notin Runs
  BY RunAssumption
<1> QED BY <1>1, Shapes, IdleTypes DEF Places, RequestHolds, WorkerHolds

-----------------------------------------------------------------------------
(* Every step is sound for every run *)

LEMMA RequestsStill ==
  ASSUME Typed, NEW r \in Runs, NEW q \in Requests,
         \/ \E op \in Ops : ReadAutomation(q, op)
         \/ \E x \in Runs : ReadCancel(q, x)
         \/ EditGraph(q) \/ EditStatus(q) \/ PublishAutomation(q) \/ PauseAutomation(q)
         \/ CancelRun(q) \/ RequestCrash(q)
  PROVE  Typed' /\ Still(r)
<1>1. \A w \in Workers : worker'[w] = worker[w] => (WorkerHolds(w, r)' <=> WorkerHolds(w, r))
  BY DEF WorkerHolds
<1>2. CASE \/ \E op \in Ops : ReadAutomation(q, op)
           \/ \E x \in Runs : ReadCancel(q, x)
  <2>1. UNCHANGED <<run, queue, worker, history, jobs, fired>>
    BY <1>2 DEF ReadAutomation, ReadCancel, jobVars
  <2>2. /\ Typed' /\ request'[q].pc = "write"
        /\ \A p \in Requests : p # q => request'[p] = request[p]
    BY <1>2, ReadTyped
  <2> QED BY <1>1, <2>1, <2>2 DEF Still, RequestHolds, JobHolds
<1>3. ASSUME request' = [request EXCEPT ![q] = IdleRequest]
      PROVE  \A p \in Requests : RequestHolds(p, r)' => RequestHolds(p, r)
  BY <1>3, RequestRests, IdleTypes DEF RequestHolds
<1>4. CASE EditGraph(q) \/ EditStatus(q) \/ PublishAutomation(q) \/ PauseAutomation(q)
  BY <1>1, <1>3, <1>4, EditTyped DEF Still, JobHolds
<1>5. CASE CancelRun(q)
  BY <1>1, <1>3, <1>5, CancelTyped DEF Still, JobHolds
<1>6. CASE RequestCrash(q)
  BY <1>1, <1>3, <1>6, RequestCrashTyped DEF Still, JobHolds
<1> QED BY <1>2, <1>4, <1>5, <1>6

LEMMA WorkersStill ==
  ASSUME Typed, NEW r \in Runs, NEW w \in Workers,
         \/ Begin(w) \/ Refuse(w) \/ SendCommits(w) \/ NodeFails(w)
         \/ Park(w) \/ Succeed(w) \/ WorkerCrash(w)
  PROVE  Typed' /\ Still(r)
<1>1. ASSUME UNCHANGED <<request, jobs, fired>>
      PROVE  /\ \A q \in Requests : RequestHolds(q, r)' => RequestHolds(q, r)
             /\ \A j \in JobIds : JobHolds(j, r)' => JobHolds(j, r)
  BY <1>1 DEF RequestHolds, JobHolds
<1>2. ASSUME worker' = [worker EXCEPT ![w] = IdleWorker]
      PROVE  \A v \in Workers : WorkerHolds(v, r)' =>
               WorkerHolds(v, r) /\ worker'[v] = worker[v]
  BY <1>2, WorkerRests, IdleTypes, RunAssumption DEF WorkerHolds
<1>3. CASE Refuse(w) \/ NodeFails(w) \/ Succeed(w)
  BY <1>1, <1>2, <1>3, RefuseTyped, NodeFailsTyped, SucceedTyped DEF Still, Kept
<1>4. CASE WorkerCrash(w)
  BY <1>1, <1>2, <1>4, CrashTyped DEF Still, Recalls
<1>5. CASE Begin(w)
  BY <1>1, <1>5, BeginTyped DEF Still, Kept, WorkerHolds, Between
<1>6. CASE Park(w)
  BY <1>1, <1>6, ParkTyped DEF Still, Kept, WorkerHolds, Between
<1>7. CASE SendCommits(w)
  BY <1>1, <1>7, SendTyped DEF Still, WorkerHolds, Executing
<1> QED BY <1>3, <1>4, <1>5, <1>6, <1>7

LEMMA OthersStill ==
  ASSUME Typed, NEW r \in Runs,
         \/ QuietJobs /\ UNCHANGED runVars
         \/ \E x \in Runs : DeadlinePasses(x)
         \/ UNCHANGED vars
  PROVE  Typed' /\ Still(r)
<1>1. CASE QuietJobs /\ UNCHANGED runVars
  BY <1>1, TickTyped, TickKeeps DEF Still, RequestHolds, WorkerHolds, JobHolds
<1>2. CASE \E x \in Runs : DeadlinePasses(x)
  BY <1>2, LateTyped DEF Still, Kept, RequestHolds, WorkerHolds, JobHolds
<1>3. CASE UNCHANGED vars
  BY <1>3 DEF vars, Still, RequestHolds, WorkerHolds, JobHolds,
              Typed, TypeOK, JobsTypeOK, Places, Tickets
<1> QED BY <1>1, <1>2, <1>3

LEMMA CreateSound ==
  ASSUME IInv, NEW q \in Requests, NEW x \in Runs, CreateRun(q, x), NEW r \in Runs
  PROVE  Sound(r)'
<1>1. Typed /\ Typed' /\ Sound(r)
  BY CreateTyped DEF IInv
<1>2. UNCHANGED <<queue, worker, jobs, fired>>
  BY CreateTyped DEF IInv
<1>3. /\ \A w \in Workers : WorkerHolds(w, r)' <=> WorkerHolds(w, r)
      /\ \A j \in JobIds : JobHolds(j, r)' <=> JobHolds(j, r)
  BY <1>2 DEF WorkerHolds, JobHolds
<1>4. \A p \in Requests : RequestHolds(p, r)' <=>
         IF p = q THEN r = x ELSE RequestHolds(p, r)
  BY <1>1, CreateTyped DEF RequestHolds
<1>5. CASE r # x
  <2>1. Still(r)
    BY <1>1, <1>2, <1>3, <1>4, <1>5, CreateTyped DEF Still
  <2> QED BY <1>1, <2>1, StillSound
<1>6. CASE r = x
  <2>1. /\ run[r].status = "absent" /\ run'[r].status # "absent"
        /\ run'[r].steps = 0 /\ run'[r].max \in Nat
        /\ history'[r].begun = history[r].begun /\ history'[r].after = history[r].after
    BY <1>1, <1>6, CreateTyped
  <2>2. /\ queue[r] = 0 /\ Free(r) /\ history[r].begun = 0 /\ history[r].after = 0
    BY <1>1, <2>1 DEF Sound, Handed, Counted, Stopping
  <2>3. /\ queue'[r] = 0 /\ \A p \in Requests : RequestHolds(p, r)' => p = q
        /\ \A w \in Workers : ~WorkerHolds(w, r)'
        /\ \A j \in JobIds : ~JobHolds(j, r)'
    BY <1>2, <1>3, <1>4, <2>2 DEF Free
  <2>4. Handed(r)'
    BY <2>1, <2>3 DEF Handed
  <2>5. Counted(r)'
    BY <2>1, <2>2, <2>3 DEF Counted
  <2>6. Stopping(r)'
    BY <2>1, <2>2, <2>3 DEF Stopping
  <2> QED BY <2>4, <2>5, <2>6 DEF Sound
<1> QED BY <1>5, <1>6

LEMMA DispatchSound ==
  ASSUME IInv, NEW q \in Requests, DispatchRun(q), NEW r \in Runs
  PROVE  Sound(r)'
<1> DEFINE x == request[q].run
<1>1. Typed /\ Typed' /\ Sound(r) /\ x \in Runs /\ request[q].pc = "dispatch"
  BY DispatchTyped DEF IInv, DispatchRun
<1>2. /\ queue' = [queue EXCEPT ![x] = @ + 1]
      /\ request' = [request EXCEPT ![q] = IdleRequest]
      /\ UNCHANGED <<run, worker, history, jobs, fired>>
  BY <1>1, DispatchTyped
<1>3. /\ \A w \in Workers : WorkerHolds(w, r)' <=> WorkerHolds(w, r)
      /\ \A j \in JobIds : JobHolds(j, r)' <=> JobHolds(j, r)
  BY <1>2 DEF WorkerHolds, JobHolds
<1>4. \A p \in Requests : RequestHolds(p, r)' <=> p # q /\ RequestHolds(p, r)
  BY <1>1, <1>2, RequestRests, IdleTypes DEF RequestHolds
<1>5. CASE r # x
  <2>1. queue'[r] = queue[r]
    BY <1>1, <1>2, <1>5, Shapes
  <2>2. Still(r)
    BY <1>2, <1>3, <1>4, <2>1 DEF Still
  <2> QED BY <1>1, <2>2, StillSound
<1>6. CASE r = x
  <2>1. RequestHolds(q, r)
    BY <1>1, <1>6 DEF RequestHolds
  <2>2. /\ queue[r] = 0 /\ run[r].status # "absent"
        /\ \A w \in Workers : ~WorkerHolds(w, r)
        /\ \A j \in JobIds : ~JobHolds(j, r)
        /\ \A p \in Requests : RequestHolds(p, r) => p = q
        /\ history[r].begun = run[r].steps
    BY <1>1, <2>1, Shapes DEF Sound, Handed, Counted, Free
  <2>3. queue'[r] = 1 /\ Free(r)'
    BY <1>1, <1>2, <1>3, <1>4, <1>6, <2>2, Shapes DEF Free
  <2>4. Handed(r)'
    BY <1>2, <2>2, <2>3 DEF Handed, Free
  <2>5. Counted(r)'
    BY <1>1, <1>2, <2>2, <2>3 DEF Sound, Counted, Free
  <2>6. Stopping(r)'
    BY <1>1, <1>2, <2>3 DEF Sound, Stopping, Free
  <2> QED BY <2>4, <2>5, <2>6 DEF Sound
<1> QED BY <1>5, <1>6

LEMMA HandleSound ==
  ASSUME IInv, NEW t \in Ticks, NEW j \in JobIds, HandleResume(t, j), NEW r \in Runs
  PROVE  Sound(r)'
<1> DEFINE x == jobs[j].target
<1>1. Typed /\ Typed' /\ Sound(r) /\ x \in Runs
  BY HandleTyped DEF IInv
<1>2. /\ queue' = [queue EXCEPT ![x] = @ + 1]
      /\ UNCHANGED <<run, worker, request, history, jobs>>
      /\ jobs[j].status = "claimed" /\ fired[j] = 0 /\ fired'[j] # 0
      /\ \A i \in JobIds : i # j => fired'[i] = fired[i]
  BY <1>1, HandleTyped
<1>3. /\ \A w \in Workers : WorkerHolds(w, r)' <=> WorkerHolds(w, r)
      /\ \A q \in Requests : RequestHolds(q, r)' <=> RequestHolds(q, r)
      /\ \A i \in JobIds : JobHolds(i, r)' <=> i # j /\ JobHolds(i, r)
  BY <1>2 DEF WorkerHolds, RequestHolds, JobHolds
<1>5. CASE r # x
  <2>1. queue'[r] = queue[r]
    BY <1>1, <1>2, <1>5, Shapes
  <2>2. Still(r)
    BY <1>2, <1>3, <2>1 DEF Still
  <2> QED BY <1>1, <2>2, StillSound
<1>6. CASE r = x
  <2>1. JobHolds(j, r)
    BY <1>2, <1>6 DEF JobHolds
  <2>2. /\ queue[r] = 0 /\ run[r].status # "absent"
        /\ \A w \in Workers : ~WorkerHolds(w, r)
        /\ \A q \in Requests : ~RequestHolds(q, r)
        /\ \A i \in JobIds : JobHolds(i, r) => i = j
        /\ history[r].begun = run[r].steps
    BY <1>1, <2>1, Shapes DEF Sound, Handed, Counted, Free
  <2>3. queue'[r] = 1 /\ Free(r)'
    BY <1>1, <1>2, <1>3, <1>6, <2>2, Shapes DEF Free
  <2>4. Handed(r)'
    BY <1>2, <2>2, <2>3 DEF Handed, Free
  <2>5. Counted(r)'
    BY <1>1, <1>2, <2>2, <2>3 DEF Sound, Counted, Free
  <2>6. Stopping(r)'
    BY <1>1, <1>2, <2>3 DEF Sound, Stopping, Free
  <2> QED BY <2>4, <2>5, <2>6 DEF Sound
<1> QED BY <1>5, <1>6

LEMMA ReceiveSound ==
  ASSUME IInv, NEW w \in Workers, NEW x \in Runs, Receive(w, x), NEW r \in Runs
  PROVE  Sound(r)'
<1>1. Typed /\ Typed' /\ Sound(r)
  BY ReceiveTyped DEF IInv
<1>2. /\ queue[x] > 0 /\ queue' = [queue EXCEPT ![x] = @ - 1]
      /\ worker[w].pc = "idle" /\ Kept(r)
      /\ \A v \in Workers : v # w => worker'[v] = worker[v]
      /\ UNCHANGED <<request, history, jobs, fired>>
  BY <1>1, ReceiveTyped
<1>3. /\ \A q \in Requests : RequestHolds(q, r)' <=> RequestHolds(q, r)
      /\ \A j \in JobIds : JobHolds(j, r)' <=> JobHolds(j, r)
      /\ ~WorkerHolds(w, r)
  BY <1>1, <1>2, HandsOff DEF RequestHolds, JobHolds
<1>4. \A v \in Workers : WorkerHolds(v, r)' =>
        \/ WorkerHolds(v, r) /\ worker'[v] = worker[v]
        \/ v = w /\ r = x /\ worker'[v].pc = "begin"
  BY <1>1, <1>2, ReceiveTyped DEF WorkerHolds
<1>5. CASE r # x
  <2>1. queue'[r] = queue[r]
    BY <1>1, <1>2, <1>5, Shapes
  <2>2. Still(r)
    BY <1>2, <1>3, <1>4, <1>5, <2>1 DEF Still, Kept
  <2> QED BY <1>1, <2>2, StillSound
<1>6. CASE r = x
  <2>1. /\ queue[r] = 1 /\ Free(r) /\ run[r].status # "absent"
        /\ history[r].begun = run[r].steps
    BY <1>1, <1>2, <1>6 DEF Sound, Handed, Counted
  <2>2. queue'[r] = 0 /\ run'[r].status # "absent"
    BY <1>1, <1>2, <1>6, <2>1, Shapes DEF Kept
  <2>3. \A v \in Workers : WorkerHolds(v, r)' => v = w /\ worker'[v].pc = "begin"
    BY <1>4, <2>1 DEF Free
  <2>4. Handed(r)'
    BY <1>3, <2>1, <2>2, <2>3 DEF Handed, Free
  <2>5. Counted(r)'
    BY <1>1, <1>2, <1>3, <2>1, <2>2, <2>3 DEF Sound, Counted, Kept, Executing
  <2>6. Stopping(r)'
    BY <1>1, <1>2, <2>2, <2>3 DEF Sound, Stopping, Kept
  <2> QED BY <2>4, <2>5, <2>6 DEF Sound
<1> QED BY <1>5, <1>6

LEMMA ScheduleSound ==
  ASSUME IInv, NEW w \in Workers, NEW j \in JobIds, ScheduleResume(w, j), NEW r \in Runs
  PROVE  Sound(r)'
<1> DEFINE x == worker[w].run
<1>1. Typed /\ Typed' /\ Sound(r) /\ x \in Runs
  BY ScheduleTyped DEF IInv
<1>2. /\ worker[w].pc = "schedule" /\ worker' = [worker EXCEPT ![w] = IdleWorker]
      /\ UNCHANGED <<run, queue, request, history, fired>>
      /\ jobs'[j].target = x
      /\ \A i \in JobIds : i # j => jobs'[i] = jobs[i]
      /\ jobs[j].status = "absent"
  <2>1. jobs \in [JobIds -> Job]
    BY <1>1, Shapes DEF JobsTypeOK
  <2>2. /\ worker[w].pc = "schedule" /\ worker' = [worker EXCEPT ![w] = IdleWorker]
        /\ UNCHANGED <<run, queue, request, history>> /\ ScheduleJob(j, x)
    BY <1>1, ScheduleTyped
  <2>3. /\ UNCHANGED fired /\ jobs[j].status = "absent"
        /\ jobs' = [jobs EXCEPT ![j] = [NewJob EXCEPT !.status = "pending", !.target = x]]
    BY <2>2 DEF ScheduleJob, FreeJob
  <2>4. jobs'[j].target = x /\ \A i \in JobIds : i # j => jobs'[i] = jobs[i]
    BY <2>1, <2>3 DEF NewJob
  <2> QED BY <2>2, <2>3, <2>4
<1>3. /\ \A q \in Requests : RequestHolds(q, r)' <=> RequestHolds(q, r)
      /\ \A v \in Workers : WorkerHolds(v, r)' =>
           v # w /\ WorkerHolds(v, r) /\ worker'[v] = worker[v]
      /\ \A i \in JobIds : JobHolds(i, r)' =>
           \/ i # j /\ JobHolds(i, r)
           \/ i = j /\ r = x
  BY <1>1, <1>2, WorkerRests, IdleTypes, RunAssumption
     DEF RequestHolds, WorkerHolds, JobHolds
<1>5. CASE r # x
  <2>1. Still(r)
    BY <1>2, <1>3, <1>5 DEF Still
  <2> QED BY <1>1, <2>1, StillSound
<1>6. CASE r = x
  <2>1. WorkerHolds(w, r)
    BY <1>6 DEF WorkerHolds
  <2>2. /\ queue[r] = 0 /\ run[r].status # "absent"
        /\ \A v \in Workers : WorkerHolds(v, r) => v = w
        /\ \A q \in Requests : ~RequestHolds(q, r)
        /\ \A i \in JobIds : ~JobHolds(i, r)
        /\ history[r].begun = run[r].steps
    BY <1>1, <1>2, <2>1, Shapes DEF Sound, Handed, Counted, Free, Between
  <2>3. /\ \A v \in Workers : ~WorkerHolds(v, r)'
        /\ \A q \in Requests : ~RequestHolds(q, r)'
        /\ \A i \in JobIds : JobHolds(i, r)' => i = j
    BY <1>3, <2>2
  <2>4. Handed(r)'
    BY <1>2, <2>2, <2>3 DEF Handed
  <2>5. Counted(r)'
    BY <1>1, <1>2, <2>2, <2>3 DEF Sound, Counted
  <2>6. Stopping(r)'
    BY <1>1, <1>2, <2>3 DEF Sound, Stopping
  <2> QED BY <2>4, <2>5, <2>6 DEF Sound
<1> QED BY <1>5, <1>6

\* A worker that keeps its run, from one place to the next.
LEMMA WorkerMoves ==
  ASSUME Typed, NEW w \in Workers, NEW r \in Runs, Handed(r),
         worker[w].run = r, worker'[w].run = r,
         \A v \in Workers : v # w => worker'[v] = worker[v],
         run'[r].status = run[r].status,
         UNCHANGED <<queue, request, jobs, fired>>
  PROVE  /\ Handed(r)' /\ queue'[r] = 0 /\ run'[r].status # "absent"
         /\ \A q \in Requests : ~RequestHolds(q, r)'
         /\ \A j \in JobIds : ~JobHolds(j, r)'
         /\ \A v \in Workers : WorkerHolds(v, r)' => v = w
<1>1. /\ \A q \in Requests : RequestHolds(q, r)' <=> RequestHolds(q, r)
      /\ \A v \in Workers : WorkerHolds(v, r)' <=> WorkerHolds(v, r)
      /\ \A j \in JobIds : JobHolds(j, r)' <=> JobHolds(j, r)
      /\ WorkerHolds(w, r)
  BY DEF RequestHolds, WorkerHolds, JobHolds
<1>2. /\ queue[r] = 0 /\ run[r].status # "absent"
      /\ \A q \in Requests : ~RequestHolds(q, r)
      /\ \A j \in JobIds : ~JobHolds(j, r)
      /\ \A v \in Workers : WorkerHolds(v, r) => v = w
  BY <1>1, Shapes DEF Handed, Free
<1>3. Handed(r)'
  BY <1>1, <1>2 DEF Handed
<1> QED BY <1>1, <1>2, <1>3

\* What a move of one worker leaves of another run.
LEMMA WorkerElsewhere ==
  ASSUME Typed, NEW w \in Workers, NEW r \in Runs,
         worker[w].run # r, worker'[w].run # r,
         \A v \in Workers : v # w => worker'[v] = worker[v],
         run'[r] = run[r], history'[r].begun = history[r].begun,
         history'[r].after = history[r].after,
         UNCHANGED <<queue, request, jobs, fired>>
  PROVE  Still(r)
  BY DEF Still, RequestHolds, WorkerHolds, JobHolds

LEMMA GuardSound ==
  ASSUME IInv, NEW w \in Workers, Guard(w), NEW r \in Runs
  PROVE  Sound(r)'
<1>1. Typed /\ Typed' /\ Sound(r)
  BY GuardTyped DEF IInv
<1>2. /\ worker[w].pc = "loop" /\ worker'[w].pc = "enter"
      /\ worker'[w].run = worker[w].run
      /\ worker'[w].steps = run[worker[w].run].steps
      /\ ~Cancelled(worker[w].run) /\ ~OverBudget(worker[w].run)
      /\ \A v \in Workers : v # w => worker'[v] = worker[v]
      /\ UNCHANGED <<run, queue, request, history, jobs, fired>>
  BY <1>1, GuardTyped
<1>3. CASE r # worker[w].run
  BY <1>1, <1>2, <1>3, WorkerElsewhere, StillSound
<1>4. CASE r = worker[w].run
  <2>1. /\ Handed(r)' /\ queue'[r] = 0 /\ run'[r].status # "absent"
        /\ \A q \in Requests : ~RequestHolds(q, r)'
        /\ \A j \in JobIds : ~JobHolds(j, r)'
        /\ \A v \in Workers : WorkerHolds(v, r)' => v = w
    BY <1>1, <1>2, <1>4, WorkerMoves DEF Sound
  <2>2. history[r].begun = run[r].steps /\ ~run[r].cancel /\ run[r].steps < run[r].max
    <3>1. run[r].steps \in Nat /\ run[r].max \in Nat
      BY <1>1, Shapes DEF Row
    <3> QED BY <3>1, <1>1, <1>2, <1>4 DEF Sound, Counted, WorkerHolds, Between,
                                          Cancelled, OverBudget
  <2>3. Counted(r)'
    BY <1>1, <1>2, <1>4, <2>1, <2>2 DEF Sound, Counted, Between, Executing
  <2>4. Stopping(r)'
    BY <1>1, <1>2, <2>2 DEF Sound, Stopping
  <2> QED BY <2>1, <2>3, <2>4 DEF Sound
<1> QED BY <1>3, <1>4

LEMMA EnterSound ==
  ASSUME IInv, NEW w \in Workers, Enter(w), NEW r \in Runs
  PROVE  Sound(r)'
<1> DEFINE x == worker[w].run
<1>1. Typed /\ Typed' /\ Sound(r)
  BY EnterTyped DEF IInv
<1>2. /\ worker[w].pc = "enter" /\ x \in Runs
      /\ worker'[w].pc = "node" /\ worker'[w].run = x
      /\ worker'[w].steps = worker[w].steps
      /\ \A v \in Workers : v # w => worker'[v] = worker[v]
      /\ history'[x].begun = history[x].begun + 1
      /\ history'[x].after = IF run[x].cancel THEN history[x].after + 1
                             ELSE history[x].after
      /\ \A y \in Runs : y # x => history'[y] = history[y]
      /\ UNCHANGED <<run, queue, request, jobs, fired>>
  BY <1>1, EnterTyped
<1>3. CASE r # x
  BY <1>1, <1>2, <1>3, WorkerElsewhere, StillSound
<1>4. CASE r = x
  <2>1. /\ Handed(r)' /\ queue'[r] = 0 /\ run'[r].status # "absent"
        /\ \A q \in Requests : ~RequestHolds(q, r)'
        /\ \A j \in JobIds : ~JobHolds(j, r)'
        /\ \A v \in Workers : WorkerHolds(v, r)' => v = w
    BY <1>1, <1>2, <1>4, WorkerMoves DEF Sound
  <2>2. /\ history[r].begun = run[r].steps /\ worker[w].steps = run[r].steps
        /\ run[r].steps < run[r].max /\ history[r].after = 0
    BY <1>1, <1>2, <1>4 DEF Sound, Counted, Stopping, WorkerHolds
  <2>3. run[r].steps \in Nat /\ run[r].max \in Nat
    BY <1>1, Shapes DEF Row
  <2>4. Counted(r)'
    BY <1>2, <1>4, <2>1, <2>2, <2>3 DEF Counted, Between
  <2>5. Stopping(r)'
    BY <1>2, <1>4, <2>1, <2>2 DEF Stopping
  <2> QED BY <2>1, <2>4, <2>5 DEF Sound
<1> QED BY <1>3, <1>4

LEMMA CompleteSound ==
  ASSUME IInv, NEW w \in Workers, Complete(w) \/ CompleteDelay(w), NEW r \in Runs
  PROVE  Sound(r)'
<1> DEFINE x == worker[w].run
<1>1. Typed /\ Typed' /\ Sound(r)
  BY CompleteTyped, DelayTyped DEF IInv
<1>2. /\ worker[w].pc \in Executing /\ x \in Runs
      /\ worker'[w].pc \in Between /\ worker'[w].run = x
      /\ \A v \in Workers : v # w => worker'[v] = worker[v]
      /\ run'[x].steps = worker[w].steps + 1 /\ run'[x].max = run[x].max
      /\ run'[x].cancel = run[x].cancel /\ run'[x].status = run[x].status
      /\ \A y \in Runs : y # x => run'[y] = run[y]
      /\ history'[r].begun = history[r].begun /\ history'[r].after = history[r].after
      /\ UNCHANGED <<queue, request, jobs, fired>>
  BY <1>1, CompleteTyped, DelayTyped DEF Executing, Between
<1>3. CASE r # x
  BY <1>1, <1>2, <1>3, WorkerElsewhere, StillSound
<1>4. CASE r = x
  <2>1. /\ Handed(r)' /\ queue'[r] = 0 /\ run'[r].status # "absent"
        /\ \A q \in Requests : ~RequestHolds(q, r)'
        /\ \A j \in JobIds : ~JobHolds(j, r)'
        /\ \A v \in Workers : WorkerHolds(v, r)' => v = w
    BY <1>1, <1>2, <1>4, WorkerMoves DEF Sound
  <2>2. history[r].begun = run[r].steps + 1 /\ worker[w].steps = run[r].steps
    BY <1>1, <1>2, <1>4 DEF Sound, Counted, WorkerHolds
  <2>3. Counted(r)'
    BY <1>1, <1>2, <1>4, <2>1, <2>2 DEF Sound, Counted, Between, Executing
  <2>4. Stopping(r)'
    BY <1>1, <1>2, <1>4, <2>1 DEF Sound, Stopping, Between
  <2> QED BY <2>1, <2>3, <2>4 DEF Sound
<1> QED BY <1>3, <1>4

-----------------------------------------------------------------------------
(* The invariant *)

LEMMA InitHolds == ASSUME Init PROVE IInv
<1>1. Typed
  BY InitTyped
<1>2. ASSUME NEW r \in Runs PROVE Sound(r)
  <2>1. /\ run[r] = NewRow /\ queue[r] = 0
        /\ history[r].begun = 0 /\ history[r].after = 0
        /\ \A q \in Requests : request[q].pc = "idle"
        /\ \A w \in Workers : worker[w].run = NoRun
        /\ \A j \in JobIds : jobs[j].status = "absent"
    BY IdleTypes DEF Init, JobsInit
  <2>2. Free(r)
    BY <2>1, RunAssumption DEF Free, RequestHolds, WorkerHolds, JobHolds
  <2>3. Handed(r)
    BY <2>1, <2>2 DEF Handed, Free
  <2>4. Counted(r)
    BY <2>1, <2>2 DEF Counted, Free, NewRow
  <2>5. Stopping(r)
    BY <2>1, <2>2 DEF Stopping, Free
  <2> QED BY <2>3, <2>4, <2>5 DEF Sound
<1> QED BY <1>1, <1>2 DEF IInv

LEMMA StepHolds == ASSUME IInv, [Next]_vars PROVE IInv'
<1>1. Typed /\ \A r \in Runs : Sound(r)
  BY DEF IInv
<1>2. ASSUME Typed', \A r \in Runs : Still(r) PROVE IInv'
  BY <1>1, <1>2, StillSound DEF IInv
<1>3. ASSUME NEW q \in Requests,
             \/ \E op \in Ops : ReadAutomation(q, op)
             \/ \E r \in Runs : ReadCancel(q, r)
             \/ RequestStep(q) \/ RequestCrash(q)
      PROVE  IInv' \/ (Typed' /\ \A r \in Runs : Still(r))
  <2>1. CASE DispatchRun(q)
    BY <1>1, <2>1, DispatchSound, DispatchTyped DEF IInv
  <2>2. CASE \E r \in Runs : CreateRun(q, r)
    BY <1>1, <2>2, CreateSound, CreateTyped DEF IInv
  <2>3. CASE \/ \E op \in Ops : ReadAutomation(q, op)
             \/ \E x \in Runs : ReadCancel(q, x)
             \/ EditGraph(q) \/ EditStatus(q) \/ PublishAutomation(q)
             \/ PauseAutomation(q) \/ CancelRun(q) \/ RequestCrash(q)
    BY <1>1, <2>3, RequestsStill, ReadTyped, EditTyped, CancelTyped, RequestCrashTyped
  <2> QED BY <1>3, <2>1, <2>2, <2>3 DEF RequestStep
<1>4. ASSUME NEW w \in Workers,
             \/ \E r \in Runs : Receive(w, r)
             \/ WorkerStep(w) \/ WorkerCrash(w)
      PROVE  IInv' \/ (Typed' /\ \A r \in Runs : Still(r))
  <2>1. CASE \E r \in Runs : Receive(w, r)
    BY <1>1, <2>1, ReceiveSound, ReceiveTyped DEF IInv
  <2>2. CASE Guard(w)
    BY <1>1, <2>2, GuardSound, GuardTyped DEF IInv
  <2>3. CASE Enter(w)
    BY <1>1, <2>3, EnterSound, EnterTyped DEF IInv
  <2>4. CASE Complete(w) \/ CompleteDelay(w)
    BY <1>1, <2>4, CompleteSound, CompleteTyped, DelayTyped DEF IInv
  <2>5. CASE \E j \in JobIds : ScheduleResume(w, j)
    BY <1>1, <2>5, ScheduleSound, ScheduleTyped DEF IInv
  <2>6. CASE \/ Begin(w) \/ Refuse(w) \/ SendCommits(w) \/ NodeFails(w)
             \/ Park(w) \/ Succeed(w) \/ WorkerCrash(w)
    BY <1>1, <2>6, WorkersStill, BeginTyped, RefuseTyped, SendTyped, NodeFailsTyped,
       ParkTyped, SucceedTyped, CrashTyped
  <2> QED BY <1>4, <2>1, <2>2, <2>3, <2>4, <2>5, <2>6 DEF WorkerStep
<1>5. ASSUME NEW t \in Ticks, NEW j \in JobIds, HandleResume(t, j) PROVE IInv'
  BY <1>1, <1>5, HandleSound, HandleTyped DEF IInv
<1>6. ASSUME \/ QuietJobs /\ UNCHANGED runVars
             \/ \E r \in Runs : DeadlinePasses(r)
             \/ UNCHANGED vars
      PROVE  Typed' /\ \A r \in Runs : Still(r)
  <2>1. \A r \in Runs : Typed' /\ Still(r)
    BY <1>1, <1>6, OthersStill
  <2>2. Typed'
    <3>1. CASE QuietJobs /\ UNCHANGED runVars
      BY <1>1, <3>1, TickTyped
    <3>2. CASE \E r \in Runs : DeadlinePasses(r)
      BY <1>1, <3>2, LateTyped
    <3>3. CASE UNCHANGED vars
      BY <1>1, <3>3 DEF vars, Typed, TypeOK, JobsTypeOK, Places, Tickets
    <3> QED BY <1>6, <3>1, <3>2, <3>3
  <2> QED BY <2>1, <2>2
<1>7. \/ \E q \in Requests : \/ \E op \in Ops : ReadAutomation(q, op)
                             \/ \E r \in Runs : ReadCancel(q, r)
                             \/ RequestStep(q) \/ RequestCrash(q)
      \/ \E w \in Workers : \/ \E r \in Runs : Receive(w, r)
                            \/ WorkerStep(w) \/ WorkerCrash(w)
      \/ \E t \in Ticks, j \in JobIds : HandleResume(t, j)
      \/ QuietJobs /\ UNCHANGED runVars
      \/ \E r \in Runs : DeadlinePasses(r)
      \/ UNCHANGED vars
  BY DEF Next, TickStep, QuietJobs
<1> QED BY <1>2, <1>3, <1>4, <1>5, <1>6, <1>7

LEMMA Invariance == Spec => []IInv
  BY InitHolds, StepHolds, PTL DEF Spec

-----------------------------------------------------------------------------
(* The theorems *)

\* Every variable keeps its type: the rows and queue of the runs, the local
\* state of requests and workers, and the jobs table.
THEOREM TypeCorrect == Spec => []TypeOK
<1>1. IInv => TypeOK
  BY DEF IInv, Typed
<1> QED BY <1>1, Invariance, PTL

LEMMA HandedMeansOne ==
  ASSUME IInv, NEW r \in Runs
  PROVE  Cardinality(Hands(r)) + queue[r] <= 1
<1>1. Handed(r) /\ queue[r] \in Nat
  BY Shapes DEF IInv, Sound
<1>2. Hands(r) = {<<"request", q>> : q \in {x \in Requests : RequestHolds(x, r)}}
                   \cup {<<"worker", w>> : w \in {x \in Workers : WorkerHolds(x, r)}}
                   \cup {<<"job", j>> : j \in {x \in JobIds : JobHolds(x, r)}}
  BY DEF Hands, RequestHolds, WorkerHolds, JobHolds
<1>3. CASE Hands(r) = {}
  BY <1>1, <1>3, FS_EmptySet DEF Handed
<1>4. CASE Hands(r) # {}
  <2>1. PICK h : h \in Hands(r)
    BY <1>4
  <2>2. \A g \in Hands(r) : g = h
    BY <1>1, <1>2, <2>1 DEF Handed
  <2>3. queue[r] = 0
    BY <1>1, <1>2, <2>1 DEF Handed, Free
  <2>4. Hands(r) = {h}
    BY <2>1, <2>2
  <2>5. Cardinality(Hands(r)) = 1
    BY <2>4, FS_Singleton, Zenon
  <2> QED BY <2>3, <2>5
<1> QED BY <1>3, <1>4

\* A run is in one pair of hands at any time, whatever crashes and whatever
\* calls the broker refuses: _execute_run never works on it twice at once.
THEOREM NobodyElseExecutes == Spec => []OneExecutor
<1>1. IInv => OneExecutor
  BY HandedMeansOne DEF OneExecutor
<1> QED BY <1>1, Invariance, PTL

\* No graph and no sequence of delays, resumptions and restarts makes a run
\* begin more nodes than the max_steps it was given when it was created.
THEOREM BudgetIsKept == Spec => []StepsWithinBudget
<1>1. IInv => StepsWithinBudget
  BY DEF IInv, Sound, Counted, StepsWithinBudget
<1> QED BY <1>1, Invariance, PTL

\* Once request_run_cancellation has committed, at most one more node of the
\* run is executed: the one whose guard had read the row before.
THEOREM CancellationIsPrompt == Spec => []CancelledStops
<1>1. IInv => CancelledStops
  BY DEF IInv, Sound, Stopping, CancelledStops
<1> QED BY <1>1, Invariance, PTL
=============================================================================

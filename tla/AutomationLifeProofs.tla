------------------------ MODULE AutomationLifeProofs ------------------------
(***************************************************************************)
(* What becomes of the runs of Automation: that a run which succeeded did  *)
(* what its graph asks for, and that every run lives as RunLife says.      *)
(* Both rest on OneExecutor, which IInv of AutomationProofs has, and on    *)
(* what the row of a run says while it is in a given pair of hands.        *)
(***************************************************************************)
EXTENDS AutomationProofs

(* Nodes still to be done *)

LEMMA ElementsOf ==
  /\ Elements(<<>>) = {}
  /\ \A n : Elements(<<n>>) = {n}
  BY DEF Elements

LEMMA ElementsOfRest ==
  ASSUME NEW s \in Seq(Nodes), s # <<>>
  PROVE  Elements(s) = {Head(s)} \cup Elements(Tail(s))
<1>1. /\ Len(s) \in Nat \ {0} /\ Head(s) = s[1]
      /\ Len(Tail(s)) = Len(s) - 1
      /\ \A i \in 1..Len(Tail(s)) : Tail(s)[i] = s[i + 1]
  OBVIOUS
<1>2. ASSUME NEW i \in 1..Len(s) PROVE s[i] \in {Head(s)} \cup Elements(Tail(s))
  <2>1. CASE i = 1
    BY <1>1, <2>1
  <2>2. CASE i # 1
    <3>1. i - 1 \in 1..Len(Tail(s)) /\ (i - 1) + 1 = i
      BY <1>1, <2>2
    <3>2. Tail(s)[i - 1] = s[i]
      BY <1>1, <3>1
    <3> QED BY <3>1, <3>2 DEF Elements
  <2> QED BY <2>1, <2>2
<1>3. Head(s) \in Elements(s)
  BY <1>1 DEF Elements
<1>4. ASSUME NEW i \in 1..Len(Tail(s)) PROVE Tail(s)[i] \in Elements(s)
  <2>1. i + 1 \in 1..Len(s) /\ Tail(s)[i] = s[i + 1]
    BY <1>1
  <2> QED BY <2>1 DEF Elements
<1> QED BY <1>2, <1>3, <1>4 DEF Elements

LEMMA ElementsOfBoth ==
  ASSUME NEW s \in Seq(Nodes), NEW t \in Seq(Nodes)
  PROVE  Elements(s) \cup Elements(t) \subseteq Elements(s \o t)
<1>1. ASSUME NEW i \in 1..Len(s) PROVE s[i] \in Elements(s \o t)
  <2>1. i \in 1..Len(s \o t) /\ (s \o t)[i] = s[i]
    OBVIOUS
  <2> QED BY <2>1 DEF Elements
<1>2. ASSUME NEW i \in 1..Len(t) PROVE t[i] \in Elements(s \o t)
  <2>1. /\ Len(s) + i \in 1..Len(s \o t)
        /\ (s \o t)[Len(s) + i] = t[i]
    OBVIOUS
  <2> QED BY <2>1 DEF Elements
<1> QED BY <1>1, <1>2 DEF Elements

LEMMA LeadsFurther ==
  ASSUME NEW g, NEW done, NEW seen, NEW more, LeadsOn(g, done, seen), seen \subseteq more
  PROVE  LeadsOn(g, done, more)
  BY DEF LeadsOn

\* Executing n, whose successors are now ahead.
LEMMA LeadsPast ==
  ASSUME NEW g \in Graphs, NEW done, NEW seen, LeadsOn(g, done, seen), NEW n \in Nodes,
         NEW S \in Follow(g, n), Elements(S) \subseteq seen
  PROVE  LeadsOn(g, done \cup {n}, seen)
<1>1. \/ g.kind[n] = "stop"
      \/ Elements(g.next[n]) \subseteq seen
      \/ g.kind[n] = "condition" /\ Elements(g.other[n]) \subseteq seen
  <2>1. CASE g.kind[n] = "condition"
    <3>1. S \in {g.next[n], g.other[n]}
      BY <2>1 DEF Follow
    <3> QED BY <2>1, <3>1
  <2>2. CASE g.kind[n] \notin {"condition", "stop"}
    <3>1. S = g.next[n]
      BY <2>2 DEF Follow
    <3> QED BY <3>1
  <2> QED BY <2>1, <2>2
<1> QED BY <1>1 DEF LeadsOn

-----------------------------------------------------------------------------
(* The invariant *)

\* A message or a job that will wake the run is on its way.
Awaits(r) == \/ queue[r] > 0
             \/ \E q \in Requests : RequestHolds(q, r)
             \/ \E j \in JobIds : JobHolds(j, r)

Underway == {"loop", "enter", "node", "sent", "park"}

\* What the row says, wherever the run is.
Placed(r) ==
    /\ run[r].status \in {"absent", "queued"} => history[r].done = {}
    /\ Awaits(r) => run[r].status \in {"queued", "waiting"}
    /\ \A w \in Workers : WorkerHolds(w, r) =>
         /\ worker[w].pc = "begin" => /\ run[r].status \in {"queued", "waiting"}
                                      /\ worker[w].seen = run[r].status
         /\ worker[w].pc \in Underway => /\ run[r].status = "running"
                                         /\ worker[w].seen = "running"
         /\ worker[w].pc = "schedule" => run[r].status = "waiting"

\* What was done leads to what was done and to the nodes ahead.
Leads(r, ahead) ==
    LeadsOn(history[r].graph, history[r].done, history[r].done \cup ahead)

\* Where the nodes ahead of a run are kept.
Led(r) ==
    /\ run[r].status \notin Finished \cup {"absent"}
       => history[r].graph = automation.graph
    /\ Awaits(r) /\ run[r].status = "waiting" => Leads(r, Elements(run[r].resume))
    /\ \A w \in Workers : WorkerHolds(w, r) =>
         /\ worker[w].graph = history[r].graph
         /\ worker[w].pc \in {"begin", "loop"} => Leads(r, Elements(worker[w].todo))
         /\ worker[w].pc \in {"enter", "node", "sent"}
            => Leads(r, Elements(worker[w].todo) \cup {worker[w].node})
         /\ worker[w].pc = "park"
            => Leads(r, Elements(worker[w].graph.next[worker[w].node]))
         /\ worker[w].pc = "schedule" => Leads(r, Elements(run[r].resume))
    /\ run[r].status = "succeeded" => Leads(r, {})

Along(r) == Placed(r) /\ (~history[r].cut => Led(r))
LInv == IInv /\ \A r \in Runs : Along(r)

-----------------------------------------------------------------------------
(* Steps that leave a run alone *)

\* The step changes nothing of the run, but that a request, a worker or a job
\* may let go of it, and that a request may ask it to stop.
Apart(r) ==
    /\ run'[r].status = run[r].status /\ run'[r].resume = run[r].resume
    /\ history'[r].done = history[r].done /\ history'[r].graph = history[r].graph
    /\ ~history'[r].cut =>
         /\ ~history[r].cut
         /\ \/ automation'.graph = automation.graph
            \/ run[r].status \in Finished \cup {"absent"}
    /\ Awaits(r)' => Awaits(r)
    /\ \A w \in Workers : WorkerHolds(w, r)' =>
         WorkerHolds(w, r) /\ worker'[w] = worker[w]

LEMMA ApartAlong == ASSUME NEW r \in Runs, Along(r), Apart(r) PROVE Along(r)'
<1>1. Placed(r)'
  BY DEF Along, Apart, Placed
<1>2. ASSUME ~history'[r].cut PROVE Led(r)'
  <2>1. Led(r)
    BY <1>2 DEF Along, Apart
  <2>2. \A S : Leads(r, S) => LeadsOn(history[r].graph, history[r].done, history[r].done \cup S)'
    BY DEF Leads, Apart
  <2>a. \A S : LeadsOn(history'[r].graph, history'[r].done, history'[r].done \cup S)
              <=> LeadsOn(history[r].graph, history[r].done, history[r].done \cup S)
    BY DEF Apart
  <2>3. /\ run'[r].status \notin Finished \cup {"absent"}
           => history'[r].graph = automation'.graph
        /\ Awaits(r)' /\ run'[r].status = "waiting" => Leads(r, Elements(run[r].resume))'
    BY <1>2, <2>1, <2>a DEF Apart, Led, Leads
  <2> QED BY <1>2, <2>1, <2>a, <2>3 DEF Apart, Led, Leads
<1> QED BY <1>1, <1>2 DEF Along
\* What the steps of a request leave alone.
LEMMA RequestsKeep ==
  ASSUME Typed, NEW q \in Requests
  PROVE  /\ \/ \E op \in Ops : ReadAutomation(q, op)
            \/ \E x \in Runs : ReadCancel(q, x)
            \/ DispatchRun(q) \/ RequestCrash(q)
            => UNCHANGED <<automation, run, worker, history, jobs, fired>>
         /\ EditStatus(q) \/ PublishAutomation(q) \/ PauseAutomation(q)
            => /\ UNCHANGED <<run, worker, history, jobs, fired>>
               /\ automation'.graph = automation.graph
         /\ EditGraph(q) => UNCHANGED <<run, worker, jobs, fired>>
         /\ CancelRun(q) => UNCHANGED <<automation, worker, history, jobs, fired>>
<1>1. ASSUME NEW op \in Ops, ReadAutomation(q, op)
      PROVE  UNCHANGED <<automation, run, worker, history, jobs, fired>>
  BY <1>1 DEF ReadAutomation, jobVars
<1>2. ASSUME NEW x \in Runs, ReadCancel(q, x)
      PROVE  UNCHANGED <<automation, run, worker, history, jobs, fired>>
  BY <1>2 DEF ReadCancel, jobVars
<1>3. ASSUME DispatchRun(q)
      PROVE  UNCHANGED <<automation, run, worker, history, jobs, fired>>
  BY <1>3 DEF DispatchRun, jobVars
<1>4. ASSUME RequestCrash(q)
      PROVE  UNCHANGED <<automation, run, worker, history, jobs, fired>>
  BY <1>4 DEF RequestCrash, jobVars
<1>5. ASSUME NEW s, automation' = [automation EXCEPT !.status = s]
      PROVE  automation'.graph = automation.graph
  BY <1>5, Shapes
<1>6. ASSUME EditStatus(q)
      PROVE  /\ UNCHANGED <<run, worker, history, jobs, fired>>
             /\ automation'.graph = automation.graph
  BY <1>5, <1>6 DEF EditStatus, jobVars
<1>7. ASSUME PublishAutomation(q)
      PROVE  /\ UNCHANGED <<run, worker, history, jobs, fired>>
             /\ automation'.graph = automation.graph
  BY <1>5, <1>7 DEF PublishAutomation, jobVars
<1>8. ASSUME PauseAutomation(q)
      PROVE  /\ UNCHANGED <<run, worker, history, jobs, fired>>
             /\ automation'.graph = automation.graph
  BY <1>5, <1>8 DEF PauseAutomation, jobVars
<1>9. EditGraph(q) => UNCHANGED <<run, worker, jobs, fired>>
  BY DEF EditGraph, jobVars
<1>10. CancelRun(q) => UNCHANGED <<automation, worker, history, jobs, fired>>
  BY DEF CancelRun, jobVars
<1> QED BY <1>1, <1>2, <1>3, <1>4, <1>6, <1>7, <1>8, <1>9, <1>10

LEMMA RequestsApart ==
  ASSUME Typed, NEW r \in Runs, NEW q \in Requests,
         \/ \E op \in Ops : ReadAutomation(q, op)
         \/ \E x \in Runs : ReadCancel(q, x)
         \/ EditGraph(q) \/ EditStatus(q) \/ PublishAutomation(q) \/ PauseAutomation(q)
         \/ CancelRun(q) \/ DispatchRun(q) \/ RequestCrash(q)
  PROVE  Apart(r)
<1>1. UNCHANGED <<worker, jobs, fired>>
  BY RequestsKeep
<1>2. /\ \A w \in Workers : WorkerHolds(w, r)' => WorkerHolds(w, r) /\ worker'[w] = worker[w]
      /\ \A j \in JobIds : JobHolds(j, r)' => JobHolds(j, r)
  BY <1>1 DEF WorkerHolds, JobHolds
<1>3. Awaits(r)' => Awaits(r)
  <2>1. CASE DispatchRun(q)
    <3>1. /\ request[q].pc = "dispatch" /\ request[q].run \in Runs
          /\ queue' = [queue EXCEPT ![request[q].run] = @ + 1]
          /\ request' = [request EXCEPT ![q] = IdleRequest]
      BY <2>1, DispatchTyped DEF DispatchRun
    <3>2. \A p \in Requests : RequestHolds(p, r)' => RequestHolds(p, r)
      BY <3>1, RequestRests, IdleTypes DEF RequestHolds
    <3>3. queue'[r] > 0 => queue[r] > 0 \/ RequestHolds(q, r)
      BY <3>1, Shapes DEF RequestHolds
    <3> QED BY <1>2, <3>2, <3>3 DEF Awaits
  <2>2. CASE \/ \E op \in Ops : ReadAutomation(q, op)
             \/ \E x \in Runs : ReadCancel(q, x)
             \/ EditGraph(q) \/ EditStatus(q) \/ PublishAutomation(q) \/ PauseAutomation(q)
             \/ CancelRun(q) \/ RequestCrash(q)
    <3>1. Still(r)
      BY <2>2, RequestsStill
    <3> QED BY <3>1 DEF Still, Awaits
  <2> QED BY <2>1, <2>2
<1>4. /\ run'[r].status = run[r].status /\ run'[r].resume = run[r].resume
  <2>1. CASE CancelRun(q)
    <3> DEFINE x == request[q].run
               row == [run[x] EXCEPT !.cancel = TRUE]
    <3>1. run' = [run EXCEPT ![x] = row] /\ x \in Runs
      BY <2>1, Shapes DEF CancelRun, Places
    <3>2. row.status = run[x].status /\ row.resume = run[x].resume
      BY <3>1, Shapes DEF Row
    <3> HIDE DEF x, row
    <3> QED BY <3>1, <3>2, Shapes
  <2>2. CASE ~CancelRun(q)
    BY <2>2, RequestsKeep
  <2> QED BY <2>1, <2>2
<1>5. /\ history'[r].done = history[r].done /\ history'[r].graph = history[r].graph
      /\ ~history'[r].cut =>
           /\ ~history[r].cut
           /\ \/ automation'.graph = automation.graph
              \/ run[r].status \in Finished \cup {"absent"}
  <2>1. CASE EditGraph(q)
    <3>1. PICK g \in Graphs : history' = Touched(g) /\ automation'.graph = g
      BY <2>1 DEF EditGraph
    <3> DEFINE past == [history[r] EXCEPT !.cut = TRUE]
    <3>2. past.done = history[r].done /\ past.graph = history[r].graph /\ past.cut
      BY Shapes DEF History
    <3>3. history'[r] = IF g # automation.graph /\ run[r].status \notin Finished \cup {"absent"}
                        THEN past ELSE history[r]
      BY <3>1 DEF Touched
    <3> HIDE DEF past
    <3> QED BY <3>1, <3>2, <3>3
  <2>2. CASE ~EditGraph(q)
    BY <2>2, RequestsKeep
  <2> QED BY <2>1, <2>2
<1> QED BY <1>2, <1>3, <1>4, <1>5 DEF Apart

LEMMA OthersApart ==
  ASSUME Typed, NEW r \in Runs,
         \/ \E t \in Ticks, j \in JobIds : HandleResume(t, j)
         \/ QuietJobs /\ UNCHANGED runVars
         \/ \E x \in Runs : DeadlinePasses(x)
         \/ UNCHANGED vars
  PROVE  Apart(r)
<1>1. UNCHANGED <<automation, worker, history>>
  BY DEF HandleResume, runVars, DeadlinePasses, vars
<1>2. \A w \in Workers : WorkerHolds(w, r)' => WorkerHolds(w, r) /\ worker'[w] = worker[w]
  BY <1>1 DEF WorkerHolds
<1>3. Awaits(r)' => Awaits(r)
  <2>1. ASSUME NEW t \in Ticks, NEW j \in JobIds, HandleResume(t, j)
        PROVE  Awaits(r)' => Awaits(r)
    <3> DEFINE x == jobs[j].target
    <3>1. /\ queue' = [queue EXCEPT ![x] = @ + 1] /\ x \in Runs
          /\ UNCHANGED <<request, jobs>>
          /\ jobs[j].status = "claimed" /\ fired[j] = 0 /\ fired'[j] # 0
          /\ \A i \in JobIds : i # j => fired'[i] = fired[i]
      BY <2>1, HandleTyped
    <3>2. /\ \A q \in Requests : RequestHolds(q, r)' => RequestHolds(q, r)
          /\ \A i \in JobIds : JobHolds(i, r)' => JobHolds(i, r)
      BY <3>1 DEF RequestHolds, JobHolds
    <3>3. queue'[r] > 0 => queue[r] > 0 \/ JobHolds(j, r)
      BY <3>1, Shapes DEF JobHolds
    <3> QED BY <3>2, <3>3 DEF Awaits
  <2>2. CASE ~\E t \in Ticks, j \in JobIds : HandleResume(t, j)
    <3>1. Still(r)
      BY <2>2, OthersStill
    <3> QED BY <3>1 DEF Still, Awaits
  <2> QED BY <2>1, <2>2
<1>4. /\ run'[r].status = run[r].status /\ run'[r].resume = run[r].resume
  <2>1. ASSUME NEW x \in Runs, DeadlinePasses(x)
        PROVE  run'[r].status = run[r].status /\ run'[r].resume = run[r].resume
    <3> DEFINE row == [run[x] EXCEPT !.late = TRUE]
    <3>1. run' = [run EXCEPT ![x] = row]
      BY <2>1, Shapes DEF DeadlinePasses
    <3>2. row.status = run[x].status /\ row.resume = run[x].resume
      BY Shapes DEF Row
    <3> HIDE DEF row
    <3> QED BY <3>1, <3>2, Shapes
  <2>2. CASE ~\E x \in Runs : DeadlinePasses(x)
    BY <2>2 DEF HandleResume, runVars, vars
  <2> QED BY <2>1, <2>2
<1> QED BY <1>1, <1>2, <1>3, <1>4 DEF Apart

\* What a worker's step is to the runs it does not hold.
LEMMA ElsewhereApart ==
  ASSUME Typed, NEW w \in Workers, NEW r \in Runs,
         worker[w].run # r, worker'[w].run # r,
         \A v \in Workers : v # w => worker'[v] = worker[v],
         run'[r] = run[r], history'[r] = history[r] \/ Recalls(r),
         UNCHANGED <<automation, queue, request, jobs, fired>>
  PROVE  Apart(r)
  BY DEF Recalls, Apart, Awaits, RequestHolds, WorkerHolds, JobHolds

-----------------------------------------------------------------------------
(* A run is created *)

LEMMA CreateAlong ==
  ASSUME LInv, NEW q \in Requests, NEW x \in Runs, CreateRun(q, x), NEW r \in Runs
  PROVE  Along(r)'
<1>1. Typed /\ Handed(r) /\ Along(r)
  BY DEF LInv, IInv, Sound
<1> DEFINE past == [history[x] EXCEPT !.graph = request[q].graph,
                                      !.cut = (request[q].graph # automation.graph)]
           row == [NewRow EXCEPT !.status = "queued", !.max = Budget(request[q].graph)]
<1>2. /\ run' = [run EXCEPT ![x] = row] /\ history' = [history EXCEPT ![x] = past]
      /\ run[x].status = "absent"
      /\ UNCHANGED <<automation, queue, worker, jobs, fired>>
  BY <1>1, Shapes DEF CreateRun, jobVars
<1>3. /\ past.done = history[x].done /\ past.graph = request[q].graph
      /\ past.cut <=> request[q].graph # automation.graph
  BY <1>1, Shapes DEF History
<1>4. row.status = "queued"
  BY DEF NewRow
<1> HIDE DEF past, row
<1>5. /\ \A w \in Workers : WorkerHolds(w, r)' => WorkerHolds(w, r) /\ worker'[w] = worker[w]
      /\ \A j \in JobIds : JobHolds(j, r)' => JobHolds(j, r)
  BY <1>2 DEF WorkerHolds, JobHolds
<1>6. CASE r # x
  <2>1. run'[r] = run[r] /\ history'[r] = history[r]
    BY <1>1, <1>2, <1>6, Shapes
  <2>2. \A p \in Requests : RequestHolds(p, r)' => RequestHolds(p, r)
    BY <1>1, <1>6, CreateTyped DEF RequestHolds
  <2>3. Apart(r)
    BY <1>2, <1>5, <2>1, <2>2 DEF Apart, Awaits
  <2> QED BY <1>1, <2>3, ApartAlong
<1>7. CASE r = x
  <2>1. run'[r] = row /\ history'[r] = past
    BY <1>1, <1>2, <1>7, Shapes
  <2>2. Free(r) /\ history[r].done = {}
    BY <1>1, <1>2, <1>7 DEF Handed, Along, Placed
  <2>3. \A w \in Workers : ~WorkerHolds(w, r)'
    BY <1>5, <2>2 DEF Free
  <2>4. Placed(r)'
    BY <1>3, <1>4, <1>7, <2>1, <2>2, <2>3 DEF Placed
  <2>5. ~history'[r].cut => Led(r)'
    BY <1>2, <1>3, <1>4, <1>7, <2>1, <2>3 DEF Led
  <2> QED BY <2>4, <2>5 DEF Along
<1> QED BY <1>6, <1>7
-----------------------------------------------------------------------------
(* A run in a worker's hands, and one in nobody's *)

LEMMA HeldAlong ==
  ASSUME NEW r \in Runs, NEW w \in Workers, Handed(r)', queue'[r] \in Nat,
         worker'[w].run = r,
         run'[r].status \in {"queued", "waiting", "running"},
         run'[r].status = "queued" => history'[r].done = {},
         worker'[w].pc = "begin" => /\ run'[r].status \in {"queued", "waiting"}
                                    /\ worker'[w].seen = run'[r].status,
         worker'[w].pc \in Underway => /\ run'[r].status = "running"
                                       /\ worker'[w].seen = "running",
         worker'[w].pc = "schedule" => run'[r].status = "waiting",
         ~history'[r].cut =>
           /\ history'[r].graph = automation'.graph
           /\ worker'[w].graph = history'[r].graph
           /\ worker'[w].pc \in {"begin", "loop"} => Leads(r, Elements(worker[w].todo))'
           /\ worker'[w].pc \in {"enter", "node", "sent"}
              => Leads(r, Elements(worker[w].todo) \cup {worker[w].node})'
           /\ worker'[w].pc = "park"
              => Leads(r, Elements(worker[w].graph.next[worker[w].node]))'
           /\ worker'[w].pc = "schedule" => Leads(r, Elements(run[r].resume))'
  PROVE  Along(r)'
<1>1. WorkerHolds(w, r)'
  BY DEF WorkerHolds
<1>2. /\ ~Awaits(r)'
      /\ \A v \in Workers : WorkerHolds(v, r)' => v = w
  BY <1>1 DEF Handed, Free, Awaits
<1>3. Placed(r)'
  BY <1>2 DEF Placed
<1>4. ASSUME ~history'[r].cut PROVE Led(r)'
  BY <1>2, <1>4 DEF Led
<1> QED BY <1>3, <1>4 DEF Along

LEMMA LooseAlong ==
  ASSUME NEW r \in Runs, Along(r), ~Awaits(r)', \A w \in Workers : ~WorkerHolds(w, r)',
         Recalls(r), automation' = automation,
         \/ run'[r].status \in {"failed", "stopped", run[r].status}
         \/ /\ run'[r].status = "succeeded"
            /\ ~history[r].cut => Leads(r, {})
  PROVE  Along(r)'
<1>1. Placed(r)'
  BY DEF Along, Placed, Recalls
<1>2. ASSUME ~history'[r].cut PROVE Led(r)'
  <2>1. run'[r].status = "succeeded" => Leads(r, {})
    BY <1>2 DEF Along, Led, Recalls
  <2>2. Leads(r, {}) => Leads(r, {})'
    BY DEF Leads, Recalls
  <2> QED BY <1>2, <2>1, <2>2 DEF Along, Led, Finished, Recalls
<1> QED BY <1>1, <1>2 DEF Along

LEMMA ReceiveAlong ==
  ASSUME LInv, IInv', NEW w \in Workers, NEW x \in Runs, Receive(w, x), NEW r \in Runs
  PROVE  Along(r)'
<1>1. Typed /\ Typed' /\ Handed(r) /\ Handed(r)' /\ Along(r) /\ x \in Runs
  BY DEF LInv, IInv, Sound
<1>2. /\ queue[x] > 0 /\ queue' = [queue EXCEPT ![x] = @ - 1]
      /\ worker[w].pc = "idle"
      /\ \A v \in Workers : v # w => worker'[v] = worker[v]
      /\ UNCHANGED <<automation, request, history, jobs, fired>>
  <2>1. UNCHANGED automation
    BY Zenon DEF Receive
  <2> QED BY <1>1, <2>1, ReceiveTyped
<1>3. /\ \A q \in Requests : RequestHolds(q, r)' <=> RequestHolds(q, r)
      /\ \A j \in JobIds : JobHolds(j, r)' <=> JobHolds(j, r)
      /\ ~WorkerHolds(w, r)
      /\ queue'[r] > 0 => queue[r] > 0
      /\ queue'[r] \in Nat
  BY <1>1, <1>2, HandsOff, Shapes DEF RequestHolds, JobHolds
<1>4. CASE run' = run /\ worker' = worker
  <2>1. Apart(r)
    BY <1>2, <1>3, <1>4 DEF Apart, Awaits, WorkerHolds
  <2> QED BY <1>1, <2>1, ApartAlong
<1>5. CASE r # x /\ worker'[w].run = x /\ run' = run
  <2>1. Apart(r)
    BY <1>2, <1>3, <1>5 DEF Apart, Awaits, WorkerHolds
  <2> QED BY <1>1, <2>1, ApartAlong
<1>6. CASE r # x /\ run' = [run EXCEPT ![x].status = "failed"] /\ worker' = worker
  <2>1. run'[r] = run[r]
    BY <1>1, <1>6, Shapes
  <2>2. Apart(r)
    BY <1>2, <1>3, <1>6, <2>1 DEF Apart, Awaits, WorkerHolds
  <2> QED BY <1>1, <2>2, ApartAlong
<1>7. ASSUME r = x
      PROVE  /\ queue[r] = 1 /\ Free(r) /\ queue'[r] = 0
             /\ run[r].status \in {"queued", "waiting"}
  <2>1. Awaits(r)
    BY <1>2, <1>7 DEF Awaits
  <2>2. queue[r] = 1 /\ Free(r) /\ run[r].status \in {"queued", "waiting"}
    BY <1>1, <1>2, <1>7, <2>1 DEF Handed, Along, Placed
  <2> QED BY <1>1, <1>2, <1>7, <2>2, Shapes
<1>8. CASE r = x /\ run' = [run EXCEPT ![x].status = "failed"] /\ worker' = worker
  <2>1. run'[r].status = "failed"
    BY <1>1, <1>8, Shapes DEF Row
  <2>2. \A v \in Workers : WorkerHolds(v, r)' <=> WorkerHolds(v, r)
    BY <1>8 DEF WorkerHolds
  <2>3. ~Awaits(r)' /\ \A v \in Workers : ~WorkerHolds(v, r)'
    BY <1>3, <1>7, <1>8, <2>2 DEF Awaits, Free
  <2> QED BY <1>1, <1>2, <2>1, <2>3, LooseAlong DEF Recalls
<1> DEFINE begun(t) == [worker EXCEPT ![w] =
                          [IdleWorker EXCEPT !.pc = "begin", !.run = x,
                             !.graph = automation.graph,
                             !.todo = ToExecute(x, t), !.seen = run[x].status]]
<1>9. ASSUME r = x, run' = run, NEW t \in Triggers(automation.graph), worker' = begun(t)
      PROVE  Along(r)'
  <2> DEFINE me == [IdleWorker EXCEPT !.pc = "begin", !.run = x, !.graph = automation.graph,
                      !.todo = ToExecute(x, t), !.seen = run[x].status]
  <2>1. /\ me.pc = "begin" /\ me.run = r /\ me.graph = automation.graph
        /\ me.todo = ToExecute(r, t) /\ me.seen = run[r].status
    BY <1>9 DEF IdleWorker
  <2> HIDE DEF me
  <2>2. worker'[w] = me
    BY <1>1, <1>9, Shapes DEF me
  <2>3. /\ run[r].status \in {"queued", "waiting"}
        /\ run[r].status = "queued" => history[r].done = {}
    BY <1>1, <1>7, <1>9 DEF Along, Placed
  <2>4. ASSUME ~history[r].cut
        PROVE  history[r].graph = automation.graph /\ Leads(r, Elements(ToExecute(r, t)))
    <3>1. Awaits(r) /\ Led(r)
      BY <1>1, <1>2, <1>9, <2>4 DEF Awaits, Along
    <3>2. history[r].graph = automation.graph
      BY <2>3, <3>1 DEF Led, Finished
    <3>3. CASE run[r].status = "waiting"
      <4>1. Leads(r, Elements(run[r].resume))
        BY <3>1, <3>3 DEF Led
      <4>2. \A S : Elements(run[r].resume) \subseteq S => Leads(r, S)
        BY <4>1 DEF Leads, LeadsOn
      <4>3. CASE run[r].resume # <<>>
        <5>1. ToExecute(r, t) = run[r].resume
          BY <3>3, <4>3 DEF ToExecute
        <5> QED BY <3>2, <4>1, <5>1
      <4>4. CASE run[r].resume = <<>>
        <5>1. Elements(run[r].resume) = {}
          BY <4>4, ElementsOf
        <5> QED BY <3>2, <4>2, <5>1
      <4> QED BY <4>3, <4>4
    <3>4. CASE run[r].status = "queued"
      <4>1. history[r].done = {} /\ ToExecute(r, t) = <<t>> /\ t \in Triggers(history[r].graph)
        BY <2>3, <3>2, <3>4, <1>9 DEF ToExecute
      <4>2. Elements(ToExecute(r, t)) = {t}
        BY <4>1, ElementsOf
      <4>3. \A S : t \in S => Leads(r, S)
        BY <4>1 DEF Leads, LeadsOn
      <4> QED BY <3>2, <4>2, <4>3
    <3> QED BY <2>3, <3>2, <3>3, <3>4
  <2>5. ~history'[r].cut => Leads(r, Elements(worker[w].todo))'
    BY <1>2, <2>1, <2>2, <2>4 DEF Leads
  <2> QED BY <1>1, <1>2, <1>3, <1>9, <2>1, <2>2, <2>3, <2>4, <2>5, HeldAlong DEF Underway
<1>10. \/ run' = run /\ worker' = worker
       \/ run' = [run EXCEPT ![x].status = "failed"] /\ worker' = worker
       \/ \E t \in Triggers(automation.graph) :
            run' = run /\ worker' = begun(t)
  BY Zenon DEF Receive
<1>11. worker' # worker => worker'[w].run = x
  BY <1>1, ReceiveTyped
<1> HIDE DEF begun
<1> QED BY <1>4, <1>5, <1>6, <1>8, <1>9, <1>10, <1>11
-----------------------------------------------------------------------------
(* A worker goes on with its run *)

LEMMA Holding ==
  ASSUME LInv, NEW w \in Workers, worker[w].pc # "idle"
  PROVE  /\ Typed /\ worker[w] \in Worker /\ worker[w].run \in Runs
         /\ LET x == worker[w].run IN
            /\ WorkerHolds(w, x) /\ run[x] \in Row /\ history[x] \in History
            /\ Placed(x) /\ run[x].status # "absent"
            /\ run[x].status \notin Finished \cup {"absent"} /\ ~history[x].cut
               => history[x].graph = automation.graph
            /\ ~history[x].cut => Led(x)
<1>1. Typed /\ worker[w].run \in Runs
  BY HandsOff DEF LInv, IInv
<1>2. WorkerHolds(w, worker[w].run)
  BY DEF WorkerHolds
<1>3. Handed(worker[w].run) /\ Along(worker[w].run)
  BY <1>1 DEF LInv, IInv, Sound
<1> QED BY <1>1, <1>2, <1>3, Shapes DEF Handed, Free, Along, Led

\* The step of w is on its run alone and leaves it in its hands.
Advances(w) ==
    LET x == worker[w].run IN
    /\ worker'[w].run = x /\ worker'[w].graph = worker[w].graph
    /\ \A v \in Workers : v # w => worker'[v] = worker[v]
    /\ \A r \in Runs : r # x => run'[r] = run[r] /\ history'[r] = history[r]
    /\ history'[x].graph = history[x].graph
    /\ UNCHANGED <<automation, queue, request, jobs, fired>>

LEMMA BeginEffect ==
  ASSUME LInv, NEW w \in Workers, Begin(w)
  PROVE  LET x == worker[w].run IN
         /\ worker[w].pc = "begin" /\ Advances(w)
         /\ worker'[w].pc = "loop" /\ worker'[w].todo = worker[w].todo
         /\ worker'[w].seen = "running" /\ run'[x].status = "running"
         /\ history' = history
<1> DEFINE x == worker[w].run
           me == [worker[w] EXCEPT !.pc = "loop", !.seen = "running"]
           s == Written(x, worker[w].seen, "running")
           row == [run[x] EXCEPT !.status = s, !.resume = <<>>]
<1>1. /\ worker[w].pc = "begin" /\ run' = [run EXCEPT ![x] = row]
      /\ worker' = [worker EXCEPT ![w] = me]
      /\ UNCHANGED <<automation, queue, request, history, jobs, fired>>
  BY Shapes DEF Begin, jobVars, LInv, IInv
<1>2. Typed /\ worker[w] \in Worker /\ x \in Runs /\ run[x] \in Row
  BY <1>1, Holding
<1>3. s = "running"
  <2>1. WorkerHolds(w, x) /\ Placed(x)
    BY <1>1, Holding
  <2>2. worker[w].seen \in {"queued", "waiting"}
    BY <1>1, <2>1 DEF Placed
  <2> QED BY <2>2 DEF Written
<1>4. /\ me.pc = "loop" /\ me.run = x /\ me.graph = worker[w].graph
      /\ me.todo = worker[w].todo /\ me.seen = "running"
  BY <1>2 DEF Worker
<1>5. row.status = "running"
  BY <1>2, <1>3 DEF Row
<1> HIDE DEF me, s, row
<1>6. /\ worker'[w] = me /\ \A v \in Workers : v # w => worker'[v] = worker[v]
      /\ run'[x] = row /\ \A r \in Runs : r # x => run'[r] = run[r]
  BY <1>1, <1>2, Shapes
<1> QED BY <1>1, <1>4, <1>5, <1>6 DEF Advances

LEMMA GuardEffect ==
  ASSUME LInv, NEW w \in Workers, Guard(w)
  PROVE  /\ worker[w].pc = "loop" /\ Advances(w)
         /\ worker'[w].pc = "enter" /\ worker'[w].seen = "running"
         /\ Elements(worker[w].todo) = Elements(worker'[w].todo) \cup {worker'[w].node}
         /\ run' = run /\ history' = history
<1> DEFINE x == worker[w].run
           me == [worker[w] EXCEPT !.pc = "enter", !.node = Head(worker[w].todo),
                    !.todo = Tail(@), !.seen = run[x].status,
                    !.steps = run[x].steps]
<1>1. /\ worker[w].pc = "loop" /\ worker[w].todo # <<>>
      /\ worker' = [worker EXCEPT ![w] = me]
      /\ UNCHANGED <<automation, run, queue, request, history, jobs, fired>>
  BY Shapes DEF Guard, jobVars, LInv, IInv
<1>2. Typed /\ worker[w] \in Worker /\ x \in Runs /\ run[x].status = "running"
  <2>1. WorkerHolds(w, x) /\ Placed(x)
    BY <1>1, Holding
  <2>2. run[x].status = "running"
    BY <1>1, <2>1 DEF Placed, Underway
  <2> QED BY <1>1, <2>2, Holding
<1>3. /\ me.pc = "enter" /\ me.run = x /\ me.graph = worker[w].graph
      /\ me.todo = Tail(worker[w].todo) /\ me.node = Head(worker[w].todo)
      /\ me.seen = run[x].status
  BY <1>2 DEF Worker
<1> HIDE DEF me
<1>4. worker'[w] = me /\ \A v \in Workers : v # w => worker'[v] = worker[v]
  BY <1>1, <1>2, Shapes
<1>5. Elements(worker[w].todo) = {Head(worker[w].todo)} \cup Elements(Tail(worker[w].todo))
  BY <1>1, <1>2, ElementsOfRest DEF Worker
<1> QED BY <1>1, <1>2, <1>3, <1>4, <1>5 DEF Advances

LEMMA EnterEffect ==
  ASSUME LInv, NEW w \in Workers, Enter(w) \/ SendCommits(w)
  PROVE  /\ worker[w].pc \in {"enter", "node"} /\ Advances(w)
         /\ worker'[w].pc \in {"node", "sent"} /\ worker'[w].seen = worker[w].seen
         /\ worker'[w].todo = worker[w].todo /\ worker'[w].node = worker[w].node
         /\ run' = run
         /\ LET x == worker[w].run IN
            /\ history'[x].done = history[x].done /\ history'[x].cut = history[x].cut
<1> DEFINE x == worker[w].run
           past == [history[x] EXCEPT !.begun = @ + 1,
                      !.after = IF run[x].cancel THEN @ + 1 ELSE @]
<1>1. PICK pc \in {"node", "sent"} : worker' = [worker EXCEPT ![w].pc = pc]
  BY DEF Enter, SendCommits
<1>2. /\ worker[w].pc \in {"enter", "node"}
      /\ UNCHANGED <<automation, run, queue, request, jobs, fired>>
  BY DEF Enter, SendCommits, jobVars
<1>3. history' = history \/ history' = [history EXCEPT ![x] = past]
  BY DEF Enter, SendCommits
<1> DEFINE me == [worker[w] EXCEPT !.pc = pc]
<1>4. Typed /\ worker[w] \in Worker /\ x \in Runs /\ history[x] \in History
  BY <1>2, Holding
<1>5. /\ me.pc = pc /\ me.run = x /\ me.graph = worker[w].graph
      /\ me.todo = worker[w].todo /\ me.node = worker[w].node /\ me.seen = worker[w].seen
  BY <1>4 DEF Worker
<1>6. /\ past.graph = history[x].graph /\ past.done = history[x].done
      /\ past.cut = history[x].cut
  BY <1>4 DEF History
<1>7. worker' = [worker EXCEPT ![w] = me]
  BY <1>1, <1>4, Shapes
<1> HIDE DEF me, past
<1>8. worker'[w] = me /\ \A v \in Workers : v # w => worker'[v] = worker[v]
  BY <1>4, <1>7, Shapes
<1>9. /\ history'[x] \in {history[x], past}
      /\ \A r \in Runs : r # x => history'[r] = history[r]
  BY <1>3, <1>4, Shapes
<1> QED BY <1>2, <1>4, <1>5, <1>6, <1>8, <1>9 DEF Advances
LEMMA CompleteEffect ==
  ASSUME LInv, NEW w \in Workers, Complete(w)
  PROVE  LET x == worker[w].run
             n == worker[w].node
             g == worker[w].graph
         IN
         /\ worker[w].pc \in {"node", "sent"} /\ Advances(w) /\ n \in Nodes
         /\ worker'[w].pc = "loop" /\ worker'[w].seen = worker[w].seen
         /\ \E S \in Follow(g, n) :
              Elements(worker[w].todo) \cup Elements(S) \subseteq Elements(worker'[w].todo)
         /\ run'[x].status = run[x].status
         /\ history'[x].done = history[x].done \cup {n}
         /\ history'[x].cut = history[x].cut
<1> DEFINE x == worker[w].run
           n == worker[w].node
           steps == worker[w].steps + 1
           row == [run[x] EXCEPT !.steps = steps]
           past == [history[x] EXCEPT !.done = @ \cup {n}]
<1>1. PICK S \in Follow(worker[w].graph, n) :
        worker' = [worker EXCEPT ![w].pc = "loop", ![w].todo = @ \o S,
                      ![w].node = NoNode, ![w].steps = steps]
  BY Zenon DEF Complete
<1>2. /\ worker[w].pc \in {"node", "sent"}
      /\ run' = [run EXCEPT ![x] = row] /\ history' = [history EXCEPT ![x] = past]
      /\ UNCHANGED <<automation, queue, request, jobs, fired>>
  BY Shapes DEF Complete, AtWork, jobVars, LInv, IInv
<1>3. /\ Typed /\ worker[w] \in Worker /\ x \in Runs /\ history[x] \in History
      /\ run[x] \in Row
  BY <1>2, Holding
<1>4. n \in Nodes /\ worker[w].graph \in Graphs /\ worker[w].todo \in Seq(Nodes)
  BY <1>2, <1>3, Shapes DEF Places, AtNode, Worker
<1>5. S \in Seq(Nodes)
  BY <1>1, <1>4, GraphType
<1> DEFINE t == worker[w].todo \o S
           me == [worker[w] EXCEPT !.pc = "loop", !.todo = t, !.node = NoNode,
                                   !.steps = steps]
<1>6. worker' = [worker EXCEPT ![w] = me]
  BY <1>1, <1>3, Shapes
<1>7. Elements(worker[w].todo) \cup Elements(S) \subseteq Elements(t)
  BY <1>4, <1>5, ElementsOfBoth
<1> HIDE DEF t, steps
<1>8. /\ me.pc = "loop" /\ me.run = x /\ me.graph = worker[w].graph
      /\ me.todo = t /\ me.seen = worker[w].seen
  BY <1>3 DEF Worker
<1>9. /\ row.status = run[x].status
      /\ past.graph = history[x].graph /\ past.done = history[x].done \cup {n}
      /\ past.cut = history[x].cut
  BY <1>3 DEF Row, History
<1> HIDE DEF me, row, past
<1>10. worker'[w] = me /\ \A v \in Workers : v # w => worker'[v] = worker[v]
  BY <1>3, <1>6, Shapes
<1>11. /\ run'[x] = row /\ history'[x] = past
       /\ \A r \in Runs : r # x => run'[r] = run[r] /\ history'[r] = history[r]
  BY <1>2, <1>3, Shapes
<1>12. Advances(w)
  BY <1>2, <1>8, <1>9, <1>10, <1>11 DEF Advances
<1> QED BY <1>1, <1>2, <1>4, <1>7, <1>8, <1>9, <1>10, <1>11, <1>12

LEMMA DelayEffect ==
  ASSUME LInv, NEW w \in Workers, CompleteDelay(w)
  PROVE  LET x == worker[w].run
             n == worker[w].node
             g == worker[w].graph
         IN
         /\ worker[w].pc = "node" /\ Advances(w) /\ n \in Nodes
         /\ g.next[n] \in Follow(g, n)
         /\ worker'[w].pc = "park" /\ worker'[w].seen = worker[w].seen
         /\ worker'[w].node = n
         /\ run'[x].status = run[x].status
         /\ history'[x].done = history[x].done \cup {n}
         /\ ~history'[x].cut => ~history[x].cut /\ worker[w].todo = <<>>
<1> DEFINE x == worker[w].run
           n == worker[w].node
           steps == worker[w].steps + 1
           cut == history[x].cut \/ worker[w].todo # <<>>
           row == [run[x] EXCEPT !.steps = steps]
           past == [history[x] EXCEPT !.done = @ \cup {n}, !.cut = cut]
           me == [worker[w] EXCEPT !.pc = "park"]
<1>1. /\ worker[w].pc = "node" /\ worker[w].graph.kind[n] = "long"
      /\ run' = [run EXCEPT ![x] = row] /\ worker' = [worker EXCEPT ![w] = me]
      /\ UNCHANGED <<automation, queue, request, jobs, fired>>
  BY Shapes DEF CompleteDelay, jobVars, LInv, IInv
<1>2. /\ Typed /\ worker[w] \in Worker /\ x \in Runs /\ history[x] \in History
      /\ run[x] \in Row
  BY <1>1, Holding
<1>3. history' = [history EXCEPT ![x] = past]
  BY <1>2, Shapes DEF CompleteDelay
<1>4. n \in Nodes
  BY <1>1, <1>2, Shapes DEF Places, AtNode
<1>5. worker[w].graph.next[n] \in Follow(worker[w].graph, n)
  BY <1>1 DEF Follow
<1> HIDE DEF steps, cut
<1>6. /\ me.pc = "park" /\ me.run = x /\ me.graph = worker[w].graph
      /\ me.node = n /\ me.seen = worker[w].seen
  BY <1>2 DEF Worker
<1>7. /\ row.status = run[x].status
      /\ past.graph = history[x].graph /\ past.done = history[x].done \cup {n}
      /\ past.cut = cut
  BY <1>2 DEF Row, History
<1> HIDE DEF me, row, past
<1>8. worker'[w] = me /\ \A v \in Workers : v # w => worker'[v] = worker[v]
  BY <1>1, <1>2, Shapes
<1>9. /\ run'[x] = row /\ history'[x] = past
      /\ \A r \in Runs : r # x => run'[r] = run[r] /\ history'[r] = history[r]
  BY <1>1, <1>2, <1>3, Shapes
<1>10. Advances(w)
  BY <1>1, <1>6, <1>7, <1>8, <1>9 DEF Advances
<1>11. ~cut => ~history[x].cut /\ worker[w].todo = <<>>
  BY Zenon DEF cut
<1> QED BY <1>1, <1>4, <1>5, <1>6, <1>7, <1>8, <1>9, <1>10, <1>11

LEMMA ParkEffect ==
  ASSUME LInv, NEW w \in Workers, Park(w)
  PROVE  LET x == worker[w].run IN
         /\ worker[w].pc = "park" /\ Advances(w)
         /\ worker'[w].pc = "schedule"
         /\ run'[x].status = "waiting"
         /\ run'[x].resume = worker[w].graph.next[worker[w].node]
         /\ history' = history
<1> DEFINE x == worker[w].run
           s == Written(x, worker[w].seen, "waiting")
           rest == worker[w].graph.next[worker[w].node]
           row == [run[x] EXCEPT !.status = s, !.resume = rest]
           me == [worker[w] EXCEPT !.pc = "schedule"]
<1>1. /\ worker[w].pc = "park" /\ run' = [run EXCEPT ![x] = row]
      /\ worker' = [worker EXCEPT ![w] = me]
      /\ UNCHANGED <<automation, queue, request, history, jobs, fired>>
  BY Shapes DEF Park, jobVars, LInv, IInv
<1>2. Typed /\ worker[w] \in Worker /\ x \in Runs /\ run[x] \in Row
  BY <1>1, Holding
<1>3. s = "waiting"
  <2>1. WorkerHolds(w, x) /\ Placed(x)
    BY <1>1, Holding
  <2>2. worker[w].seen = "running"
    BY <1>1, <2>1 DEF Placed, Underway
  <2> QED BY <2>2 DEF Written
<1> HIDE DEF s, rest
<1>4. me.pc = "schedule" /\ me.run = x /\ me.graph = worker[w].graph
  BY <1>2 DEF Worker
<1>5. row.status = "waiting" /\ row.resume = rest
  BY <1>2, <1>3 DEF Row
<1> HIDE DEF me, row
<1>6. /\ worker'[w] = me /\ \A v \in Workers : v # w => worker'[v] = worker[v]
      /\ run'[x] = row /\ \A r \in Runs : r # x => run'[r] = run[r]
  BY <1>1, <1>2, Shapes
<1> QED BY <1>1, <1>4, <1>5, <1>6 DEF Advances, rest

\* Wherever a worker gets to with its run, the nodes ahead are kept.
LEMMA AdvanceAlong ==
  ASSUME LInv, IInv', NEW w \in Workers, NEW r \in Runs,
         \/ Begin(w) \/ Guard(w) \/ Enter(w) \/ SendCommits(w)
         \/ Complete(w) \/ CompleteDelay(w) \/ Park(w)
  PROVE  Along(r)'
<1> DEFINE x == worker[w].run
<1>1. worker[w].pc # "idle" /\ Advances(w)
  BY BeginEffect, GuardEffect, EnterEffect, CompleteEffect, DelayEffect, ParkEffect
<1>2. Typed /\ x \in Runs /\ Along(r) /\ WorkerHolds(w, x)
  BY <1>1, Holding DEF LInv
<1>3. CASE r # x
  <2>1. Apart(r)
    BY <1>1, <1>2, <1>3, ElsewhereApart DEF Advances
  <2> QED BY <1>2, <2>1, ApartAlong
<1>4. CASE r = x
  <2>1. /\ Placed(r) /\ run[r].status # "absent"
        /\ run[r].status \notin Finished \cup {"absent"} /\ ~history[r].cut
           => history[r].graph = automation.graph
        /\ ~history[r].cut => Led(r)
    BY <1>1, <1>4, Holding
  <2>2. /\ Handed(r)' /\ queue'[r] \in Nat /\ worker'[w].run = r
        /\ worker'[w].graph = worker[w].graph
        /\ history'[r].graph = history[r].graph /\ automation' = automation
    <3>1. Handed(r)' /\ queue' \in [Runs -> Nat]
      BY DEF IInv, Sound, Typed, TypeOK
    <3> QED BY <1>1, <1>4, <3>1 DEF Advances
  <2>3. /\ worker[w].pc = "begin" => run[r].status \in {"queued", "waiting"}
        /\ worker[w].pc \in Underway
           => run[r].status = "running" /\ worker[w].seen = "running"
    BY <1>2, <1>4, <2>1 DEF Placed
  <2>4. ASSUME ~history[r].cut, worker[w].pc \in Underway \cup {"begin"}
        PROVE  /\ history[r].graph = automation.graph
               /\ worker[w].graph = history[r].graph
               /\ worker[w].pc \in {"begin", "loop"} => Leads(r, Elements(worker[w].todo))
               /\ worker[w].pc \in {"enter", "node", "sent"}
                  => Leads(r, Elements(worker[w].todo) \cup {worker[w].node})
               /\ worker[w].pc = "park"
                  => Leads(r, Elements(worker[w].graph.next[worker[w].node]))
    BY <1>2, <1>4, <2>1, <2>3, <2>4 DEF Led, Finished
  <2>5. CASE Begin(w)
    <3>1. /\ worker[w].pc = "begin" /\ worker'[w].pc = "loop"
          /\ worker'[w].todo = worker[w].todo /\ worker'[w].seen = "running"
          /\ run'[r].status = "running" /\ history' = history
      BY <2>5, <1>4, BeginEffect
    <3>2. ~history'[r].cut => Leads(r, Elements(worker[w].todo))'
      BY <3>1, <2>4 DEF Leads
    <3> QED BY <3>1, <3>2, <2>2, <2>4, HeldAlong
  <2>6. CASE Guard(w)
    <3>1. /\ worker[w].pc = "loop" /\ worker'[w].pc = "enter"
          /\ worker'[w].seen = "running" /\ run' = run /\ history' = history
          /\ Elements(worker[w].todo) = Elements(worker'[w].todo) \cup {worker'[w].node}
      BY <2>6, GuardEffect
    <3>2. ~history'[r].cut => Leads(r, Elements(worker[w].todo) \cup {worker[w].node})'
      BY <3>1, <2>4 DEF Leads, Underway
    <3> QED BY <3>1, <3>2, <2>2, <2>3, <2>4, HeldAlong DEF Underway
  <2>7. CASE Enter(w) \/ SendCommits(w)
    <3>1. /\ worker[w].pc \in {"enter", "node"} /\ worker'[w].pc \in {"node", "sent"}
          /\ worker'[w].seen = worker[w].seen /\ worker'[w].todo = worker[w].todo
          /\ worker'[w].node = worker[w].node /\ run' = run
          /\ history'[r].done = history[r].done /\ history'[r].cut = history[r].cut
      BY <2>7, <1>4, EnterEffect
    <3>2. ~history'[r].cut => Leads(r, Elements(worker[w].todo) \cup {worker[w].node})'
      BY <3>1, <2>2, <2>4 DEF Leads, Underway
    <3> QED BY <3>1, <3>2, <2>2, <2>3, <2>4, HeldAlong DEF Underway
  <2>8. CASE Complete(w)
    <3> DEFINE n == worker[w].node
               g == worker[w].graph
    <3>1. /\ worker[w].pc \in {"node", "sent"} /\ worker'[w].pc = "loop"
          /\ worker'[w].seen = worker[w].seen /\ n \in Nodes
          /\ run'[r].status = run[r].status
          /\ history'[r].done = history[r].done \cup {n}
          /\ history'[r].cut = history[r].cut
      BY <2>8, <1>4, CompleteEffect
    <3>2. PICK S \in Follow(g, n) :
             Elements(worker[w].todo) \cup Elements(S) \subseteq Elements(worker'[w].todo)
      BY <2>8, CompleteEffect
    <3>3. ASSUME ~history'[r].cut PROVE Leads(r, Elements(worker[w].todo))'
      <4> DEFINE seen == history'[r].done \cup Elements(worker'[w].todo)
      <4>1. /\ LeadsOn(g, history[r].done, history[r].done \cup (Elements(worker[w].todo) \cup {n}))
            /\ g = history[r].graph /\ g \in Graphs
        BY <3>1, <3>3, <2>4, <1>2, Shapes DEF Leads, Underway, Worker
      <4>2. LeadsOn(g, history[r].done, seen)
        <5>1. history[r].done \cup (Elements(worker[w].todo) \cup {n}) \subseteq seen
          BY <3>1, <3>2
        <5> QED BY <4>1, <5>1, LeadsFurther
      <4>3. Elements(S) \subseteq seen
        BY <3>2
      <4>4. LeadsOn(g, history[r].done \cup {n}, seen)
        BY <3>1, <4>1, <4>2, <4>3, LeadsPast
      <4> QED BY <3>1, <4>1, <4>4, <2>2 DEF Leads
    <3> QED BY <3>1, <3>3, <2>2, <2>3, <2>4, HeldAlong DEF Underway
  <2>9. CASE CompleteDelay(w)
    <3> DEFINE n == worker[w].node
               g == worker[w].graph
    <3>1. /\ worker[w].pc = "node" /\ worker'[w].pc = "park"
          /\ worker'[w].seen = worker[w].seen /\ n \in Nodes /\ worker'[w].node = n
          /\ run'[r].status = run[r].status
          /\ history'[r].done = history[r].done \cup {n}
          /\ ~history'[r].cut => ~history[r].cut /\ worker[w].todo = <<>>
          /\ g.next[n] \in Follow(g, n)
      BY <2>9, <1>4, DelayEffect
    <3>2. ASSUME ~history'[r].cut
          PROVE  Leads(r, Elements(worker[w].graph.next[worker[w].node]))'
      <4> DEFINE seen == history'[r].done \cup Elements(g.next[n])
      <4>1. /\ LeadsOn(g, history[r].done, history[r].done \cup (Elements(worker[w].todo) \cup {n}))
            /\ g = history[r].graph /\ g \in Graphs
        BY <3>1, <3>2, <2>4, <1>2, Shapes DEF Leads, Underway, Worker
      <4>2. LeadsOn(g, history[r].done, seen)
        <5>1. Elements(worker[w].todo) = {}
          BY <3>1, <3>2, ElementsOf
        <5>2. history[r].done \cup (Elements(worker[w].todo) \cup {n}) \subseteq seen
          BY <3>1, <5>1
        <5> QED BY <4>1, <5>2, LeadsFurther
      <4>3. LeadsOn(g, history[r].done \cup {n}, seen)
        BY <3>1, <4>1, <4>2, LeadsPast
      <4> QED BY <3>1, <4>1, <4>3, <2>2 DEF Leads
    <3> QED BY <3>1, <3>2, <2>2, <2>3, <2>4, HeldAlong DEF Underway
  <2>10. CASE Park(w)
    <3>1. /\ worker[w].pc = "park" /\ worker'[w].pc = "schedule"
          /\ run'[r].status = "waiting"
          /\ run'[r].resume = worker[w].graph.next[worker[w].node]
          /\ history' = history
      BY <2>10, <1>4, ParkEffect
    <3>2. ~history'[r].cut => Leads(r, Elements(run[r].resume))'
      BY <3>1, <2>4 DEF Leads, Underway
    <3> QED BY <3>1, <3>2, <2>2, <2>4, HeldAlong DEF Underway
  <2> QED BY <2>5, <2>6, <2>7, <2>8, <2>9, <2>10
<1> QED BY <1>3, <1>4
-----------------------------------------------------------------------------
(* A worker lets go of its run *)

\* What a refusal, a failure, a success and a crash write.
LEMMA ReleaseEffect ==
  ASSUME LInv, NEW w \in Workers,
         Refuse(w) \/ NodeFails(w) \/ Succeed(w) \/ WorkerCrash(w)
  PROVE  LET x == worker[w].run IN
         /\ worker[w].pc # "idle"
         /\ worker' = [worker EXCEPT ![w] = IdleWorker]
         /\ UNCHANGED <<automation, queue, request, jobs, fired>>
         /\ \A r \in Runs : r # x => run'[r] = run[r]
         /\ \A r \in Runs : Recalls(r)
         /\ \/ run' = run
            \/ run[x].status = "running" /\ run'[x].status = "failed"
            \/ /\ run[x].status = "running" /\ run'[x].status = "stopped"
               /\ run[x].cancel
            \/ /\ run[x].status = "running" /\ run'[x].status = "succeeded"
               /\ worker[w].pc = "loop" /\ worker[w].todo = <<>>
<1> DEFINE x == worker[w].run
<1>1. ASSUME NEW s \in Finished, worker[w].pc \in Underway,
             run' = [run EXCEPT ![x].status = s]
      PROVE  /\ run[x].status = "running" /\ run'[x].status = s
             /\ \A r \in Runs : r # x => run'[r] = run[r]
  <2>1. /\ Typed /\ x \in Runs /\ run[x] \in Row /\ WorkerHolds(w, x) /\ Placed(x)
    BY <1>1, Holding DEF Underway
  <2>2. run[x].status = "running"
    BY <1>1, <2>1 DEF Placed
  <2> DEFINE row == [run[x] EXCEPT !.status = s]
  <2>3. row.status = s
    BY <2>1 DEF Row
  <2>4. run' = [run EXCEPT ![x] = row]
    BY <1>1, <2>1, Shapes
  <2> HIDE DEF row
  <2> QED BY <2>1, <2>2, <2>3, <2>4, Shapes
<1>2. ASSUME NEW s \in Finished, worker[w].pc \in Underway, EndRun(w, s)
      PROVE  /\ run' = [run EXCEPT ![x].status = s]
             /\ worker' = [worker EXCEPT ![w] = IdleWorker]
             /\ UNCHANGED <<automation, queue, request, history, jobs, fired>>
  <2>1. /\ run' = [run EXCEPT ![x].status = Written(x, worker[w].seen, s)]
        /\ worker' = [worker EXCEPT ![w] = IdleWorker]
        /\ UNCHANGED <<automation, queue, request, history, jobs, fired>>
    BY <1>2 DEF EndRun, jobVars
  <2>2. WorkerHolds(w, x) /\ Placed(x)
    BY <1>2, Holding DEF Underway
  <2>3. worker[w].seen = "running"
    BY <1>2, <2>2 DEF Placed
  <2>4. Written(x, worker[w].seen, s) = s
    BY <2>3 DEF Written, Finished
  <2> QED BY <2>1, <2>4
<1>3. CASE Refuse(w)
  <2>1. /\ worker[w].pc = "loop" /\ worker' = [worker EXCEPT ![w] = IdleWorker]
        /\ UNCHANGED <<automation, queue, request, history, jobs, fired>>
    BY <1>3 DEF Refuse, jobVars
  <2>2. PICK s \in Finished : /\ run' = [run EXCEPT ![x].status = s]
                              /\ (s = "stopped" /\ run[x].cancel) \/ s = "failed"
    BY <1>3 DEF Refuse, Finished, Cancelled
  <2>3. worker[w].pc \in Underway
    BY <2>1 DEF Underway
  <2>4. /\ run[x].status = "running" /\ run'[x].status = s
        /\ \A r \in Runs : r # x => run'[r] = run[r]
    BY <1>1, <2>2, <2>3
  <2> QED BY <2>1, <2>2, <2>4 DEF Recalls
<1>4. CASE NodeFails(w)
  <2>1. worker[w].pc \in {"node", "sent"} /\ EndRun(w, "failed")
    BY <1>4 DEF NodeFails, AtWork
  <2>2. worker[w].pc \in Underway /\ "failed" \in Finished
    BY <2>1 DEF Underway, Finished
  <2>3. /\ run' = [run EXCEPT ![x].status = "failed"]
        /\ worker' = [worker EXCEPT ![w] = IdleWorker]
        /\ UNCHANGED <<automation, queue, request, history, jobs, fired>>
    BY <1>2, <2>1, <2>2
  <2>4. /\ run[x].status = "running" /\ run'[x].status = "failed"
        /\ \A r \in Runs : r # x => run'[r] = run[r]
    BY <1>1, <2>2, <2>3
  <2> QED BY <2>1, <2>3, <2>4 DEF Recalls
<1>5. CASE Succeed(w)
  <2>1. worker[w].pc = "loop" /\ worker[w].todo = <<>> /\ EndRun(w, "succeeded")
    BY <1>5 DEF Succeed
  <2>2. worker[w].pc \in Underway /\ "succeeded" \in Finished
    BY <2>1 DEF Underway, Finished
  <2>3. /\ run' = [run EXCEPT ![x].status = "succeeded"]
        /\ worker' = [worker EXCEPT ![w] = IdleWorker]
        /\ UNCHANGED <<automation, queue, request, history, jobs, fired>>
    BY <1>2, <2>1, <2>2
  <2>4. /\ run[x].status = "running" /\ run'[x].status = "succeeded"
        /\ \A r \in Runs : r # x => run'[r] = run[r]
    BY <1>1, <2>2, <2>3
  <2> QED BY <2>1, <2>3, <2>4 DEF Recalls
<1>6. CASE WorkerCrash(w)
  <2>1. worker[w].pc # "idle" /\ Typed
    BY <1>6 DEF WorkerCrash, LInv, IInv
  <2> QED BY <1>6, <2>1, CrashTyped
<1> QED BY <1>3, <1>4, <1>5, <1>6

LEMMA ReleaseAlong ==
  ASSUME LInv, NEW w \in Workers, NEW r \in Runs,
         Refuse(w) \/ NodeFails(w) \/ Succeed(w) \/ WorkerCrash(w)
  PROVE  Along(r)'
<1> DEFINE x == worker[w].run
<1>1. /\ worker[w].pc # "idle"
      /\ worker' = [worker EXCEPT ![w] = IdleWorker]
      /\ UNCHANGED <<automation, queue, request, jobs, fired>> /\ Recalls(r)
      /\ \A y \in Runs : y # x => run'[y] = run[y]
      /\ \/ run' = run
         \/ run'[x].status \in {"failed", "stopped"}
         \/ /\ run'[x].status = "succeeded" /\ worker[w].pc = "loop"
            /\ worker[w].todo = <<>>
  BY ReleaseEffect
<1>2. Typed /\ x \in Runs /\ Along(r) /\ WorkerHolds(w, x) /\ Handed(r)
  BY <1>1, Holding DEF LInv, IInv, Sound
<1>3. /\ worker'[w] = IdleWorker /\ IdleWorker.run = NoRun
      /\ \A v \in Workers : v # w => worker'[v] = worker[v]
  BY <1>1, <1>2, WorkerRests, IdleTypes
<1>4. CASE r # x
  <2>1. worker'[w].run # r
    BY <1>3, RunAssumption
  <2>2. Apart(r)
    BY <1>1, <1>2, <1>3, <1>4, <2>1, ElsewhereApart
  <2> QED BY <1>2, <2>2, ApartAlong
<1>5. CASE r = x
  <2>1. \A v \in Workers : ~WorkerHolds(v, r)'
    <3>1. \A v \in Workers : WorkerHolds(v, r) => v = w
      BY <1>2, <1>5 DEF Handed
    <3> QED BY <1>3, <3>1, RunAssumption DEF WorkerHolds
  <2>2. ~Awaits(r)'
    <3>1. ~Awaits(r)
      BY <1>2, <1>5, Shapes DEF Handed, Free, Awaits
    <3> QED BY <1>1, <3>1 DEF Awaits, RequestHolds, JobHolds
  <2>3. ASSUME worker[w].pc = "loop", worker[w].todo = <<>>, ~history[r].cut
        PROVE  Leads(r, {})
    <3>1. Leads(r, Elements(worker[w].todo))
      BY <1>2, <1>5, <2>3 DEF Along, Led
    <3> QED BY <2>3, <3>1, ElementsOf
  <2> QED BY <1>1, <1>2, <1>5, <2>1, <2>2, <2>3, LooseAlong
<1> QED BY <1>4, <1>5

LEMMA ScheduleAlong ==
  ASSUME LInv, NEW w \in Workers, NEW j \in JobIds, ScheduleResume(w, j), NEW r \in Runs
  PROVE  Along(r)'
<1> DEFINE x == worker[w].run
<1>1. worker[w].pc = "schedule"
  BY DEF ScheduleResume
<1>2. /\ Typed /\ x \in Runs /\ Along(r) /\ WorkerHolds(w, x) /\ Handed(r)
      /\ worker[w].pc # "idle"
  BY <1>1, Holding DEF LInv, IInv, Sound
<1>3. /\ worker' = [worker EXCEPT ![w] = IdleWorker]
      /\ UNCHANGED <<automation, run, queue, request, history, fired>>
      /\ jobs'[j].target = x
      /\ \A i \in JobIds : i # j => jobs'[i] = jobs[i]
  <2>1. jobs \in [JobIds -> Job]
    BY <1>2, Shapes DEF JobsTypeOK
  <2>2. /\ worker' = [worker EXCEPT ![w] = IdleWorker]
        /\ UNCHANGED <<automation, run, queue, request, history>> /\ ScheduleJob(j, x)
    BY <1>2, ScheduleTyped
  <2>3. /\ UNCHANGED fired
        /\ jobs' = [jobs EXCEPT ![j] = [NewJob EXCEPT !.status = "pending", !.target = x]]
    BY <2>2 DEF ScheduleJob
  <2>4. jobs'[j].target = x /\ \A i \in JobIds : i # j => jobs'[i] = jobs[i]
    BY <2>1, <2>3 DEF NewJob
  <2> QED BY <2>2, <2>3, <2>4
<1>4. /\ worker'[w] = IdleWorker /\ IdleWorker.run = NoRun
      /\ \A v \in Workers : v # w => worker'[v] = worker[v]
  BY <1>2, <1>3, WorkerRests, IdleTypes
<1>5. \A v \in Workers : WorkerHolds(v, r)' =>
        v # w /\ WorkerHolds(v, r) /\ worker'[v] = worker[v]
  BY <1>4, RunAssumption DEF WorkerHolds
<1>6. CASE r # x
  <2>1. /\ \A q \in Requests : RequestHolds(q, r)' => RequestHolds(q, r)
        /\ \A i \in JobIds : JobHolds(i, r)' => JobHolds(i, r)
    BY <1>3, <1>6 DEF RequestHolds, JobHolds
  <2>2. Apart(r)
    BY <1>3, <1>5, <2>1 DEF Apart, Awaits
  <2> QED BY <1>2, <2>2, ApartAlong
<1>7. CASE r = x
  <2>1. \A v \in Workers : ~WorkerHolds(v, r)'
    <3>1. \A v \in Workers : WorkerHolds(v, r) => v = w
      BY <1>2, <1>7 DEF Handed
    <3> QED BY <1>5, <3>1
  <2>2. run[r].status = "waiting" /\ Placed(r)
    BY <1>1, <1>2, <1>7 DEF Along, Placed
  <2>3. Placed(r)'
    BY <1>3, <2>1, <2>2 DEF Placed
  <2>4. ASSUME ~history'[r].cut PROVE Led(r)'
    <3>1. Led(r) /\ Leads(r, Elements(run[r].resume))
      BY <1>1, <1>2, <1>3, <1>7, <2>4 DEF Along, Led
    <3>2. Leads(r, Elements(run[r].resume))'
      BY <1>3, <3>1 DEF Leads
    <3> QED BY <1>3, <2>1, <2>2, <3>1, <3>2 DEF Led
  <2> QED BY <2>3, <2>4 DEF Along
<1> QED BY <1>6, <1>7

-----------------------------------------------------------------------------
(* Every step *)

LEMMA InitAlong == ASSUME Init PROVE LInv
<1>1. IInv
  BY InitHolds
<1>2. ASSUME NEW r \in Runs PROVE Along(r)
  <2>1. /\ run[r].status = "absent" /\ history[r].done = {}
    BY DEF Init, NewRow
  <2>2. Free(r) /\ queue[r] = 0
    BY <1>1, <2>1 DEF IInv, Sound, Handed
  <2> QED BY <2>1, <2>2 DEF Along, Placed, Led, Free, Awaits
<1> QED BY <1>1, <1>2 DEF LInv

LEMMA StepAlong == ASSUME LInv, [Next]_vars PROVE LInv'
<1>1. IInv' /\ Typed
  BY StepHolds DEF LInv, IInv
<1>2. ASSUME NEW r \in Runs, Apart(r) PROVE Along(r)'
  BY <1>2, ApartAlong DEF LInv
<1>3. ASSUME NEW r \in Runs PROVE Along(r)'
  <2>1. ASSUME NEW q \in Requests,
               \/ \E op \in Ops : ReadAutomation(q, op)
               \/ \E x \in Runs : ReadCancel(q, x)
               \/ RequestStep(q) \/ RequestCrash(q)
        PROVE  Along(r)'
    <3>1. CASE \E x \in Runs : CreateRun(q, x)
      BY <3>1, CreateAlong
    <3>2. CASE ~\E x \in Runs : CreateRun(q, x)
      BY <1>1, <1>2, <2>1, <3>2, RequestsApart DEF RequestStep
    <3> QED BY <3>1, <3>2
  <2>2. ASSUME NEW w \in Workers,
               \/ \E x \in Runs : Receive(w, x)
               \/ WorkerStep(w) \/ WorkerCrash(w)
        PROVE  Along(r)'
    BY <1>1, <2>2, ReceiveAlong, AdvanceAlong, ReleaseAlong, ScheduleAlong DEF WorkerStep
  <2>3. CASE \/ \E t \in Ticks, j \in JobIds : HandleResume(t, j)
             \/ QuietJobs /\ UNCHANGED runVars
             \/ \E x \in Runs : DeadlinePasses(x)
             \/ UNCHANGED vars
    BY <1>1, <1>2, <2>3, OthersApart
  <2> QED BY <2>1, <2>2, <2>3 DEF Next, TickStep, QuietJobs
<1> QED BY <1>1, <1>3 DEF LInv

LEMMA Alongside == Spec => []LInv
  BY InitAlong, StepAlong, PTL DEF Spec

\* A run that SUCCEEDED has done what its graph leads to, along the branches it
\* took and across its delays, whatever crashed, unless the graph was changed
\* under it or a delay was reached with other nodes queued.
THEOREM SuccessIsComplete == Spec => []SucceededIsComplete
<1>1. ASSUME LInv, NEW r \in Runs, run[r].status = "succeeded", ~history[r].cut
      PROVE  LeadsOn(history[r].graph, history[r].done, history[r].done)
  <2>1. Leads(r, {})
    BY <1>1 DEF LInv, Along, Led
  <2> QED BY <2>1 DEF Leads
<1>2. LInv => SucceededIsComplete
  BY <1>1 DEF SucceededIsComplete
<1> QED BY <1>2, Alongside, PTL
-----------------------------------------------------------------------------
(* Every run lives as RunLife says *)

\* A cancellation is only ever asked of a run that was created.
Named ==
    /\ \A q \in Requests : request[q].pc = "write" /\ request[q].op = "cancel"
                           => run[request[q].run].status # "absent"
    /\ \A r \in Runs : run[r].status = "absent" => ~run[r].cancel

\* The step turns the run's status at most; it does not show at all.
Turns(r) == /\ run'[r].max = run[r].max /\ run'[r].cancel = run[r].cancel
            /\ history'[r].begun = history[r].begun
Same(r) == Turns(r) /\ run'[r].status = run[r].status
SameBut(x) == \A r \in Runs : r # x => Same(r)

LEMMA RequestsSame ==
  ASSUME Typed, NEW q \in Requests,
         \/ \E op \in Ops : ReadAutomation(q, op)
         \/ \E x \in Runs : ReadCancel(q, x)
         \/ EditGraph(q) \/ EditStatus(q) \/ PublishAutomation(q) \/ PauseAutomation(q)
         \/ DispatchRun(q) \/ RequestCrash(q)
  PROVE  run' = run /\ \A r \in Runs : Same(r)
<1>1. run' = run
  BY RequestsKeep
<1>2. \A r \in Runs : history'[r].begun = history[r].begun
  BY RequestsKeep, EditTyped
<1> QED BY <1>1, <1>2 DEF Same, Turns

LEMMA CancelAsks ==
  ASSUME Typed, Named, NEW q \in Requests, CancelRun(q)
  PROVE  LET x == request[q].run IN
         /\ x \in Runs /\ SameBut(x) /\ run'[x].cancel
         /\ run[x].status # "absent" /\ run'[x].status = run[x].status
         /\ run'[x].max = run[x].max /\ history'[x].begun = history[x].begun
<1> DEFINE x == request[q].run
           row == [run[x] EXCEPT !.cancel = TRUE]
<1>1. x \in Runs /\ run[x].status # "absent"
  BY Shapes DEF CancelRun, Places, Named
<1>2. run' = [run EXCEPT ![x] = row] /\ history' = history
  BY DEF CancelRun
<1>3. row.cancel /\ row.max = run[x].max /\ row.status = run[x].status
  BY <1>1, Shapes DEF Row
<1> HIDE DEF row, x
<1>4. run'[x] = row /\ \A r \in Runs : r # x => run'[r] = run[r]
  BY <1>1, <1>2, Shapes
<1> QED BY <1>1, <1>2, <1>3, <1>4 DEF SameBut, Same, Turns, x

LEMMA ReceiveTurns ==
  ASSUME LInv, NEW w \in Workers, NEW x \in Runs, Receive(w, x)
  PROVE  /\ SameBut(x) /\ Turns(x)
         /\ \/ run'[x].status = run[x].status
            \/ run[x].status \in {"queued", "waiting"} /\ run'[x].status = "failed"
<1>1. Typed /\ Placed(x)
  BY DEF LInv, IInv, Along
<1>2. \A r \in Runs : Turns(r)
  BY <1>1, ReceiveTyped DEF Turns, Kept
<1>3. queue[x] > 0 /\ (run' = run \/ run' = [run EXCEPT ![x].status = "failed"])
  BY Zenon DEF Receive
<1>4. Awaits(x)
  BY <1>3 DEF Awaits
<1>5. run[x].status \in {"queued", "waiting"}
  BY <1>1, <1>4 DEF Placed
<1>6. CASE run' = [run EXCEPT ![x].status = "failed"]
  <2> DEFINE row == [run[x] EXCEPT !.status = "failed"]
  <2>1. row.status = "failed"
    BY <1>1, Shapes DEF Row
  <2>2. run' = [run EXCEPT ![x] = row]
    BY <1>1, <1>6, Shapes
  <2> HIDE DEF row
  <2> QED BY <1>1, <1>2, <1>5, <2>1, <2>2, Shapes DEF SameBut, Same
<1> QED BY <1>2, <1>3, <1>6 DEF SameBut, Same

LEMMA WorkerTurns ==
  ASSUME LInv, NEW w \in Workers,
         \/ Begin(w) \/ Park(w)
         \/ Refuse(w) \/ NodeFails(w) \/ Succeed(w) \/ WorkerCrash(w)
  PROVE  LET x == worker[w].run IN
         /\ x \in Runs /\ SameBut(x) /\ Turns(x)
         /\ \/ run'[x].status = run[x].status
            \/ run[x].status \in {"queued", "waiting"} /\ run'[x].status = "running"
            \/ run[x].status = "running" /\ run'[x].status \in {"waiting", "succeeded", "failed"}
            \/ run[x].status = "running" /\ run'[x].status = "stopped" /\ run[x].cancel
<1> DEFINE x == worker[w].run
<1>1. worker[w].pc # "idle"
  BY BeginEffect, ParkEffect, ReleaseEffect
<1>2. Typed /\ x \in Runs /\ Placed(x) /\ WorkerHolds(w, x)
  BY <1>1, Holding
<1>3. CASE Begin(w)
  <2>1. /\ worker[w].pc = "begin" /\ Advances(w) /\ run'[x].status = "running"
        /\ history' = history
    BY <1>3, BeginEffect
  <2>2. run[x].status \in {"queued", "waiting"}
    BY <1>2, <2>1 DEF Placed
  <2>3. Kept(x)
    BY <1>2, <1>3, BeginTyped
  <2> QED BY <1>2, <2>1, <2>2, <2>3 DEF Advances, SameBut, Same, Turns, Kept
<1>4. CASE Park(w)
  <2>1. /\ worker[w].pc = "park" /\ Advances(w) /\ run'[x].status = "waiting"
        /\ history' = history
    BY <1>4, ParkEffect
  <2>2. run[x].status = "running"
    BY <1>2, <2>1 DEF Placed, Underway
  <2>3. Kept(x)
    BY <1>2, <1>4, ParkTyped
  <2> QED BY <1>2, <2>1, <2>2, <2>3 DEF Advances, SameBut, Same, Turns, Kept
<1>5. CASE Refuse(w) \/ NodeFails(w) \/ Succeed(w) \/ WorkerCrash(w)
  <2>1. /\ \A r \in Runs : Recalls(r) /\ (r # x => run'[r] = run[r])
        /\ \/ run' = run
           \/ run[x].status = "running" /\ run'[x].status = "failed"
           \/ /\ run[x].status = "running" /\ run'[x].status = "stopped"
              /\ run[x].cancel
           \/ run[x].status = "running" /\ run'[x].status = "succeeded"
    BY <1>5, ReleaseEffect
  <2>2. Kept(x)
    BY <1>2, <1>5, RefuseTyped, NodeFailsTyped, SucceedTyped, CrashTyped DEF Kept
  <2> QED BY <1>2, <2>1, <2>2 DEF SameBut, Same, Turns, Kept, Recalls
<1> QED BY <1>3, <1>4, <1>5

LEMMA WorkerSame ==
  ASSUME LInv, NEW w \in Workers,
         \/ Guard(w) \/ SendCommits(w) \/ Complete(w) \/ CompleteDelay(w)
         \/ \E j \in JobIds : ScheduleResume(w, j)
  PROVE  \A r \in Runs : Same(r)
<1>1. Typed
  BY DEF LInv, IInv
<1>2. CASE Guard(w)
  BY <1>2, GuardEffect DEF Same, Turns
<1>3. CASE SendCommits(w)
  BY <1>1, <1>3, SendTyped DEF Same, Turns
<1>4. CASE Complete(w)
  <2>1. \A r \in Runs : r # worker[w].run => run'[r] = run[r]
    BY <1>1, <1>4, CompleteTyped
  <2> QED BY <1>1, <1>4, <2>1, CompleteTyped DEF Same, Turns
<1>5. CASE CompleteDelay(w)
  <2>1. \A r \in Runs : r # worker[w].run => run'[r] = run[r]
    BY <1>1, <1>5, DelayTyped
  <2> QED BY <1>1, <1>5, <2>1, DelayTyped DEF Same, Turns
<1>6. CASE \E j \in JobIds : ScheduleResume(w, j)
  BY <1>6 DEF ScheduleResume, Same, Turns
<1> QED BY <1>2, <1>3, <1>4, <1>5, <1>6

LEMMA EnterBegins ==
  ASSUME LInv, NEW w \in Workers, Enter(w)
  PROVE  LET x == worker[w].run IN
         /\ x \in Runs /\ SameBut(x) /\ run' = run
         /\ run[x].status = "running" /\ history[x].begun < run[x].max
         /\ history'[x].begun = history[x].begun + 1
<1> DEFINE x == worker[w].run
<1>1. /\ worker[w].pc = "enter" /\ x \in Runs /\ run' = run
      /\ history'[x].begun = history[x].begun + 1
      /\ \A r \in Runs : r # x => history'[r] = history[r]
  BY EnterTyped DEF LInv, IInv
<1>2. WorkerHolds(w, x) /\ Placed(x) /\ Counted(x)
  BY <1>1, Holding DEF LInv, IInv, Sound
<1>3. run[x].status = "running"
  BY <1>1, <1>2 DEF Placed, Underway
<1>4. history[x].begun = run[x].steps /\ run[x].steps < run[x].max
  BY <1>1, <1>2 DEF Counted
<1> QED BY <1>1, <1>3, <1>4 DEF SameBut, Same, Turns

LEMMA OthersSame ==
  ASSUME Typed,
         \/ \E t \in Ticks, j \in JobIds : HandleResume(t, j)
         \/ QuietJobs /\ UNCHANGED runVars
         \/ \E x \in Runs : DeadlinePasses(x)
         \/ UNCHANGED vars
  PROVE  (\A r \in Runs : Same(r)) /\ UNCHANGED request
<1>1. CASE \E x \in Runs : DeadlinePasses(x)
  <2>1. \A r \in Runs : run'[r].status = run[r].status
    BY <1>1, OthersApart DEF Apart
  <2> QED BY <1>1, <2>1, LateTyped DEF Same, Turns, Kept
<1>2. CASE ~\E x \in Runs : DeadlinePasses(x)
  BY <1>2 DEF HandleResume, runVars, vars, Same, Turns
<1> QED BY <1>1, <1>2
LEMMA NamedStep == ASSUME LInv, Named, [Next]_vars PROVE Named'
<1>1. Typed /\ Typed'
  BY StepHolds DEF LInv, IInv
\* A run that exists goes on to exist, and a new one is not cancelled.
<1>2. ASSUME UNCHANGED request, \A r \in Runs : Same(r) \/ run[r].status # "absent",
             \A r \in Runs : run'[r].status = "absent" => run[r].status = "absent"
      PROVE  Named'
  <2>1. \A q \in Requests : request[q].pc = "write" /\ request[q].op = "cancel"
                            => request[q].run \in Runs
    BY <1>1, Shapes DEF Places
  <2> QED BY <1>2, <2>1 DEF Named, Same, Turns
<1>3. ASSUME NEW x \in Runs, UNCHANGED request, SameBut(x), run[x].status # "absent",
             run'[x].status # "absent"
      PROVE  Named'
  <2>1. \A r \in Runs : /\ Same(r) \/ run[r].status # "absent"
                        /\ run'[r].status = "absent" => run[r].status = "absent"
    BY <1>3 DEF SameBut, Same
  <2> QED BY <1>2, <1>3, <2>1
<1>4. ASSUME UNCHANGED request, \A r \in Runs : Same(r) PROVE Named'
  BY <1>2, <1>4 DEF Same
<1>5. ASSUME NEW q \in Requests,
             \/ \E op \in Ops : ReadAutomation(q, op)
             \/ \E r \in Runs : ReadCancel(q, r)
             \/ EditGraph(q) \/ EditStatus(q) \/ PublishAutomation(q) \/ PauseAutomation(q)
             \/ DispatchRun(q) \/ RequestCrash(q)
      PROVE  Named'
  <2>1. run' = run
    BY <1>1, <1>5, RequestsSame
  <2>2. \A p \in Requests : p # q => request'[p] = request[p]
    <3>1. CASE (\E op \in Ops : ReadAutomation(q, op)) \/ \E r \in Runs : ReadCancel(q, r)
      BY <1>1, <3>1, ReadTyped
    <3>2. ASSUME request' = [request EXCEPT ![q] = IdleRequest]
          PROVE  \A p \in Requests : p # q => request'[p] = request[p]
      BY <1>1, <3>2, RequestRests
    <3> QED BY <1>1, <1>5, <3>1, <3>2, EditTyped, DispatchTyped, RequestCrashTyped
  <2>3. request'[q].pc = "write" /\ request'[q].op = "cancel"
        => run[request'[q].run].status # "absent"
    <3>1. ASSUME NEW op \in Ops, ReadAutomation(q, op) PROVE request'[q].op # "cancel"
      <4> DEFINE me == [IdleRequest EXCEPT !.op = op, !.pc = "write",
                          !.seen = automation.status, !.graph = automation.graph]
      <4>1. request' = [request EXCEPT ![q] = me] /\ op # "cancel"
        BY <3>1 DEF ReadAutomation
      <4>2. me.op = op
        BY DEF IdleRequest
      <4> HIDE DEF me
      <4> QED BY <1>1, <4>1, <4>2, Shapes
    <3>2. ASSUME NEW r \in Runs, ReadCancel(q, r)
          PROVE  request'[q].run = r /\ run[r].status # "absent"
      <4> DEFINE me == [IdleRequest EXCEPT !.op = "cancel", !.pc = "write", !.run = r]
      <4>1. request' = [request EXCEPT ![q] = me] /\ run[r].status # "absent"
        BY <3>2 DEF ReadCancel
      <4>2. me.run = r
        BY DEF IdleRequest
      <4> HIDE DEF me
      <4> QED BY <1>1, <4>1, <4>2, Shapes
    <3>3. ASSUME request' = [request EXCEPT ![q] = IdleRequest]
          PROVE  request'[q].pc # "write"
      <4>1. request'[q] = IdleRequest /\ IdleRequest.pc = "idle"
        BY <1>1, <3>3, RequestRests, IdleTypes
      <4> QED BY <4>1
    <3> QED BY <1>1, <1>5, <3>1, <3>2, <3>3, EditTyped, DispatchTyped, RequestCrashTyped
  <2> QED BY <2>1, <2>2, <2>3 DEF Named
<1>6. ASSUME NEW q \in Requests, NEW x \in Runs, CreateRun(q, x) PROVE Named'
  <2>1. /\ request'[q].pc = "dispatch" /\ run'[x].status = "queued"
        /\ \A p \in Requests : p # q => request'[p] = request[p]
        /\ \A r \in Runs : r # x => run'[r] = run[r]
    BY <1>1, <1>6, CreateTyped
  <2>2. \A p \in Requests : request[p].pc = "write" /\ request[p].op = "cancel"
                            => request[p].run \in Runs
    BY <1>1, Shapes DEF Places
  <2> QED BY <2>1, <2>2 DEF Named
<1>7. ASSUME NEW q \in Requests, CancelRun(q) PROVE Named'
  <2> DEFINE x == request[q].run
  <2>1. /\ x \in Runs /\ SameBut(x) /\ run[x].status # "absent"
        /\ run'[x].status = run[x].status
    BY <1>1, <1>7, CancelAsks
  <2>2. /\ request'[q] = IdleRequest /\ IdleRequest.pc = "idle"
        /\ \A p \in Requests : p # q => request'[p] = request[p]
    BY <1>1, <1>7, CancelTyped, RequestRests, IdleTypes
  <2>3. \A p \in Requests : request[p].pc = "write" /\ request[p].op = "cancel"
                            => request[p].run \in Runs
    BY <1>1, Shapes DEF Places
  <2> QED BY <2>1, <2>2, <2>3 DEF Named, SameBut, Same, Turns
<1>8. ASSUME NEW w \in Workers, NEW x \in Runs, Receive(w, x) PROVE Named'
  <2>1. UNCHANGED request /\ \A r \in Runs : Turns(r) /\ Kept(r)
    BY <1>1, <1>8, ReceiveTyped DEF Turns, Kept
  <2>2. \A q \in Requests : request[q].pc = "write" /\ request[q].op = "cancel"
                            => request[q].run \in Runs
    BY <1>1, Shapes DEF Places
  <2> QED BY <2>1, <2>2 DEF Named, Turns, Kept
<1>9. ASSUME NEW w \in Workers, WorkerStep(w) \/ WorkerCrash(w) PROVE Named'
  <2>1. CASE \/ Begin(w) \/ Park(w)
             \/ Refuse(w) \/ NodeFails(w) \/ Succeed(w) \/ WorkerCrash(w)
    <3> DEFINE x == worker[w].run
    <3>1. UNCHANGED request
      BY <2>1, BeginEffect, ParkEffect, ReleaseEffect DEF Advances
    <3>2. /\ x \in Runs /\ SameBut(x) /\ run[x].status # "absent"
          /\ \/ run'[x].status = run[x].status
             \/ run'[x].status \in {"running", "waiting", "succeeded", "failed", "stopped"}
      <4>1. worker[w].pc # "idle"
        BY <2>1, BeginEffect, ParkEffect, ReleaseEffect
      <4> QED BY <2>1, <4>1, Holding, WorkerTurns
    <3> QED BY <1>3, <3>1, <3>2
  <2>2. CASE \/ Guard(w) \/ SendCommits(w) \/ Complete(w) \/ CompleteDelay(w)
             \/ \E j \in JobIds : ScheduleResume(w, j)
    <3>1. UNCHANGED request
      BY <1>1, <2>2, GuardTyped, SendTyped, CompleteTyped, DelayTyped, ScheduleTyped
    <3> QED BY <1>4, <2>2, <3>1, WorkerSame
  <2>3. CASE Enter(w)
    <3>1. UNCHANGED request
      BY <1>1, <2>3, EnterTyped
    <3> QED BY <2>3, <3>1, EnterBegins DEF Named
  <2> QED BY <1>9, <2>1, <2>2, <2>3 DEF WorkerStep
<1>10. CASE \/ \E t \in Ticks, j \in JobIds : HandleResume(t, j)
            \/ QuietJobs /\ UNCHANGED runVars
            \/ \E x \in Runs : DeadlinePasses(x)
            \/ UNCHANGED vars
  BY <1>1, <1>4, <1>10, OthersSame
<1> QED BY <1>5, <1>6, <1>7, <1>8, <1>9, <1>10 DEF Next, RequestStep, TickStep, QuietJobs

-----------------------------------------------------------------------------
(* The mapping *)

LEMMA LifeRests == ASSUME \A r \in Runs : Same(r) PROVE UNCHANGED Life!vars
<1>1. /\ [r \in Runs |-> run'[r].status] = [r \in Runs |-> run[r].status]
      /\ [r \in Runs |-> run'[r].max] = [r \in Runs |-> run[r].max]
      /\ [r \in Runs |-> history'[r].begun] = [r \in Runs |-> history[r].begun]
      /\ [r \in Runs |-> run'[r].cancel] = [r \in Runs |-> run[r].cancel]
  BY DEF Same, Turns
<1> QED BY <1>1 DEF Life!vars

LEMMA LifeTurns ==
  ASSUME NEW x \in Runs, SameBut(x), Turns(x), NEW from, NEW to,
         run[x].status \in from, run'[x].status \in to
  PROVE  /\ Life!Goes(x, from, to)
         /\ [r \in Runs |-> run'[r].max] = [r \in Runs |-> run[r].max]
<1>1. /\ [r \in Runs |-> run'[r].status]
           = [[r \in Runs |-> run[r].status] EXCEPT ![x] = run'[x].status]
      /\ [r \in Runs |-> run'[r].max] = [r \in Runs |-> run[r].max]
      /\ [r \in Runs |-> history'[r].begun] = [r \in Runs |-> history[r].begun]
      /\ [r \in Runs |-> run'[r].cancel] = [r \in Runs |-> run[r].cancel]
  BY DEF SameBut, Same, Turns
<1> QED BY <1>1 DEF Life!Goes

LEMMA LifeStep == ASSUME LInv, Named, [Next]_vars PROVE [Life!Next]_(Life!vars)
<1>1. Typed
  BY DEF LInv, IInv
<1>2. ASSUME \A r \in Runs : Same(r) PROVE [Life!Next]_(Life!vars)
  BY <1>2, LifeRests
<1>3. ASSUME NEW x \in Runs, SameBut(x), Turns(x),
             \/ run'[x].status = run[x].status
             \/ run[x].status \in {"queued", "waiting"} /\ run'[x].status = "running"
             \/ run[x].status \in {"queued", "waiting"} /\ run'[x].status = "failed"
             \/ run[x].status = "running" /\ run'[x].status \in {"waiting", "succeeded", "failed"}
             \/ run[x].status = "running" /\ run'[x].status = "stopped" /\ run[x].cancel
      PROVE  [Life!Next]_(Life!vars)
  <2>1. CASE run'[x].status = run[x].status
    BY <1>2, <1>3, <2>1 DEF SameBut, Same
  <2>2. CASE run[x].status \in {"queued", "waiting"} /\ run'[x].status = "running"
    <3>1. Life!Start(x)
      BY <1>3, <2>2, LifeTurns DEF Life!Start
    <3> QED BY <3>1 DEF Life!Next
  <2>3. CASE run[x].status \in {"queued", "waiting"} /\ run'[x].status = "failed"
    <3>1. Life!GiveUp(x)
      BY <1>3, <2>3, LifeTurns DEF Life!GiveUp
    <3> QED BY <3>1 DEF Life!Next
  <2>4. CASE run[x].status = "running" /\ run'[x].status = "waiting"
    <3>1. Life!Pause(x)
      BY <1>3, <2>4, LifeTurns DEF Life!Pause
    <3> QED BY <3>1 DEF Life!Next
  <2>5. CASE run[x].status = "running" /\ run'[x].status \in {"succeeded", "failed"}
    <3>1. Life!End(x)
      BY <1>3, <2>5, LifeTurns DEF Life!End
    <3> QED BY <3>1 DEF Life!Next
  <2>6. CASE run[x].status = "running" /\ run'[x].status = "stopped" /\ run[x].cancel
    <3>1. Life!Stop(x)
      BY <1>3, <2>6, LifeTurns DEF Life!Stop
    <3> QED BY <3>1 DEF Life!Next
  <2> QED BY <1>3, <2>1, <2>2, <2>3, <2>4, <2>5, <2>6
<1>4. ASSUME NEW q \in Requests, NEW x \in Runs, CreateRun(q, x)
      PROVE  [Life!Next]_(Life!vars)
  <2>1. /\ run[x].status = "absent" /\ run'[x].status = "queued"
        /\ run'[x].max \in Nat /\ ~run'[x].cancel
        /\ \A r \in Runs : r # x => run'[r] = run[r]
        /\ \A r \in Runs : history'[r].begun = history[r].begun
    BY <1>1, <1>4, CreateTyped
  <2>2. run[x].cancel = run'[x].cancel
    <3>1. ~run[x].cancel /\ run[x].cancel \in BOOLEAN
      BY <1>1, <2>1, Shapes DEF Named, Row
    <3>2. Typed'
      BY <1>1, <1>4, CreateTyped
    <3>3. run'[x].cancel \in BOOLEAN
      BY <3>2 DEF Typed, TypeOK, Row
    <3> QED BY <2>1, <3>1, <3>3
  <2>3. /\ [r \in Runs |-> run'[r].status]
             = [[r \in Runs |-> run[r].status] EXCEPT ![x] = "queued"]
        /\ [r \in Runs |-> run'[r].max]
             = [[r \in Runs |-> run[r].max] EXCEPT ![x] = run'[x].max]
        /\ [r \in Runs |-> history'[r].begun] = [r \in Runs |-> history[r].begun]
        /\ [r \in Runs |-> run'[r].cancel] = [r \in Runs |-> run[r].cancel]
    BY <2>1, <2>2
  <2>4. Life!Create(x)
    BY <2>1, <2>3 DEF Life!Create, Life!Goes
  <2> QED BY <2>4 DEF Life!Next
<1>5. ASSUME NEW q \in Requests, CancelRun(q) PROVE [Life!Next]_(Life!vars)
  <2>0. request[q].run \in Runs
    BY <1>1, <1>5, CancelAsks
  <2> PICK x \in Runs : x = request[q].run
    BY <2>0
  <2>1. /\ SameBut(x) /\ run'[x].cancel
        /\ run[x].status # "absent" /\ run'[x].status = run[x].status
        /\ run'[x].max = run[x].max /\ history'[x].begun = history[x].begun
    BY <1>1, <1>5, CancelAsks
  <2>2. run'[x].cancel = TRUE
    <3>1. Typed'
      BY <1>1, <1>5, CancelTyped
    <3>2. run'[x].cancel \in BOOLEAN
      BY <2>1, <3>1 DEF Typed, TypeOK, Row
    <3> QED BY <2>1, <3>2
  <2>3. /\ [r \in Runs |-> run'[r].status] = [r \in Runs |-> run[r].status]
        /\ [r \in Runs |-> run'[r].max] = [r \in Runs |-> run[r].max]
        /\ [r \in Runs |-> history'[r].begun] = [r \in Runs |-> history[r].begun]
        /\ [r \in Runs |-> run'[r].cancel]
             = [[r \in Runs |-> run[r].cancel] EXCEPT ![x] = TRUE]
    BY <2>1, <2>2 DEF SameBut, Same, Turns
  <2>4. Life!Ask(x)
    BY <2>1, <2>3 DEF Life!Ask
  <2> QED BY <2>4 DEF Life!Next
<1>6. ASSUME NEW w \in Workers, Enter(w) PROVE [Life!Next]_(Life!vars)
  <2>0. worker[w].run \in Runs
    BY <1>6, EnterBegins
  <2> PICK x \in Runs : x = worker[w].run
    BY <2>0
  <2>1. /\ SameBut(x) /\ run' = run
        /\ run[x].status = "running" /\ history[x].begun < run[x].max
        /\ history'[x].begun = history[x].begun + 1
    BY <1>6, EnterBegins
  <2>2. [r \in Runs |-> history'[r].begun]
          = [[r \in Runs |-> history[r].begun] EXCEPT ![x] = history[x].begun + 1]
    BY <2>1 DEF SameBut, Same, Turns
  <2>3. Life!BeginNode(x)
    BY <2>1, <2>2 DEF Life!BeginNode
  <2> QED BY <2>3 DEF Life!Next
<1>7. ASSUME NEW q \in Requests,
             \/ \E op \in Ops : ReadAutomation(q, op)
             \/ \E r \in Runs : ReadCancel(q, r)
             \/ RequestStep(q) \/ RequestCrash(q)
      PROVE  [Life!Next]_(Life!vars)
  BY <1>1, <1>2, <1>4, <1>5, <1>7, RequestsSame DEF RequestStep
<1>8. ASSUME NEW w \in Workers,
             \/ \E r \in Runs : Receive(w, r)
             \/ WorkerStep(w) \/ WorkerCrash(w)
      PROVE  [Life!Next]_(Life!vars)
  <2>1. CASE \E r \in Runs : Receive(w, r)
    BY <1>3, <2>1, ReceiveTurns
  <2>2. CASE \/ Begin(w) \/ Park(w)
             \/ Refuse(w) \/ NodeFails(w) \/ Succeed(w) \/ WorkerCrash(w)
    BY <1>3, <2>2, WorkerTurns
  <2>3. CASE \/ Guard(w) \/ SendCommits(w) \/ Complete(w) \/ CompleteDelay(w)
             \/ \E j \in JobIds : ScheduleResume(w, j)
    BY <1>2, <2>3, WorkerSame
  <2> QED BY <1>6, <1>8, <2>1, <2>2, <2>3 DEF WorkerStep
<1>9. CASE \/ \E t \in Ticks, j \in JobIds : HandleResume(t, j)
           \/ QuietJobs /\ UNCHANGED runVars
           \/ \E x \in Runs : DeadlinePasses(x)
           \/ UNCHANGED vars
  BY <1>1, <1>2, <1>9, OthersSame
<1> QED BY <1>7, <1>8, <1>9 DEF Next, TickStep, QuietJobs

\* Every run lives as RunLife says, with any number of workers, requests and
\* faults: it begins nodes only while it is RUNNING, is stopped only if asked to,
\* and once it ended no late commit of a task gives it another status.
THEOREM RunsLiveOnce == Spec => LivesOnce
<1>1. Init => LInv /\ Named /\ Life!Init
  <2>1. ASSUME Init PROVE Named /\ Life!Init
    <3>1. \A q \in Requests : request[q].pc = "idle"
      BY <2>1, IdleTypes DEF Init
    <3>2. Named
      BY <2>1, <3>1 DEF Init, Named, NewRow
    <3>3. Life!Init
      BY <2>1 DEF Init, Life!Init, NewRow
    <3> QED BY <3>2, <3>3
  <2> QED BY <2>1, InitAlong
<1>2. LInv /\ Named /\ [Next]_vars => LInv' /\ Named'
  BY StepAlong, NamedStep
<1>3. LInv /\ Named /\ [Next]_vars => [Life!Next]_(Life!vars)
  BY LifeStep
<1> QED BY <1>1, <1>2, <1>3, PTL DEF Spec, LivesOnce, Life!Spec

-----------------------------------------------------------------------------
(* What that means for the rows *)

Ended == {"succeeded", "failed", "stopped"}

\* An ended run keeps its status, a run is stopped only if that was asked for,
\* and what was asked for stays so.
EndsOnce ==
    \A r \in Runs :
        /\ run[r].status \in Ended => run'[r].status = run[r].status
        /\ run'[r].status = "stopped" => run[r].status = "stopped" \/ run[r].cancel
        /\ run[r].cancel = TRUE => run'[r].cancel = TRUE

LEMMA LifeEndsOnce == ASSUME [Life!Next]_(Life!vars) PROVE EndsOnce
<1> SUFFICES ASSUME NEW r \in Runs
             PROVE  /\ run[r].status \in Ended => run'[r].status = run[r].status
                    /\ run'[r].status = "stopped" => run[r].status = "stopped" \/ run[r].cancel
                    /\ run[r].cancel = TRUE => run'[r].cancel = TRUE
  BY DEF EndsOnce
<1> DEFINE stage == [x \in Runs |-> run[x].status]
           asked == [x \in Runs |-> run[x].cancel]
<1>1. /\ stage[r] = run[r].status /\ stage'[r] = run'[r].status
      /\ asked[r] = run[r].cancel /\ asked'[r] = run'[r].cancel
  OBVIOUS
<1>2. ASSUME NEW x \in Runs, NEW from, NEW to, Life!Goes(x, from, to),
             from \cap Ended = {}, "stopped" \in to => run[x].cancel
      PROVE  /\ stage[r] \in Ended => stage'[r] = stage[r]
             /\ stage'[r] = "stopped" => stage[r] = "stopped" \/ asked[r]
             /\ asked[r] = TRUE => asked'[r] = TRUE
  <2>1. /\ stage[x] \in from /\ \E s \in to : stage' = [stage EXCEPT ![x] = s]
        /\ asked' = asked
    BY <1>2 DEF Life!Goes
  <2>2. PICK s \in to : stage' = [stage EXCEPT ![x] = s]
    BY <2>1
  <2>3. DOMAIN stage = Runs /\ (x = r => asked[x] = run[x].cancel)
    OBVIOUS
  <2> HIDE DEF stage, asked
  <2> QED BY <1>1, <1>2, <2>1, <2>2, <2>3 DEF Ended
<1>3. ASSUME stage' = stage, asked[r] = TRUE => asked'[r] = TRUE
      PROVE  /\ stage[r] \in Ended => stage'[r] = stage[r]
             /\ stage'[r] = "stopped" => stage[r] = "stopped" \/ asked[r]
             /\ asked[r] = TRUE => asked'[r] = TRUE
  BY <1>3
<1>4. ASSUME NEW x \in Runs,
             \/ Life!Create(x) \/ Life!Start(x) \/ Life!Pause(x) \/ Life!End(x)
             \/ Life!GiveUp(x) \/ Life!Stop(x)
      PROVE  \E from, to : /\ Life!Goes(x, from, to) /\ from \cap Ended = {}
                           /\ "stopped" \in to => run[x].cancel
  <2>1. CASE Life!Create(x)
    BY <2>1 DEF Life!Create, Ended
  <2>2. CASE Life!Start(x) \/ Life!GiveUp(x)
    BY <2>2 DEF Life!Start, Life!GiveUp, Ended
  <2>3. CASE Life!Pause(x) \/ Life!End(x)
    BY <2>3 DEF Life!Pause, Life!End, Ended
  <2>4. CASE Life!Stop(x)
    BY <2>4 DEF Life!Stop, Ended
  <2> QED BY <1>4, <2>1, <2>2, <2>3, <2>4
<1>5. ASSUME NEW x \in Runs, Life!BeginNode(x)
      PROVE  stage' = stage /\ asked' = asked
  BY <1>5 DEF Life!BeginNode
<1>6. ASSUME NEW x \in Runs, Life!Ask(x)
      PROVE  stage' = stage /\ (asked[r] = TRUE => asked'[r] = TRUE)
  <2>1. stage' = stage /\ asked' = [asked EXCEPT ![x] = TRUE] /\ DOMAIN asked = Runs
    BY <1>6 DEF Life!Ask
  <2> HIDE DEF stage, asked
  <2> QED BY <2>1
<1>7. CASE Life!vars' = Life!vars
  <2>1. stage' = stage /\ asked' = asked
    BY <1>7 DEF Life!vars
  <2> HIDE DEF stage, asked
  <2> QED BY <1>1, <1>3, <2>1
<1>8. CASE Life!Next
  <2>1. PICK x \in Runs :
          \/ \/ Life!Create(x) \/ Life!Start(x) \/ Life!Pause(x) \/ Life!End(x)
             \/ Life!GiveUp(x) \/ Life!Stop(x)
          \/ Life!BeginNode(x)
          \/ Life!Ask(x)
    BY <1>8, Zenon DEF Life!Next
  <2>2. /\ stage[r] \in Ended => stage'[r] = stage[r]
        /\ stage'[r] = "stopped" => stage[r] = "stopped" \/ asked[r]
        /\ asked[r] = TRUE => asked'[r] = TRUE
    <3> HIDE DEF stage, asked
    <3> QED BY <1>2, <1>3, <1>4, <1>5, <1>6, <2>1
  <2> HIDE DEF stage, asked
  <2> QED BY <1>1, <2>2
<1> QED BY <1>7, <1>8

\* With any number of workers, requests and faults: an ended run keeps its status
\* although workers and requests commit rows they read long before, a run is
\* stopped only if somebody asked for it, and a request to stop is never lost.
THEOREM NothingOutlivesTheEnd == Spec => [][EndsOnce]_vars
<1>1. Init => LInv /\ Named
  <2>1. ASSUME Init PROVE Named
    <3>1. \A q \in Requests : request[q].pc = "idle"
      BY <2>1, IdleTypes DEF Init
    <3> QED BY <2>1, <3>1 DEF Init, Named, NewRow
  <2> QED BY <2>1, InitAlong
<1>2. LInv /\ Named /\ [Next]_vars => LInv' /\ Named'
  BY StepAlong, NamedStep
<1>3. LInv /\ Named /\ [Next]_vars => [EndsOnce]_vars
  BY LifeStep, LifeEndsOnce
<1> QED BY <1>1, <1>2, <1>3, PTL DEF Spec
=============================================================================

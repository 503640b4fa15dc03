--------------------------- MODULE CampaignProofs ---------------------------
(***************************************************************************)
(* What holds of Campaign for every set of recipients, workers, requests   *)
(* and tokens, every choice of operations and every bound on crashes.      *)
(***************************************************************************)
EXTENDS Campaign, FiniteSetTheorems, TLAPS

(* The inductive invariant in parts, one per property; SendingIsOwned needs   *)
(* no strengthening.  The parts of the properties that hold for one worker    *)
(* stand with their theorems, further below.                                 *)

\* Approval: whatever may lead to a token, a run or a message comes after it.
Approval ==
    /\ campaign.status \notin {"draft", "cancelled"} => campaign.approved
    /\ \A q \in Requests :
         request[q].pc # "idle" /\ request[q].op \notin {"approve", "cancel"}
            => campaign.approved
    /\ ApprovedBeforeSend

\* Heartbeat: retry writes it before it may write RUNNING.
Heartbeat ==
    /\ RunningHasHeartbeat
    /\ \A q \in Requests :
         request[q].op = "retry" /\ request[q].pc \in {"dispatch", "running"}
            => campaign.heartbeat # "none"

\* Acceptance: ids in a worker's memory and answers not yet recorded stand for
\* accepted messages too.
Acceptance ==
    /\ HandedMeansAccepted
    /\ \A w \in Workers :
         /\ \A r \in worker[w].known : copies[r] > 0
         /\ worker[w].pc = "record" /\ worker[w].outcome \in {"sent", "noid"}
              => copies[worker[w].cur] > 0

\* Superseding: a run that called the provider late holds a token that is not,
\* and never again will be, the campaign's, and is on its way to a check of it.
Lateness ==
    \A w \in Workers :
        \/ worker[w].late = 0
        \/ /\ worker[w].late = 1 /\ campaign.token # worker[w].token
           /\ worker[w].pc \in {"record", "loop", "check"}

\* Delivery: a token is on its way once, in one worker's hands, or neither, and
\* the token a request is about to hand on is still neither.
Fresh(t) == queue[t] = 0 /\ jobs[t] = 0 /\ \A w \in Workers : worker[w].token # t
Lone(t) ==
    \/ /\ queue[t] + jobs[t] = 0
       /\ \A v, w \in Workers : worker[v].token = t /\ worker[w].token = t => v = w
    \/ queue[t] + jobs[t] = 1 /\ \A w \in Workers : worker[w].token # t
Promise(q) == IF request[q].op = "recover" THEN request[q].token ELSE campaign.token
Delivery ==
    /\ \A t \in Tokens : Lone(t)
    /\ \A q \in Requests :
         request[q].pc = "dispatch" => Promise(q) \in Tokens /\ Fresh(Promise(q))

-----------------------------------------------------------------------------
(* Type correctness *)

LEMMA IdleType == IdleWorker \in WorkerState /\ IdleRequest \in RequestState
  BY DEF IdleWorker, WorkerState, WorkerRecord, WorkerPc, Outcomes,
         CampaignStatus, IdleRequest, RequestState, RequestRecord, RequestOp,
         RequestPc

\* Replacing one worker's (one request's) state by a state keeps the type.
LEMMA BecomeType ==
  ASSUME worker \in [Workers -> WorkerState], NEW w \in Workers,
         NEW me \in WorkerState, Become(w, me)
  PROVE  worker' \in [Workers -> WorkerState]
  BY DEF Become

LEMMA HandleType ==
  ASSUME request \in [Requests -> RequestState], NEW q \in Requests,
         NEW me \in RequestState, Handle(q, me)
  PROVE  request' \in [Requests -> RequestState]
  BY DEF Handle

LEMMA StopType ==
  ASSUME worker \in [Workers -> WorkerState], NEW w \in Workers, Stop(w)
  PROVE  worker' \in [Workers -> WorkerState]
  BY BecomeType, IdleType DEF Stop

LEMMA DoneType ==
  ASSUME request \in [Requests -> RequestState], NEW q \in Requests, Done(q)
  PROVE  request' \in [Requests -> RequestState]
  BY HandleType, IdleType DEF Done

\* The states the worker's steps compute are states.
LEMMA WorkerStates ==
  ASSUME worker \in [Workers -> WorkerState], NEW w \in Workers
  PROVE  /\ \A t \in Tokens :
              [IdleWorker EXCEPT !.pc = "loop", !.token = t] \in WorkerState
         /\ campaign.status \in CampaignStatus =>
              \A B \in SUBSET Recipients : Loaded(w, B) \in WorkerState
         /\ \A r \in Recipients : Chosen(w, r) \in WorkerState
         /\ Advance(worker[w]) \in WorkerState
         /\ worker[w].cur \in Recipients =>
              /\ [worker[w] EXCEPT !.pc = "send", !.locked = FALSE]
                    \in WorkerState
              /\ \A o \in Outcomes : Answered(w, o) \in WorkerState
              /\ Recorded(w) \in WorkerState
<1> DEFINE me == worker[w]
<1>1. me \in WorkerRecord
  BY DEF WorkerState
<1>2. \A t \in Tokens :
        [IdleWorker EXCEPT !.pc = "loop", !.token = t] \in WorkerState
  BY IdleType DEF WorkerState, WorkerRecord, WorkerPc
<1>3. ASSUME campaign.status \in CampaignStatus, NEW B \in SUBSET Recipients
      PROVE  Loaded(w, B) \in WorkerState
  BY <1>1, <1>3 DEF Loaded, WorkerState, WorkerRecord, WorkerPc
<1>4. \A r \in Recipients : Chosen(w, r) \in WorkerState
  BY <1>1 DEF Chosen, WorkerState, WorkerRecord, WorkerPc
<1>5. /\ Advance(me) \in WorkerRecord
      /\ Advance(me).pc \in {"loop", "check"}
  BY <1>1 DEF Advance, WorkerRecord, WorkerPc, Outcomes
<1>6. me.cur \in Recipients
        => [me EXCEPT !.pc = "send", !.locked = FALSE] \in WorkerState
  BY <1>1 DEF WorkerState, WorkerRecord, WorkerPc
<1>7. ASSUME me.cur \in Recipients, NEW o \in Outcomes
      PROVE  Answered(w, o) \in WorkerState
  <2>1. me.late \in 0..2 /\ TwoAtMost(me.late) \in 0..2
    BY <1>1 DEF TwoAtMost, WorkerRecord
  <2> QED BY <1>1, <1>7, <2>1 DEF Answered, WorkerState, WorkerRecord, WorkerPc
<1>8. ASSUME me.cur \in Recipients PROVE Recorded(w) \in WorkerState
  <2> DEFINE adv == Advance(me)
             k == IF me.outcome = "sent" THEN adv.known \cup {me.cur}
                                         ELSE adv.known
             f == IF me.outcome \in {"rejected", "invalid"} THEN TRUE
                                                          ELSE adv.failed
  <2>1. adv \in WorkerRecord /\ adv.pc \in {"loop", "check"}
    BY <1>5
  <2>2. Recorded(w) = [adv EXCEPT !.known = k, !.failed = f]
    BY DEF Recorded
  <2> HIDE DEF adv
  <2>3. k \in SUBSET Recipients /\ f \in BOOLEAN
    BY <2>1, <1>8 DEF WorkerRecord
  <2> HIDE DEF k, f
  <2> QED BY <2>1, <2>2, <2>3 DEF WorkerState, WorkerRecord
<1> QED BY <1>2, <1>3, <1>4, <1>5, <1>6, <1>7, <1>8 DEF WorkerState

\* The states the requests' steps compute are states.
LEMMA RequestStates ==
  ASSUME NEW s \in CampaignStatus
  PROVE  /\ \A op \in RequestOp :
              [IdleRequest EXCEPT !.op = op, !.pc = "write", !.seen = s]
                 \in RequestState
         /\ [IdleRequest EXCEPT !.op = "start", !.pc = "dispatch"]
               \in RequestState
         /\ \A me \in RequestState : me.op \in {"retry", "recover"} =>
              /\ [me EXCEPT !.pc = "dispatch"] \in RequestState
              /\ [me EXCEPT !.pc = "running", !.seen = s] \in RequestState
              /\ [me EXCEPT !.pc = "running", !.token = NoToken, !.seen = s]
                    \in RequestState
              /\ \A t \in Tokens : [me EXCEPT !.pc = "dispatch", !.token = t]
                                      \in RequestState
<1>1. \A op \in RequestOp :
        [IdleRequest EXCEPT !.op = op, !.pc = "write", !.seen = s]
           \in RequestState
  BY IdleType DEF RequestState, RequestRecord, RequestPc
<1>2. [IdleRequest EXCEPT !.op = "start", !.pc = "dispatch"] \in RequestState
  BY IdleType DEF RequestState, RequestRecord, RequestPc, RequestOp
<1>3. ASSUME NEW me \in RequestState, me.op \in {"retry", "recover"}
      PROVE  /\ [me EXCEPT !.pc = "dispatch"] \in RequestState
             /\ [me EXCEPT !.pc = "running", !.seen = s] \in RequestState
             /\ [me EXCEPT !.pc = "running", !.token = NoToken, !.seen = s]
                   \in RequestState
             /\ \A t \in Tokens : [me EXCEPT !.pc = "dispatch", !.token = t]
                                     \in RequestState
  <2>1. [me EXCEPT !.pc = "dispatch"] \in RequestState
    BY <1>3 DEF RequestState, RequestRecord, RequestPc
  <2>2. [me EXCEPT !.pc = "running", !.seen = s] \in RequestState
    BY <1>3 DEF RequestState, RequestRecord, RequestPc
  <2>3. [me EXCEPT !.pc = "running", !.token = NoToken, !.seen = s]
           \in RequestState
    BY <1>3 DEF RequestState, RequestRecord, RequestPc
  <2>4. \A t \in Tokens : [me EXCEPT !.pc = "dispatch", !.token = t]
                             \in RequestState
    BY <1>3 DEF RequestState, RequestRecord, RequestPc
  <2> QED BY <2>1, <2>2, <2>3, <2>4
<1> QED BY <1>1, <1>2, <1>3

LEMMA CounterType ==
  ASSUME NEW f \in [Tokens -> Nat], NEW t
  PROVE  /\ Plus(f, t) \in [Tokens -> Nat]
         /\ (t \in Tokens /\ f[t] > 0) => Less(f, t) \in [Tokens -> Nat]
<1>1. CASE t \in Tokens
  BY <1>1 DEF Plus, Less
<1>2. CASE t \notin Tokens
  <2>1. Plus(f, t) = [u \in Tokens |-> f[u]]
    BY <1>2 DEF Plus
  <2> QED BY <1>2, <2>1
<1> QED BY <1>1, <1>2

LEMMA CopiesType ==
  ASSUME copies \in [Recipients -> 0..2], NEW r \in Recipients
  PROVE  [copies EXCEPT ![r] = TwoAtMost(@)] \in [Recipients -> 0..2]
<1>1. TwoAtMost(copies[r]) \in 0..2
  BY DEF TwoAtMost
<1> QED BY <1>1

LEMMA RowType ==
  ASSUME recipient \in [Recipients -> RecipientRow]
  PROVE  /\ Swept \in [Recipients -> RecipientRow]
         /\ \A r, s : s \in RecipientStatus =>
              [recipient EXCEPT ![r].status = s] \in [Recipients -> RecipientRow]
         /\ \A r, a : a \in Age =>
              [recipient EXCEPT ![r].since = a] \in [Recipients -> RecipientRow]
         /\ \A r, s, a : s \in RecipientStatus /\ a \in Age =>
              [recipient EXCEPT ![r].status = s, ![r].since = a]
                 \in [Recipients -> RecipientRow]
<1>1. Swept \in [Recipients -> RecipientRow]
  BY DEF Swept, RecipientRow, RecipientStatus, Age
<1>2. \A r, s : s \in RecipientStatus =>
        [recipient EXCEPT ![r].status = s] \in [Recipients -> RecipientRow]
  BY DEF RecipientRow
<1>3. \A r, a : a \in Age =>
        [recipient EXCEPT ![r].since = a] \in [Recipients -> RecipientRow]
  BY DEF RecipientRow
<1>4. \A r, s, a : s \in RecipientStatus /\ a \in Age =>
        [recipient EXCEPT ![r].status = s, ![r].since = a]
           \in [Recipients -> RecipientRow]
  BY DEF RecipientRow
<1> QED BY <1>1, <1>2, <1>3, <1>4

-----------------------------------------------------------------------------
(* Every step keeps the types. *)

LEMMA TypeStep == TypeOK /\ [Next]_vars => TypeOK'
<1> SUFFICES ASSUME TypeOK, [Next]_vars PROVE TypeOK'
  OBVIOUS
<1>c. campaign \in CampaignRow
  BY DEF TypeOK
<1>r. recipient \in [Recipients -> RecipientRow]
  BY DEF TypeOK
<1>u. queue \in [Tokens -> Nat] /\ jobs \in [Tokens -> Nat]
  BY DEF TypeOK
<1>w. worker \in [Workers -> WorkerState]
  BY DEF TypeOK
<1>q. request \in [Requests -> RequestState]
  BY DEF TypeOK
<1>n. crashes \in 0..MaxCrashes
  BY DEF TypeOK
<1>p. /\ copies \in [Recipients -> 0..2]
      /\ doubt \in [Recipients -> {"none", "interrupted", "gateway"}]
  BY DEF TypeOK
<1>i. \A w \in Workers : worker[w].pc \in {"mark", "send", "record"}
                           => worker[w].cur \in Recipients
  BY <1>w DEF WorkerState
<1>s. /\ campaign.status \in CampaignStatus
      /\ \A q \in Requests : request[q].seen \in CampaignStatus
  BY <1>c, <1>q DEF CampaignRow, RequestState, RequestRecord

<1>1. ASSUME NEW w \in Workers, NEW t \in Tokens, Begin(w, t) PROVE TypeOK'
  <2>1. queue' \in [Tokens -> Nat]
    BY <1>1, <1>u, CounterType DEF Begin
  <2>2. campaign' \in CampaignRow
    BY <1>1, <1>c DEF Begin, CampaignRow, CampaignStatus, Age
  <2>3. worker' \in [Workers -> WorkerState]
    <3>1. CASE MayRun(t)
      BY <1>1, <1>w, <3>1, BecomeType, WorkerStates DEF Begin
    <3>2. CASE ~MayRun(t)
      BY <1>1, <1>w, <3>2 DEF Begin
    <3> QED BY <3>1, <3>2
  <2> QED BY <1>1, <2>1, <2>2, <2>3 DEF Begin, TypeOK

<1>2. ASSUME NEW w \in Workers, Claim(w) PROVE TypeOK'
  <2>1. recipient' \in [Recipients -> RecipientRow]
    BY <1>2, <1>r, RowType DEF Claim
  <2>2. worker' \in [Workers -> WorkerState]
    <3>1. CASE Stopped(w)
      BY <1>2, <1>w, <3>1, StopType DEF Claim
    <3>2. CASE ~Stopped(w)
      <4>0. PICK busy \in SUBSET Contended :
              \E B \in Batches(w, busy) : Become(w, Loaded(w, B))
        BY <1>2, <3>2 DEF Claim
      <4>1. PICK B \in Batches(w, busy) : Become(w, Loaded(w, B))
        BY <4>0
      <4>2. B \in SUBSET Recipients
        BY DEF Batches, Claimable, Due
      <4>3. Loaded(w, B) \in WorkerState
        BY <1>w, <1>s, <4>2, WorkerStates
      <4> QED BY <1>w, <4>1, <4>3, BecomeType
    <3> QED BY <3>1, <3>2
  <2>3. passed' \subseteq Recipients
    BY <1>2 DEF Claim, Due, TypeOK
  <2> QED BY <1>2, <2>1, <2>2, <2>3 DEF Claim, TypeOK

<1>3. ASSUME NEW w \in Workers, Check(w) PROVE TypeOK'
  <2>1. worker' \in [Workers -> WorkerState]
    <3>1. PICK r \in worker[w].todo :
            IF Stopped(w) THEN Stop(w) ELSE Become(w, Chosen(w, r))
      BY <1>3 DEF Check
    <3>2. r \in Recipients
      BY <1>w, <3>1 DEF WorkerState, WorkerRecord
    <3>3. Chosen(w, r) \in WorkerState
      BY <1>w, <3>2, WorkerStates
    <3> QED BY <1>w, <3>1, <3>3, StopType, BecomeType
  <2> QED BY <1>3, <2>1 DEF Check, TypeOK

<1>4. ASSUME NEW w \in Workers, Mark(w) PROVE TypeOK'
  <2> DEFINE me == worker[w]
  <2>1. me.pc = "mark" /\ me.cur \in Recipients
    BY <1>4, <1>i DEF Mark
  <2>2. campaign' \in CampaignRow
    BY <1>4, <1>c DEF Mark, CampaignRow, Age
  <2>3. /\ recipient' \in [Recipients -> RecipientRow]
        /\ worker' \in [Workers -> WorkerState]
    <3>1. /\ Advance(me) \in WorkerState
          /\ [me EXCEPT !.pc = "send", !.locked = FALSE] \in WorkerState
      BY <1>w, <2>1, WorkerStates
    <3>2. CASE /\ recipient' = [recipient EXCEPT ![me.cur].status = "skipped"]
               /\ Become(w, Advance(me))
      BY <1>r, <1>w, <3>1, <3>2, RowType, BecomeType DEF RecipientStatus
    <3>3. CASE /\ recipient' = [recipient EXCEPT ![me.cur].status = "sent",
                                                 ![me.cur].since = "none"]
               /\ Become(w, Advance(me))
      BY <1>r, <1>w, <3>1, <3>3, RowType, BecomeType DEF RecipientStatus, Age
    <3>4. CASE /\ recipient' = [recipient EXCEPT ![me.cur].status = "sending",
                                                 ![me.cur].since = "fresh"]
               /\ Become(w, [me EXCEPT !.pc = "send", !.locked = FALSE])
      BY <1>r, <1>w, <3>1, <3>4, RowType, BecomeType DEF RecipientStatus, Age
    <3> QED BY <1>4, <3>2, <3>3, <3>4 DEF Mark
  <2> QED BY <1>4, <2>2, <2>3 DEF Mark, TypeOK

<1>5. ASSUME NEW w \in Workers, Call(w) PROVE TypeOK'
  <2>1. worker[w].cur \in Recipients
    BY <1>5, <1>i DEF Call
  <2>2. PICK o \in Outcomes :
          /\ Become(w, Answered(w, o))
          /\ \/ copies' = [copies EXCEPT ![worker[w].cur] = TwoAtMost(@)]
             \/ copies' = copies
          /\ doubt' = IF o = "gateway"
                      THEN [doubt EXCEPT ![worker[w].cur] = "gateway"]
                      ELSE doubt
    BY <1>5 DEF Call
  <2>3. worker' \in [Workers -> WorkerState]
    <3>1. Answered(w, o) \in WorkerState
      BY <1>w, <2>1, WorkerStates
    <3> QED BY <1>w, <2>2, <3>1, BecomeType
  <2>4. copies' \in [Recipients -> 0..2]
    BY <1>p, <2>1, <2>2, CopiesType
  <2>5. doubt' \in [Recipients -> {"none", "interrupted", "gateway"}]
    BY <1>p, <2>2
  <2> QED BY <1>5, <2>3, <2>4, <2>5 DEF Call, TypeOK

<1>6. ASSUME NEW w \in Workers, Record(w) PROVE TypeOK'
  <2> DEFINE r == worker[w].cur  o == worker[w].outcome
  <2>1. r \in Recipients /\ o \in Outcomes
    BY <1>6, <1>w, <1>i DEF Record, WorkerState, WorkerRecord
  <2>2. Meaning(o) \in RecipientStatus
    BY <2>1 DEF Meaning, Outcomes, RecipientStatus
  <2>3. recipient' \in [Recipients -> RecipientRow]
    BY <1>6, <1>r, <2>1, <2>2 DEF Record, RecipientRow, Age
  <2>4. worker' \in [Workers -> WorkerState]
    <3>1. Recorded(w) \in WorkerState
      BY <1>w, <2>1, WorkerStates
    <3> QED BY <1>6, <1>w, <3>1, BecomeType DEF Record
  <2> QED BY <1>6, <2>3, <2>4 DEF Record, TypeOK

<1>7. ASSUME NEW w \in Workers, Finish(w) PROVE TypeOK'
  <2>1. campaign' \in CampaignRow
    BY <1>7, <1>c DEF Finish, CampaignRow, CampaignStatus
  <2>2. worker' \in [Workers -> WorkerState]
    BY <1>7, <1>w, StopType DEF Finish
  <2> QED BY <1>7, <2>1, <2>2 DEF Finish, TypeOK

<1>8. ASSUME NEW w \in Workers, CallLost(w) PROVE TypeOK'
  <2>1. worker[w].cur \in Recipients
    BY <1>8, <1>i DEF CallLost
  <2>2. worker' \in [Workers -> WorkerState]
    BY <1>8, <1>w, StopType DEF CallLost
  <2>3. copies' \in [Recipients -> 0..2]
    BY <1>8, <1>p, <2>1, CopiesType DEF CallLost
  <2>4. doubt' \in [Recipients -> {"none", "interrupted", "gateway"}]
    BY <1>8, <1>p DEF CallLost
  <2>5. crashes' \in 0..MaxCrashes
    BY <1>8, <1>n, MaxCrashesAssumption DEF CallLost
  <2> QED BY <1>8, <2>2, <2>3, <2>4, <2>5 DEF CallLost, TypeOK

<1>9. ASSUME NEW w \in Workers, WorkerCrash(w) PROVE TypeOK'
  <2>1. worker' \in [Workers -> WorkerState]
    BY <1>9, <1>w, StopType DEF WorkerCrash
  <2>2. doubt' \in [Recipients -> {"none", "interrupted", "gateway"}]
    BY <1>9, <1>p DEF WorkerCrash
  <2>3. crashes' \in 0..MaxCrashes
    BY <1>9, <1>n, MaxCrashesAssumption DEF WorkerCrash
  <2> QED BY <1>9, <2>1, <2>2, <2>3 DEF WorkerCrash, TypeOK

<1>10. ASSUME NEW q \in Requests,
              NEW op \in {"approve", "pause", "cancel", "retry"}, Read(q, op)
       PROVE  TypeOK'
  <2>1. [IdleRequest EXCEPT !.op = op, !.pc = "write",
                            !.seen = campaign.status] \in RequestState
    BY <1>s, RequestStates DEF RequestOp
  <2>2. request' \in [Requests -> RequestState]
    BY <1>10, <1>q, <2>1, HandleType DEF Read
  <2> QED BY <1>10, <2>2 DEF Read, TypeOK

<1>11. ASSUME NEW q \in Requests, PrepareStart(q) PROVE TypeOK'
  <2>1. campaign' \in CampaignRow
    BY <1>11, <1>c DEF PrepareStart, CampaignRow, CampaignStatus
  <2>2. request' \in [Requests -> RequestState]
    BY <1>11, <1>q, <1>s, RequestStates, HandleType DEF PrepareStart
  <2> QED BY <1>11, <2>1, <2>2 DEF PrepareStart, TypeOK

<1>12. ASSUME NEW q \in Requests, RecoverRead(q) PROVE TypeOK'
  <2>1. [IdleRequest EXCEPT !.op = "recover", !.pc = "write",
                            !.seen = campaign.status] \in RequestState
    BY <1>s, RequestStates DEF RequestOp
  <2>2. request' \in [Requests -> RequestState]
    BY <1>12, <1>q, <2>1, HandleType DEF RecoverRead
  <2> QED BY <1>12, <2>2 DEF RecoverRead, TypeOK

<1>13. ASSUME NEW q \in Requests, Write(q) PROVE TypeOK'
  <2>1. campaign' \in CampaignRow
    BY <1>13, <1>c DEF Write, CampaignRow, CampaignStatus
  <2>2. request' \in [Requests -> RequestState]
    BY <1>13, <1>q, DoneType DEF Write
  <2> QED BY <1>13, <2>1, <2>2 DEF Write, TypeOK

<1>14. ASSUME NEW q \in Requests, RetryReset(q) PROVE TypeOK'
  <2>1. campaign' \in CampaignRow
    BY <1>14, <1>c DEF RetryReset, CampaignRow, CampaignStatus, Age
  <2>2. recipient' \in [Recipients -> RecipientRow]
    <3>1. [status |-> "pending", ext |-> FALSE, since |-> "none"]
             \in RecipientRow
      BY DEF RecipientRow, RecipientStatus, Age
    <3> QED BY <1>14, <1>r, <3>1 DEF RetryReset
  <2>3. doubt' \in [Recipients -> {"none", "interrupted", "gateway"}]
    BY <1>14, <1>p DEF RetryReset
  <2>4. request' \in [Requests -> RequestState]
    <3>1. [request[q] EXCEPT !.pc = "dispatch"] \in RequestState
      BY <1>14, <1>q, <1>s, RequestStates DEF RetryReset
    <3> QED BY <1>14, <1>q, <3>1, DoneType, HandleType DEF RetryReset
  <2> QED BY <1>14, <2>1, <2>2, <2>3, <2>4 DEF RetryReset, TypeOK

<1>15. ASSUME NEW q \in Requests, Dispatch(q) PROVE TypeOK'
  <2>1. queue' \in [Tokens -> Nat] /\ jobs' \in [Tokens -> Nat]
    BY <1>15, <1>u, CounterType DEF Dispatch
  <2>2. request' \in [Requests -> RequestState]
    <3>1. CASE request[q].op = "start"
      BY <1>15, <1>q, <3>1, IdleType, HandleType DEF Dispatch, Dispatched
    <3>2. CASE request[q].op = "retry"
      <4>1. [request[q] EXCEPT !.pc = "running", !.seen = campaign.status]
               \in RequestState
        BY <1>q, <1>s, <3>2, RequestStates
      <4> QED BY <1>15, <1>q, <3>2, <4>1, HandleType DEF Dispatch, Dispatched
    <3> QED BY <1>15, <3>1, <3>2 DEF Dispatch
  <2> QED BY <1>15, <2>1, <2>2 DEF Dispatch, TypeOK

<1>16. ASSUME NEW q \in Requests, RecoverWrite(q) PROVE TypeOK'
  <2>1. PICK t \in Tokens :
          /\ campaign' = [campaign EXCEPT
               !.token = t,
               !.status = IF request[q].seen = "scheduled" THEN @
                                                           ELSE "scheduled"]
          /\ Handle(q, [request[q] EXCEPT !.pc = "dispatch", !.token = t])
    BY <1>16 DEF RecoverWrite
  <2>2. campaign' \in CampaignRow
    BY <1>c, <2>1 DEF CampaignRow, CampaignStatus
  <2>3. request' \in [Requests -> RequestState]
    <3>1. [request[q] EXCEPT !.pc = "dispatch", !.token = t] \in RequestState
      BY <1>16, <1>q, <1>s, RequestStates DEF RecoverWrite
    <3> QED BY <1>q, <2>1, <3>1, HandleType
  <2> QED BY <1>16, <2>2, <2>3 DEF RecoverWrite, TypeOK

<1>17. ASSUME NEW q \in Requests, RecoverDispatch(q) PROVE TypeOK'
  <2>1. queue' \in [Tokens -> Nat]
    BY <1>17, <1>u, CounterType DEF RecoverDispatch
  <2>2. request' \in [Requests -> RequestState]
    <3>1. [request[q] EXCEPT !.pc = "running", !.token = NoToken,
                             !.seen = "scheduled"] \in RequestState
      BY <1>17, <1>q, RequestStates DEF RecoverDispatch, CampaignStatus
    <3> QED BY <1>17, <1>q, <3>1, HandleType DEF RecoverDispatch
  <2> QED BY <1>17, <2>1, <2>2 DEF RecoverDispatch, TypeOK

<1>18. ASSUME NEW q \in Requests, MarkRunning(q) PROVE TypeOK'
  <2>1. campaign' \in CampaignRow
    BY <1>18, <1>c DEF MarkRunning, CampaignRow, CampaignStatus, Age
  <2>2. request' \in [Requests -> RequestState]
    BY <1>18, <1>q, DoneType DEF MarkRunning
  <2> QED BY <1>18, <2>1, <2>2 DEF MarkRunning, TypeOK

<1>19. ASSUME NEW q \in Requests, RequestCrash(q) PROVE TypeOK'
  <2>1. crashes' \in 0..MaxCrashes
    BY <1>19, <1>n, MaxCrashesAssumption DEF RequestCrash
  <2>2. request' \in [Requests -> RequestState]
    BY <1>19, <1>q, DoneType DEF RequestCrash
  <2> QED BY <1>19, <2>1, <2>2 DEF RequestCrash, TypeOK

<1>20. ASSUME NEW t \in Tokens, RunJob(t) PROVE TypeOK'
  <2>1. queue' \in [Tokens -> Nat] /\ jobs' \in [Tokens -> Nat]
    BY <1>20, <1>u, CounterType DEF RunJob
  <2> QED BY <1>20, <2>1 DEF RunJob, TypeOK

<1>21. ASSUME NEW r \in Recipients, StatusWebhook(r) PROVE TypeOK'
  <2>1. PICK s \in Handed \cup {"failed"} :
          recipient' = [recipient EXCEPT ![r].status = s]
    BY <1>21 DEF StatusWebhook
  <2>2. s \in RecipientStatus
    BY DEF Handed, RecipientStatus
  <2>3. recipient' \in [Recipients -> RecipientRow]
    BY <1>r, <2>1, <2>2, RowType
  <2> QED BY <1>21, <2>3 DEF StatusWebhook, TypeOK

<1>22. ASSUME NEW r \in Recipients, ContactChanges(r) PROVE TypeOK'
  BY <1>22 DEF ContactChanges, TypeOK

<1>23. ASSUME NEW r \in Recipients, SendAges(r) PROVE TypeOK'
  <2>1. recipient' \in [Recipients -> RecipientRow]
    BY <1>23, <1>r, RowType DEF SendAges, Age
  <2> QED BY <1>23, <2>1 DEF SendAges, TypeOK

<1>24. ASSUME TimePasses PROVE TypeOK'
  BY <1>24 DEF TimePasses, TypeOK

<1>25. ASSUME HeartbeatAges PROVE TypeOK'
  <2>1. campaign' \in CampaignRow
    BY <1>25, <1>c DEF HeartbeatAges, CampaignRow, Age
  <2> QED BY <1>25, <2>1 DEF HeartbeatAges, TypeOK

<1>26. ASSUME UNCHANGED vars PROVE TypeOK'
  BY <1>26 DEF vars, TypeOK

<1> QED
  BY <1>1, <1>2, <1>3, <1>4, <1>5, <1>6, <1>7, <1>8, <1>9, <1>10, <1>11, <1>12,
     <1>13, <1>14, <1>15, <1>16, <1>17, <1>18, <1>19, <1>20, <1>21, <1>22,
     <1>23, <1>24, <1>25, <1>26
  DEF Next, WorkerStep, RequestStep

\* What the database's defaults say is well typed.
LEMMA InitType == Init => TypeOK
<1> SUFFICES ASSUME Init PROVE TypeOK
  OBVIOUS
<1>1. campaign \in CampaignRow
  BY DEF Init, CampaignRow, CampaignStatus, Age
<1>2. recipient \in [Recipients -> RecipientRow]
  <2>1. [status |-> "pending", ext |-> FALSE, since |-> "none"] \in RecipientRow
    BY DEF RecipientRow, RecipientStatus, Age
  <2> QED BY <2>1 DEF Init
<1>3. /\ worker \in [Workers -> WorkerState]
      /\ request \in [Requests -> RequestState]
  BY IdleType DEF Init
<1>4. /\ crashes \in 0..MaxCrashes
      /\ clock \in [old : BOOLEAN, due : BOOLEAN]
  BY MaxCrashesAssumption, FlagsAssumption DEF Init
<1> QED BY <1>1, <1>2, <1>3, <1>4 DEF Init, TypeOK

\* In every reachable state the rows and every process's local state are
\* well typed, a worker that marks, sends or records has a row, and a request
\* that dispatches is a start, a retry or a recovery.
THEOREM TypeCorrect == Spec => []TypeOK
<1>1. Init => TypeOK
  BY InitType
<1>2. TypeOK /\ [Next]_vars => TypeOK'
  BY TypeStep
<1> QED BY <1>1, <1>2, PTL DEF Spec

-----------------------------------------------------------------------------
(* Nothing moves before the approval. *)

\* No step takes an approval back.
LEMMA ApprovedStays ==
  ASSUME TypeOK, [Next]_vars, campaign.approved
  PROVE  campaign'.approved
<1>c. campaign \in CampaignRow
  BY DEF TypeOK
<1>1. ASSUME NEW w \in Workers,
             WorkerStep(w) \/ CallLost(w) \/ WorkerCrash(w)
      PROVE  campaign'.approved
  <2>1. ASSUME NEW t \in Tokens, Begin(w, t) PROVE campaign'.approved
    BY <1>c, <2>1 DEF Begin, CampaignRow
  <2>2. CASE Mark(w)
    BY <1>c, <2>2 DEF Mark, CampaignRow
  <2>3. CASE Finish(w)
    BY <1>c, <2>3 DEF Finish, CampaignRow
  <2>4. CASE \/ Claim(w) \/ Check(w) \/ Call(w) \/ Record(w)
             \/ CallLost(w) \/ WorkerCrash(w)
    BY <2>4 DEF Claim, Check, Call, Record, CallLost, WorkerCrash
  <2> QED BY <1>1, <2>1, <2>2, <2>3, <2>4 DEF WorkerStep
<1>2. ASSUME NEW q \in Requests, RequestStep(q) PROVE campaign'.approved
  <2>1. CASE Write(q)
    BY <1>c, <2>1 DEF Write, CampaignRow
  <2>2. CASE RetryReset(q)
    BY <1>c, <2>2 DEF RetryReset, CampaignRow
  <2>3. CASE RecoverWrite(q)
    BY <1>c, <2>3 DEF RecoverWrite, CampaignRow
  <2>4. CASE MarkRunning(q)
    BY <1>c, <2>4 DEF MarkRunning, CampaignRow
  <2>5. CASE Dispatch(q) \/ RecoverDispatch(q)
    BY <2>5 DEF Dispatch, RecoverDispatch
  <2> QED BY <1>2, <2>1, <2>2, <2>3, <2>4, <2>5 DEF RequestStep
<1>3. ASSUME NEW q \in Requests, PrepareStart(q) PROVE campaign'.approved
  BY <1>c, <1>3 DEF PrepareStart, CampaignRow
<1>4. ASSUME NEW q \in Requests,
             NEW op \in {"approve", "pause", "cancel", "retry"}, Read(q, op)
      PROVE  campaign'.approved
  BY <1>4 DEF Read
<1>5. ASSUME NEW q \in Requests, RecoverRead(q) \/ RequestCrash(q)
      PROVE  campaign'.approved
  BY <1>5 DEF RecoverRead, RequestCrash
<1>6. ASSUME NEW t \in Tokens, RunJob(t) PROVE campaign'.approved
  BY <1>6 DEF RunJob
<1>7. ASSUME NEW r \in Recipients,
             StatusWebhook(r) \/ ContactChanges(r) \/ SendAges(r)
      PROVE  campaign'.approved
  BY <1>7 DEF StatusWebhook, ContactChanges, SendAges
<1>8. CASE HeartbeatAges
  BY <1>c, <1>8 DEF HeartbeatAges, CampaignRow
<1>9. CASE TimePasses \/ UNCHANGED vars
  BY <1>9 DEF TimePasses, vars
<1> QED BY <1>1, <1>2, <1>3, <1>4, <1>5, <1>6, <1>7, <1>8, <1>9 DEF Next

LEMMA ApprovalStep == TypeOK /\ Approval /\ [Next]_vars => Approval'
<1> SUFFICES ASSUME TypeOK, Approval, [Next]_vars PROVE Approval'
  OBVIOUS
<1>0. CASE campaign.approved
  BY <1>0, ApprovedStays DEF Approval, ApprovedBeforeSend
\* Without an approval no worker runs and only an approval or a cancellation
\* is under way.
<1>x. CASE ~campaign.approved
  <2>a. /\ campaign.status \in {"draft", "cancelled"}
        /\ campaign.token = NoToken
        /\ \A w \in Workers : worker[w].pc = "idle"
        /\ \A r \in Recipients : ~(copies[r] > 0)
        /\ \A q \in Requests :
             request[q].pc = "idle" \/ request[q].op \in {"approve", "cancel"}
    BY <1>x DEF Approval, ApprovedBeforeSend
  <2>c. campaign \in CampaignRow /\ request \in [Requests -> RequestState]
    BY DEF TypeOK
  <2>r. \A q \in Requests : request[q].pc \notin {"dispatch", "running"}
    BY <2>a, <2>c DEF RequestState
  \* Most steps touch none of the four variables.
  <2>u. ASSUME UNCHANGED <<campaign, worker, copies, request>> PROVE Approval'
    BY <2>u DEF Approval, ApprovedBeforeSend
  <2>1. ASSUME NEW w \in Workers,
               WorkerStep(w) \/ CallLost(w) \/ WorkerCrash(w)
        PROVE  Approval'
    <3>1. ASSUME NEW t \in Tokens, Begin(w, t) PROVE Approval'
      BY <1>x, <2>u, <3>1 DEF Begin, MayRun
    <3>2. worker[w].pc = "idle"
      BY <2>a
    <3> QED BY <2>1, <3>1, <3>2
            DEF WorkerStep, Claim, Check, Mark, Call, Record, Finish, CallLost,
                WorkerCrash
  <2>2. ASSUME NEW q \in Requests, Write(q) PROVE Approval'
    <3>1. CASE request[q].op = "approve"
      <4>1. campaign'.approved
        BY <2>2, <2>c, <3>1 DEF Write, CampaignRow
      <4> QED BY <4>1 DEF Approval, ApprovedBeforeSend
    <3>2. CASE request[q].op = "cancel"
      <4>1. /\ campaign'.status = "cancelled" /\ campaign'.token = NoToken
            /\ UNCHANGED <<worker, copies>>
        BY <2>2, <2>a, <2>c, <3>2 DEF Write, CampaignRow
      <4>2. \A p \in Requests : request'[p].pc = "idle"
                                  \/ request'[p].op \in {"approve", "cancel"}
        BY <2>2, <2>a, <2>c DEF Write, Done, Handle, IdleRequest
      <4> QED BY <2>a, <4>1, <4>2 DEF Approval, ApprovedBeforeSend
    <3> QED BY <2>2, <2>a, <3>1, <3>2 DEF Write
  <2>3. ASSUME NEW q \in Requests,
               NEW op \in {"approve", "pause", "cancel", "retry"}, Read(q, op)
        PROVE  Approval'
    <3>1. op \in {"approve", "cancel"}
      BY <2>3, <2>a DEF Read, Accepts, Completed
    <3>2. \A p \in Requests : request'[p].pc = "idle"
                                \/ request'[p].op \in {"approve", "cancel"}
      BY <2>3, <2>a, <2>c, <3>1 DEF Read, Handle, IdleRequest
    <3>3. UNCHANGED <<campaign, worker, copies>>
      BY <2>3 DEF Read
    <3> QED BY <2>a, <3>2, <3>3 DEF Approval, ApprovedBeforeSend
  <2>4. ASSUME NEW q \in Requests, RequestCrash(q) PROVE Approval'
    <3>1. \A p \in Requests : request'[p].pc = "idle"
                                \/ request'[p].op \in {"approve", "cancel"}
      BY <2>4, <2>a, <2>c DEF RequestCrash, Done, Handle, IdleRequest
    <3>2. UNCHANGED <<campaign, worker, copies>>
      BY <2>4 DEF RequestCrash
    <3> QED BY <2>a, <3>1, <3>2 DEF Approval, ApprovedBeforeSend
  <2>5. ASSUME NEW q \in Requests,
               PrepareStart(q) \/ RecoverRead(q) \/ RetryReset(q) \/ Dispatch(q)
               \/ RecoverWrite(q) \/ RecoverDispatch(q) \/ MarkRunning(q)
        PROVE  FALSE
    BY <1>x, <2>5, <2>a, <2>r
    DEF PrepareStart, Startable, RecoverRead, Stuck, RetryReset, Dispatch,
        RecoverWrite, RecoverDispatch, MarkRunning
  <2>6. ASSUME NEW t \in Tokens, RunJob(t) PROVE Approval'
    BY <2>u, <2>6 DEF RunJob
  <2>7. ASSUME NEW r \in Recipients,
               StatusWebhook(r) \/ ContactChanges(r) \/ SendAges(r)
        PROVE  Approval'
    BY <2>u, <2>7 DEF StatusWebhook, ContactChanges, SendAges
  <2>8. CASE HeartbeatAges
    BY <2>8, <2>a DEF HeartbeatAges
  <2>9. CASE TimePasses \/ UNCHANGED vars
    BY <2>9, <2>u DEF TimePasses, vars
  <2> QED BY <2>1, <2>2, <2>3, <2>4, <2>5, <2>6, <2>7, <2>8, <2>9
          DEF Next, RequestStep
<1> QED BY <1>0, <1>x

\* A campaign nobody approved has no token, no run and no message, whatever
\* order start, retry, pause, cancel and recovery come in (campaigns.py:280-284,
\* campaign_tasks.py:36-41).
THEOREM ApprovalFirst == Spec => []ApprovedBeforeSend
<1>1. Init => TypeOK /\ Approval
  <2>1. Init => Approval
    BY DEF Init, Approval, ApprovedBeforeSend, IdleWorker, IdleRequest
  <2> QED BY <2>1, InitType
<1>2. TypeOK /\ Approval /\ [Next]_vars => (TypeOK /\ Approval)'
  BY TypeStep, ApprovalStep
<1>3. Approval => ApprovedBeforeSend
  BY DEF Approval
<1> QED BY <1>1, <1>2, <1>3, PTL DEF Spec

-----------------------------------------------------------------------------
(* A RUNNING row has a heartbeat. *)

\* Steps that write the heartbeat write a value, never NULL.
LEMMA HeartbeatStays ==
  ASSUME TypeOK, [Next]_vars, campaign.heartbeat # "none"
  PROVE  campaign'.heartbeat # "none"
<1> DEFINE Goal == campaign'.heartbeat # "none"
<1>c. campaign \in CampaignRow
  BY DEF TypeOK
<1>1. ASSUME NEW w \in Workers,
             WorkerStep(w) \/ CallLost(w) \/ WorkerCrash(w)
      PROVE  Goal
  <2>1. ASSUME NEW t \in Tokens, Begin(w, t) PROVE Goal
    BY <1>c, <2>1 DEF Begin, CampaignRow
  <2>2. CASE Mark(w)
    BY <1>c, <2>2 DEF Mark, CampaignRow
  <2>3. CASE Finish(w)
    BY <1>c, <2>3 DEF Finish, CampaignRow
  <2>4. CASE \/ Claim(w) \/ Check(w) \/ Call(w) \/ Record(w)
             \/ CallLost(w) \/ WorkerCrash(w)
    BY <2>4 DEF Claim, Check, Call, Record, CallLost, WorkerCrash
  <2> QED BY <1>1, <2>1, <2>2, <2>3, <2>4 DEF WorkerStep
<1>2. ASSUME NEW q \in Requests, RequestStep(q) PROVE Goal
  <2>1. CASE Write(q)
    BY <1>c, <2>1 DEF Write, CampaignRow
  <2>2. CASE RetryReset(q)
    BY <1>c, <2>2 DEF RetryReset, CampaignRow
  <2>3. CASE RecoverWrite(q)
    BY <1>c, <2>3 DEF RecoverWrite, CampaignRow
  <2>4. CASE MarkRunning(q)
    BY <1>c, <2>4 DEF MarkRunning, CampaignRow
  <2>5. CASE Dispatch(q) \/ RecoverDispatch(q)
    BY <2>5 DEF Dispatch, RecoverDispatch
  <2> QED BY <1>2, <2>1, <2>2, <2>3, <2>4, <2>5 DEF RequestStep
<1>3. ASSUME NEW q \in Requests, PrepareStart(q) PROVE Goal
  BY <1>c, <1>3 DEF PrepareStart, CampaignRow
<1>4. ASSUME NEW q \in Requests,
             NEW op \in {"approve", "pause", "cancel", "retry"}, Read(q, op)
      PROVE  Goal
  BY <1>4 DEF Read
<1>5. ASSUME NEW q \in Requests, RecoverRead(q) \/ RequestCrash(q)
      PROVE  Goal
  BY <1>5 DEF RecoverRead, RequestCrash
<1>6. ASSUME NEW t \in Tokens, RunJob(t) PROVE Goal
  BY <1>6 DEF RunJob
<1>7. ASSUME NEW r \in Recipients,
             StatusWebhook(r) \/ ContactChanges(r) \/ SendAges(r)
      PROVE  Goal
  BY <1>7 DEF StatusWebhook, ContactChanges, SendAges
<1>8. CASE HeartbeatAges
  BY <1>c, <1>8 DEF HeartbeatAges, CampaignRow
<1>9. CASE TimePasses \/ UNCHANGED vars
  BY <1>9 DEF TimePasses, vars
<1> QED BY <1>1, <1>2, <1>3, <1>4, <1>5, <1>6, <1>7, <1>8, <1>9 DEF Next

LEMMA HeartbeatStep == TypeOK /\ Heartbeat /\ [Next]_vars => Heartbeat'
<1> SUFFICES ASSUME TypeOK, Heartbeat, [Next]_vars PROVE Heartbeat'
  OBVIOUS
<1> DEFINE Late(q) == request[q].op = "retry"
                        /\ request[q].pc \in {"dispatch", "running"}
<1>c. campaign \in CampaignRow /\ request \in [Requests -> RequestState]
  BY DEF TypeOK
\* It is enough to look at steps that leave the column NULL ...
<1>w. ASSUME campaign'.heartbeat # "none" PROVE Heartbeat'
  BY <1>w DEF Heartbeat, RunningHasHeartbeat
<1>0. CASE campaign.heartbeat # "none"
  BY <1>0, <1>w, HeartbeatStays
\* ... and at states where it is NULL: the row is not RUNNING and no retry is
\* past its first commit.
<1>x. CASE campaign.heartbeat = "none"
  <2>a. campaign.status # "running" /\ \A q \in Requests : ~Late(q)
    BY <1>x DEF Heartbeat, RunningHasHeartbeat
  <2>u. ASSUME UNCHANGED <<campaign, request>> PROVE Heartbeat'
    BY <2>u DEF Heartbeat, RunningHasHeartbeat
  <2>r. ASSUME campaign'.status # "running", \A q \in Requests : ~Late(q)'
        PROVE  Heartbeat'
    BY <2>r DEF Heartbeat, RunningHasHeartbeat
  <2>d. ASSUME NEW q \in Requests, Done(q)
        PROVE  \A p \in Requests : ~Late(p)'
    BY <1>c, <2>a, <2>d DEF Done, Handle, IdleRequest
  <2>1. ASSUME NEW w \in Workers,
               WorkerStep(w) \/ CallLost(w) \/ WorkerCrash(w)
        PROVE  Heartbeat'
    <3>1. ASSUME NEW t \in Tokens, Begin(w, t) PROVE Heartbeat'
      <4>1. CASE MayRun(t)
        BY <1>c, <1>w, <3>1, <4>1 DEF Begin, CampaignRow
      <4>2. CASE ~MayRun(t)
        BY <2>u, <3>1, <4>2 DEF Begin
      <4> QED BY <4>1, <4>2
    <3>2. CASE Mark(w)
      BY <1>c, <1>w, <3>2 DEF Mark, CampaignRow
    <3>3. CASE Finish(w)
      <4>1. campaign'.status # "running" /\ UNCHANGED request
        BY <1>c, <2>a, <3>3 DEF Finish, CampaignRow
      <4> QED BY <2>a, <2>r, <4>1
    <3>4. CASE \/ Claim(w) \/ Check(w) \/ Call(w) \/ Record(w)
               \/ CallLost(w) \/ WorkerCrash(w)
      BY <2>u, <3>4 DEF Claim, Check, Call, Record, CallLost, WorkerCrash
    <3> QED BY <2>1, <3>1, <3>2, <3>3, <3>4 DEF WorkerStep
  <2>2. ASSUME NEW q \in Requests, Write(q) PROVE Heartbeat'
    <3>1. campaign'.status # "running"
      BY <1>c, <2>2, <2>a DEF Write, CampaignRow
    <3>2. \A p \in Requests : ~Late(p)'
      BY <2>2, <2>d DEF Write
    <3> QED BY <2>r, <3>1, <3>2
  <2>3. ASSUME NEW q \in Requests, RetryReset(q) PROVE Heartbeat'
    <3>1. CASE Resettable = {}
      BY <2>3, <2>a, <2>d, <2>r, <3>1 DEF RetryReset
    <3>2. CASE Resettable # {}
      BY <1>c, <1>w, <2>3, <3>2 DEF RetryReset, CampaignRow
    <3> QED BY <3>1, <3>2
  <2>4. ASSUME NEW q \in Requests, Dispatch(q) PROVE Heartbeat'
    <3>1. request[q].op = "start"
      BY <2>4, <2>a DEF Dispatch
    <3>2. \A p \in Requests : ~Late(p)'
      BY <1>c, <2>4, <2>a, <3>1 DEF Dispatch, Dispatched, Handle, IdleRequest
    <3> QED BY <2>4, <2>a, <2>r, <3>2 DEF Dispatch
  <2>5. ASSUME NEW q \in Requests, RecoverWrite(q) PROVE Heartbeat'
    <3>1. campaign'.status # "running"
      BY <1>c, <2>5, <2>a DEF RecoverWrite, CampaignRow
    <3>2. \A p \in Requests : ~Late(p)'
      BY <1>c, <2>5, <2>a
      DEF RecoverWrite, Handle, RequestState, RequestRecord
    <3> QED BY <2>r, <3>1, <3>2
  <2>6. ASSUME NEW q \in Requests, RecoverDispatch(q) PROVE Heartbeat'
    <3>1. \A p \in Requests : ~Late(p)'
      BY <1>c, <2>6, <2>a
      DEF RecoverDispatch, Handle, RequestState, RequestRecord
    <3> QED BY <2>6, <2>a, <2>r, <3>1 DEF RecoverDispatch
  <2>7. ASSUME NEW q \in Requests, MarkRunning(q) PROVE Heartbeat'
    <3>1. request[q].op = "recover"
      BY <1>c, <2>7, <2>a DEF MarkRunning, RequestState
    <3> QED BY <1>c, <1>w, <2>7, <3>1 DEF MarkRunning, CampaignRow
  <2>8. ASSUME NEW q \in Requests, PrepareStart(q) PROVE Heartbeat'
    <3>1. campaign'.status # "running"
      BY <1>c, <2>8 DEF PrepareStart, CampaignRow
    <3>2. \A p \in Requests : ~Late(p)'
      BY <1>c, <2>8, <2>a DEF PrepareStart, Handle, IdleRequest
    <3> QED BY <2>r, <3>1, <3>2
  <2>9. ASSUME NEW q \in Requests,
               NEW op \in {"approve", "pause", "cancel", "retry"}, Read(q, op)
        PROVE  Heartbeat'
    <3>1. \A p \in Requests : ~Late(p)'
      BY <1>c, <2>9, <2>a DEF Read, Handle, IdleRequest
    <3> QED BY <2>9, <2>a, <2>r, <3>1 DEF Read
  <2>10. ASSUME NEW q \in Requests, RecoverRead(q) PROVE Heartbeat'
    <3>1. \A p \in Requests : ~Late(p)'
      BY <1>c, <2>10, <2>a DEF RecoverRead, Handle, IdleRequest
    <3> QED BY <2>10, <2>a, <2>r, <3>1 DEF RecoverRead
  <2>11. ASSUME NEW q \in Requests, RequestCrash(q) PROVE Heartbeat'
    BY <2>11, <2>a, <2>d, <2>r DEF RequestCrash
  <2>12. ASSUME NEW t \in Tokens, RunJob(t) PROVE Heartbeat'
    BY <2>u, <2>12 DEF RunJob
  <2>13. ASSUME NEW r \in Recipients,
                StatusWebhook(r) \/ ContactChanges(r) \/ SendAges(r)
         PROVE  Heartbeat'
    BY <2>u, <2>13 DEF StatusWebhook, ContactChanges, SendAges
  <2>14. CASE HeartbeatAges
    BY <2>14, <2>a DEF HeartbeatAges
  <2>15. CASE TimePasses \/ UNCHANGED vars
    BY <2>15, <2>u DEF TimePasses, vars
  <2> QED BY <2>1, <2>2, <2>3, <2>4, <2>5, <2>6, <2>7, <2>8, <2>9, <2>10,
             <2>11, <2>12, <2>13, <2>14, <2>15 DEF Next, RequestStep
<1> QED BY <1>c, <1>0, <1>x

\* recover_stuck_campaigns can see every RUNNING row: last_heartbeat_at is never
\* NULL in one, whichever of the task, retry and recovery wrote RUNNING last
\* (campaign_recovery.py:33-36, 60-61, 112, 118; campaign_tasks.py:55-57).
THEOREM HeartbeatWhileRunning == Spec => []RunningHasHeartbeat
<1>1. Init => TypeOK /\ Heartbeat
  <2>1. Init => Heartbeat
    BY DEF Init, Heartbeat, RunningHasHeartbeat, IdleRequest
  <2> QED BY <2>1, InitType
<1>2. TypeOK /\ Heartbeat /\ [Next]_vars => (TypeOK /\ Heartbeat)'
  BY TypeStep, HeartbeatStep
<1>3. Heartbeat => RunningHasHeartbeat
  BY DEF Heartbeat
<1> QED BY <1>1, <1>2, <1>3, PTL DEF Spec

-----------------------------------------------------------------------------
(* What the report counts was accepted by the provider. *)

\* The provider takes no message back.
LEMMA CopiesStay ==
  ASSUME TypeOK, [Next]_vars, NEW r \in Recipients, copies[r] > 0
  PROVE  copies'[r] > 0
<1>p. copies \in [Recipients -> 0..2]
  BY DEF TypeOK
<1>u. ASSUME UNCHANGED copies PROVE copies'[r] > 0
  BY <1>u
<1>a. ASSUME NEW s,
             copies' \in {copies, [copies EXCEPT ![s] = TwoAtMost(@)]}
      PROVE  copies'[r] > 0
  BY <1>p, <1>a DEF TwoAtMost
<1>1. ASSUME NEW w \in Workers,
             WorkerStep(w) \/ CallLost(w) \/ WorkerCrash(w)
      PROVE  copies'[r] > 0
  <2>1. CASE Call(w)
    BY <2>1, <1>a DEF Call
  <2>2. CASE CallLost(w)
    BY <2>2, <1>a DEF CallLost
  <2>3. ASSUME NEW t \in Tokens, Begin(w, t) PROVE copies'[r] > 0
    BY <1>u, <2>3 DEF Begin
  <2>4. CASE \/ Claim(w) \/ Check(w) \/ Mark(w) \/ Record(w) \/ Finish(w)
             \/ WorkerCrash(w)
    BY <1>u, <2>4 DEF Claim, Check, Mark, Record, Finish, WorkerCrash
  <2> QED BY <1>1, <2>1, <2>2, <2>3, <2>4 DEF WorkerStep
<1>2. ASSUME NEW q \in Requests,
             \/ RequestStep(q) \/ PrepareStart(q) \/ RecoverRead(q)
             \/ RequestCrash(q)
      PROVE  copies'[r] > 0
  BY <1>u, <1>2
  DEF RequestStep, Write, RetryReset, Dispatch, RecoverWrite, RecoverDispatch,
      MarkRunning, PrepareStart, RecoverRead, RequestCrash
<1>3. ASSUME NEW q \in Requests,
             NEW op \in {"approve", "pause", "cancel", "retry"}, Read(q, op)
      PROVE  copies'[r] > 0
  BY <1>u, <1>3 DEF Read
<1>4. ASSUME NEW t \in Tokens, RunJob(t) PROVE copies'[r] > 0
  BY <1>u, <1>4 DEF RunJob
<1>5. ASSUME NEW s \in Recipients,
             StatusWebhook(s) \/ ContactChanges(s) \/ SendAges(s)
      PROVE  copies'[r] > 0
  BY <1>u, <1>5 DEF StatusWebhook, ContactChanges, SendAges
<1>6. CASE TimePasses \/ HeartbeatAges \/ UNCHANGED vars
  BY <1>u, <1>6 DEF TimePasses, HeartbeatAges, vars
<1> QED BY <1>1, <1>2, <1>3, <1>4, <1>5, <1>6 DEF Next

LEMMA AcceptanceStep == TypeOK /\ Acceptance /\ [Next]_vars => Acceptance'
<1> SUFFICES ASSUME TypeOK, Acceptance, [Next]_vars PROVE Acceptance'
  OBVIOUS
<1> DEFINE RowOK(r) == recipient[r].ext \/ recipient[r].status \in Handed
                         => copies[r] > 0
           MemoryOK(me, c) ==
             /\ \A r \in me.known : c[r] > 0
             /\ me.pc = "record" /\ me.outcome \in {"sent", "noid"}
                  => c[me.cur] > 0
<1>r. recipient \in [Recipients -> RecipientRow]
  BY DEF TypeOK
<1>w. worker \in [Workers -> WorkerState]
  BY DEF TypeOK
<1>k. \A w \in Workers : worker[w].known \subseteq Recipients
  BY <1>w DEF WorkerState, WorkerRecord
<1>i. \A w \in Workers : worker[w].pc \in {"mark", "send", "record"}
                           => worker[w].cur \in Recipients
  BY <1>w DEF WorkerState
<1>a. /\ \A r \in Recipients : RowOK(r)
      /\ \A w \in Workers : MemoryOK(worker[w], copies)
  BY DEF Acceptance, HandedMeansAccepted
<1>m. \A r \in Recipients : copies[r] > 0 => copies'[r] > 0
  BY CopiesStay
\* So a row or a memory that does not change stays right, and it is enough to
\* look at what a step writes.
<1>s. ASSUME NEW me, MemoryOK(me, copies), me.known \subseteq Recipients,
             me.pc = "record" => me.cur \in Recipients
      PROVE  MemoryOK(me, copies')
  BY <1>m, <1>s
<1>g. ASSUME \A r \in Recipients : RowOK(r)',
             \A w \in Workers : MemoryOK(worker'[w], copies')
      PROVE  Acceptance'
  BY <1>g DEF Acceptance, HandedMeansAccepted
<1>rr. ASSUME UNCHANGED recipient PROVE \A r \in Recipients : RowOK(r)'
  BY <1>a, <1>m, <1>rr
<1>ww. ASSUME UNCHANGED worker
       PROVE  \A w \in Workers : MemoryOK(worker'[w], copies')
  BY <1>a, <1>m, <1>k, <1>i, <1>ww
<1>b. ASSUME NEW w \in Workers, NEW me, Become(w, me), MemoryOK(me, copies')
      PROVE  \A v \in Workers : MemoryOK(worker'[v], copies')
  BY <1>a, <1>m, <1>k, <1>i, <1>w, <1>b DEF Become
<1>t. ASSUME NEW w \in Workers, Stop(w)
      PROVE  \A v \in Workers : MemoryOK(worker'[v], copies')
  <2>1. MemoryOK(IdleWorker, copies')
    BY DEF IdleWorker
  <2> QED BY <1>b, <1>t, <2>1 DEF Stop

<1>1. ASSUME NEW w \in Workers, NEW t \in Tokens, Begin(w, t)
      PROVE  Acceptance'
  <2>1. CASE MayRun(t)
    <3> DEFINE me == [IdleWorker EXCEPT !.pc = "loop", !.token = t]
    <3>1. MemoryOK(me, copies')
      BY DEF IdleWorker
    <3>2. Become(w, me) /\ UNCHANGED recipient
      BY <1>1, <2>1 DEF Begin
    <3> QED BY <1>b, <1>rr, <1>g, <3>1, <3>2
  <2>2. CASE ~MayRun(t)
    BY <1>1, <1>rr, <1>ww, <1>g, <2>2 DEF Begin
  <2> QED BY <2>1, <2>2
<1>2. ASSUME NEW w \in Workers, Claim(w) PROVE Acceptance'
  <2>1. CASE Stopped(w)
    BY <1>2, <1>rr, <1>t, <1>g, <2>1 DEF Claim
  <2>2. CASE ~Stopped(w)
    <3>0. PICK busy \in SUBSET Contended :
            \E B \in Batches(w, busy) : Become(w, Loaded(w, B))
      BY <1>2, <2>2 DEF Claim
    <3>1. PICK B \in Batches(w, busy) : Become(w, Loaded(w, B))
      BY <3>0
    <3>2. B \subseteq Recipients
      BY DEF Batches, Claimable, Due
    <3>3. /\ Loaded(w, B).pc # "record"
          /\ \A r \in Loaded(w, B).known :
               r \in worker[w].known \/ (r \in Recipients /\ recipient[r].ext)
      BY <1>w, <3>2 DEF Loaded, WorkerState, WorkerRecord
    <3>4. MemoryOK(Loaded(w, B), copies')
      BY <1>a, <1>k, <1>m, <3>3
    <3>5. \A r \in Recipients : RowOK(r)'
      BY <1>2, <1>a, <1>m, <1>r, <2>2
      DEF Claim, Swept, RecipientRow, Handed
    <3> QED BY <1>b, <1>g, <3>1, <3>4, <3>5
  <2> QED BY <2>1, <2>2
<1>3. ASSUME NEW w \in Workers, Check(w) PROVE Acceptance'
  <2>1. PICK r \in worker[w].todo :
          IF Stopped(w) THEN Stop(w) ELSE Become(w, Chosen(w, r))
    BY <1>3 DEF Check
  <2>2. /\ Chosen(w, r).known = worker[w].known
        /\ Chosen(w, r).pc = "mark"
    BY <1>w DEF Chosen, WorkerState, WorkerRecord
  <2>3. MemoryOK(Chosen(w, r), copies')
    BY <1>a, <1>k, <1>m, <2>2
  <2>4. UNCHANGED recipient
    BY <1>3 DEF Check
  <2> QED BY <1>b, <1>t, <1>rr, <1>g, <2>1, <2>3, <2>4
<1>4. ASSUME NEW w \in Workers, Mark(w) PROVE Acceptance'
  <2> DEFINE me == worker[w]  adv == Advance(me)
             send == [me EXCEPT !.pc = "send", !.locked = FALSE]
  <2>1. me.cur \in Recipients
    BY <1>4, <1>i DEF Mark
  <2>2. MemoryOK(adv, copies') /\ MemoryOK(send, copies')
    <3>1. /\ adv.known = me.known /\ adv.pc # "record"
          /\ send.known = me.known /\ send.pc # "record"
      BY <1>w DEF Advance, WorkerState, WorkerRecord
    <3> QED BY <1>a, <1>k, <1>m, <3>1
  <2>3. Become(w, adv) \/ Become(w, send)
    BY <1>4 DEF Mark
  <2>4. \A r \in Recipients : RowOK(r)'
    <3>1. CASE recipient' = [recipient EXCEPT ![me.cur].status = "skipped"]
      BY <1>a, <1>m, <1>r, <3>1 DEF RecipientRow, Handed
    <3>2. CASE /\ me.cur \in me.known
               /\ recipient' = [recipient EXCEPT ![me.cur].status = "sent",
                                                 ![me.cur].since = "none"]
      BY <1>a, <1>m, <1>r, <3>2 DEF RecipientRow, Handed
    <3>3. CASE recipient' = [recipient EXCEPT ![me.cur].status = "sending",
                                              ![me.cur].since = "fresh"]
      BY <1>a, <1>m, <1>r, <3>3 DEF RecipientRow, Handed
    <3> QED BY <1>4, <3>1, <3>2, <3>3 DEF Mark
  <2> QED BY <1>b, <1>g, <2>2, <2>3, <2>4
<1>5. ASSUME NEW w \in Workers, Call(w) PROVE Acceptance'
  <2> DEFINE r == worker[w].cur
  <2>1. r \in Recipients
    BY <1>5, <1>i DEF Call
  <2>2. PICK o \in Outcomes :
          /\ Become(w, Answered(w, o))
          /\ o \in {"sent", "noid"}
               => copies' = [copies EXCEPT ![r] = TwoAtMost(@)]
    BY <1>5 DEF Call
  <2>3. copies \in [Recipients -> 0..2]
    BY DEF TypeOK
  <2>4. o \in {"sent", "noid"} => copies'[r] > 0
    BY <2>1, <2>2, <2>3 DEF TwoAtMost
  <2>5. /\ Answered(w, o).known = worker[w].known
        /\ Answered(w, o).cur = r
        /\ Answered(w, o).outcome = o
    BY <1>w DEF Answered, WorkerState, WorkerRecord
  <2>6. MemoryOK(Answered(w, o), copies')
    BY <1>a, <1>k, <1>m, <2>4, <2>5
  <2>7. UNCHANGED recipient
    BY <1>5 DEF Call
  <2> QED BY <1>b, <1>rr, <1>g, <2>2, <2>6, <2>7
<1>6. ASSUME NEW w \in Workers, Record(w) PROVE Acceptance'
  <2> DEFINE me == worker[w]  o == me.outcome
  <2>1. me.cur \in Recipients /\ o \in Outcomes
    BY <1>6, <1>i, <1>w DEF Record, WorkerState, WorkerRecord
  <2>2. o \in {"sent", "noid"} => copies'[me.cur] > 0
    BY <1>6, <1>a, <1>m, <2>1 DEF Record
  <2>3. Meaning(o) \in Handed => o \in {"sent", "noid"}
    BY <2>1 DEF Meaning, Outcomes, Handed
  <2>4. recipient' = [recipient EXCEPT ![me.cur] =
                        [status |-> Meaning(o), since |-> "none",
                         ext |-> IF o = "sent" THEN TRUE ELSE @.ext]]
    BY <1>6 DEF Record
  <2>5. \A r \in Recipients : RowOK(r)'
    BY <1>a, <1>m, <1>r, <2>1, <2>2, <2>3, <2>4
  <2>6. /\ Recorded(w).pc # "record"
        /\ Recorded(w).known = IF o = "sent" THEN me.known \cup {me.cur}
                                             ELSE me.known
    BY <1>w DEF Recorded, Advance, WorkerState, WorkerRecord
  <2>7. MemoryOK(Recorded(w), copies')
    BY <1>a, <1>k, <1>m, <2>1, <2>2, <2>6
  <2>8. Become(w, Recorded(w))
    BY <1>6 DEF Record
  <2> QED BY <1>b, <1>g, <2>5, <2>7, <2>8
<1>7. ASSUME NEW w \in Workers, Finish(w) \/ CallLost(w) \/ WorkerCrash(w)
      PROVE  Acceptance'
  BY <1>7, <1>t, <1>rr, <1>g DEF Finish, CallLost, WorkerCrash
<1>8. ASSUME NEW q \in Requests, RetryReset(q) PROVE Acceptance'
  <2>1. \A r \in Recipients :
          recipient'[r] \in {recipient[r], [status |-> "pending", ext |-> FALSE,
                                            since |-> "none"]}
    BY <1>8, <1>r DEF RetryReset
  <2>2. \A r \in Recipients : RowOK(r)'
    BY <1>a, <1>m, <2>1 DEF Handed
  <2> QED BY <1>8, <1>ww, <1>g, <2>2 DEF RetryReset
<1>9. ASSUME NEW r \in Recipients, StatusWebhook(r) PROVE Acceptance'
  <2>1. PICK s : recipient' = [recipient EXCEPT ![r].status = s]
    BY <1>9 DEF StatusWebhook
  <2>2. \A u \in Recipients : RowOK(u)'
    BY <1>9, <1>a, <1>m, <1>r, <2>1 DEF StatusWebhook, RecipientRow
  <2> QED BY <1>9, <1>ww, <1>g, <2>2 DEF StatusWebhook
<1>10. ASSUME NEW r \in Recipients, SendAges(r) PROVE Acceptance'
  <2>1. \A u \in Recipients : RowOK(u)'
    BY <1>10, <1>a, <1>m, <1>r DEF SendAges, RecipientRow
  <2> QED BY <1>10, <1>ww, <1>g, <2>1 DEF SendAges
<1>u. ASSUME UNCHANGED <<recipient, worker>> PROVE Acceptance'
  BY <1>u, <1>rr, <1>ww, <1>g
<1>11. ASSUME NEW q \in Requests,
              \/ Write(q) \/ Dispatch(q) \/ RecoverWrite(q)
              \/ RecoverDispatch(q) \/ MarkRunning(q) \/ PrepareStart(q)
              \/ RecoverRead(q) \/ RequestCrash(q)
       PROVE  Acceptance'
  BY <1>u, <1>11
  DEF Write, Dispatch, RecoverWrite, RecoverDispatch, MarkRunning,
      PrepareStart, RecoverRead, RequestCrash
<1>12. ASSUME NEW q \in Requests,
              NEW op \in {"approve", "pause", "cancel", "retry"}, Read(q, op)
       PROVE  Acceptance'
  BY <1>u, <1>12 DEF Read
<1>13. ASSUME NEW t \in Tokens, RunJob(t) PROVE Acceptance'
  BY <1>u, <1>13 DEF RunJob
<1>14. ASSUME NEW r \in Recipients, ContactChanges(r) PROVE Acceptance'
  BY <1>u, <1>14 DEF ContactChanges
<1>15. CASE TimePasses \/ HeartbeatAges \/ UNCHANGED vars
  BY <1>u, <1>15 DEF TimePasses, HeartbeatAges, vars
<1> QED
  BY <1>1, <1>2, <1>3, <1>4, <1>5, <1>6, <1>7, <1>8, <1>9, <1>10, <1>11, <1>12,
     <1>13, <1>14, <1>15 DEF Next, WorkerStep, RequestStep

\* A row reported as sent, delivered or read, or holding a message id, has had
\* a message accepted by the provider, also while several runs, retries, sweeps
\* and status webhooks write the rows (campaign_tasks.py:116-209,
\* campaign_recovery.py:92-105, whatsapp.py:741-812).
THEOREM HandedWasAccepted == Spec => []HandedMeansAccepted
<1>1. Init => TypeOK /\ Acceptance
  <2>1. Init => Acceptance
    BY DEF Init, Acceptance, HandedMeansAccepted, IdleWorker, Handed
  <2> QED BY <2>1, InitType
<1>2. TypeOK /\ Acceptance /\ [Next]_vars => (TypeOK /\ Acceptance)'
  BY TypeStep, AcceptanceStep
<1>3. Acceptance => HandedMeansAccepted
  BY DEF Acceptance
<1> QED BY <1>1, <1>2, <1>3, PTL DEF Spec

-----------------------------------------------------------------------------
(* A row in SENDING is somebody's. *)

LEMMA OwnedStep == TypeOK /\ SendingIsOwned /\ [Next]_vars => SendingIsOwned'
<1> SUFFICES ASSUME TypeOK, SendingIsOwned, [Next]_vars PROVE SendingIsOwned'
  OBVIOUS
<1> DEFINE Owns(me, r) == me.pc \in {"send", "record"} /\ me.cur = r
           Owned(r) == \E w \in Workers : Owns(worker[w], r)
           RowOK(r) == recipient[r].status = "sending"
                         => doubt[r] = "interrupted" \/ Owned(r)
<1>r. /\ recipient \in [Recipients -> RecipientRow]
      /\ doubt \in [Recipients -> {"none", "interrupted", "gateway"}]
  BY DEF TypeOK
<1>w. worker \in [Workers -> WorkerState]
  BY DEF TypeOK
<1>i. \A w \in Workers : worker[w].pc \in {"mark", "send", "record"}
                           => worker[w].cur \in Recipients
  BY <1>w DEF WorkerState
<1>a. \A r \in Recipients : RowOK(r)
  BY DEF SendingIsOwned
<1>g. ASSUME \A r \in Recipients : RowOK(r)' PROVE SendingIsOwned'
  BY <1>g DEF SendingIsOwned
\* A worker's step takes rows from nobody else.
<1>b. ASSUME NEW w \in Workers, NEW me, Become(w, me), NEW r \in Recipients,
             Owned(r), Owns(worker[w], r) => Owns(me, r)
      PROVE  Owned(r)'
  <2>1. PICK v \in Workers : Owns(worker[v], r)
    BY <1>b
  <2>2. worker'[v] = IF v = w THEN me ELSE worker[v]
    BY <1>b, <1>w DEF Become
  <2> QED BY <1>b, <2>1, <2>2
\* Steps of a worker that owns nothing, or of nobody, on rows that do not enter
\* SENDING and doubts that do not change.
<1>q. ASSUME \A r \in Recipients : recipient'[r].status = "sending"
                                     => recipient[r].status = "sending",
             UNCHANGED doubt,
             \/ UNCHANGED worker
             \/ \E w \in Workers : /\ \E me : Become(w, me)
                                   /\ worker[w].pc \notin {"send", "record"}
      PROVE  SendingIsOwned'
  <2>1. ASSUME NEW r \in Recipients, Owned(r) PROVE Owned(r)'
    <3>1. CASE UNCHANGED worker
      BY <2>1, <3>1
    <3>2. ASSUME NEW w \in Workers, NEW me, Become(w, me),
                 worker[w].pc \notin {"send", "record"}
          PROVE  Owned(r)'
      BY <1>b, <2>1, <3>2
    <3> QED BY <1>q, <3>1, <3>2
  <2>2. \A r \in Recipients : RowOK(r)'
    BY <1>q, <1>a, <2>1
  <2> QED BY <1>g, <2>2

<1>1. ASSUME NEW w \in Workers, NEW t \in Tokens, Begin(w, t)
      PROVE  SendingIsOwned'
  BY <1>1, <1>q DEF Begin
<1>2. ASSUME NEW w \in Workers, Claim(w) PROVE SendingIsOwned'
  <2>1. \A r \in Recipients : recipient'[r].status = "sending"
                                => recipient[r].status = "sending"
    BY <1>2, <1>r DEF Claim, Swept, RecipientRow
  <2>2. \E me : Become(w, me)
    BY <1>2 DEF Claim, Stop
  <2> QED BY <1>2, <1>q, <2>1, <2>2 DEF Claim
<1>3. ASSUME NEW w \in Workers, Check(w) PROVE SendingIsOwned'
  <2>1. \E me : Become(w, me)
    BY <1>3 DEF Check, Stop
  <2> QED BY <1>3, <1>q, <2>1 DEF Check
<1>4. ASSUME NEW w \in Workers, Mark(w) PROVE SendingIsOwned'
  <2> DEFINE me == worker[w]
             send == [me EXCEPT !.pc = "send", !.locked = FALSE]
  <2>1. me.pc = "mark" /\ me.cur \in Recipients /\ UNCHANGED doubt
    BY <1>4, <1>i DEF Mark
  <2>2. CASE /\ \/ recipient' = [recipient EXCEPT ![me.cur].status = "skipped"]
                \/ recipient' = [recipient EXCEPT ![me.cur].status = "sent",
                                                  ![me.cur].since = "none"]
             /\ Become(w, Advance(me))
    <3>1. \A r \in Recipients : recipient'[r].status = "sending"
                                  => recipient[r].status = "sending"
      BY <1>r, <2>2 DEF RecipientRow
    <3> QED BY <1>q, <2>1, <2>2, <3>1
  <2>3. CASE /\ recipient' = [recipient EXCEPT ![me.cur].status = "sending",
                                               ![me.cur].since = "fresh"]
             /\ Become(w, send)
    <3>1. worker'[w] = send /\ Owns(send, me.cur)
      BY <1>w, <2>1, <2>3 DEF Become, WorkerState, WorkerRecord
    <3>2. \A r \in Recipients : Owned(r) => Owned(r)'
      BY <1>b, <2>1, <2>3
    <3>3. \A r \in Recipients \ {me.cur} : recipient'[r] = recipient[r]
      BY <1>r, <2>3
    <3>4. ASSUME NEW r \in Recipients, r = me.cur PROVE Owned(r)'
      BY <3>1, <3>4
    <3>5. \A r \in Recipients : RowOK(r)'
      BY <1>a, <2>1, <3>2, <3>3, <3>4
    <3> QED BY <1>g, <3>5
  <2> QED BY <1>4, <2>2, <2>3 DEF Mark
<1>5. ASSUME NEW w \in Workers, Call(w) PROVE SendingIsOwned'
  <2> DEFINE me == worker[w]
  <2>1. me.pc = "send" /\ me.cur \in Recipients /\ UNCHANGED recipient
    BY <1>5, <1>i DEF Call
  <2>2. PICK o \in Outcomes :
          /\ Become(w, Answered(w, o))
          /\ doubt' = IF o = "gateway" THEN [doubt EXCEPT ![me.cur] = "gateway"]
                                       ELSE doubt
    BY <1>5 DEF Call
  <2>3. worker'[w] = Answered(w, o) /\ Owns(Answered(w, o), me.cur)
    BY <1>w, <2>1, <2>2 DEF Become, Answered, WorkerState, WorkerRecord
  <2>4. ASSUME NEW r \in Recipients, r = me.cur PROVE Owned(r)'
    BY <2>3, <2>4
  <2>5. \A r \in Recipients : Owned(r) => Owned(r)'
    BY <1>b, <2>2, <2>3
  <2>6. \A r \in Recipients \ {me.cur} : doubt'[r] = doubt[r]
    BY <1>r, <2>2
  <2>7. \A r \in Recipients : RowOK(r)'
    BY <1>a, <2>1, <2>4, <2>5, <2>6
  <2> QED BY <1>g, <2>7
<1>6. ASSUME NEW w \in Workers, Record(w) PROVE SendingIsOwned'
  <2> DEFINE me == worker[w]
  <2>1. me.cur \in Recipients /\ me.outcome \in Outcomes /\ UNCHANGED doubt
    BY <1>6, <1>i, <1>w DEF Record, WorkerState, WorkerRecord
  <2>2. Meaning(me.outcome) # "sending"
    BY <2>1 DEF Meaning, Outcomes
  <2>3. /\ recipient'[me.cur].status # "sending"
        /\ \A r \in Recipients \ {me.cur} : recipient'[r] = recipient[r]
    BY <1>6, <1>r, <2>1, <2>2 DEF Record
  <2>4. Become(w, Recorded(w))
    BY <1>6 DEF Record
  <2>5. \A r \in Recipients \ {me.cur} : Owned(r) => Owned(r)'
    BY <1>b, <2>4
  <2>6. \A r \in Recipients : RowOK(r)'
    BY <1>a, <2>1, <2>3, <2>5
  <2> QED BY <1>g, <2>6
<1>7. ASSUME NEW w \in Workers, Finish(w) PROVE SendingIsOwned'
  BY <1>7, <1>q DEF Finish, Stop
<1>8. ASSUME NEW w \in Workers, CallLost(w) \/ WorkerCrash(w)
      PROVE  SendingIsOwned'
  <2> DEFINE me == worker[w]
  <2>1. Become(w, IdleWorker) /\ UNCHANGED recipient
    BY <1>8 DEF CallLost, WorkerCrash, Stop
  <2>2. CASE me.pc \in {"send", "record"}
    <3>1. me.cur \in Recipients
      BY <1>i, <2>2
    <3>2. doubt' = [doubt EXCEPT ![me.cur] = "interrupted"]
      BY <1>8, <2>2 DEF CallLost, WorkerCrash
    <3>3. \A r \in Recipients \ {me.cur} : Owned(r) => Owned(r)'
      BY <1>b, <2>1
    <3>4. \A r \in Recipients : RowOK(r)'
      BY <1>a, <1>r, <2>1, <3>1, <3>2, <3>3
    <3> QED BY <1>g, <3>4
  <2>3. CASE me.pc \notin {"send", "record"}
    <3>1. UNCHANGED doubt
      BY <1>8, <2>3 DEF CallLost, WorkerCrash
    <3> QED BY <1>q, <2>1, <2>3, <3>1
  <2> QED BY <2>2, <2>3
<1>9. ASSUME NEW q \in Requests, RetryReset(q) PROVE SendingIsOwned'
  <2>1. ASSUME NEW r \in Recipients, recipient'[r].status = "sending"
        PROVE  recipient[r].status = "sending" /\ doubt'[r] = doubt[r]
    <3>1. CASE Resettable = {}
      BY <1>9, <2>1, <3>1 DEF RetryReset
    <3>2. CASE Resettable # {}
      <4>1. /\ recipient'[r] = IF r \in Resettable
                               THEN [status |-> "pending", ext |-> FALSE,
                                     since |-> "none"]
                               ELSE recipient[r]
            /\ doubt'[r] = IF r \in Resettable THEN "none" ELSE doubt[r]
        BY <1>9, <3>2 DEF RetryReset
      <4> QED BY <2>1, <4>1
    <3> QED BY <3>1, <3>2
  <2>2. UNCHANGED worker
    BY <1>9 DEF RetryReset
  <2>3. \A r \in Recipients : RowOK(r)'
    BY <1>a, <2>1, <2>2
  <2> QED BY <1>g, <2>3
<1>10. ASSUME NEW r \in Recipients, StatusWebhook(r) PROVE SendingIsOwned'
  <2>1. \A u \in Recipients : recipient'[u].status = "sending"
                                => recipient[u].status = "sending"
    BY <1>10, <1>r DEF StatusWebhook, RecipientRow, Handed
  <2> QED BY <1>10, <1>q, <2>1 DEF StatusWebhook
<1>11. ASSUME NEW r \in Recipients, SendAges(r) PROVE SendingIsOwned'
  <2>1. \A u \in Recipients : recipient'[u].status = "sending"
                                => recipient[u].status = "sending"
    BY <1>11, <1>r DEF SendAges, RecipientRow
  <2> QED BY <1>11, <1>q, <2>1 DEF SendAges
<1>u. ASSUME UNCHANGED <<recipient, worker, doubt>> PROVE SendingIsOwned'
  BY <1>u DEF SendingIsOwned
<1>12. ASSUME NEW q \in Requests,
              \/ Write(q) \/ Dispatch(q) \/ RecoverWrite(q)
              \/ RecoverDispatch(q) \/ MarkRunning(q) \/ PrepareStart(q)
              \/ RecoverRead(q) \/ RequestCrash(q)
       PROVE  SendingIsOwned'
  BY <1>u, <1>12
  DEF Write, Dispatch, RecoverWrite, RecoverDispatch, MarkRunning,
      PrepareStart, RecoverRead, RequestCrash
<1>13. ASSUME NEW q \in Requests,
              NEW op \in {"approve", "pause", "cancel", "retry"}, Read(q, op)
       PROVE  SendingIsOwned'
  BY <1>u, <1>13 DEF Read
<1>14. ASSUME NEW t \in Tokens, RunJob(t) PROVE SendingIsOwned'
  BY <1>u, <1>14 DEF RunJob
<1>15. ASSUME NEW r \in Recipients, ContactChanges(r) PROVE SendingIsOwned'
  BY <1>u, <1>15 DEF ContactChanges
<1>16. CASE TimePasses \/ HeartbeatAges \/ UNCHANGED vars
  BY <1>u, <1>16 DEF TimePasses, HeartbeatAges, vars
<1> QED
  BY <1>1, <1>2, <1>3, <1>4, <1>5, <1>6, <1>7, <1>8, <1>9, <1>10, <1>11, <1>12,
     <1>13, <1>14, <1>15, <1>16 DEF Next, WorkerStep, RequestStep

\* A row is left in SENDING only by a send that a crash or a lost answer cut
\* short: otherwise the worker that marked it is still at it
\* (campaign_tasks.py:138-221).
THEOREM SendingHasOwner == Spec => []SendingIsOwned
<1>1. Init => TypeOK /\ SendingIsOwned
  <2>1. Init => SendingIsOwned
    BY DEF Init, SendingIsOwned
  <2> QED BY <2>1, InitType
<1>2. TypeOK /\ SendingIsOwned /\ [Next]_vars => (TypeOK /\ SendingIsOwned)'
  BY TypeStep, OwnedStep
<1> QED BY <1>1, <1>2, PTL DEF Spec

-----------------------------------------------------------------------------
(* A superseded run stops. *)

\* What a step that changes one worker and no token owes.
LEMMA LateWorker ==
  ASSUME TypeOK, Lateness, NEW w \in Workers, NEW me, Become(w, me),
         campaign'.token = campaign.token,
         \/ me.late = 0
         \/ /\ me.late = 1 /\ campaign.token # me.token
            /\ me.pc \in {"record", "loop", "check"}
  PROVE  Lateness'
<1>1. worker'[w] = me /\ \A v \in Workers \ {w} : worker'[v] = worker[v]
  BY DEF Become, TypeOK
<1> SUFFICES ASSUME NEW v \in Workers
             PROVE  \/ worker'[v].late = 0
                    \/ /\ worker'[v].late = 1 /\ campaign'.token # worker'[v].token
                       /\ worker'[v].pc \in {"record", "loop", "check"}
  BY DEF Lateness
<1>2. CASE v = w
  BY <1>1, <1>2
<1>3. CASE v # w
  BY <1>1, <1>3 DEF Lateness
<1> QED BY <1>2, <1>3

\* A new token is nobody's.
LEMMA LateToken ==
  ASSUME Lateness, UNCHANGED worker,
         campaign'.token = campaign.token \/ \A w \in Workers : worker[w].token # campaign'.token
  PROVE  Lateness'
  BY DEF Lateness

LEMMA LateStop ==
  ASSUME TypeOK, Lateness, NEW w \in Workers, Stop(w), campaign'.token = campaign.token
  PROVE  Lateness'
<1>1. IdleWorker.late = 0
  BY DEF IdleWorker
<1> QED BY <1>1, LateWorker DEF Stop

LEMMA LateWorkerStep ==
  ASSUME TypeOK, Lateness, NEW w \in Workers, WorkerStep(w) \/ CallLost(w) \/ WorkerCrash(w)
  PROVE  Lateness'
<1>c. campaign \in CampaignRow /\ worker[w] \in WorkerState /\ worker[w] \in WorkerRecord
  BY DEF TypeOK, WorkerState
<1>l. \/ worker[w].late = 0
      \/ /\ worker[w].late = 1 /\ campaign.token # worker[w].token
         /\ worker[w].pc \in {"record", "loop", "check"}
  BY DEF Lateness
<1>1. ASSUME NEW t \in Tokens, Begin(w, t) PROVE Lateness'
  <2>1. CASE MayRun(t)
    <3> DEFINE me == [IdleWorker EXCEPT !.pc = "loop", !.token = t]
    <3>1. me.late = 0
      BY DEF IdleWorker
    <3>2. Become(w, me) /\ campaign'.token = campaign.token
      BY <1>1, <1>c, <2>1 DEF Begin, CampaignRow
    <3> QED BY <3>1, <3>2, LateWorker
  <2>2. CASE ~MayRun(t)
    BY <1>1, <2>2, LateToken DEF Begin
  <2> QED BY <2>1, <2>2
<1>2. CASE Claim(w)
  <2>1. CASE Stopped(w)
    BY <1>2, <2>1, LateStop DEF Claim
  <2>2. CASE ~Stopped(w)
    <3>1. worker[w].late = 0
      BY <1>l, <2>2 DEF Stopped
    <3>0. PICK busy \in SUBSET Contended :
            \E B \in Batches(w, busy) : Become(w, Loaded(w, B))
      BY <1>2, <2>2 DEF Claim
    <3>2. PICK B \in Batches(w, busy) : Become(w, Loaded(w, B)) /\ UNCHANGED campaign
      BY <1>2, <3>0 DEF Claim
    <3>3. Loaded(w, B).late = 0
      BY <1>c, <3>1 DEF Loaded, WorkerRecord
    <3> QED BY <3>2, <3>3, LateWorker
  <2> QED BY <2>1, <2>2
<1>3. CASE Check(w)
  <2>1. PICK r \in worker[w].todo : IF Stopped(w) THEN Stop(w) ELSE Become(w, Chosen(w, r))
    BY <1>3 DEF Check
  <2>2. UNCHANGED campaign
    BY <1>3 DEF Check
  <2>3. CASE Stopped(w)
    BY <2>1, <2>2, <2>3, LateStop
  <2>4. CASE ~Stopped(w)
    <3>1. worker[w].late = 0
      BY <1>l, <2>4 DEF Stopped
    <3>2. Chosen(w, r).late = 0
      BY <1>c, <3>1 DEF Chosen, WorkerRecord
    <3> QED BY <2>1, <2>2, <2>4, <3>2, LateWorker
  <2> QED BY <2>3, <2>4
<1>4. CASE Mark(w)
  <2>1. worker[w].late = 0 /\ campaign'.token = campaign.token
    BY <1>l, <1>c, <1>4 DEF Mark, CampaignRow
  <2>2. /\ Advance(worker[w]).late = 0
        /\ [worker[w] EXCEPT !.pc = "send", !.locked = FALSE].late = 0
    BY <1>c, <2>1 DEF Advance, WorkerRecord
  <2>3. \/ Become(w, Advance(worker[w]))
        \/ Become(w, [worker[w] EXCEPT !.pc = "send", !.locked = FALSE])
    BY <1>4 DEF Mark
  <2> QED BY <2>1, <2>2, <2>3, LateWorker
<1>5. CASE Call(w)
  <2>1. worker[w].late = 0
    BY <1>l, <1>5 DEF Call
  <2>2. PICK o : Become(w, Answered(w, o)) /\ UNCHANGED campaign
    BY <1>5 DEF Call
  <2>3. /\ Answered(w, o).pc = "record" /\ Answered(w, o).token = worker[w].token
        /\ Answered(w, o).late = IF campaign.token = worker[w].token THEN 0 ELSE 1
    BY <1>c, <2>1 DEF Answered, WorkerRecord, TwoAtMost
  <2> QED BY <2>2, <2>3, LateWorker
<1>6. CASE Record(w)
  <2>1. Become(w, Recorded(w)) /\ UNCHANGED campaign
    BY <1>6 DEF Record
  <2>2. /\ Recorded(w).pc \in {"loop", "check"} /\ Recorded(w).token = worker[w].token
        /\ Recorded(w).late = worker[w].late
    BY <1>c DEF Recorded, Advance, WorkerRecord
  <2> QED BY <1>l, <2>1, <2>2, LateWorker
<1>7. CASE Finish(w)
  <2>1. Stop(w) /\ campaign'.token = campaign.token
    BY <1>7, <1>c DEF Finish, CampaignRow
  <2> QED BY <2>1, LateStop
<1>8. CASE CallLost(w) \/ WorkerCrash(w)
  BY <1>8, LateStop DEF CallLost, WorkerCrash
<1> QED BY <1>1, <1>2, <1>3, <1>4, <1>5, <1>6, <1>7, <1>8 DEF WorkerStep

LEMMA LateStep == TypeOK /\ Lateness /\ [Next]_vars => Lateness'
<1> SUFFICES ASSUME TypeOK, Lateness, [Next]_vars PROVE Lateness'
  OBVIOUS
<1>c. campaign \in CampaignRow
  BY DEF TypeOK
\* A request or a user leaves the token alone or puts an unused one.
<1>1. ASSUME NEW q \in Requests, RetryReset(q) \/ PrepareStart(q) \/ RecoverWrite(q)
      PROVE  Lateness'
  <2>1. /\ UNCHANGED worker
        /\ campaign'.token = campaign.token \/ \E t \in Tokens : Unused(t) /\ campaign'.token = t
    BY <1>1, <1>c DEF RetryReset, PrepareStart, RecoverWrite, CampaignRow
  <2> QED BY <2>1, LateToken DEF Unused
<1>2. ASSUME NEW q \in Requests, Write(q) \/ MarkRunning(q) PROVE Lateness'
  <2>1. campaign'.token = campaign.token /\ UNCHANGED worker
    BY <1>2, <1>c DEF Write, MarkRunning, CampaignRow
  <2> QED BY <2>1, LateToken
<1>3. ASSUME NEW q \in Requests, Dispatch(q) \/ RecoverDispatch(q) \/ RecoverRead(q) \/ RequestCrash(q)
      PROVE  Lateness'
  BY <1>3, LateToken DEF Dispatch, RecoverDispatch, RecoverRead, RequestCrash
<1>4. ASSUME NEW q \in Requests, NEW op \in {"approve", "pause", "cancel", "retry"}, Read(q, op)
      PROVE  Lateness'
  BY <1>4, LateToken DEF Read
<1>5. ASSUME NEW t \in Tokens, RunJob(t) PROVE Lateness'
  BY <1>5, LateToken DEF RunJob
<1>6. ASSUME NEW r \in Recipients, StatusWebhook(r) \/ ContactChanges(r) \/ SendAges(r)
      PROVE  Lateness'
  BY <1>6, LateToken DEF StatusWebhook, ContactChanges, SendAges
<1>7. CASE HeartbeatAges
  <2>1. campaign'.token = campaign.token /\ UNCHANGED worker
    BY <1>7, <1>c DEF HeartbeatAges, CampaignRow
  <2> QED BY <2>1, LateToken
<1>8. CASE TimePasses \/ UNCHANGED vars
  BY <1>8, LateToken DEF TimePasses, vars
<1> QED BY <1>1, <1>2, <1>3, <1>4, <1>5, <1>6, <1>7, <1>8, LateWorkerStep DEF Next, RequestStep

\* The comparison of tokens at each batch and row (campaign_tasks.py:67-72,
\* 108-114): a run whose token was replaced makes one more call at most, for any
\* number of workers, requests and tokens, since a token never comes back.
THEOREM SupersededRunStops == Spec => []SupersededStops
<1>1. Init => TypeOK /\ Lateness
  <2>1. Init => Lateness
    BY DEF Init, Lateness, IdleWorker
  <2> QED BY <2>1, InitType
<1>2. TypeOK /\ Lateness /\ [Next]_vars => (TypeOK /\ Lateness)'
  BY TypeStep, LateStep
<1>3. Lateness => SupersededStops
  BY DEF Lateness, SupersededStops
<1> QED BY <1>1, <1>2, <1>3, PTL DEF Spec

-----------------------------------------------------------------------------
(* One run per token, if requests come one at a time. *)

\* Giving tokens up harms nobody.
LEMMA DeliveryRests ==
  ASSUME Delivery, UNCHANGED <<queue, jobs, request>>, campaign'.token = campaign.token,
         \A w \in Workers : worker'[w].token \in {worker[w].token, NoToken}
  PROVE  Delivery'
<1>1. \A t \in Tokens : \A w \in Workers : worker'[w].token = t => worker[w].token = t
  BY NoTokenAssumption
<1>2. \A t \in Tokens : (Lone(t) => Lone(t)') /\ (Fresh(t) => Fresh(t)')
  BY <1>1 DEF Lone, Fresh
<1>3. \A q \in Requests : Promise(q)' = Promise(q)
  BY DEF Promise
<1> QED BY <1>2, <1>3 DEF Delivery

\* What a request's step owes that hands nothing on.
LEMMA DeliveryKept ==
  ASSUME Delivery, UNCHANGED <<queue, jobs, worker>>,
         \A q \in Requests : request'[q].pc = "dispatch" =>
            \/ request[q].pc = "dispatch" /\ Promise(q)' = Promise(q)
            \/ Promise(q)' \in Tokens /\ Fresh(Promise(q)')
  PROVE  Delivery'
<1>1. \A t \in Tokens : Lone(t)'
  BY DEF Delivery, Lone
<1>2. ASSUME NEW q \in Requests, request'[q].pc = "dispatch"
      PROVE  Promise(q)' \in Tokens /\ Fresh(Promise(q))'
  <2>1. Promise(q)' \in Tokens /\ Fresh(Promise(q)')
    BY <1>2 DEF Delivery
  <2> QED BY <2>1 DEF Fresh
<1> QED BY <1>1, <1>2 DEF Delivery

LEMMA DeliveryWorker ==
  ASSUME TypeOK, Delivery, NEW w \in Workers, WorkerStep(w) \/ CallLost(w) \/ WorkerCrash(w)
  PROVE  Delivery'
<1>c. /\ campaign \in CampaignRow /\ worker[w] \in WorkerRecord
      /\ worker \in [Workers -> WorkerState] /\ queue \in [Tokens -> Nat] /\ jobs \in [Tokens -> Nat]
  BY DEF TypeOK, WorkerState
\* Most steps keep the worker's token or give it up.
<1>r. ASSUME NEW me, Become(w, me), me.token \in {worker[w].token, NoToken},
             campaign'.token = campaign.token, UNCHANGED <<queue, jobs, request>>
      PROVE  Delivery'
  <2>1. worker'[w] = me /\ \A v \in Workers \ {w} : worker'[v] = worker[v]
    BY <1>c, <1>r DEF Become
  <2>2. \A v \in Workers : worker'[v].token \in {worker[v].token, NoToken}
    BY <1>r, <2>1
  <2> QED BY <1>r, <2>2, DeliveryRests
<1>s. ASSUME Stop(w), campaign'.token = campaign.token, UNCHANGED <<queue, jobs, request>>
      PROVE  Delivery'
  <2>1. IdleWorker.token = NoToken
    BY DEF IdleWorker
  <2> QED BY <1>r, <1>s, <2>1 DEF Stop
<1>1. ASSUME NEW t \in Tokens, Begin(w, t) PROVE Delivery'
  <2>1. /\ queue[t] > 0 /\ queue' = [queue EXCEPT ![t] = @ - 1]
        /\ UNCHANGED <<jobs, request>> /\ campaign'.token = campaign.token
    BY <1>1, <1>c DEF Begin, Less, CampaignRow
  <2>2. Lone(t) /\ queue[t] = 1 /\ jobs[t] = 0 /\ \A v \in Workers : worker[v].token # t
    <3>1. Lone(t) /\ queue[t] \in Nat /\ jobs[t] \in Nat
      BY <1>c DEF Delivery
    <3> QED BY <2>1, <3>1 DEF Lone
  <2>3. queue'[t] = 0 /\ \A u \in Tokens \ {t} : queue'[u] = queue[u]
    BY <1>c, <2>1, <2>2
  <2>4. \A v \in Workers : \/ worker'[v].token = worker[v].token
                           \/ v = w /\ worker'[v].token = t
    <3>1. CASE MayRun(t)
      <4>1. PICK me : me.token = t /\ Become(w, me)
        <5>1. [IdleWorker EXCEPT !.pc = "loop", !.token = t].token = t
          BY DEF IdleWorker
        <5> QED BY <1>1, <3>1, <5>1 DEF Begin
      <4>2. worker'[w] = me /\ \A v \in Workers \ {w} : worker'[v] = worker[v]
        BY <1>c, <4>1 DEF Become
      <4> QED BY <4>1, <4>2
    <3>2. CASE ~MayRun(t)
      <4>1. worker' = worker
        BY <1>1, <3>2, Zenon DEF Begin
      <4> QED BY <4>1
    <3> QED BY <3>1, <3>2
  <2>5. Lone(t)'
    BY <2>1, <2>2, <2>3, <2>4 DEF Lone
  <2>6. \A u \in Tokens \ {t} : (Lone(u) => Lone(u)') /\ (Fresh(u) => Fresh(u)')
    BY <2>1, <2>3, <2>4 DEF Lone, Fresh
  <2>7. ~Fresh(t)
    BY <2>2 DEF Fresh
  <2>8. \A q \in Requests : Promise(q)' = Promise(q)
    BY <2>1 DEF Promise
  <2> QED BY <2>1, <2>5, <2>6, <2>7, <2>8 DEF Delivery
<1>2. CASE Claim(w)
  <2>1. CASE Stopped(w)
    BY <1>2, <1>s, <2>1 DEF Claim
  <2>2. CASE ~Stopped(w)
    <3>0. PICK busy \in SUBSET Contended :
            \E B \in Batches(w, busy) : Become(w, Loaded(w, B))
      BY <1>2, <2>2 DEF Claim
    <3>1. PICK B \in Batches(w, busy) : Become(w, Loaded(w, B))
      BY <3>0
    <3>2. Loaded(w, B).token = worker[w].token
      BY <1>c DEF Loaded, WorkerRecord
    <3> QED BY <1>2, <1>r, <3>1, <3>2 DEF Claim
  <2> QED BY <2>1, <2>2
<1>3. CASE Check(w)
  <2>1. PICK r \in worker[w].todo : IF Stopped(w) THEN Stop(w) ELSE Become(w, Chosen(w, r))
    BY <1>3 DEF Check
  <2>2. Chosen(w, r).token = worker[w].token
    BY <1>c DEF Chosen, WorkerRecord
  <2> QED BY <1>3, <1>r, <1>s, <2>1, <2>2 DEF Check
<1>4. CASE Mark(w)
  <2>1. campaign'.token = campaign.token /\ UNCHANGED <<queue, jobs, request>>
    BY <1>c, <1>4 DEF Mark, CampaignRow
  <2>2. /\ Advance(worker[w]).token = worker[w].token
        /\ [worker[w] EXCEPT !.pc = "send", !.locked = FALSE].token = worker[w].token
    BY <1>c DEF Advance, WorkerRecord
  <2>3. \/ Become(w, Advance(worker[w]))
        \/ Become(w, [worker[w] EXCEPT !.pc = "send", !.locked = FALSE])
    BY <1>4 DEF Mark
  <2> QED BY <1>r, <2>1, <2>2, <2>3
<1>5. CASE Call(w)
  <2>1. PICK o : Become(w, Answered(w, o))
    BY <1>5 DEF Call
  <2>2. Answered(w, o).token = worker[w].token
    BY <1>c DEF Answered, WorkerRecord
  <2> QED BY <1>5, <1>r, <2>1, <2>2 DEF Call
<1>6. CASE Record(w)
  <2>1. Recorded(w).token = worker[w].token
    BY <1>c DEF Recorded, Advance, WorkerRecord
  <2> QED BY <1>6, <1>r, <2>1 DEF Record
<1>7. CASE Finish(w)
  <2>1. Stop(w) /\ campaign'.token = campaign.token /\ UNCHANGED <<queue, jobs, request>>
    BY <1>7, <1>c DEF Finish, CampaignRow
  <2> QED BY <1>s, <2>1
<1>8. CASE CallLost(w) \/ WorkerCrash(w)
  BY <1>8, <1>s DEF CallLost, WorkerCrash
<1> QED BY <1>1, <1>2, <1>3, <1>4, <1>5, <1>6, <1>7, <1>8 DEF WorkerStep

\* A message put on the queue, or a job stored, for a fresh token.
LEMMA DeliverySent ==
  ASSUME TypeOK, Delivery, NEW q \in Requests, \A p \in Requests : p = q,
         request[q].pc = "dispatch", request'[q].pc # "dispatch",
         UNCHANGED <<campaign, worker>>,
         \/ queue' = Plus(queue, Promise(q)) /\ jobs' = jobs
         \/ jobs' = Plus(jobs, Promise(q)) /\ queue' = queue
  PROVE  Delivery'
<1>0. PICK t \in Tokens : t = Promise(q)
  BY DEF Delivery
<1>1. Fresh(t) /\ queue \in [Tokens -> Nat] /\ jobs \in [Tokens -> Nat]
  BY <1>0 DEF Delivery, TypeOK
<1>2. \/ queue' = [queue EXCEPT ![t] = @ + 1] /\ jobs' = jobs
      \/ jobs' = [jobs EXCEPT ![t] = @ + 1] /\ queue' = queue
  BY <1>0 DEF Plus
<1>3. queue'[t] + jobs'[t] = 1
      /\ \A u \in Tokens \ {t} : queue'[u] = queue[u] /\ jobs'[u] = jobs[u]
  BY <1>1, <1>2 DEF Fresh
<1>4. Lone(t)'
  BY <1>1, <1>3 DEF Fresh, Lone
<1>5. \A u \in Tokens \ {t} : Lone(u)'
  BY <1>3 DEF Delivery, Lone
<1> QED BY <1>4, <1>5 DEF Delivery

LEMMA DeliveryStep ==
  ASSUME \A p, q \in Requests : p = q, TypeOK, Delivery, [Next]_vars
  PROVE  Delivery'
<1>c. /\ campaign \in CampaignRow /\ request \in [Requests -> RequestState]
      /\ queue \in [Tokens -> Nat] /\ jobs \in [Tokens -> Nat]
  BY DEF TypeOK
<1>i. IdleRequest.pc = "idle"
  BY DEF IdleRequest
<1>1. ASSUME NEW q \in Requests, NEW op, NEW t \in Tokens, Unused(t),
             Promise(q)' = t, UNCHANGED <<queue, jobs, worker>>
      PROVE  Delivery'
  <2>1. Fresh(t)
    BY <1>1 DEF Unused, Fresh
  <2> QED BY <1>1, <2>1, DeliveryKept
<1>2. ASSUME NEW q \in Requests, PrepareStart(q) PROVE Delivery'
  <2>1. PICK t \in Tokens : Unused(t) /\ campaign'.token = t
    BY <1>2, <1>c DEF PrepareStart, CampaignRow
  <2>2. request'[q].op = "start"
    BY <1>2, <1>c DEF PrepareStart, Handle, IdleRequest
  <2> QED BY <1>1, <1>2, <2>1, <2>2 DEF PrepareStart, Promise
<1>3. ASSUME NEW q \in Requests, RetryReset(q) PROVE Delivery'
  <2>0. UNCHANGED <<queue, jobs, worker>>
    BY <1>3 DEF RetryReset
  <2>1. CASE Resettable = {}
    <3>1. request'[q].pc = "idle"
      BY <1>3, <1>c, <1>i, <2>1 DEF RetryReset, Done, Handle
    <3> QED BY <2>0, <3>1, DeliveryKept
  <2>2. CASE Resettable # {}
    <3>1. PICK t \in Tokens : Unused(t) /\ campaign'.token = t
      BY <1>3, <1>c, <2>2 DEF RetryReset, CampaignRow
    <3>2. request'[q].op = "retry"
      <4>1. request[q] \in RequestRecord
        BY <1>c DEF RequestState
      <4>2. request[q].op = "retry" /\ Handle(q, [request[q] EXCEPT !.pc = "dispatch"])
        BY <1>3, <2>2 DEF RetryReset
      <4>3. request'[q] = [request[q] EXCEPT !.pc = "dispatch"]
        BY <1>c, <4>2 DEF Handle
      <4> QED BY <4>1, <4>2, <4>3 DEF RequestRecord
    <3> QED BY <1>1, <2>0, <3>1, <3>2 DEF Promise
  <2> QED BY <2>1, <2>2
<1>4. ASSUME NEW q \in Requests, RecoverWrite(q) PROVE Delivery'
  <2>1. PICK t \in Tokens : /\ Unused(t)
                            /\ Handle(q, [request[q] EXCEPT !.pc = "dispatch", !.token = t])
    BY <1>4 DEF RecoverWrite
  <2>2. request'[q].op = "recover" /\ request'[q].token = t
    <3>1. request[q] \in RequestRecord
      BY <1>c DEF RequestState
    <3>2. request[q].op = "recover"
      BY <1>4 DEF RecoverWrite
    <3>3. request'[q] = [request[q] EXCEPT !.pc = "dispatch", !.token = t]
      BY <1>c, <2>1 DEF Handle
    <3> QED BY <3>1, <3>2, <3>3 DEF RequestRecord
  <2> QED BY <1>1, <1>4, <2>1, <2>2 DEF RecoverWrite, Promise
<1>5. ASSUME NEW q \in Requests, Dispatch(q) PROVE Delivery'
  <2>1. Promise(q) = campaign.token /\ request[q].pc = "dispatch"
    BY <1>5 DEF Dispatch, Promise
  <2>2. Dispatched(q).pc # "dispatch"
    BY <1>c, <1>i DEF Dispatched, RequestState, RequestRecord
  <2>3. request'[q].pc # "dispatch"
    BY <1>5, <1>c, <2>2 DEF Dispatch, Handle
  <2>4. \/ queue' = Plus(queue, campaign.token) /\ jobs' = jobs
        \/ jobs' = Plus(jobs, campaign.token) /\ queue' = queue
    BY <1>5 DEF Dispatch, SentNow
  <2> QED BY <1>5, <2>1, <2>3, <2>4, DeliverySent DEF Dispatch
<1>6. ASSUME NEW q \in Requests, RecoverDispatch(q) PROVE Delivery'
  <2>1. Promise(q) = request[q].token /\ request[q].pc = "dispatch"
    BY <1>6 DEF RecoverDispatch, Promise
  <2>2. request'[q].pc # "dispatch"
    BY <1>6, <1>c DEF RecoverDispatch, Handle, RequestState, RequestRecord
  <2> QED BY <1>6, <2>1, <2>2, DeliverySent DEF RecoverDispatch
<1>7. ASSUME NEW q \in Requests,
             \/ Write(q) \/ MarkRunning(q) \/ RecoverRead(q) \/ RequestCrash(q)
             \/ \E op \in {"approve", "pause", "cancel", "retry"} : Read(q, op)
      PROVE  Delivery'
  <2>1. request'[q].pc # "dispatch" /\ UNCHANGED <<queue, jobs, worker>>
    BY <1>7, <1>c, <1>i DEF Write, MarkRunning, RecoverRead, RequestCrash, Read, Done, Handle,
                            IdleRequest
  <2> QED BY <2>1, DeliveryKept
<1>8. ASSUME NEW t \in Tokens, RunJob(t) PROVE Delivery'
  <2>1. /\ jobs[t] > 0 /\ jobs' = [jobs EXCEPT ![t] = @ - 1]
        /\ queue' = [queue EXCEPT ![t] = @ + 1] /\ UNCHANGED <<campaign, request, worker>>
    BY <1>8 DEF RunJob, Less, Plus
  <2>2. queue'[t] + jobs'[t] = queue[t] + jobs[t]
        /\ \A u \in Tokens \ {t} : queue'[u] = queue[u] /\ jobs'[u] = jobs[u]
    BY <1>c, <2>1
  <2>3. \A u \in Tokens : Lone(u) => Lone(u)'
    BY <2>1, <2>2 DEF Lone
  <2>4. ~Fresh(t) /\ \A u \in Tokens \ {t} : Fresh(u) => Fresh(u)'
    BY <1>c, <2>1, <2>2 DEF Fresh
  <2>5. \A q \in Requests : Promise(q)' = Promise(q)
    BY <2>1 DEF Promise
  <2> QED BY <2>1, <2>3, <2>4, <2>5 DEF Delivery
<1>9. ASSUME \/ \E r \in Recipients : StatusWebhook(r) \/ ContactChanges(r) \/ SendAges(r)
             \/ TimePasses \/ HeartbeatAges \/ UNCHANGED vars
      PROVE  Delivery'
  <2>1. campaign'.token = campaign.token /\ UNCHANGED <<queue, jobs, worker, request>>
    BY <1>9, <1>c DEF StatusWebhook, ContactChanges, SendAges, TimePasses, HeartbeatAges, vars,
                      CampaignRow
  <2> QED BY <2>1, DeliveryRests
<1> QED BY <1>2, <1>3, <1>4, <1>5, <1>6, <1>7, <1>8, <1>9, DeliveryWorker DEF Next, RequestStep

LEMMA LoneMeansOne ==
  ASSUME NEW t \in Tokens, TypeOK, Lone(t)
  PROVE  queue[t] + jobs[t] + Cardinality({w \in Workers : worker[w].token = t}) <= 1
<1> DEFINE holders == {w \in Workers : worker[w].token = t}
<1>1. queue[t] + jobs[t] \in {0, 1} /\ (queue[t] + jobs[t] = 1 => holders = {})
  BY DEF Lone
<1>2. CASE holders = {}
  BY <1>1, <1>2, FS_EmptySet
<1>3. CASE holders # {}
  <2>1. PICK w : w \in holders
    BY <1>3
  <2>2. holders = {w}
    BY <1>1, <2>1 DEF Lone
  <2>3. Cardinality(holders) = 1
    BY <2>2, FS_Singleton, Zenon
  <2> QED BY <1>1, <1>3, <2>3
<1> QED BY <1>2, <1>3

\* uuid4 tokens and the check of line 36: where requests and recoveries do not
\* overlap, a token is delivered to one run only, for any number of workers.
\* Two starts that overlap break it.
THEOREM TokenRunsOnce ==
  ASSUME \A p, q \in Requests : p = q PROVE Spec => []OneRunPerToken
<1>1. Init => TypeOK /\ Delivery
  <2>1. ASSUME Init PROVE Delivery
    <3>1. /\ \A t \in Tokens : queue[t] = 0 /\ jobs[t] = 0
          /\ \A w \in Workers : worker[w].token = NoToken
          /\ \A q \in Requests : request[q].pc = "idle"
      BY <2>1 DEF Init, IdleWorker, IdleRequest
    <3> QED BY <3>1, NoTokenAssumption DEF Delivery, Lone
  <2> QED BY <2>1, InitType
<1>2. TypeOK /\ Delivery /\ [Next]_vars => (TypeOK /\ Delivery)'
  BY TypeStep, DeliveryStep
<1>3. TypeOK /\ Delivery => OneRunPerToken
  BY LoneMeansOne DEF Delivery, OneRunPerToken
<1> QED BY <1>1, <1>2, <1>3, PTL DEF Spec

-----------------------------------------------------------------------------
(* One worker at a time *)

OneWorker == \A v, w \in Workers : v = w

Unsent == {"pending", "queued"}
Doubtful(r) == doubt[r] = "interrupted"

\* The rows of the batch wait as they were selected; the row in hand is SENDING;
\* none of them is in doubt.
Holding(w) ==
    /\ \A r \in worker[w].todo : recipient[r].status \in Unsent
    /\ worker[w].pc \in {"mark", "send", "record"} => worker[w].cur \notin worker[w].todo
    /\ worker[w].pc = "mark" => recipient[worker[w].cur].status \in Unsent
    /\ worker[w].pc \in {"send", "record"} =>
         recipient[worker[w].cur].status = "sending" /\ ~Doubtful(worker[w].cur)

\* A row that is not sent yet has no id; one in doubt waits for the sweep or for
\* a retry that somebody asks for.
Waiting(r) ==
    /\ recipient[r].status \in Unsent \cup {"sending"} => ~recipient[r].ext
    /\ Doubtful(r) => ~recipient[r].ext /\ recipient[r].status \in {"sending", "failed"}

Alone == (\A w \in Workers : Holding(w)) /\ \A r \in Recipients : Waiting(r)

\* Steps that leave rows, doubts and workers alone.
LEMMA AloneRests ==
  ASSUME Alone, UNCHANGED <<recipient, doubt, worker>>
  PROVE  Alone'
  BY DEF Alone, Holding, Waiting, Doubtful

\* A row's entry in a step that writes one row.
LEMMA AloneWorker ==
  ASSUME OneWorker, TypeOK, NEW w \in Workers, NEW me, Become(w, me),
         \A r \in Recipients : Waiting(r)',
         /\ \A r \in me.todo : recipient'[r].status \in Unsent
         /\ me.pc \in {"mark", "send", "record"} => me.cur \notin me.todo
         /\ me.pc = "mark" => recipient'[me.cur].status \in Unsent
         /\ me.pc \in {"send", "record"} =>
              recipient'[me.cur].status = "sending" /\ doubt'[me.cur] # "interrupted"
  PROVE  Alone'
<1>1. worker'[w] = me /\ \A v \in Workers : v = w
  BY DEF TypeOK, Become, OneWorker
<1>2. Holding(w)'
  BY <1>1 DEF Holding, Doubtful
<1> QED BY <1>1, <1>2 DEF Alone

LEMMA AloneStop ==
  ASSUME OneWorker, TypeOK, NEW w \in Workers, Stop(w), \A r \in Recipients : Waiting(r)'
  PROVE  Alone'
<1>1. IdleWorker.todo = {} /\ IdleWorker.pc = "idle"
  BY DEF IdleWorker
<1> QED BY <1>1, AloneWorker DEF Stop

LEMMA RowsTyped ==
  ASSUME TypeOK, NEW r \in Recipients
  PROVE  /\ recipient[r] = [status |-> recipient[r].status, ext |-> recipient[r].ext,
                            since |-> recipient[r].since]
         /\ recipient[r].status \in RecipientStatus
  BY DEF TypeOK, RecipientRow

LEMMA AloneStepWorker ==
  ASSUME OneWorker, TypeOK, Alone, NEW w \in Workers,
         WorkerStep(w) \/ CallLost(w) \/ WorkerCrash(w)
  PROVE  Alone'
<1>c. /\ worker[w] \in WorkerState /\ worker[w] \in WorkerRecord
      /\ recipient \in [Recipients -> RecipientRow]
      /\ doubt \in [Recipients -> {"none", "interrupted", "gateway"}]
      /\ Holding(w) /\ \A r \in Recipients : Waiting(r)
  BY DEF TypeOK, WorkerState, Alone
<1>k. worker[w].pc \in {"mark", "send", "record"} => worker[w].cur \in Recipients
  BY <1>c DEF WorkerState
<1>t. worker[w].todo \subseteq Recipients
  BY <1>c DEF WorkerRecord
<1>q. UNCHANGED <<recipient, doubt>> => \A r \in Recipients : Waiting(r)'
  BY <1>c DEF Waiting, Doubtful
<1>1. ASSUME NEW t \in Tokens, Begin(w, t) PROVE Alone'
  <2>1. CASE MayRun(t)
    <3>1. PICK me : Become(w, me) /\ me.todo = {} /\ me.pc = "loop"
      <4>1. LET me == [IdleWorker EXCEPT !.pc = "loop", !.token = t]
            IN  me.todo = {} /\ me.pc = "loop"
        BY DEF IdleWorker
      <4> QED BY <1>1, <2>1, <4>1 DEF Begin
    <3> QED BY <1>1, <1>q, <3>1, AloneWorker DEF Begin
  <2>2. CASE ~MayRun(t)
    BY <1>1, <2>2, AloneRests DEF Begin
  <2> QED BY <2>1, <2>2
<1>2. CASE Claim(w)
  <2>1. CASE Stopped(w)
    BY <1>2, <1>q, <2>1, AloneStop DEF Claim
  <2>2. CASE ~Stopped(w)
    <3>0. PICK busy \in SUBSET Contended :
            \E B \in Batches(w, busy) : Become(w, Loaded(w, B))
      BY <1>2, <2>2 DEF Claim
    <3>1. PICK B \in Batches(w, busy) : Become(w, Loaded(w, B))
      BY <3>0
    <3>2. recipient' = Swept /\ doubt' = doubt
      BY <1>2, <2>2 DEF Claim
    <3>3. \A r \in Recipients :
            \/ recipient'[r] = recipient[r]
            \/ /\ recipient[r].status = "sending" /\ recipient'[r].status = "failed"
               /\ recipient'[r].ext = recipient[r].ext
      BY <1>c, <3>2 DEF Swept, RecipientRow
    <3>4. \A r \in Recipients : Waiting(r)'
      BY <1>c, <3>2, <3>3 DEF Waiting, Doubtful, Unsent
    <3>5. \A r \in B : r \in Recipients /\ recipient[r].status \in Unsent
      BY DEF Batches, Claimable, Due, Unsent
    <3>6. \A r \in B : recipient'[r].status \in Unsent
      BY <3>3, <3>5 DEF Unsent
    <3>7. Loaded(w, B).todo = B /\ Loaded(w, B).pc \in {"finish", "check"}
      BY <1>c DEF Loaded, WorkerRecord
    <3> QED BY <3>1, <3>4, <3>6, <3>7, AloneWorker
  <2> QED BY <2>1, <2>2
<1>3. CASE Check(w)
  <2>1. PICK r \in worker[w].todo : IF Stopped(w) THEN Stop(w) ELSE Become(w, Chosen(w, r))
    BY <1>3 DEF Check
  <2>2. /\ Chosen(w, r).todo = worker[w].todo \ {r} /\ Chosen(w, r).cur = r
        /\ Chosen(w, r).pc = "mark"
    BY <1>c DEF Chosen, WorkerRecord
  <2>3. UNCHANGED <<recipient, doubt>>
    BY <1>3 DEF Check
  <2>4. \A x \in worker[w].todo : recipient'[x].status \in Unsent
    BY <1>c, <2>3 DEF Holding
  <2>5. CASE Stopped(w)
    BY <1>q, <2>1, <2>3, <2>5, AloneStop
  <2>6. CASE ~Stopped(w)
    BY <1>q, <2>1, <2>2, <2>3, <2>4, <2>6, AloneWorker
  <2> QED BY <2>5, <2>6
<1>4. CASE Mark(w)
  <2> DEFINE r == worker[w].cur
  <2>1. /\ worker[w].pc = "mark" /\ r \in Recipients /\ r \notin worker[w].todo
        /\ recipient[r].status \in Unsent /\ ~Doubtful(r) /\ ~recipient[r].ext
    BY <1>4, <1>c, <1>k DEF Mark, Holding, Waiting, Unsent
  <2>2. doubt' = doubt
    BY <1>4 DEF Mark
  <2>3. /\ Advance(worker[w]).todo = worker[w].todo
        /\ Advance(worker[w]).pc \in {"loop", "check"}
    BY <1>c DEF Advance, WorkerRecord
  <2>4. \/ recipient' = [recipient EXCEPT ![r].status = "skipped"]
           /\ Become(w, Advance(worker[w]))
        \/ recipient' = [recipient EXCEPT ![r].status = "sent", ![r].since = "none"]
           /\ Become(w, Advance(worker[w]))
        \/ recipient' = [recipient EXCEPT ![r].status = "sending", ![r].since = "fresh"]
           /\ Become(w, [worker[w] EXCEPT !.pc = "send", !.locked = FALSE])
    BY <1>4 DEF Mark
  <2>5. /\ \A x \in Recipients \ {r} : recipient'[x] = recipient[x]
        /\ recipient'[r].ext = recipient[r].ext
        /\ recipient'[r].status \in {"skipped", "sent", "sending"}
    BY <1>c, <2>1, <2>4 DEF RecipientRow
  <2>6. \A x \in Recipients : Waiting(x)'
    BY <1>c, <2>1, <2>2, <2>5 DEF Waiting, Doubtful, Unsent
  <2>7. \A x \in worker[w].todo : recipient'[x].status \in Unsent
    BY <1>c, <1>t, <2>1, <2>5 DEF Holding
  <2>8. CASE Become(w, Advance(worker[w]))
    BY <2>3, <2>6, <2>7, <2>8, AloneWorker
  <2>9. CASE /\ recipient' = [recipient EXCEPT ![r].status = "sending", ![r].since = "fresh"]
             /\ Become(w, [worker[w] EXCEPT !.pc = "send", !.locked = FALSE])
    <3>1. PICK me : /\ Become(w, me) /\ me.todo = worker[w].todo /\ me.cur = r
                    /\ me.pc = "send"
      <4>1. LET me == [worker[w] EXCEPT !.pc = "send", !.locked = FALSE]
            IN  me.todo = worker[w].todo /\ me.cur = r /\ me.pc = "send"
        BY <1>c DEF WorkerRecord
      <4> QED BY <2>9, <4>1
    <3>2. recipient'[r].status = "sending"
      BY <1>c, <2>1, <2>9 DEF RecipientRow
    <3>3. doubt'[r] # "interrupted"
      BY <2>1, <2>2 DEF Doubtful
    <3> QED BY <2>1, <2>6, <2>7, <3>1, <3>2, <3>3, AloneWorker
  <2> QED BY <2>4, <2>8, <2>9
<1>5. CASE Call(w)
  <2>1. PICK o : /\ Become(w, Answered(w, o)) /\ recipient' = recipient
                 /\ doubt' = IF o = "gateway" THEN [doubt EXCEPT ![worker[w].cur] = "gateway"]
                                              ELSE doubt
    BY <1>5 DEF Call
  <2>2. /\ Answered(w, o).pc = "record" /\ Answered(w, o).todo = worker[w].todo
        /\ Answered(w, o).cur = worker[w].cur
    BY <1>c DEF Answered, WorkerRecord
  <2>3. \A r \in Recipients : doubt'[r] = "interrupted" => doubt[r] = "interrupted"
    BY <1>c, <2>1
  <2>4. \A r \in Recipients : Waiting(r)'
    BY <1>c, <2>1, <2>3 DEF Waiting, Doubtful
  <2>5. worker[w].pc = "send" /\ worker[w].cur \in Recipients
    BY <1>5, <1>k DEF Call
  <2> QED BY <1>c, <2>1, <2>2, <2>3, <2>4, <2>5, AloneWorker DEF Holding, Doubtful
<1>6. CASE Record(w)
  <2> DEFINE r == worker[w].cur
  <2>1. /\ worker[w].pc = "record" /\ r \in Recipients /\ r \notin worker[w].todo
        /\ ~Doubtful(r) /\ ~recipient[r].ext
    BY <1>6, <1>c, <1>k DEF Record, Holding, Waiting
  <2>2. Become(w, Recorded(w)) /\ doubt' = doubt
    BY <1>6 DEF Record
  <2>3. /\ \A x \in Recipients \ {r} : recipient'[x] = recipient[x]
        /\ recipient'[r].status = Meaning(worker[w].outcome)
        /\ recipient'[r].ext = IF worker[w].outcome = "sent" THEN TRUE ELSE recipient[r].ext
    BY <1>6, <1>c, <2>1 DEF Record
  <2>4. worker[w].outcome = "sent" => Meaning(worker[w].outcome) = "sent"
    BY DEF Meaning
  <2>5. \A x \in Recipients : Waiting(x)'
    BY <1>c, <2>1, <2>2, <2>3, <2>4 DEF Waiting, Doubtful, Unsent
  <2>6. Recorded(w).todo = worker[w].todo /\ Recorded(w).pc \in {"loop", "check"}
    BY <1>c DEF Recorded, Advance, WorkerRecord
  <2>7. \A x \in worker[w].todo : recipient'[x].status \in Unsent
    BY <1>c, <1>t, <2>1, <2>3 DEF Holding
  <2> QED BY <2>2, <2>5, <2>6, <2>7, AloneWorker
<1>7. CASE Finish(w)
  BY <1>7, <1>q, AloneStop DEF Finish
<1>8. CASE CallLost(w) \/ WorkerCrash(w)
  <2>1. recipient' = recipient /\ Stop(w)
    BY <1>8 DEF CallLost, WorkerCrash
  <2>2. doubt' = doubt \/ /\ doubt' = [doubt EXCEPT ![worker[w].cur] = "interrupted"]
                          /\ worker[w].pc \in {"send", "record"}
    BY <1>8 DEF CallLost, WorkerCrash
  <2>3. \A r \in Recipients : Waiting(r)'
    BY <1>c, <2>1, <2>2 DEF Waiting, Holding, Doubtful
  <2> QED BY <2>1, <2>3, AloneStop
<1> QED BY <1>1, <1>2, <1>3, <1>4, <1>5, <1>6, <1>7, <1>8 DEF WorkerStep

LEMMA AloneStep ==
  ASSUME OneWorker, TypeOK, Alone, [Next]_vars
  PROVE  Alone'
<1>c. /\ recipient \in [Recipients -> RecipientRow]
      /\ doubt \in [Recipients -> {"none", "interrupted", "gateway"}]
      /\ worker \in [Workers -> WorkerState]
  BY DEF TypeOK
\* Steps that write rows behind the worker's back.
<1>b. ASSUME worker' = worker, \A r \in Recipients : Waiting(r)',
             \A r \in Recipients :
                /\ recipient[r].status \in Unsent \cup {"sending"}
                     => recipient'[r].status = recipient[r].status
                /\ doubt'[r] = "interrupted" => doubt[r] = "interrupted"
      PROVE  Alone'
  <2> SUFFICES ASSUME NEW w \in Workers PROVE Holding(w)'
    BY <1>b DEF Alone
  <2>1. worker[w].todo \subseteq Recipients /\
        (worker[w].pc \in {"mark", "send", "record"} => worker[w].cur \in Recipients)
    BY <1>c DEF WorkerState, WorkerRecord
  <2>2. Holding(w)
    BY DEF Alone
  <2> QED BY <1>b, <2>1, <2>2 DEF Holding, Doubtful, Unsent
<1>1. ASSUME NEW q \in Requests, RetryReset(q) PROVE Alone'
  <2>1. CASE Resettable = {}
    BY <1>1, <2>1, AloneRests DEF RetryReset
  <2>2. CASE Resettable # {}
    <3>1. worker' = worker
      BY <1>1 DEF RetryReset
    <3>2. \A r \in Recipients :
            \/ recipient'[r] = recipient[r] /\ doubt'[r] = doubt[r]
            \/ /\ recipient[r].status = "failed" /\ ~recipient'[r].ext
               /\ doubt'[r] = "none"
      <4>1. /\ recipient' = [r \in Recipients |->
                 IF r \in Resettable THEN [status |-> "pending", ext |-> FALSE,
                                           since |-> "none"]
                                     ELSE recipient[r]]
            /\ doubt' = [r \in Recipients |-> IF r \in Resettable THEN "none" ELSE doubt[r]]
        BY <1>1, <2>2 DEF RetryReset
      <4> QED BY <4>1 DEF Resettable
    <3>3. \A r \in Recipients : Waiting(r)'
      BY <3>2 DEF Alone, Waiting, Doubtful
    <3>4. \A r \in Recipients :
                /\ recipient[r].status \in Unsent \cup {"sending"}
                     => recipient'[r].status = recipient[r].status
                /\ doubt'[r] = "interrupted" => doubt[r] = "interrupted"
      BY <3>2 DEF Unsent
    <3> QED BY <1>b, <3>1, <3>3, <3>4
  <2> QED BY <2>1, <2>2
<1>2. ASSUME NEW r \in Recipients, StatusWebhook(r) \/ SendAges(r) PROVE Alone'
  <2>1. UNCHANGED <<worker, doubt>>
    BY <1>2 DEF StatusWebhook, SendAges
  <2>2. \A x \in Recipients :
          /\ recipient'[x].ext = recipient[x].ext
          /\ \/ recipient'[x].status = recipient[x].status
             \/ /\ recipient[x].ext
                /\ recipient'[x].status \in Handed \cup {"failed"}
    <3>1. CASE StatusWebhook(r)
      <4>1. PICK s \in Handed \cup {"failed"} : recipient' = [recipient EXCEPT ![r].status = s]
        BY <3>1 DEF StatusWebhook
      <4>2. recipient[r].ext
        BY <3>1 DEF StatusWebhook
      <4> QED BY <1>c, <4>1, <4>2 DEF RecipientRow
    <3>2. CASE SendAges(r)
      BY <1>c, <3>2 DEF SendAges, RecipientRow
    <3> QED BY <1>2, <3>1, <3>2
  <2>3. \A x \in Recipients : Waiting(x)
    BY DEF Alone
  <2>4. \A x \in Recipients : Waiting(x)'
    BY <2>1, <2>2, <2>3 DEF Waiting, Doubtful, Unsent, Handed
  <2>5. \A x \in Recipients : recipient[x].status \in Unsent \cup {"sending"}
                              => recipient'[x].status = recipient[x].status
    BY <2>2, <2>3 DEF Waiting
  <2> QED BY <1>b, <2>1, <2>4, <2>5
<1>3. ASSUME NEW q \in Requests,
             \/ Write(q) \/ MarkRunning(q) \/ RecoverRead(q) \/ RequestCrash(q) \/ PrepareStart(q)
             \/ RecoverWrite(q) \/ Dispatch(q) \/ RecoverDispatch(q)
             \/ \E op \in {"approve", "pause", "cancel", "retry"} : Read(q, op)
      PROVE  Alone'
  BY <1>3, AloneRests DEF Write, MarkRunning, RecoverRead, RequestCrash, PrepareStart,
         RecoverWrite, Dispatch, RecoverDispatch, Read
<1>4. ASSUME \/ \E t \in Tokens : RunJob(t)
             \/ \E r \in Recipients : ContactChanges(r)
             \/ TimePasses \/ HeartbeatAges \/ UNCHANGED vars
      PROVE  Alone'
  BY <1>4, AloneRests DEF RunJob, ContactChanges, TimePasses, HeartbeatAges, vars
<1> QED BY <1>1, <1>2, <1>3, <1>4, AloneStepWorker DEF Next, RequestStep

LEMMA AloneHolds == ASSUME OneWorker PROVE Spec => [](TypeOK /\ Alone)
<1>1. Init => TypeOK /\ Alone
  <2>1. Init => Alone
    BY DEF Init, Alone, Holding, Waiting, Doubtful, IdleWorker, Unsent
  <2> QED BY <2>1, InitType
<1>2. TypeOK /\ Alone /\ [Next]_vars => (TypeOK /\ Alone)'
  BY TypeStep, AloneStep
<1> QED BY <1>1, <1>2, PTL DEF Spec

\* SENDING is committed before the call and swept to FAILED, never back to the
\* queue (campaign_tasks.py:74-88, 124-142): with one worker an interrupted send
\* is not repeated unless a person retries it, whatever crashes, answers, status
\* reports and requests come between.
THEOREM InterruptedIsNotResent ==
  ASSUME OneWorker PROVE Spec => []NoResendInDoubt
<1>1. TypeOK /\ Alone => NoResendInDoubt
  BY DEF Alone, Holding, Doubtful, NoResendInDoubt
<1> QED BY <1>1, AloneHolds, PTL

\* The provider accepted at most one message for a row; if it did, the worker is
\* about to say so or has.
Accepted(w, r) == /\ worker[w].pc = "record" /\ worker[w].cur = r
                  /\ worker[w].outcome \in {"sent", "noid"}
Once(r) ==
    \/ copies[r] = 0
    \/ copies[r] = 1 /\ (recipient[r].status \in Handed \/ \E w \in Workers : Accepted(w, r))
Single == crashes = 0 => \A r \in Recipients : Once(r)

\* Rows that wait, failed or are about to be sent have no message.
LEMMA NoneYet ==
  ASSUME OneWorker, Alone, NEW r \in Recipients, Once(r),
         \/ recipient[r].status \in Unsent \cup {"failed"}
         \/ \E w \in Workers : worker[w].pc = "send" /\ worker[w].cur = r
  PROVE  copies[r] = 0
<1>1. recipient[r].status \notin Handed
  BY DEF Alone, Holding, Handed, Unsent
<1>2. \A w \in Workers : ~Accepted(w, r)
  BY DEF Alone, Holding, Accepted, OneWorker, Unsent
<1> QED BY <1>1, <1>2 DEF Once

\* A step without an answer of the provider.
LEMMA SingleKept ==
  ASSUME Single, copies' = copies, crashes' = 0 => crashes = 0,
         \A r \in Recipients : Once(r) /\ copies[r] # 0 =>
            /\ recipient[r].status \in Handed => recipient'[r].status \in Handed
            /\ (\E w \in Workers : Accepted(w, r)) =>
                 recipient'[r].status \in Handed \/ \E w \in Workers : Accepted(w, r)'
  PROVE  Single'
  BY DEF Single, Once

LEMMA SingleWorker ==
  ASSUME OneWorker, "gateway" \notin Faults, TypeOK, Alone, Single, NEW w \in Workers,
         WorkerStep(w) \/ CallLost(w) \/ WorkerCrash(w)
  PROVE  Single'
<1>c. /\ worker[w] \in WorkerState /\ worker[w] \in WorkerRecord
      /\ worker \in [Workers -> WorkerState]
      /\ recipient \in [Recipients -> RecipientRow] /\ copies \in [Recipients -> 0..2]
      /\ crashes \in Nat /\ Holding(w) /\ \A v \in Workers : v = w
  BY MaxCrashesAssumption DEF TypeOK, WorkerState, Alone, OneWorker
<1>k. worker[w].pc \in {"mark", "send", "record"} => worker[w].cur \in Recipients
  BY <1>c DEF WorkerState
\* No worker has an answer in hand.
<1>n. ASSUME worker[w].pc # "record", UNCHANGED <<copies, crashes>>,
             \A r \in Recipients : recipient[r].status \in Handed
                                    => recipient'[r].status \in Handed
      PROVE  Single'
  <2>1. \A v \in Workers, r \in Recipients : ~Accepted(v, r)
    BY <1>c, <1>n DEF Accepted
  <2> QED BY <1>n, <2>1, SingleKept
<1>1. ASSUME NEW t \in Tokens, Begin(w, t) PROVE Single'
  BY <1>1, <1>n DEF Begin
<1>2. CASE Claim(w)
  <2>1. recipient' = recipient \/ recipient' = Swept
    BY <1>2 DEF Claim
  <2>2. \A r \in Recipients : recipient[r].status \in Handed => recipient'[r].status \in Handed
    BY <2>1 DEF Swept, Handed
  <2> QED BY <1>2, <1>n, <2>2 DEF Claim
<1>3. CASE Check(w) \/ Finish(w)
  BY <1>3, <1>n DEF Check, Finish
<1>4. CASE Mark(w)
  <2>1. /\ worker[w].pc = "mark" /\ worker[w].cur \in Recipients
        /\ recipient[worker[w].cur].status \in Unsent
    BY <1>4, <1>c, <1>k DEF Mark, Holding
  <2>2. \A x \in Recipients \ {worker[w].cur} : recipient'[x] = recipient[x]
    BY <1>4, <1>c DEF Mark
  <2> QED BY <1>4, <1>n, <2>1, <2>2 DEF Mark, Handed, Unsent
<1>5. CASE Call(w)
  <2> DEFINE r == worker[w].cur
  <2>1. PICK o \in Outcomes \ ({"gateway", "throttled"} \ Faults) :
          /\ Become(w, Answered(w, o))
          /\ \/ o \in {"sent", "noid", "gateway"} /\ copies' = [copies EXCEPT ![r] = TwoAtMost(@)]
             \/ o \notin {"sent", "noid"} /\ copies' = copies
    BY <1>5 DEF Call
  <2>2. worker[w].pc = "send" /\ r \in Recipients /\ UNCHANGED <<recipient, crashes>>
    BY <1>5, <1>k DEF Call
  <2>3. \A v \in Workers, x \in Recipients : ~Accepted(v, x)
    BY <1>c, <2>2 DEF Accepted
  <2>4. SUFFICES ASSUME crashes = 0, NEW x \in Recipients PROVE Once(x)'
    BY <2>2 DEF Single
  <2>5. Once(x) /\ (x = r => copies[x] = 0)
    BY <2>2, <2>4, NoneYet DEF Single
  <2>6. CASE copies' = copies
    BY <2>2, <2>3, <2>5, <2>6 DEF Once
  <2>7. CASE o \in {"sent", "noid"} /\ copies' = [copies EXCEPT ![r] = TwoAtMost(@)]
    <3>1. CASE x # r
      <4>1. copies'[x] = copies[x]
        BY <1>c, <2>7, <3>1
      <4> QED BY <2>2, <2>3, <2>5, <4>1 DEF Once
    <3>2. CASE x = r
      <4>1. copies'[x] = 1
        BY <1>c, <2>2, <2>5, <2>7, <3>2 DEF TwoAtMost
      <4>2. /\ Answered(w, o).pc = "record" /\ Answered(w, o).cur = r
            /\ Answered(w, o).outcome = o
        BY <1>c DEF Answered, WorkerRecord
      <4>3. Accepted(w, x)'
        BY <1>c, <2>1, <2>7, <3>2, <4>2 DEF Become, Accepted
      <4> QED BY <4>1, <4>3 DEF Once
    <3> QED BY <3>1, <3>2
  <2>8. o # "gateway"
    BY <2>1
  <2> QED BY <2>1, <2>6, <2>7, <2>8
<1>6. CASE Record(w)
  <2> DEFINE r == worker[w].cur
  <2>1. /\ worker[w].pc = "record" /\ r \in Recipients /\ UNCHANGED <<copies, crashes>>
        /\ recipient[r].status = "sending"
    BY <1>6, <1>c, <1>k DEF Record, Holding
  <2>2. /\ \A x \in Recipients \ {r} : recipient'[x] = recipient[x]
        /\ recipient'[r].status = Meaning(worker[w].outcome)
    BY <1>6, <1>c, <2>1 DEF Record
  <2>3. \A x \in Recipients : recipient[x].status \in Handed => recipient'[x].status \in Handed
    BY <2>1, <2>2 DEF Handed
  <2>4. ASSUME NEW v \in Workers, NEW x \in Recipients, Accepted(v, x)
        PROVE  recipient'[x].status \in Handed
    <3>1. x = r /\ worker[w].outcome \in {"sent", "noid"}
      BY <1>c, <2>4 DEF Accepted
    <3> QED BY <2>2, <3>1 DEF Meaning, Handed
  <2> QED BY <2>1, <2>3, <2>4, SingleKept
<1>7. CASE CallLost(w) \/ WorkerCrash(w)
  BY <1>7, <1>c DEF CallLost, WorkerCrash, Single
<1> QED BY <1>1, <1>2, <1>3, <1>4, <1>5, <1>6, <1>7 DEF WorkerStep

LEMMA SingleStep ==
  ASSUME OneWorker, "gateway" \notin Faults, "webhook" \notin Ops,
         TypeOK, Alone, Single, [Next]_vars
  PROVE  Single'
<1>c. recipient \in [Recipients -> RecipientRow] /\ crashes \in Nat
  BY MaxCrashesAssumption DEF TypeOK
<1>k. ASSUME UNCHANGED <<worker, copies>>, crashes' = 0 => crashes = 0,
             \A r \in Recipients : recipient[r].status \in Handed
                                    => recipient'[r].status \in Handed
      PROVE  Single'
  <2>1. \A w \in Workers, r \in Recipients : Accepted(w, r) => Accepted(w, r)'
    BY <1>k DEF Accepted
  <2> QED BY <1>k, <2>1, SingleKept
<1>1. ASSUME NEW q \in Requests, RetryReset(q) PROVE Single'
  <2>1. CASE Resettable = {}
    BY <1>1, <1>k, <2>1 DEF RetryReset
  <2>2. CASE Resettable # {}
    <3>1. recipient' = [r \in Recipients |->
             IF r \in Resettable THEN [status |-> "pending", ext |-> FALSE, since |-> "none"]
                                 ELSE recipient[r]]
      BY <1>1, <2>2 DEF RetryReset
    <3>2. \A r \in Recipients : recipient[r].status \in Handed => recipient'[r].status \in Handed
      BY <3>1 DEF Resettable, Handed
    <3> QED BY <1>1, <1>k, <3>2 DEF RetryReset
  <2> QED BY <2>1, <2>2
<1>2. ASSUME NEW r \in Recipients, StatusWebhook(r) \/ SendAges(r) PROVE Single'
  <2>1. recipient' = [recipient EXCEPT ![r].since = "stale"] /\ UNCHANGED <<worker, copies, crashes>>
    BY <1>2 DEF StatusWebhook, SendAges
  <2>2. \A x \in Recipients : recipient'[x].status = recipient[x].status
    BY <1>c, <2>1 DEF RecipientRow
  <2> QED BY <1>k, <2>1, <2>2
<1>3. ASSUME NEW q \in Requests,
             \/ Write(q) \/ MarkRunning(q) \/ RecoverRead(q) \/ RequestCrash(q) \/ PrepareStart(q)
             \/ RecoverWrite(q) \/ Dispatch(q) \/ RecoverDispatch(q)
             \/ \E op \in {"approve", "pause", "cancel", "retry"} : Read(q, op)
      PROVE  Single'
  <2>1. UNCHANGED <<worker, copies, recipient>> /\ crashes' \in {crashes, crashes + 1}
    BY <1>3 DEF Write, MarkRunning, RecoverRead, RequestCrash, PrepareStart, RecoverWrite,
                Dispatch, RecoverDispatch, Read
  <2> QED BY <1>c, <1>k, <2>1
<1>4. ASSUME \/ \E t \in Tokens : RunJob(t)
             \/ \E r \in Recipients : ContactChanges(r)
             \/ TimePasses \/ HeartbeatAges \/ UNCHANGED vars
      PROVE  Single'
  <2>1. UNCHANGED <<worker, copies, recipient, crashes>>
    BY <1>4 DEF RunJob, ContactChanges, TimePasses, HeartbeatAges, vars
  <2> QED BY <1>k, <2>1
<1> QED BY <1>1, <1>2, <1>3, <1>4, SingleWorker DEF Next, RequestStep

\* The token, the commit of SENDING and what each answer leaves in the row: with
\* one worker, and as long as no answer hides or loses a message and no report
\* fails an accepted one, starting over, pausing, cancelling and retrying never
\* makes the provider accept two messages for a row.
THEOREM OneCopyWithoutFaults ==
  ASSUME OneWorker, "gateway" \notin Faults, "webhook" \notin Ops
  PROVE  Spec => []AtMostOneCopy
<1>1. Init => TypeOK /\ Alone /\ Single
  <2>1. Init => Alone /\ Single
    BY DEF Init, Alone, Holding, Waiting, Doubtful, IdleWorker, Unsent, Single, Once
  <2> QED BY <2>1, InitType
<1>2. TypeOK /\ Alone /\ Single /\ [Next]_vars => (TypeOK /\ Alone /\ Single)'
  BY TypeStep, AloneStep, SingleStep
<1>3. Single => AtMostOneCopy
  BY DEF Single, Once, AtMostOneCopy
<1> QED BY <1>1, <1>2, <1>3, PTL DEF Spec
-----------------------------------------------------------------------------
(* Nothing is left behind *)

OneRequest == \A p, q \in Requests : p = q

Spent(r) == \/ contact[r] = "deleted" \/ r \in passed
            \/ recipient[r].status \notin {"pending", "queued", "sending"}
Drained == \A r \in Recipients : Spent(r)

\* The campaign's token is at the broker, in a job, or about to be handed on.
Coming == \/ campaign.token \in Tokens /\ queue[campaign.token] + jobs[campaign.token] > 0
          \/ \E q \in Requests : request[q].pc = "dispatch"
Running == \E w \in Workers : worker[w].pc # "idle" /\ worker[w].token = campaign.token

\* A request hands on the token that the campaign has.
Promised(q) ==
    request[q].pc = "dispatch" =>
        /\ campaign.token \in Tokens
        /\ request[q].op = "recover" => request[q].token = campaign.token

\* Another run comes after a superseded one; one that looked and found no row is
\* right.
Followed(w) ==
    /\ worker[w].pc # "idle" => worker[w].token = campaign.token \/ Coming
    /\ worker[w].pc = "finish" /\ worker[w].token = campaign.token => Drained

Completion ==
    crashes = 0 =>
        /\ \A r \in Recipients : ~Doubtful(r)
        /\ \A q \in Requests : Promised(q)
        /\ \A w \in Workers : Followed(w)
        /\ campaign.status \in Completed => Drained \/ Coming \/ Running

\* A step of somebody else that leaves the campaign its token.
LEMMA CompletionRests ==
  ASSUME Completion, UNCHANGED <<worker, doubt, crashes>>,
         campaign'.token = campaign.token, Coming => Coming',
         \A q \in Requests : Promised(q)', \A r \in Recipients : Spent(r) => Spent(r)',
         campaign'.status \in Completed => campaign.status \in Completed
  PROVE  Completion'
<1>1. Drained => Drained'
  BY DEF Drained
<1>2. Running => Running'
  BY DEF Running
<1> QED BY <1>1, <1>2 DEF Completion, Followed, Doubtful

\* A step that gives it a new one, which a request will hand on.
LEMMA CompletionAgain ==
  ASSUME Completion, UNCHANGED <<worker, crashes>>, campaign'.token \in Tokens,
         \A w \in Workers : worker[w].token # campaign'.token,
         \A r \in Recipients : Doubtful(r)' => Doubtful(r),
         \A q \in Requests : Promised(q)', \E q \in Requests : request'[q].pc = "dispatch"
  PROVE  Completion'
<1>1. Coming'
  BY DEF Coming
<1> QED BY <1>1 DEF Completion, Followed

\* A step of the worker that leaves it at work ...
LEMMA CompletionWorks ==
  ASSUME OneWorker, worker \in [Workers -> WorkerState], Completion,
         NEW w \in Workers, NEW me, Become(w, me),
         worker[w].pc # "idle", me.pc # "idle", me.token = worker[w].token,
         me.pc = "finish" /\ me.token = campaign.token => Drained',
         campaign'.token = campaign.token, UNCHANGED <<queue, jobs, request, crashes>>,
         \A r \in Recipients : Doubtful(r)' => Doubtful(r)
  PROVE  Completion'
<1>1. worker'[w] = me /\ \A v \in Workers : v = w
  BY DEF Become, OneWorker
<1>2. Coming => Coming'
  BY DEF Coming
<1>3. \A q \in Requests : Promised(q) => Promised(q)'
  BY DEF Promised
<1>4. SUFFICES ASSUME crashes = 0 PROVE Completion'
  BY DEF Completion
<1>5. me.token = campaign.token \/ Coming
  BY <1>4 DEF Completion, Followed
<1>6. \A v \in Workers : Followed(v)'
  BY <1>1, <1>2, <1>5 DEF Followed
<1>7. Running' \/ Coming'
  BY <1>1, <1>2, <1>5 DEF Running
<1> QED BY <1>3, <1>4, <1>6, <1>7 DEF Completion

\* ... and one that ends its run.
LEMMA CompletionStops ==
  ASSUME OneWorker, worker \in [Workers -> WorkerState], Completion,
         NEW w \in Workers, Stop(w), worker[w].pc # "idle",
         campaign'.token = campaign.token,
         UNCHANGED <<queue, jobs, request, crashes, doubt, recipient, contact, passed>>,
         \/ campaign.token # worker[w].token
         \/ campaign'.status \notin Completed
         \/ worker[w].pc = "finish"
  PROVE  Completion'
<1>1. worker'[w].pc = "idle" /\ \A v \in Workers : v = w
  BY DEF Stop, Become, IdleWorker, OneWorker
<1>2. Coming => Coming'
  BY DEF Coming
<1>3. \A q \in Requests : Promised(q) => Promised(q)'
  BY DEF Promised
<1>4. Drained => Drained'
  BY DEF Drained, Spent
<1>5. SUFFICES ASSUME crashes = 0 PROVE Completion'
  BY DEF Completion
<1>6. \A v \in Workers : Followed(v)'
  BY <1>1 DEF Followed
<1>7. campaign'.status \in Completed => Coming \/ Drained
  BY <1>5 DEF Completion, Followed
<1> QED BY <1>2, <1>3, <1>4, <1>5, <1>6, <1>7 DEF Completion, Doubtful

\* The SELECT finds nothing: nothing is left but what it passed over.
LEMMA NothingFound ==
  ASSUME OneWorker, IsFiniteSet(Recipients), TypeOK, SendingIsOwned,
         \A r \in Recipients : ~Doubtful(r),
         NEW w \in Workers, worker[w].pc = "loop",
         NEW busy \in SUBSET Contended, {} \in Batches(w, busy),
         passed' = Due(w) \cap busy, recipient' = Swept, UNCHANGED contact
  PROVE  Drained'
<1>1. IsFiniteSet(Claimable(w, busy))
  BY FS_Subset DEF Claimable, Due
<1>2. Claimable(w, busy) = {}
  <2>1. Cardinality(Claimable(w, busy)) \in Nat
    BY <1>1, FS_CardinalityType
  <2>2. Cardinality({}) = IF Cardinality(Claimable(w, busy)) < BatchSize
                          THEN Cardinality(Claimable(w, busy)) ELSE BatchSize
    BY DEF Batches
  <2>3. Cardinality(Claimable(w, busy)) = 0
    BY <2>1, <2>2, FS_EmptySet, BatchSizeAssumption
  <2> QED BY <1>1, <2>3, FS_EmptySet
<1>3. ASSUME NEW r \in Recipients PROVE Spent(r)'
  <2>1. CASE r \in Due(w)
    BY <1>2, <2>1 DEF Claimable, Spent
  <2>2. CASE r \notin Due(w)
    <3>1. contact[r] = "deleted" \/ recipient[r].status \notin {"pending", "queued"}
      BY <2>2 DEF Due, OneWorker
    <3>2. recipient[r].status # "sending"
      BY DEF SendingIsOwned, Doubtful, OneWorker
    <3>3. recipient'[r] = recipient[r]
      BY <3>2, Zenon DEF Swept
    <3> QED BY <3>1, <3>2, <3>3 DEF Spent
  <2> QED BY <2>1, <2>2
<1> QED BY <1>3 DEF Drained

LEMMA CompletionWorker ==
  ASSUME OneWorker, IsFiniteSet(Recipients), TypeOK, Approval, SendingIsOwned, Completion,
         NEW w \in Workers, WorkerStep(w) \/ CallLost(w) \/ WorkerCrash(w)
  PROVE  Completion'
<1>t. /\ worker \in [Workers -> WorkerState] /\ campaign \in CampaignRow
      /\ recipient \in [Recipients -> RecipientRow] /\ queue \in [Tokens -> Nat]
      /\ jobs \in [Tokens -> Nat] /\ crashes \in 0..MaxCrashes
  BY DEF TypeOK
<1>w. worker[w] \in WorkerRecord
  BY <1>t DEF WorkerState
<1>1. ASSUME NEW t \in Tokens, Begin(w, t) PROVE Completion'
  <2>1. /\ worker[w].pc = "idle" /\ \A v \in Workers : v = w
        /\ UNCHANGED <<recipient, contact, jobs, request, crashes, doubt, passed>>
    BY <1>1 DEF Begin, OneWorker
  <2>2. \A q \in Requests : campaign'.token = campaign.token /\ Promised(q) => Promised(q)'
    BY <2>1 DEF Promised
  <2>3. CASE MayRun(t)
    <3>1. campaign'.status = "running" /\ campaign'.token = campaign.token
      BY <1>1, <1>t, <2>3 DEF Begin, CampaignRow
    <3>2. worker'[w] = [IdleWorker EXCEPT !.pc = "loop", !.token = t]
      BY <1>1, <1>t, <2>3 DEF Begin, Become
    <3>3. worker'[w].pc = "loop" /\ worker'[w].token = t
      BY <3>2 DEF IdleWorker
    <3>4. \A v \in Workers : Followed(v)'
      BY <2>1, <2>3, <3>1, <3>3 DEF Followed, MayRun
    <3> QED BY <2>1, <2>2, <3>1, <3>4 DEF Completion, Doubtful, Completed
  <2>4. CASE ~MayRun(t)
    <3>1. UNCHANGED <<campaign, worker>>
      BY <1>1, <2>4 DEF Begin
    <3>2. campaign.status \in Completed => campaign.token # t
      BY <2>4 DEF Approval, MayRun, Completed
    <3>3. Coming /\ campaign.token # t => Coming'
      BY <1>1, <1>t, <2>1, <3>1 DEF Begin, Less, Coming
    <3>4. Drained => Drained'
      BY <2>1 DEF Drained, Spent
    <3>5. \A v \in Workers : Followed(v)'
      BY <2>1, <3>1 DEF Followed
    <3>6. ~Running
      BY <2>1 DEF Running
    <3> QED BY <2>1, <2>2, <3>1, <3>2, <3>3, <3>4, <3>5, <3>6 DEF Completion, Doubtful
  <2> QED BY <2>3, <2>4
<1>2. CASE Claim(w)
  <2>1. CASE Stopped(w)
    <3>1. /\ Stop(w) /\ worker[w].pc # "idle"
          /\ UNCHANGED <<campaign, queue, jobs, request, crashes, doubt, recipient, contact, passed>>
      BY <1>2, <2>1 DEF Claim
    <3> QED BY <1>t, <2>1, <3>1, CompletionStops DEF Stopped, Completed
  <2>2. CASE ~Stopped(w)
    <3>0. PICK busy \in SUBSET Contended :
            (\E B \in Batches(w, busy) : Become(w, Loaded(w, B)))
            /\ passed' = Due(w) \cap busy
      BY <1>2, <2>2 DEF Claim
    <3>1. PICK B \in Batches(w, busy) : Become(w, Loaded(w, B))
      BY <3>0
    <3>2. /\ Loaded(w, B).pc = (IF B = {} THEN "finish" ELSE "check")
          /\ Loaded(w, B).token = worker[w].token
      BY <1>w DEF Loaded, WorkerRecord
    <3>3. /\ worker[w].pc = "loop" /\ recipient' = Swept
          /\ UNCHANGED <<campaign, contact, queue, jobs, request, crashes, doubt>>
      BY <1>2, <2>2 DEF Claim
    <3>4. CASE crashes # 0
      BY <3>3, <3>4 DEF Completion
    <3>5. CASE crashes = 0
      <4>1. \A r \in Recipients : ~Doubtful(r)
        BY <3>5 DEF Completion
      <4>2. B = {} => Drained'
        BY <3>0, <3>1, <3>3, <4>1, NothingFound
      <4>3. Loaded(w, B).pc \in {"finish", "check"}
            /\ (Loaded(w, B).pc = "finish" => B = {})
        BY <3>2
      <4>4. \A r \in Recipients : Doubtful(r)' => Doubtful(r)
        BY <3>3 DEF Doubtful
      <4> HIDE DEF Loaded
      <4> QED BY <1>t, <3>1, <3>2, <3>3, <4>2, <4>3, <4>4, CompletionWorks
    <3> QED BY <3>4, <3>5
  <2> QED BY <2>1, <2>2
<1>3. CASE Check(w)
  <2>1. /\ worker[w].pc = "check"
        /\ UNCHANGED <<campaign, queue, jobs, request, crashes, doubt, recipient, contact, passed>>
    BY <1>3 DEF Check
  <2>2. CASE Stopped(w)
    <3>1. Stop(w)
      BY <1>3, <2>2 DEF Check
    <3> QED BY <1>t, <2>1, <2>2, <3>1, CompletionStops DEF Stopped, Completed
  <2>3. CASE ~Stopped(w)
    <3>1. PICK r : Become(w, Chosen(w, r))
      BY <1>3, <2>3 DEF Check
    <3>2. Chosen(w, r).pc = "mark" /\ Chosen(w, r).token = worker[w].token
      BY <1>w DEF Chosen, WorkerRecord
    <3> QED BY <1>t, <2>1, <3>1, <3>2, CompletionWorks DEF Doubtful
  <2> QED BY <2>2, <2>3
<1>a. ASSUME NEW me \in WorkerRecord
      PROVE  Advance(me).pc \in {"loop", "check"} /\ Advance(me).token = me.token
  BY DEF Advance, WorkerRecord
<1>4. CASE Mark(w)
  <2>1. PICK me : /\ Become(w, me) /\ me.pc \in {"loop", "check", "send"}
                  /\ me.token = worker[w].token
    <3>1. \/ Become(w, Advance(worker[w]))
          \/ Become(w, [worker[w] EXCEPT !.pc = "send", !.locked = FALSE])
      BY <1>4 DEF Mark
    <3>2. [worker[w] EXCEPT !.pc = "send", !.locked = FALSE].pc = "send"
          /\ [worker[w] EXCEPT !.pc = "send", !.locked = FALSE].token = worker[w].token
      BY <1>w DEF WorkerRecord
    <3> QED BY <1>a, <1>w, <3>1, <3>2
  <2>2. /\ worker[w].pc = "mark" /\ UNCHANGED <<queue, jobs, request, crashes, doubt>>
        /\ campaign'.token = campaign.token
    BY <1>4, <1>t DEF Mark, CampaignRow
  <2> QED BY <1>t, <2>1, <2>2, CompletionWorks DEF Doubtful
<1>5. CASE Call(w)
  <2>1. PICK o : /\ Become(w, Answered(w, o))
                 /\ doubt' = IF o = "gateway" THEN [doubt EXCEPT ![worker[w].cur] = "gateway"]
                                              ELSE doubt
    BY <1>5 DEF Call
  <2>2. Answered(w, o).pc = "record" /\ Answered(w, o).token = worker[w].token
    BY <1>w DEF Answered, WorkerRecord
  <2>3. /\ worker[w].pc = "send" /\ UNCHANGED <<campaign, queue, jobs, request, crashes>>
    BY <1>5 DEF Call
  <2>4. \A r \in Recipients : Doubtful(r)' => Doubtful(r)
    BY <2>1 DEF Doubtful, TypeOK
  <2> HIDE DEF Answered
  <2> QED BY <1>t, <2>1, <2>2, <2>3, <2>4, CompletionWorks
<1>6. CASE Record(w)
  <2>1. Recorded(w).pc \in {"loop", "check"} /\ Recorded(w).token = worker[w].token
    BY <1>w DEF Recorded, Advance, WorkerRecord
  <2>2. Become(w, Recorded(w))
        /\ worker[w].pc = "record"
        /\ UNCHANGED <<campaign, queue, jobs, request, crashes, doubt>>
    BY <1>6 DEF Record
  <2> QED BY <1>t, <2>1, <2>2, CompletionWorks DEF Doubtful
<1>7. CASE Finish(w)
  <2>1. /\ worker[w].pc = "finish" /\ Stop(w) /\ campaign'.token = campaign.token
        /\ UNCHANGED <<queue, jobs, request, crashes, doubt, recipient, contact, passed>>
    BY <1>7, <1>t DEF Finish, CampaignRow
  <2> QED BY <1>t, <2>1, CompletionStops
<1>8. CASE CallLost(w) \/ WorkerCrash(w)
  <2>1. crashes' = crashes + 1
    BY <1>8 DEF CallLost, WorkerCrash
  <2> QED BY <1>t, <2>1, MaxCrashesAssumption DEF Completion
<1> QED BY <1>1, <1>2, <1>3, <1>4, <1>5, <1>6, <1>7, <1>8 DEF WorkerStep

\* A retry without failed rows, a retry with some, and a recovery.
LEMMA RetryOfNothing ==
  ASSUME TypeOK, NEW q \in Requests, RetryReset(q), Resettable = {}
  PROVE  /\ request[q].pc # "dispatch" /\ request'[q].pc # "dispatch"
         /\ UNCHANGED <<campaign, recipient, doubt, worker, crashes, contact, queue, jobs, passed>>
<1>1. Done(q) /\ UNCHANGED <<campaign, recipient, doubt>>
  BY DEF RetryReset
<1>2. request[q].pc = "write" /\ UNCHANGED <<contact, queue, jobs, worker, crashes, passed>>
  BY DEF RetryReset
<1>3. request'[q].pc # "dispatch"
  BY <1>1 DEF Done, Handle, IdleRequest, TypeOK
<1> QED BY <1>1, <1>2, <1>3

LEMMA RetryOfSome ==
  ASSUME TypeOK, NEW q \in Requests, RetryReset(q), Resettable # {}
  PROVE  /\ \E t \in Tokens : Unused(t) /\ campaign'.token = t
         /\ request'[q].pc = "dispatch" /\ request'[q].op = "retry"
         /\ UNCHANGED <<worker, crashes>>
         /\ \A r \in Recipients : Doubtful(r)' => Doubtful(r)
<1>1. /\ \E t \in Tokens : /\ Unused(t)
                           /\ campaign' = [campaign EXCEPT !.status = "scheduled",
                                                           !.token = t,
                                                           !.heartbeat = "fresh"]
      /\ Handle(q, [request[q] EXCEPT !.pc = "dispatch"])
      /\ request[q].op = "retry" /\ UNCHANGED <<worker, crashes>>
  BY Zenon DEF RetryReset
<1>2. doubt' = [r \in Recipients |-> IF r \in Resettable THEN "none" ELSE doubt[r]]
  BY Zenon DEF RetryReset
<1>3. \E t \in Tokens : Unused(t) /\ campaign'.token = t
  BY <1>1 DEF TypeOK, CampaignRow
<1>4. request[q] \in RequestRecord /\ request'[q] = [request[q] EXCEPT !.pc = "dispatch"]
  BY <1>1 DEF TypeOK, RequestState, Handle
<1>5. request'[q].pc = "dispatch" /\ request'[q].op = "retry"
  BY <1>1, <1>4 DEF RequestRecord
<1> QED BY <1>1, <1>2, <1>3, <1>5 DEF Doubtful

LEMMA RecoveryWrites ==
  ASSUME TypeOK, NEW q \in Requests, RecoverWrite(q)
  PROVE  /\ \E t \in Tokens : /\ Unused(t) /\ campaign'.token = t
                              /\ request'[q].pc = "dispatch" /\ request'[q].token = t
         /\ UNCHANGED <<worker, crashes, doubt>>
<1>1. PICK t \in Tokens :
        /\ Unused(t)
        /\ campaign' = [campaign EXCEPT
             !.token = t,
             !.status = IF request[q].seen = "scheduled" THEN @ ELSE "scheduled"]
        /\ Handle(q, [request[q] EXCEPT !.pc = "dispatch", !.token = t])
  BY Zenon DEF RecoverWrite
<1>2. campaign'.token = t
  BY <1>1 DEF TypeOK, CampaignRow
<1>3. /\ request[q] \in RequestRecord
      /\ request'[q] = [request[q] EXCEPT !.pc = "dispatch", !.token = t]
  BY <1>1 DEF TypeOK, RequestState, Handle
<1>4. request'[q].pc = "dispatch" /\ request'[q].token = t
  BY <1>3 DEF RequestRecord
<1> QED BY <1>1, <1>2, <1>4 DEF RecoverWrite

\* No step makes up for a crash.
LEMMA CrashesStay == TypeOK /\ [Next]_vars /\ crashes # 0 => crashes' # 0
<1> SUFFICES ASSUME TypeOK, [Next]_vars, crashes # 0 PROVE crashes' # 0
  OBVIOUS
<1>1. crashes' = crashes \/ crashes' = crashes + 1
  <2>1. ASSUME NEW w \in Workers, WorkerStep(w) PROVE crashes' = crashes
    BY <2>1, Zenon DEF WorkerStep, Begin, Claim, Check, Mark, Call, Record, Finish
  <2>2. ASSUME NEW q \in Requests, RequestStep(q) PROVE crashes' = crashes
    BY <2>2, Zenon DEF RequestStep, Write, RetryReset, Dispatch, RecoverWrite, RecoverDispatch,
                       MarkRunning
  <2>3. ASSUME NEW w \in Workers, CallLost(w) \/ WorkerCrash(w) PROVE crashes' = crashes + 1
    BY <2>3 DEF CallLost, WorkerCrash
  <2>4. ASSUME NEW q \in Requests, RequestCrash(q) PROVE crashes' = crashes + 1
    BY <2>4 DEF RequestCrash
  <2>5. ASSUME NEW q \in Requests,
               \/ \E op \in Ops : Read(q, op)
               \/ PrepareStart(q) \/ RecoverRead(q)
        PROVE  crashes' = crashes
    BY <2>5, Zenon DEF Read, PrepareStart, RecoverRead
  <2>6. ASSUME \/ \E t \in Tokens : RunJob(t)
               \/ \E r \in Recipients : StatusWebhook(r) \/ ContactChanges(r) \/ SendAges(r)
               \/ TimePasses \/ HeartbeatAges \/ UNCHANGED vars
        PROVE  crashes' = crashes
    BY <2>6 DEF RunJob, StatusWebhook, ContactChanges, SendAges, TimePasses, HeartbeatAges, vars
  <2> QED BY <2>1, <2>2, <2>3, <2>4, <2>5, <2>6 DEF Next
<1>2. crashes \in Nat
  BY MaxCrashesAssumption DEF TypeOK
<1> QED BY <1>1, <1>2

LEMMA CompletionStep ==
  ASSUME OneWorker, OneRequest, IsFiniteSet(Recipients), TypeOK, Approval, SendingIsOwned,
         Completion, [Next]_vars
  PROVE  Completion'
<1>t. /\ campaign \in CampaignRow /\ request \in [Requests -> RequestState]
      /\ recipient \in [Recipients -> RecipientRow]
      /\ queue \in [Tokens -> Nat] /\ jobs \in [Tokens -> Nat]
      /\ crashes \in 0..MaxCrashes
  BY DEF TypeOK
<1>r. \A q \in Requests : request[q] \in RequestRecord
  BY <1>t DEF RequestState
<1>c. CASE crashes # 0
  BY <1>c, CrashesStay DEF Completion
<1>z. CASE crashes = 0
  <2>i. IdleRequest.pc = "idle" /\ IdleRequest.op = "none"
    BY DEF IdleRequest
  <2>p. \A q \in Requests : Promised(q)
    BY <1>z DEF Completion
  \* A request issues a new token.
  <2>1. ASSUME NEW q \in Requests, NEW t \in Tokens, Unused(t), campaign'.token = t,
               request'[q].pc = "dispatch",
               request'[q].op = "recover" => request'[q].token = t,
               UNCHANGED <<worker, crashes>>, \A r \in Recipients : Doubtful(r)' => Doubtful(r)
        PROVE  Completion'
    <3>1. \A p \in Requests : Promised(p)'
      BY <2>1 DEF Promised, OneRequest
    <3> QED BY <2>1, <3>1, CompletionAgain DEF Unused
  <2>2. ASSUME NEW q \in Requests, PrepareStart(q) PROVE Completion'
    <3>1. PICK t \in Tokens : Unused(t) /\ campaign'.token = t
      BY <2>2, <1>t DEF PrepareStart, CampaignRow
    <3>2. request'[q].op = "start" /\ request'[q].pc = "dispatch"
      BY <2>2, <1>t DEF PrepareStart, Handle, IdleRequest
    <3> QED BY <2>1, <2>2, <3>1, <3>2 DEF PrepareStart, Doubtful
  <2>3. ASSUME NEW q \in Requests, RecoverWrite(q) PROVE Completion'
    <3>1. PICK t \in Tokens : /\ Unused(t) /\ campaign'.token = t
                              /\ request'[q].pc = "dispatch" /\ request'[q].token = t
      BY <2>3, RecoveryWrites
    <3>2. UNCHANGED <<worker, crashes, doubt>>
      BY <2>3, RecoveryWrites
    <3> QED BY <2>1, <3>1, <3>2 DEF Doubtful
  \* It hands on the one it has, or does something else.
  <2>4. ASSUME NEW q \in Requests, request'[q].pc # "dispatch", UNCHANGED <<worker, doubt, crashes>>,
               UNCHANGED <<recipient, contact, passed>>, campaign'.token = campaign.token,
               campaign'.status \in Completed => campaign.status \in Completed,
               Coming => Coming'
        PROVE  Completion'
    <3>1. \A p \in Requests : Promised(p)'
      BY <2>4 DEF Promised, OneRequest
    <3>2. \A r \in Recipients : Spent(r) => Spent(r)'
      BY <2>4 DEF Spent
    <3> QED BY <2>4, <3>1, <3>2, CompletionRests
  <2>5. ASSUME NEW q \in Requests, Dispatch(q) \/ RecoverDispatch(q) PROVE Completion'
    <3>1. request[q].pc = "dispatch" /\ campaign.token \in Tokens
      BY <2>5, <2>p DEF Dispatch, RecoverDispatch, Promised
    <3>2. \/ queue' = Plus(queue, campaign.token) /\ jobs' = jobs
          \/ jobs' = Plus(jobs, campaign.token) /\ queue' = queue
      BY <2>5, <2>p, <3>1 DEF Dispatch, RecoverDispatch, SentNow, Promised
    <3>3. Coming'
      <4>1. campaign' = campaign
        BY <2>5 DEF Dispatch, RecoverDispatch
      <4> QED BY <1>t, <3>1, <3>2, <4>1 DEF Coming, Plus
    <3>4. request'[q].pc # "dispatch"
      <4>1. CASE Dispatch(q)
        <5>1. Dispatched(q).pc # "dispatch"
          BY <1>r, <2>i DEF Dispatched, RequestRecord
        <5> QED BY <1>t, <4>1, <5>1 DEF Dispatch, Handle
      <4>2. CASE RecoverDispatch(q)
        <5>1. request'[q] = [request[q] EXCEPT !.pc = "running", !.token = NoToken,
                                               !.seen = "scheduled"]
          BY <1>t, <4>2 DEF RecoverDispatch, Handle
        <5> QED BY <1>r, <5>1 DEF RequestRecord
      <4> QED BY <2>5, <4>1, <4>2
    <3> QED BY <2>4, <2>5, <3>3, <3>4 DEF Dispatch, RecoverDispatch
  <2>6. ASSUME NEW q \in Requests, request[q].pc # "dispatch", UNCHANGED <<queue, jobs>>,
               campaign'.token = campaign.token
        PROVE  Coming => Coming'
    BY <2>6 DEF Coming, OneRequest
  <2>7. ASSUME NEW q \in Requests, RetryReset(q) PROVE Completion'
    <3>1. CASE Resettable = {}
      <4>1. /\ request[q].pc # "dispatch" /\ request'[q].pc # "dispatch"
            /\ UNCHANGED <<campaign, recipient, doubt, worker, crashes, contact, queue, jobs, passed>>
        BY <2>7, <3>1, RetryOfNothing
      <4> QED BY <2>4, <2>6, <4>1
    <3>2. CASE Resettable # {}
      <4>1. PICK t \in Tokens : Unused(t) /\ campaign'.token = t
        BY <2>7, <3>2, RetryOfSome
      <4>2. /\ request'[q].pc = "dispatch" /\ request'[q].op = "retry"
            /\ UNCHANGED <<worker, crashes>> /\ \A r \in Recipients : Doubtful(r)' => Doubtful(r)
        BY <2>7, <3>2, RetryOfSome
      <4> QED BY <2>1, <4>1, <4>2
    <3> QED BY <3>1, <3>2
  <2>8. ASSUME NEW q \in Requests,
               \/ Write(q) \/ MarkRunning(q) \/ RecoverRead(q)
               \/ \E op \in {"approve", "pause", "cancel", "retry"} : Read(q, op)
        PROVE  Completion'
    <3>1. /\ request[q].pc # "dispatch" /\ request'[q].pc # "dispatch"
          /\ UNCHANGED <<recipient, contact, queue, jobs, worker, doubt, crashes, passed>>
      BY <1>t, <2>i, <2>8 DEF Write, MarkRunning, RecoverRead, Read, Done, Handle, IdleRequest
    <3>2. /\ campaign'.token = campaign.token
          /\ campaign'.status \in Completed => campaign.status \in Completed
      BY <1>t, <2>8 DEF Write, MarkRunning, RecoverRead, Read, CampaignRow, Completed
    <3> QED BY <2>4, <2>6, <3>1, <3>2
  <2>9. ASSUME NEW q \in Requests, RequestCrash(q) PROVE Completion'
    BY <1>z, <2>9 DEF RequestCrash, Completion
  <2>10. ASSUME UNCHANGED <<worker, doubt, crashes, request>>,
                campaign'.token = campaign.token, campaign'.status = campaign.status,
                \A t \in Tokens : queue'[t] + jobs'[t] = queue[t] + jobs[t],
                \A r \in Recipients : Spent(r) => Spent(r)'
         PROVE  Completion'
    <3>1. Coming => Coming'
      BY <2>10 DEF Coming
    <3>2. \A q \in Requests : Promised(q)'
      BY <2>10, <2>p DEF Promised
    <3> QED BY <2>10, <3>1, <3>2, CompletionRests
  <2>11. ASSUME NEW t \in Tokens, RunJob(t) PROVE Completion'
    <3>1. /\ jobs[t] > 0 /\ jobs' = [jobs EXCEPT ![t] = @ - 1]
          /\ queue' = [queue EXCEPT ![t] = @ + 1]
          /\ UNCHANGED <<campaign, request, worker, recipient, contact, doubt, crashes, passed>>
      BY <2>11 DEF RunJob, Less, Plus
    <3>2. \A u \in Tokens : queue'[u] + jobs'[u] = queue[u] + jobs[u]
      BY <1>t, <3>1
    <3>3. \A r \in Recipients : Spent(r) => Spent(r)'
      BY <3>1 DEF Spent
    <3> QED BY <2>10, <3>1, <3>2, <3>3
  <2>12. ASSUME NEW r \in Recipients, StatusWebhook(r) \/ ContactChanges(r) \/ SendAges(r)
         PROVE  Completion'
    <3>1. UNCHANGED <<worker, doubt, crashes, request, campaign, queue, jobs, passed>>
      BY <2>12 DEF StatusWebhook, ContactChanges, SendAges
    <3>2. \A x \in Recipients : Spent(x) => Spent(x)'
      <4>1. CASE StatusWebhook(r)
        BY <1>t, <4>1 DEF StatusWebhook, Spent, Handed, RecipientRow
      <4>2. CASE ContactChanges(r)
        BY <4>2 DEF ContactChanges, Spent, TypeOK
      <4>3. CASE SendAges(r)
        BY <1>t, <4>3 DEF SendAges, Spent, RecipientRow
      <4> QED BY <2>12, <4>1, <4>2, <4>3
    <3> QED BY <2>10, <3>1, <3>2
  <2>13. ASSUME TimePasses \/ HeartbeatAges \/ UNCHANGED vars PROVE Completion'
    <3>1. UNCHANGED <<worker, doubt, crashes, request, queue, jobs, recipient, contact, passed>>
      BY <2>13 DEF TimePasses, HeartbeatAges, vars
    <3>2. campaign'.token = campaign.token /\ campaign'.status = campaign.status
      BY <1>t, <2>13 DEF TimePasses, HeartbeatAges, vars, CampaignRow
    <3>3. \A r \in Recipients : Spent(r) => Spent(r)'
      BY <3>1 DEF Spent
    <3> QED BY <2>10, <3>1, <3>2, <3>3
  <2> QED BY <2>2, <2>3, <2>5, <2>7, <2>8, <2>9, <2>11, <2>12, <2>13, CompletionWorker
          DEF Next, RequestStep
<1> QED BY <1>c, <1>z

\* The batch loop and its end (campaign_tasks.py:89-105, 223-228), new tokens and
\* their dispatch: with one worker and requests that do not overlap, whatever is
\* started over, paused, retried, recovered or reported, a campaign is COMPLETED
\* with nothing on the way only when no row is left to send but those its last
\* SELECT passed over for a locked contact.
THEOREM CompletedLeavesNothing ==
  ASSUME OneWorker, OneRequest, IsFiniteSet(Recipients)
  PROVE  Spec => []CompletedIsDrained
<1> DEFINE IInv == TypeOK /\ Approval /\ SendingIsOwned /\ Completion
<1>1. Init => IInv
  <2>1. Init => Approval /\ SendingIsOwned /\ Completion
    BY DEF Init, Approval, ApprovedBeforeSend, IdleWorker, IdleRequest, SendingIsOwned,
           Completion, Doubtful, Promised, Followed, Completed
  <2> QED BY <2>1, InitType
<1>2. IInv /\ [Next]_vars => IInv'
  BY TypeStep, ApprovalStep, OwnedStep, CompletionStep
<1>3. IInv => CompletedIsDrained
  BY DEF Completion, CompletedIsDrained, OnTheWay, Coming, Running, Drained, Spent
<1> HIDE DEF IInv
<1>4. IInv /\ [][Next]_vars => []IInv
  BY <1>2, PTL
<1> QED BY <1>1, <1>3, <1>4, PTL DEF Spec
=============================================================================

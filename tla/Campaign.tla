------------------------------ MODULE Campaign ------------------------------
(***************************************************************************)
(* One broadcast campaign: its database row, its recipients' rows, the     *)
(* Celery queue "campaigns", the worker processes that run                 *)
(* workers/campaign_tasks.py, the API requests and the beat task that      *)
(* change the campaign behind their back, and the WhatsApp provider.       *)
(*                                                                         *)
(* One action is the code between two points where another process can     *)
(* run: a committed transaction, a read that a later write relies on, or a *)
(* call of the provider.  Every session keeps its objects after a commit   *)
(* (expire_on_commit=False) and flushes only the columns it changed, so a  *)
(* write is a blind update of those columns.                               *)
(***************************************************************************)
EXTENDS Naturals, FiniteSets

CONSTANTS
    Recipients,     \* rows of campaign_recipients
    Workers,        \* Celery worker processes consuming "campaigns"
    Requests,       \* API request handlers and beat tasks that may overlap
    Tokens,         \* a pool of uuid4 values: a new one is unused anywhere
    NoToken,        \* execution_token IS NULL
    NoRecipient,
    BatchSize,      \* 25, or 50 with the fast_campaigns flag
    Ops,            \* the operations issued in this instance
    Unsteady,       \* contacts that may opt out or be deleted
    Contended,      \* contacts whose rows other transactions may hold locked
    Faults,         \* which of "gateway", "throttled" and "lost" Meta shows and
                    \* which of "worker" and "request" processes may crash
    MaxCrashes,     \* bound on crashes and lost answers
    MayStall,       \* may a live run let its timestamps grow stale?
    ScheduledAhead  \* is scheduled_at in the future when we start?

ASSUME BatchSizeAssumption == BatchSize \in Nat \ {0}
ASSUME NoTokenAssumption == NoToken \notin Tokens
ASSUME NoRecipientAssumption == NoRecipient \notin Recipients
ASSUME MaxCrashesAssumption == MaxCrashes \in Nat
ASSUME UnsteadyAssumption == Unsteady \subseteq Recipients
ASSUME ContendedAssumption == Contended \subseteq Recipients
ASSUME FlagsAssumption == MayStall \in BOOLEAN /\ ScheduledAhead \in BOOLEAN

(***************************************************************************)
(* Next to some helpers stands a wrong variant, marked as such: the helper *)
(* as a plausible slip would have it.  Next never uses one; each is there  *)
(* to show that some property below does not survive the slip.             *)
(***************************************************************************)
VARIABLES
    campaign,       \* the campaigns row
    recipient,      \* the campaign_recipients rows
    contact,        \* what the contacts rows say of each recipient
    queue,          \* undelivered run_campaign messages, per token
    jobs,           \* pending campaign.start scheduled jobs, per token
    worker,         \* the workers' local state and ORM sessions
    request,        \* the requests' local state
    clock,          \* which of the campaign's dates are in the past
    crashes,        \* crashes so far
    copies,         \* ghost: messages Meta accepted per recipient, up to 2
    doubt,          \* ghost: attempts whose outcome nobody knows
    passed          \* ghost: rows the last SELECT skipped for a locked contact

vars == <<campaign, recipient, contact, queue, jobs, worker, request, clock,
          crashes, copies, doubt, passed>>

CampaignStatus == {"draft", "scheduled", "running", "completed",
                   "completed_with_errors", "paused", "cancelled", "failed"}
RecipientStatus == {"pending", "queued", "sending", "sent", "delivered",
                    "read", "failed", "skipped"}
Completed == {"completed", "completed_with_errors"}
Handed == {"sent", "delivered", "read"}
Age == {"none", "fresh", "stale"}       \* a timestamp against its cutoff

Outcomes == {"sent", "noid", "gateway", "throttled", "rejected", "invalid"}
WorkerPc == {"idle", "loop", "check", "mark", "send", "record", "finish"}
RequestOp == {"none", "approve", "pause", "cancel", "start", "retry", "recover"}
RequestPc == {"idle", "write", "dispatch", "running"}

IdleWorker == [pc |-> "idle", token |-> NoToken, rows |-> {}, todo |-> {},
               cur |-> NoRecipient, known |-> {}, out |-> {}, locked |-> FALSE,
               failed |-> FALSE, seen |-> "draft", outcome |-> "invalid",
               late |-> 0]
IdleRequest == [op |-> "none", pc |-> "idle", token |-> NoToken,
                seen |-> "draft"]

CampaignRow == [status : CampaignStatus, token : Tokens \cup {NoToken},
                approved : BOOLEAN, started : BOOLEAN, heartbeat : Age]
RecipientRow == [status : RecipientStatus, ext : BOOLEAN, since : Age]
WorkerRecord == [pc : WorkerPc, token : Tokens \cup {NoToken},
                 rows : SUBSET Recipients, todo : SUBSET Recipients,
                 cur : Recipients \cup {NoRecipient},
                 known : SUBSET Recipients, out : SUBSET Recipients,
                 locked : BOOLEAN, failed : BOOLEAN, seen : CampaignStatus,
                 outcome : Outcomes, late : 0..2]
RequestRecord == [op : RequestOp, pc : RequestPc,
                  token : Tokens \cup {NoToken}, seen : CampaignStatus]

\* A worker past its check has a row.
WorkerState ==
    {me \in WorkerRecord :
       me.pc \in {"mark", "send", "record"} => me.cur \in Recipients}

\* A request past its first commit dispatches a task, and one about to write
\* RUNNING is not a start.
RequestState ==
    {me \in RequestRecord :
       /\ me.pc = "dispatch" => me.op \in {"start", "retry", "recover"}
       /\ me.pc = "running" => me.op \in {"retry", "recover"}}

\* The types of the rows and of the processes' local state, and which local
\* fields go with which place in the code.
TypeOK ==
    /\ campaign \in CampaignRow
    /\ recipient \in [Recipients -> RecipientRow]
    /\ contact \in [Recipients -> {"ok", "optout", "deleted"}]
    /\ queue \in [Tokens -> Nat]
    /\ jobs \in [Tokens -> Nat]
    /\ worker \in [Workers -> WorkerState]
    /\ request \in [Requests -> RequestState]
    /\ clock \in [old : BOOLEAN, due : BOOLEAN]
    /\ crashes \in 0..MaxCrashes
    /\ copies \in [Recipients -> 0..2]
    /\ doubt \in [Recipients -> {"none", "interrupted", "gateway"}]
    /\ passed \subseteq Recipients

Init ==
    /\ campaign = [status |-> "draft", token |-> NoToken, approved |-> FALSE,
                   started |-> FALSE, heartbeat |-> "none"]
    /\ recipient = [r \in Recipients |->
                      [status |-> "pending", ext |-> FALSE, since |-> "none"]]
    /\ contact = [r \in Recipients |-> "ok"]
    /\ queue = [t \in Tokens |-> 0]
    /\ jobs = [t \in Tokens |-> 0]
    /\ worker = [w \in Workers |-> IdleWorker]
    /\ request = [q \in Requests |-> IdleRequest]
    /\ clock = [old |-> FALSE, due |-> ~ScheduledAhead]
    /\ crashes = 0
    /\ copies = [r \in Recipients |-> 0]
    /\ doubt = [r \in Recipients |-> "none"]
    /\ passed = {}

-----------------------------------------------------------------------------
(* Helpers *)

\* uuid4(): a value nobody holds.
Unused(t) ==
    /\ t # campaign.token /\ queue[t] = 0 /\ jobs[t] = 0
    /\ \A w \in Workers : worker[w].token # t
    /\ \A q \in Requests : request[q].token # t

\* The rows a worker holds FOR UPDATE: from its SELECT to its next commit.
Locked(w) == IF worker[w].locked THEN worker[w].rows ELSE {}

\* Wrong variant: the token is not compared again after the task has begun.
StoppedByStatus(w) == campaign.status \in {"paused", "cancelled"}

\* The refreshed campaign row tells worker w to stop.
Stopped(w) == \/ campaign.token # worker[w].token
              \/ campaign.status \in {"paused", "cancelled"}

Plus(f, t) == [f EXCEPT ![t] = @ + 1]
Less(f, t) == [f EXCEPT ![t] = @ - 1]
TwoAtMost(n) == IF n < 2 THEN n + 1 ELSE 2

Become(w, r) == worker' = [worker EXCEPT ![w] = r]
Stop(w) == Become(w, IdleWorker)
Handle(q, r) == request' = [request EXCEPT ![q] = r]
Done(q) == Handle(q, IdleRequest)

\* The next row of the batch, or the loop's head when there is none left.
Advance(r) == [r EXCEPT !.pc = IF r.todo = {} THEN "loop" ELSE "check",
                           !.locked = FALSE, !.cur = NoRecipient,
                           !.outcome = "invalid"]

-----------------------------------------------------------------------------
(* The task _run_campaign of workers/campaign_tasks.py *)

\* Wrong variant: the task insists on SCHEDULED.
ScheduledOnly(t) == campaign.token = t /\ campaign.approved
                    /\ campaign.status = "scheduled"

\* Lines 36-41: the checks that end the task at once.
MayRun(t) == campaign.token = t /\ campaign.approved
             /\ campaign.status # "cancelled"

\* Lines 28-58: take a message off the queue, lock the row, decide, RUNNING.
Begin(w, t) ==
    /\ worker[w].pc = "idle" /\ queue[t] > 0
    /\ queue' = Less(queue, t)
    /\ IF MayRun(t)
       THEN /\ campaign' = [campaign EXCEPT !.status = "running",
                                            !.started = TRUE,
                                            !.heartbeat = "fresh"]
            /\ Become(w, [IdleWorker EXCEPT !.pc = "loop", !.token = t])
       ELSE UNCHANGED <<campaign, worker>>
    /\ UNCHANGED <<recipient, contact, jobs, request, clock, crashes, copies,
                   doubt, passed>>

\* Wrong variant: an interrupted send goes back to the queue.
SweptForResend ==
    [r \in Recipients |->
        IF recipient[r].status = "sending" /\ recipient[r].since = "stale"
        THEN [recipient[r] EXCEPT !.status = "queued"] ELSE recipient[r]]

\* Lines 74-88: an interrupted send becomes FAILED once it is stale.
Swept == [r \in Recipients |->
            IF /\ recipient[r].status = "sending"
               /\ recipient[r].since = "stale"
               /\ ~recipient[r].ext
            THEN [recipient[r] EXCEPT !.status = "failed", !.since = "none"]
            ELSE recipient[r]]

\* Wrong variant: rows put back after a 429 are forgotten.
PendingOnly(w) ==
    {r \in Recipients : /\ recipient[r].status = "pending"
                        /\ contact[r] # "deleted"
                        /\ \A v \in Workers \ {w} : r \notin Locked(v)}

\* Lines 89-103: the rows the SELECT is after.
Due(w) ==
    {r \in Recipients : /\ recipient[r].status \in {"pending", "queued"}
                        /\ contact[r] # "deleted"
                        /\ \A v \in Workers \ {w} : r \notin Locked(v)}

\* FOR UPDATE SKIP LOCKED covers the joined contacts too: a row whose contact
\* another transaction holds (an edit, a webhook, a batch of another campaign)
\* is not returned.
Claimable(w, busy) == Due(w) \ busy

Batches(w, busy) ==
    LET n == Cardinality(Claimable(w, busy))
    IN  {B \in SUBSET Claimable(w, busy) :
            Cardinality(B) = IF n < BatchSize THEN n ELSE BatchSize}

\* The session after the SELECT: a row still in its identity map (the previous
\* batch) keeps its old attributes.
Loaded(w, B) ==
    LET old == B \cap worker[w].rows
        new == B \ worker[w].rows
    IN  [worker[w] EXCEPT
           !.pc = IF B = {} THEN "finish" ELSE "check",
           !.rows = B, !.todo = B, !.locked = TRUE,
           !.known = (@ \cap old) \cup {r \in new : recipient[r].ext},
           !.out = (@ \cap old) \cup {r \in new : contact[r] = "optout"},
           !.seen = campaign.status]

\* Lines 67-105: refresh the campaign, sweep, select a batch.
Claim(w) ==
    /\ worker[w].pc = "loop"
    /\ IF Stopped(w)
       THEN Stop(w) /\ UNCHANGED <<recipient, passed>>
       ELSE /\ recipient' = Swept
            /\ \E busy \in SUBSET Contended :
                 /\ \E B \in Batches(w, busy) : Become(w, Loaded(w, B))
                 /\ passed' = Due(w) \cap busy
    /\ UNCHANGED <<campaign, contact, queue, jobs, request, clock, crashes,
                   copies, doubt>>

Chosen(w, r) == [worker[w] EXCEPT !.pc = "mark", !.cur = r, !.todo = @ \ {r}]

\* Lines 107-114: before each row only the campaign is refreshed.
Check(w) ==
    /\ worker[w].pc = "check"
    /\ \E r \in worker[w].todo :
         IF Stopped(w)
         THEN Stop(w)
         ELSE Become(w, Chosen(w, r))
    /\ UNCHANGED <<campaign, recipient, contact, queue, jobs, request, clock,
                   crashes, copies, doubt, passed>>

\* Lines 116-142: skip an opt-out, close a row that has an id, or commit
\* SENDING before the provider is called.
Mark(w) ==
    LET me == worker[w]  r == worker[w].cur IN
    /\ me.pc = "mark"
    /\ \A v \in Workers \ {w} : r \notin Locked(v)
    /\ \/ /\ r \in me.out
          /\ recipient' = [recipient EXCEPT ![r].status = "skipped"]
          /\ Become(w, Advance(me))
       \/ /\ r \notin me.out /\ r \in me.known
          /\ recipient' = [recipient EXCEPT ![r].status = "sent",
                                            ![r].since = "none"]
          /\ Become(w, Advance(me))
       \/ /\ r \notin me.out /\ r \notin me.known
          /\ recipient' = [recipient EXCEPT ![r].status = "sending",
                                            ![r].since = "fresh"]
          /\ Become(w, [me EXCEPT !.pc = "send", !.locked = FALSE])
    /\ campaign' = [campaign EXCEPT !.heartbeat = "fresh"]
    /\ UNCHANGED <<contact, queue, jobs, request, clock, crashes, copies,
                   doubt, passed>>

Answered(w, o) ==
    [worker[w] EXCEPT
       !.pc = "record", !.outcome = o,
       !.late = IF campaign.token = worker[w].token THEN @ ELSE TwoAtMost(@)]

\* Lines 144-171, 199-200: the provider's answer to client.send_template.  A
\* gateway error (500, 502, 503, 504) may hide an accepted message, 429 cannot.
Call(w) ==
    LET r == worker[w].cur IN
    /\ worker[w].pc = "send"
    /\ \E o \in Outcomes \ ({"gateway", "throttled"} \ Faults) :
         /\ Become(w, Answered(w, o))
         /\ \/ o \in {"sent", "noid", "gateway"}
               /\ copies' = [copies EXCEPT ![r] = TwoAtMost(@)]
            \/ o \notin {"sent", "noid"} /\ copies' = copies
         /\ doubt' = IF o = "gateway" THEN [doubt EXCEPT ![r] = "gateway"]
                                      ELSE doubt
    /\ UNCHANGED <<campaign, recipient, contact, queue, jobs, request, clock,
                   crashes, passed>>

\* An httpx timeout or a broken connection is no MetaAPIError: it leaves
\* _run_campaign, the session rolls back and the message may have been accepted.
CallLost(w) ==
    LET r == worker[w].cur IN
    /\ worker[w].pc = "send" /\ "lost" \in Faults /\ crashes < MaxCrashes
    /\ crashes' = crashes + 1
    /\ copies' \in {copies, [copies EXCEPT ![r] = TwoAtMost(@)]}
    /\ doubt' = [doubt EXCEPT ![r] = "interrupted"]
    /\ Stop(w)
    /\ UNCHANGED <<campaign, recipient, contact, queue, jobs, request, clock,
                   passed>>

\* Wrong variants: a row without a usable phone number counts as sent; a
\* rejected row is left as it was.
InvalidIsSent(o) == IF o \in {"sent", "noid", "invalid"} THEN "sent"
                    ELSE IF o = "rejected" THEN "failed" ELSE "queued"
RejectedIsLeft(o) == IF o \in {"sent", "noid"} THEN "sent"
                     ELSE IF o = "rejected" THEN "sending"
                     ELSE IF o = "invalid" THEN "failed" ELSE "queued"

\* The status each answer leaves.
Meaning(o) == CASE o \in {"sent", "noid"}          -> "sent"
                [] o \in {"gateway", "throttled"}  -> "queued"
                [] o \in {"rejected", "invalid"}   -> "failed"

Recorded(w) ==
    LET me == worker[w] IN
    [Advance(me) EXCEPT
       !.known = IF me.outcome = "sent" THEN @ \cup {me.cur} ELSE @,
       !.failed = IF me.outcome \in {"rejected", "invalid"} THEN TRUE ELSE @]

\* Lines 150-221: commit what the answer means.
Record(w) ==
    LET r == worker[w].cur  o == worker[w].outcome IN
    /\ worker[w].pc = "record"
    /\ recipient' = [recipient EXCEPT ![r] =
                       [status |-> Meaning(o), since |-> "none",
                        ext |-> IF o = "sent" THEN TRUE ELSE @.ext]]
    /\ Become(w, Recorded(w))
    /\ UNCHANGED <<campaign, contact, queue, jobs, request, clock, crashes,
                   copies, doubt, passed>>

\* Lines 223-228: no rows were left when the worker looked.  The status column
\* is written unless the session already shows that value.
Finish(w) ==
    LET done == IF worker[w].failed THEN "completed_with_errors"
                                    ELSE "completed"
    IN
    /\ worker[w].pc = "finish"
    /\ campaign' = [campaign EXCEPT !.status = IF worker[w].seen = done THEN @
                                                                  ELSE done]
    /\ Stop(w)
    /\ UNCHANGED <<recipient, contact, queue, jobs, request, clock, crashes,
                   copies, doubt, passed>>

\* A worker process dies: its transaction rolls back, its message was already
\* acknowledged (Celery's default), and Meta may or may not have the message.
WorkerCrash(w) ==
    LET me == worker[w] IN
    /\ me.pc # "idle" /\ "worker" \in Faults /\ crashes < MaxCrashes
    /\ crashes' = crashes + 1
    /\ doubt' = IF me.pc \in {"send", "record"}
                THEN [doubt EXCEPT ![me.cur] = "interrupted"] ELSE doubt
    /\ Stop(w)
    /\ UNCHANGED <<campaign, recipient, contact, queue, jobs, request, clock,
                   copies, passed>>

-----------------------------------------------------------------------------
(* API requests and the recovery task *)

\* The status each handler insists on when it reads the row.
Accepts(op) ==
    CASE op = "approve" -> {"draft", "paused"}
      [] op = "pause"   -> {"scheduled", "running"}
      [] op = "cancel"  -> CampaignStatus \ {"completed", "cancelled"}
      [] op = "retry"   -> Completed \cup {"paused", "failed"}

\* get_campaign without a lock: the handler keeps what it saw.
Read(q, op) ==
    /\ request[q].pc = "idle"
    /\ campaign.status \in Accepts(op)
    /\ Handle(q, [IdleRequest EXCEPT !.op = op, !.pc = "write",
                                     !.seen = campaign.status])
    /\ UNCHANGED <<campaign, recipient, contact, queue, jobs, worker, clock,
                   crashes, copies, doubt, passed>>

\* The commit of approve_campaign, pause_campaign and cancel_campaign.
Write(q) ==
    /\ request[q].pc = "write" /\ request[q].op \in {"approve", "pause", "cancel"}
    /\ campaign' =
         CASE request[q].op = "approve" -> [campaign EXCEPT !.approved = TRUE]
           [] request[q].op = "pause"   -> [campaign EXCEPT !.status = "paused"]
           [] request[q].op = "cancel"  -> [campaign EXCEPT !.status = "cancelled"]
    /\ Done(q)
    /\ UNCHANGED <<recipient, contact, queue, jobs, worker, clock, crashes,
                   copies, doubt, passed>>

\* Wrong variant: the approval is left to the worker.
StartableAnyway == campaign.status \in {"draft", "scheduled", "paused"}

\* Lines 285-290 of campaigns.py; create_campaign always requires approval.
Startable == campaign.status \in {"draft", "scheduled", "paused"}
             /\ campaign.approved

\* prepare_campaign_start: one transaction under FOR UPDATE.
PrepareStart(q) ==
    /\ request[q].pc = "idle" /\ "start" \in Ops
    /\ Startable
    /\ \E t \in Tokens :
         /\ Unused(t)
         /\ campaign' = [campaign EXCEPT !.status = "scheduled", !.token = t]
    /\ Handle(q, [IdleRequest EXCEPT !.op = "start", !.pc = "dispatch"])
    /\ UNCHANGED <<recipient, contact, queue, jobs, worker, clock, crashes,
                   copies, doubt, passed>>

\* Wrong variant: a retry also resets the rows nobody has delivered yet.
ResettableUndelivered ==
    {r \in Recipients : recipient[r].status \in {"failed", "sent"}}

\* The rows the retry's UPDATE matches.
Resettable == {r \in Recipients : recipient[r].status = "failed"}

\* retry_failed_campaign_recipients up to its first commit.
RetryReset(q) ==
    LET reset == Resettable IN
    /\ request[q].pc = "write" /\ request[q].op = "retry"
    /\ IF reset = {}
       THEN /\ Done(q)
            /\ UNCHANGED <<campaign, recipient, doubt, passed>>
       ELSE /\ recipient' = [r \in Recipients |->
                 IF r \in reset THEN [status |-> "pending", ext |-> FALSE,
                                      since |-> "none"]
                                ELSE recipient[r]]
            /\ doubt' = [r \in Recipients |->
                           IF r \in reset THEN "none" ELSE doubt[r]]
            /\ \E t \in Tokens :
                 /\ Unused(t)
                 /\ campaign' = [campaign EXCEPT !.status = "scheduled",
                                                 !.token = t,
                                                 !.heartbeat = "fresh"]
            /\ Handle(q, [request[q] EXCEPT !.pc = "dispatch"])
    /\ UNCHANGED <<contact, queue, jobs, worker, clock, crashes, copies,
                   passed>>

\* campaign.scheduled_at > now, line 287 of api/routes/campaigns.py.
Ahead == ~clock.due

\* start stores a job while scheduled_at is ahead ...
Deferred(q) == request[q].op = "start" /\ Ahead

\* Wrong variant: start goes on after it has stored the job.
SentAnyway(q) == q \in Requests

\* ... and returns; otherwise the task is sent.
SentNow(q) == ~Deferred(q)

\* Wrong variant: start writes RUNNING too.
MarksToo(q) == [request[q] EXCEPT !.pc = "running", !.seen = campaign.status]

\* start is done; retry has its last commit before it.
Dispatched(q) == IF request[q].op = "start" THEN IdleRequest
                 ELSE [request[q] EXCEPT !.pc = "running",
                                         !.seen = campaign.status]

\* After the commit, start and retry refresh the row and hand on the token they
\* find there.
Dispatch(q) ==
    /\ request[q].pc = "dispatch" /\ request[q].op \in {"start", "retry"}
    /\ jobs' = IF Deferred(q) THEN Plus(jobs, campaign.token) ELSE jobs
    /\ queue' = IF SentNow(q) THEN Plus(queue, campaign.token) ELSE queue
    /\ Handle(q, Dispatched(q))
    /\ UNCHANGED <<campaign, recipient, contact, worker, clock, crashes, copies,
                   doubt, passed>>

\* recover_stuck_campaigns, lines 25-48: the snapshot of stuck campaigns.
Stuck == \/ campaign.status = "running" /\ campaign.heartbeat = "stale"
         \/ campaign.status = "scheduled" /\ ~campaign.started /\ clock.old

RecoverRead(q) ==
    /\ request[q].pc = "idle" /\ "recover" \in Ops /\ Stuck
    /\ Handle(q, [IdleRequest EXCEPT !.op = "recover", !.pc = "write",
                                     !.seen = campaign.status])
    /\ UNCHANGED <<campaign, recipient, contact, queue, jobs, worker, clock,
                   crashes, copies, doubt, passed>>

\* Lines 51-54: a new token; SCHEDULED only if the snapshot said otherwise.
RecoverWrite(q) ==
    /\ request[q].pc = "write" /\ request[q].op = "recover"
    /\ \E t \in Tokens :
         /\ Unused(t)
         /\ campaign' = [campaign EXCEPT
              !.token = t,
              !.status = IF request[q].seen = "scheduled" THEN @
                                                          ELSE "scheduled"]
         /\ Handle(q, [request[q] EXCEPT !.pc = "dispatch", !.token = t])
    /\ UNCHANGED <<recipient, contact, queue, jobs, worker, clock, crashes,
                   copies, doubt, passed>>

\* Lines 55-58: recovery sends the token it wrote, without a refresh.
RecoverDispatch(q) ==
    /\ request[q].pc = "dispatch" /\ request[q].op = "recover"
    /\ queue' = Plus(queue, request[q].token)
    /\ Handle(q, [request[q] EXCEPT !.pc = "running", !.token = NoToken,
                                    !.seen = "scheduled"])
    /\ UNCHANGED <<campaign, recipient, contact, jobs, worker, clock, crashes,
                   copies, doubt, passed>>

\* Wrong variant: recovery leaves last_heartbeat_at alone.
MarkRunningOnly(q) ==
    /\ request[q].pc = "running"
    /\ campaign' = [campaign EXCEPT !.status = "running"]
    /\ Done(q)
    /\ UNCHANGED <<recipient, contact, queue, jobs, worker, clock, crashes,
                   copies, doubt, passed>>

\* The last commit of recovery (59-62) and of retry (117-119): RUNNING unless
\* the session already shows it; recovery also writes the heartbeat.
MarkRunning(q) ==
    /\ request[q].pc = "running"
    /\ campaign' = [campaign EXCEPT
         !.status = IF request[q].seen = "running" THEN @ ELSE "running",
         !.heartbeat = IF request[q].op = "recover" THEN "fresh" ELSE @]
    /\ Done(q)
    /\ UNCHANGED <<recipient, contact, queue, jobs, worker, clock, crashes,
                   copies, doubt, passed>>

\* A request dies between two of its commits, or the broker refuses the task.
RequestCrash(q) ==
    /\ request[q].pc # "idle" /\ "request" \in Faults /\ crashes < MaxCrashes
    /\ crashes' = crashes + 1
    /\ Done(q)
    /\ UNCHANGED <<campaign, recipient, contact, queue, jobs, worker, clock,
                   copies, doubt, passed>>

-----------------------------------------------------------------------------
(* The scheduler, the provider's reports, contacts, and time *)

\* scheduler_tasks._handle_job for campaign.start, with its claim.
RunJob(t) ==
    /\ clock.due /\ jobs[t] > 0
    /\ jobs' = Less(jobs, t)
    /\ queue' = Plus(queue, t)
    /\ UNCHANGED <<campaign, recipient, contact, worker, request, clock,
                   crashes, copies, doubt, passed>>

\* whatsapp.py 741-812: a status webhook overwrites the row that has its id.
StatusWebhook(r) ==
    /\ "webhook" \in Ops /\ recipient[r].ext
    /\ \E s \in Handed \cup {"failed"} :
         recipient' = [recipient EXCEPT ![r].status = s]
    /\ UNCHANGED <<campaign, contact, queue, jobs, worker, request, clock,
                   crashes, copies, doubt, passed>>

\* An edit of the contact waits for the worker that has it FOR UPDATE.
ContactChanges(r) ==
    /\ r \in Unsteady /\ contact[r] = "ok"
    /\ \A w \in Workers : r \notin Locked(w)
    /\ \E c \in {"optout", "deleted"} : contact' = [contact EXCEPT ![r] = c]
    /\ UNCHANGED <<campaign, recipient, queue, jobs, worker, request, clock,
                   crashes, copies, doubt, passed>>

\* Created more than STALE_SCHEDULED_MINUTES ago; scheduled_at reached.
TimePasses ==
    /\ \/ ~clock.old /\ clock' = [clock EXCEPT !.old = TRUE]
       \/ ~clock.due /\ clock' = [clock EXCEPT !.due = TRUE]
    /\ UNCHANGED <<campaign, recipient, contact, queue, jobs, worker, request,
                   crashes, copies, doubt, passed>>

\* STALE_SENDING_MINUTES pass since the row was marked.
SendAges(r) ==
    /\ recipient[r].status = "sending" /\ recipient[r].since = "fresh"
    /\ MayStall \/ \A w \in Workers : worker[w].cur # r
    /\ recipient' = [recipient EXCEPT ![r].since = "stale"]
    /\ UNCHANGED <<campaign, contact, queue, jobs, worker, request, clock,
                   crashes, copies, doubt, passed>>

\* STALE_RUNNING_MINUTES (15) pass since the heartbeat.  Every mark is at least
\* as old as the heartbeat, and STALE_SENDING_MINUTES is 10.
HeartbeatAges ==
    /\ campaign.status = "running" /\ campaign.heartbeat = "fresh"
    /\ \A r \in Recipients : recipient[r].status = "sending"
                               => recipient[r].since # "fresh"
    /\ \/ MayStall
       \/ /\ \A t \in Tokens : queue[t] = 0
          /\ \A w \in Workers : worker[w].pc = "idle"
    /\ campaign' = [campaign EXCEPT !.heartbeat = "stale"]
    /\ UNCHANGED <<recipient, contact, queue, jobs, worker, request, clock,
                   crashes, copies, doubt, passed>>

-----------------------------------------------------------------------------
WorkerStep(w) ==
    \/ \E t \in Tokens : Begin(w, t)
    \/ Claim(w) \/ Check(w) \/ Mark(w) \/ Call(w) \/ Record(w) \/ Finish(w)

RequestStep(q) ==
    \/ Write(q) \/ RetryReset(q) \/ Dispatch(q)
    \/ RecoverWrite(q) \/ RecoverDispatch(q) \/ MarkRunning(q)

Next ==
    \/ \E w \in Workers : WorkerStep(w) \/ CallLost(w) \/ WorkerCrash(w)
    \/ \E q \in Requests :
         \/ \E op \in Ops \cap {"approve", "pause", "cancel", "retry"} :
               Read(q, op)
         \/ PrepareStart(q) \/ RecoverRead(q) \/ RequestStep(q)
         \/ RequestCrash(q)
    \/ \E t \in Tokens : RunJob(t)
    \/ \E r \in Recipients : StatusWebhook(r) \/ ContactChanges(r) \/ SendAges(r)
    \/ TimePasses \/ HeartbeatAges

Spec == Init /\ [][Next]_vars

\* The workers that consume "campaigns" go on.  Users, faults and the clock are
\* under no obligation, and neither is the beat task recover_stuck_campaigns:
\* celery_app.py:31-35 leaves it in the queue "celery", which the deployed worker
\* does not consume (compose.yaml:35).
Fairness == \A w \in Workers : WF_vars(WorkerStep(w))

FairSpec == Spec /\ Fairness

-----------------------------------------------------------------------------
(* Invariants *)

\* approve_campaign comes first: no execution token is issued, no task gets
\* past its first lines and no message leaves before approved_at is set,
\* whatever start, retry and recovery do to the row in the meantime.
ApprovedBeforeSend ==
    (\/ campaign.token # NoToken
     \/ \E w \in Workers : worker[w].pc # "idle"
     \/ \E r \in Recipients : copies[r] > 0) => campaign.approved

\* recover_stuck_campaigns finds a RUNNING row by last_heartbeat_at < cutoff,
\* which NULL never satisfies: every RUNNING row must have a heartbeat, the
\* blind RUNNING writes of retry and recovery included.
RunningHasHeartbeat ==
    campaign.status = "running" => campaign.heartbeat # "none"

\* The report counts sent, delivered and read rows: the provider accepted a
\* message for each of them, even when two workers overwrite each other's rows.
HandedMeansAccepted ==
    \A r \in Recipients :
        recipient[r].ext \/ recipient[r].status \in Handed => copies[r] > 0

\* A row in SENDING is being sent by some worker, or its send was interrupted
\* (and only the sweep of a later batch can move it on).
SendingIsOwned ==
    \A r \in Recipients :
        recipient[r].status = "sending" =>
            \/ doubt[r] = "interrupted"
            \/ \E w \in Workers : /\ worker[w].pc \in {"send", "record"}
                                   /\ worker[w].cur = r

\* A token is delivered to one run only: two tasks never both pass the token
\* check of line 36 with the same token.
OneRunPerToken ==
    \A t \in Tokens :
        queue[t] + jobs[t] + Cardinality({w \in Workers : worker[w].token = t})
            <= 1

\* A worker whose run was superseded calls the provider once more at most: for
\* the row it had already chosen.
SupersededStops == \A w \in Workers : worker[w].late <= 1

\* With one worker at a time, and until an answer is lost or a process dies, no
\* pause, restart, cancellation or retry makes the provider accept two messages
\* for a row.
AtMostOneCopy == crashes = 0 => \A r \in Recipients : copies[r] <= 1

\* Until an answer is lost or a process dies, a campaign that is COMPLETED with no
\* run of its token on the way has no row left to send, except those of deleted
\* contacts and those that its last SELECT passed over because another
\* transaction held the contact: these are left behind for good.
OnTheWay ==
    \/ \E t \in Tokens : campaign.token = t /\ queue[t] + jobs[t] > 0
    \/ \E w \in Workers : /\ worker[w].pc # "idle"
                           /\ worker[w].token = campaign.token
    \/ \E q \in Requests : request[q].pc = "dispatch"

CompletedIsDrained ==
    crashes = 0 /\ campaign.status \in Completed /\ ~OnTheWay =>
        \A r \in Recipients :
            \/ contact[r] = "deleted" \/ r \in passed
            \/ recipient[r].status \notin {"pending", "queued", "sending"}

\* An interrupted send is never repeated unless a person asked for a retry.
NoResendInDoubt ==
    \A w \in Workers :
        worker[w].pc = "send" => doubt[worker[w].cur] # "interrupted"

-----------------------------------------------------------------------------
(* Liveness *)

\* Stopped by a person, superseded by another start, or finished.
Over(t) ==
    \/ campaign.token # t
    \/ campaign.status \in Completed \cup {"paused", "cancelled"}

\* What recover_stuck_campaigns looks for, whatever the age of its dates.
Recoverable ==
    \/ campaign.status = "running" /\ campaign.heartbeat # "none"
    \/ campaign.status = "scheduled" /\ ~campaign.started

\* The task of a campaign's token, once at the broker, ends the campaign through
\* pauses, retries, blind RUNNING writes and changes of contacts, unless a person
\* stops or restarts it.  Only a crash or a lost answer that comes after can
\* prevent it, and it leaves a row that recovery would recognise.
StartedFinishes ==
    \A t \in Tokens : \A n \in 0..MaxCrashes :
        campaign.token = t /\ queue[t] > 0 /\ crashes = n
            ~> Over(t) \/ (crashes > n /\ Recoverable)

-----------------------------------------------------------------------------
(* What the documents promise and the code does not keep *)

\* "concurrent workers cannot claim the same recipient"
NoSharedRecipient ==
    \A v, w \in Workers :
        /\ v # w
        /\ worker[v].pc \in {"send", "record"}
        /\ worker[w].pc \in {"send", "record"}
        => worker[v].cur # worker[w].cur

\* "Campaign tasks stop when superseded, paused or cancelled": a paused or
\* cancelled campaign does not go back to running, or on to completed, unless
\* it is scheduled again.
StopIsKept ==
    [][campaign.status \in {"paused", "cancelled"} =>
         campaign'.status \in {"paused", "cancelled", "scheduled"}]_vars

\* "Ambiguous sends therefore require reconciliation instead of automatic
\* resend"
NoResendAfterGatewayError ==
    \A w \in Workers :
        worker[w].pc = "send" => doubt[worker[w].cur] # "gateway"
=============================================================================

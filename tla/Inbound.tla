------------------------------ MODULE Inbound ------------------------------
(***************************************************************************)
(* A WhatsApp webhook from Meta's call to the stored message and its side  *)
(* effects: the ingress that stores the payload (services/                 *)
(* webhook_ingress.py), the task with its retries and the sweep of dead    *)
(* letters (workers/webhook_tasks.py, reliability_tasks.py), and the       *)
(* processing of one payload, message by message (services/whatsapp.py     *)
(* store_and_process_webhook, services/inbound_whatsapp.py).               *)
(* An operator marked "wrong" is the one after it with a plausible slip:   *)
(* it is never used, and shows that some property notices the slip.        *)
(***************************************************************************)
EXTENDS Naturals, Sequences, FiniteSets, Bags

CONSTANTS
    Hooks,          \* payloads Meta sends, each with its own external_event_key
    Messages,       \* external message ids
    Contacts,       \* sender addresses on one channel
    Content,        \* the messages of each payload, in order
    Sender,         \* who sent a message
    Invalid,        \* messages whose sender is no phone number
    Events,         \* primary keys of webhook_events
    Requests, Workers,
    NoHook, NoEvent,
    MaxRetries,     \* MAX_WEBHOOK_ATTEMPTS - 1
    Upsets,         \* which of "request", "worker" (a process dies), "outage",
                    \* "effects" (an await raises), "broker" (apply_async raises),
                    \* "delete", "status" and "account" (users) happen
    MaxCalls, MaxUpsets, MaxCopies     \* bounds, see Upset and Cap

ASSUME InboundAssumption ==
    /\ NoHook \notin Hooks /\ NoEvent \notin Events
    /\ Content \in [Hooks -> Seq(Messages)] /\ Sender \in [Messages -> Contacts]
    /\ Invalid \subseteq Messages
    /\ MaxRetries \in Nat /\ {MaxCalls, MaxUpsets, MaxCopies} \subseteq Nat

VARIABLES
    event,          \* webhook_events, the rows of whole payloads
    request,        \* POST /whatsapp/webhook
    queue,          \* undelivered process_whatsapp tasks: bag of <<event, retries>>
    worker,
    stored,         \* external ids in messages
    contact,        \* the contacts row of an address
    convs,          \* the statuses of a contact's conversations: one row each,
                    \* by uq_conversations_contact_channel_status
    answered,       \* payloads Meta got its 200 for
    active,         \* the WhatsApp account of the payloads is known and ACTIVE
    outage,         \* statements may raise (the database, Redis, a media download)
    calls, upsets, history              \* bounds, and a ghost

vars == <<event, request, queue, worker, stored, contact, convs, answered,
          active, outage, calls, upsets, history>>

EventStatus == {"absent", "received", "processed", "failed"}
ConvStatus == {"open", "pending", "closed", "spam"}
Live == {"open", "pending"}
WorkerPc == {"idle", "item", "ignored", "persist", "again", "effects", "failed",
             "retry", "dispatch"}
Request == [pc : {"idle", "insert", "dispatch"}, hook : Hooks \cup {NoHook},
            event : Events \cup {NoEvent}]
IdleRequest == [pc |-> "idle", hook |-> NoHook, event |-> NoEvent]

\* item: the position in the payload; known, talking: a live contact and
\* conversation were found; twice: the insert already conflicted once; errors:
\* processing_errors is not empty; spoiled: the session was rolled back, and its
\* expired objects raise when used; runs: automation_run_ids.
Worker == [pc : WorkerPc, event : Events \cup {NoEvent}, try : 0..MaxRetries,
           item : Nat, known : BOOLEAN, talking : BOOLEAN, twice : BOOLEAN,
           errors : BOOLEAN, spoiled : BOOLEAN, runs : SUBSET Messages]
IdleWorker == [pc |-> "idle", event |-> NoEvent, try |-> 0, item |-> 1,
               known |-> FALSE, talking |-> FALSE, twice |-> FALSE,
               errors |-> FALSE, spoiled |-> FALSE, runs |-> {}]

\* dropped: events a worker died with; ignored: PROCESSED for an account that
\* was not active; unmarked: the last try could not store its failure.
History == [effects : [Messages -> Nat], dispatched : [Messages -> Nat],
            dropped : SUBSET Events, ignored : SUBSET Events, unmarked : SUBSET Events]

TypeOK ==
    /\ event \in [Events -> [hook : Hooks \cup {NoHook}, status : EventStatus]]
    /\ request \in [Requests -> Request]
    /\ IsABag(queue) /\ BagToSet(queue) \subseteq Events \X (0..MaxRetries)
    /\ worker \in [Workers -> Worker]
    /\ stored \subseteq Messages /\ answered \subseteq Hooks
    /\ contact \in [Contacts -> {"absent", "live", "deleted"}]
    /\ convs \in [Contacts -> SUBSET ConvStatus]
    /\ active \in BOOLEAN /\ outage \in BOOLEAN
    /\ calls \in 0..MaxCalls /\ upsets \in 0..MaxUpsets
    /\ history \in History

Init ==
    /\ event = [e \in Events |-> [hook |-> NoHook, status |-> "absent"]]
    /\ request = [q \in Requests |-> IdleRequest]
    /\ queue = EmptyBag
    /\ worker = [w \in Workers |-> IdleWorker]
    /\ stored = {} /\ answered = {}
    /\ contact = [c \in Contacts |-> "absent"]
    /\ convs = [c \in Contacts |-> {}]
    /\ active = TRUE /\ outage = FALSE /\ calls = 0 /\ upsets = 0
    /\ history = [effects |-> [m \in Messages |-> 0],
                  dispatched |-> [m \in Messages |-> 0],
                  dropped |-> {}, ignored |-> {}, unmarked |-> {}]

domainVars == <<stored, contact, convs, active, outage>>

\* Faults and the users' edits are bounded together.
Upset(u) == u \in Upsets /\ upsets < MaxUpsets /\ upsets' = upsets + 1

-----------------------------------------------------------------------------
(* Ingress *)

Matching(h) == {e \in Events : /\ event[e].hook = h
                               /\ event[e].status \in {"received", "processed"}}

\* persist_whatsapp_webhook's duplicate check: an event to use again, none, or
\* two, for which scalar_one_or_none raises and Meta gets a 500.
Reaction(h) ==
    CASE Matching(h) = {} -> [pc |-> "insert", hook |-> h, event |-> NoEvent]
      [] Cardinality(Matching(h)) = 1 ->
           [pc |-> "dispatch", hook |-> h, event |-> CHOOSE e \in Matching(h) : TRUE]
      [] OTHER -> IdleRequest

\* Meta calls, again if it likes.
ReceiveWebhook(q, h) ==
    /\ request[q].pc = "idle" /\ calls < MaxCalls /\ calls' = calls + 1
    /\ request' = [request EXCEPT ![q] = Reaction(h)]
    /\ UNCHANGED <<event, queue, worker, domainVars, answered, upsets, history>>

StoreWebhook(q) ==
    /\ request[q].pc = "insert"
    /\ \E e \in Events :
         /\ event[e].status = "absent"
         /\ e = CHOOSE x \in Events : event[x].status = "absent"
         /\ event' = [event EXCEPT ![e] = [hook |-> request[q].hook,
                                           status |-> "received"]]
         /\ request' = [request EXCEPT ![q].pc = "dispatch", ![q].event = e]
    /\ UNCHANGED <<queue, worker, domainVars, answered, calls, upsets, history>>

Enqueued(q) ==
    /\ queue' = queue (+) SetToBag({<<request[q].event, 0>>})
    /\ answered' = answered \cup {request[q].hook}

DispatchWebhook(q) ==
    /\ request[q].pc = "dispatch"
    /\ Enqueued(q)
    /\ request' = [request EXCEPT ![q] = IdleRequest]
    /\ UNCHANGED <<event, worker, domainVars, calls, upsets, history>>

RequestCrash(q) ==
    /\ request[q].pc # "idle" /\ Upset("request")
    /\ request' = [request EXCEPT ![q] = IdleRequest]
    /\ UNCHANGED <<event, queue, worker, domainVars, answered, calls, history>>

-----------------------------------------------------------------------------
(* process_whatsapp_webhook *)

Items(w) == Content[event[worker[w].event].hook]
Current(w) == Items(w)[worker[w].item]
From(w) == Sender[Current(w)]

\* The next message of the payload.
Advance(w, errors, spoiled, runs) ==
    worker' = [worker EXCEPT ![w] =
                 [IdleWorker EXCEPT !.pc = "item", !.event = worker[w].event,
                    !.try = worker[w].try, !.item = worker[w].item + 1,
                    !.errors = errors, !.spoiled = spoiled, !.runs = runs]]
Skip(w) == Advance(w, worker[w].errors, worker[w].spoiled, worker[w].runs)
Error(w) == Advance(w, TRUE, worker[w].spoiled, worker[w].runs)
Goto(w, pc) == worker' = [worker EXCEPT ![w].pc = pc]

\* The payload and its account are read; a payload is one change, and the
\* account is not looked at again.
ReceiveTask(w, e, n) ==
    /\ worker[w].pc = "idle" /\ BagIn(<<e, n>>, queue)
    /\ queue' = queue (-) SetToBag({<<e, n>>})
    /\ worker' = [worker EXCEPT ![w] = [IdleWorker EXCEPT
                    !.pc = IF active THEN "item" ELSE "ignored", !.event = e, !.try = n]]
    /\ UNCHANGED <<event, request, domainVars, answered, calls, upsets, history>>

\* find_duplicate_inbound, then the contact and its conversation, each with a
\* query of its own; what they find is used when the rows are inserted.
Found(w) ==
    LET c == From(w) IN
    [worker[w] EXCEPT !.pc = "persist", !.known = (contact[c] = "live"),
                      !.talking = (contact[c] = "live" /\ convs[c] \cap Live # {})]

\* INVALID_SENDER, or the session's expired objects: raised for every such message.
Unusable(w) == worker[w].spoiled \/ Current(w) \in Invalid

LookUp(w) ==
    /\ worker[w].pc = "item" /\ worker[w].item <= Len(Items(w))
    /\ \/ Current(w) \in stored /\ Skip(w)
       \/ Current(w) \notin stored /\ Unusable(w) /\ Error(w)
       \/ /\ Current(w) \notin stored /\ ~Unusable(w)
          /\ worker' = [worker EXCEPT ![w] = Found(w)]
    /\ UNCHANGED <<event, request, queue, domainVars, answered, calls, upsets,
                   history>>

\* The savepoint's second try; a deleted contact is not found, but keeps its
\* address in uq_contacts_org_channel_address.
LookUpAgain(w) ==
    /\ worker[w].pc = "again"
    /\ worker' = [worker EXCEPT ![w] = [Found(w) EXCEPT !.twice = TRUE]]
    /\ UNCHANGED <<event, request, queue, domainVars, answered, calls, upsets,
                   history>>

Conflict(w) ==
    \/ ~worker[w].known /\ contact[From(w)] # "absent"
    \/ ~worker[w].talking /\ "open" \in convs[From(w)]
    \/ Current(w) \in stored

\* Contact, conversation and message, committed together.
Persist(w) ==
    /\ worker[w].pc = "persist" /\ ~Conflict(w)
    /\ stored' = stored \cup {Current(w)}
    /\ contact' = IF worker[w].known THEN contact
                  ELSE [contact EXCEPT ![From(w)] = "live"]
    /\ convs' = IF worker[w].talking THEN convs
                ELSE [convs EXCEPT ![From(w)] = @ \cup {"open"}]
    /\ Goto(w, "effects")
    /\ UNCHANGED <<event, request, queue, answered, active, outage, calls, upsets,
                   history>>

\* IntegrityError: a duplicate is left alone, anything else is tried once more.
TreatAsNew(w) == Goto(w, IF Current(w) \in stored THEN "effects" ELSE "again")  \* wrong
AfterConflict(w) ==
    \/ Current(w) \in stored /\ Skip(w)
    \/ Current(w) \notin stored /\ ~worker[w].twice /\ Goto(w, "again")
    \/ Current(w) \notin stored /\ worker[w].twice /\ Error(w)

PersistConflict(w) ==
    /\ worker[w].pc = "persist" /\ Conflict(w)
    /\ AfterConflict(w)
    /\ UNCHANGED <<event, request, queue, domainVars, answered, calls, upsets,
                   history>>

\* Any other exception is logged and the next message processed.
PersistFails(w) ==
    /\ worker[w].pc = "persist" /\ outage
    /\ Error(w)
    /\ UNCHANGED <<event, request, queue, domainVars, answered, calls, upsets,
                   history>>

OutageBegins ==
    /\ ~outage /\ Upset("outage") /\ outage' = TRUE
    /\ UNCHANGED <<event, request, queue, worker, stored, contact, convs, answered,
                   active, calls, history>>
OutageEnds ==
    /\ outage /\ outage' = FALSE
    /\ UNCHANGED <<event, request, queue, worker, stored, contact, convs, answered,
                   active, calls, upsets, history>>

\* process_inbound_side_effects and its commit: orders, ratings, webhooks and one
\* QUEUED run per matching automation, here one per message.
SideEffects(w) ==
    /\ worker[w].pc = "effects"
    /\ history' = [history EXCEPT !.effects[Current(w)] = @ + 1]
    /\ Advance(w, worker[w].errors, worker[w].spoiled,
               worker[w].runs \cup {Current(w)})
    /\ UNCHANGED <<event, request, queue, domainVars, answered, calls, upsets>>

\* They raise: rolled back, and nothing repeats them.
SideEffectsFail(w) ==
    /\ worker[w].pc = "effects" /\ Upset("effects")
    /\ Advance(w, worker[w].errors, TRUE, worker[w].runs)
    /\ UNCHANGED <<event, request, queue, domainVars, answered, calls, history>>

\* The end of the payload, reached at once if its account is not active:
\* WebhookProcessingError, the exception of an expired object, or
\* mark_webhook_processed.
ErrorsLogged(w) == worker[w].spoiled                                 \* wrong
Raises(w) == worker[w].errors \/ worker[w].spoiled
AtEnd(w) == \/ worker[w].pc = "ignored"
            \/ worker[w].pc = "item" /\ worker[w].item > Len(Items(w))

EndOfBatch(w) ==
    /\ AtEnd(w)
    /\ \/ Raises(w) /\ Goto(w, "failed") /\ UNCHANGED <<event, history>>
       \/ /\ ~Raises(w)
          /\ event' = [event EXCEPT ![worker[w].event].status = "processed"]
          /\ history' = [history EXCEPT !.ignored =
                            @ \cup {x \in {worker[w].event} : worker[w].pc = "ignored"}]
          /\ Goto(w, "dispatch")
    /\ UNCHANGED <<request, queue, domainVars, answered, calls, upsets>>

\* A statement outside the loop raises: the load of the event, the query for the
\* account, the last commits, the realtime event.
TaskFails(w) ==
    /\ outage
    /\ AtEnd(w) \/ (worker[w].pc = "item" /\ worker[w].item = 1)
    /\ Goto(w, "failed")
    /\ UNCHANGED <<event, request, queue, domainVars, answered, calls, upsets, history>>

\* Celery keeps a task for another try while its retries are below max_retries.
OneTooMany(n) == n <= MaxRetries                                     \* wrong
Retryable(n) == n < MaxRetries
LastTryWaits(n) == "received"                                        \* wrong
StatusAfter(n) == IF Retryable(n) THEN "received" ELSE "failed"

\* mark_webhook_failed.  It adds one to attempts inside the JSON value it was
\* given, which SQLAlchemy does not notice: the column keeps 0.
MarkFailed(w) ==
    /\ worker[w].pc = "failed"
    /\ event' = [event EXCEPT ![worker[w].event].status = StatusAfter(worker[w].try)]
    /\ Goto(w, "retry")
    /\ UNCHANGED <<request, queue, domainVars, answered, calls, upsets, history>>

\* _mark_failed raises as well, both times if it is the last try: the event keeps
\* its status.
MarkFails(w) ==
    /\ worker[w].pc = "failed" /\ outage
    /\ history' = [history EXCEPT !.unmarked =
                      @ \cup {x \in {worker[w].event} : ~Retryable(worker[w].try)}]
    /\ Goto(w, "retry")
    /\ UNCHANGED <<event, request, queue, domainVars, answered, calls, upsets>>

Uncounted(w) ==                                                      \* wrong
    LET n == worker[w].try IN
    queue' = IF Retryable(n) THEN queue (+) SetToBag({<<worker[w].event, n>>}) ELSE queue
Requeued(w) ==
    LET n == worker[w].try IN
    queue' = IF Retryable(n) THEN queue (+) SetToBag({<<worker[w].event, n + 1>>})
             ELSE queue

Retry(w) ==
    /\ worker[w].pc = "retry"
    /\ Requeued(w)
    /\ worker' = [worker EXCEPT ![w] = IdleWorker]
    /\ UNCHANGED <<event, request, domainVars, answered, calls, upsets, history>>

\* execute_automation_run.apply_async for every run of the batch.
DispatchRuns(w) ==
    /\ worker[w].pc = "dispatch"
    /\ history' = [history EXCEPT !.dispatched =
                     [m \in Messages |-> @[m] + IF m \in worker[w].runs THEN 1 ELSE 0]]
    /\ worker' = [worker EXCEPT ![w] = IdleWorker]
    /\ UNCHANGED <<event, request, queue, domainVars, answered, calls, upsets>>

\* It raises outside the task's try: retried without mark_webhook_failed.
DispatchRefused(w) ==
    /\ worker[w].pc = "dispatch" /\ Upset("broker")
    /\ Requeued(w)
    /\ worker' = [worker EXCEPT ![w] = IdleWorker]
    /\ UNCHANGED <<event, request, domainVars, answered, calls, history>>

WorkerCrash(w) ==
    /\ worker[w].pc # "idle" /\ Upset("worker")
    /\ history' = [history EXCEPT !.dropped = @ \cup {worker[w].event}]
    /\ worker' = [worker EXCEPT ![w] = IdleWorker]
    /\ UNCHANGED <<event, request, queue, domainVars, answered, calls>>

WorkerStep(w) ==
    \/ LookUp(w) \/ LookUpAgain(w) \/ Persist(w) \/ PersistConflict(w)
    \/ SideEffects(w) \/ EndOfBatch(w) \/ MarkFailed(w) \/ Retry(w)
    \/ DispatchRuns(w)

\* retry_failed_webhooks, every two minutes.  Since attempts stays 0 no FAILED
\* event is ever passed over, and one already queued is queued again.
Sweepable == {e \in Events : event[e].status = "failed"}
Cap(e) == Cardinality({w \in Workers : worker[w].event = e})
            + BagCardinality([t \in {x \in DOMAIN queue : x[1] = e} |-> queue[t]])
              < MaxCopies
RetryFailedWebhooks ==
    /\ Sweepable # {} /\ \A e \in Sweepable : Cap(e)
    /\ queue' = queue (+) SetToBag(Sweepable \X {0})
    /\ UNCHANGED <<event, request, worker, domainVars, answered, calls, upsets,
                   history>>

-----------------------------------------------------------------------------
(* The inbox's users *)

DeleteContact(c) ==
    /\ contact[c] = "live" /\ Upset("delete")
    /\ contact' = [contact EXCEPT ![c] = "deleted"]
    /\ UNCHANGED <<event, request, queue, worker, stored, convs, answered, active,
                   outage, calls, history>>

\* update_conversation; a status the contact already has a row with is refused
\* by the database.
ChangeStatus(c, s, t) ==
    /\ s \in convs[c] /\ t \notin convs[c] /\ Upset("status")
    /\ convs' = [convs EXCEPT ![c] = (@ \ {s}) \cup {t}]
    /\ UNCHANGED <<event, request, queue, worker, stored, contact, answered, active,
                   outage, calls, history>>

\* disconnect_whatsapp_account, and connecting it again.
SwitchAccount ==
    /\ active' = ~active /\ (active => Upset("account")) /\ (~active => UNCHANGED upsets)
    /\ UNCHANGED <<event, request, queue, worker, stored, contact, convs, answered,
                   outage, calls, history>>

Next ==
    \/ \E q \in Requests : \/ \E h \in Hooks : ReceiveWebhook(q, h)
                           \/ StoreWebhook(q) \/ DispatchWebhook(q)
                           \/ RequestCrash(q)
    \/ \E w \in Workers : \/ \E t \in BagToSet(queue) : ReceiveTask(w, t[1], t[2])
                          \/ WorkerStep(w) \/ PersistFails(w) \/ SideEffectsFail(w)
                          \/ TaskFails(w) \/ MarkFails(w)
                          \/ DispatchRefused(w) \/ WorkerCrash(w)
    \/ RetryFailedWebhooks \/ OutageBegins \/ OutageEnds \/ SwitchAccount
    \/ \E c \in Contacts : \/ DeleteContact(c)
                           \/ \E s, t \in ConvStatus : ChangeStatus(c, s, t)

Spec == Init /\ [][Next]_vars

\* Live processes go on and Celery delivers what it stored.  Nothing makes Meta
\* call, a user act or an exception happen; nor does an outage have to end, or the
\* sweep to run, whose queue is not one that the deployed worker consumes
\* (celery_app.py:31-35, compose.yaml:35).
FairSpec ==
    /\ Spec
    /\ \A q \in Requests : WF_vars(StoreWebhook(q) \/ DispatchWebhook(q))
    /\ \A w \in Workers : WF_vars(WorkerStep(w))
    /\ \A e \in Events :
         SF_vars(\E w \in Workers, n \in 0..MaxRetries : ReceiveTask(w, e, n))

-----------------------------------------------------------------------------
(* Properties *)

\* However often Meta repeats a payload or a message, and whichever workers,
\* retries and sweeps process it at once, a message's side effects (orders,
\* ratings, automation runs) happen once, and each of its runs is given to the
\* automations queue once.
EffectsAtMostOnce ==
    \A m \in Messages : history.effects[m] <= 1 /\ history.dispatched[m] <= 1

\* A payload marked PROCESSED has all its messages in the inbox, also when
\* another worker failed on the same event, unless a task found its account
\* unknown or not active, which drops the messages of any payload.
Whole(h) == \A i \in 1..Len(Content[h]) : Content[h][i] \in stored
ProcessedIsStored ==
    \A e \in Events : event[e].status = "processed" =>
        Whole(event[e].hook) \/ e \in history.ignored

\* A payload Meta was told is accepted is never forgotten: it is processed, or
\* FAILED, or on its way, unless a worker died with it or its last try could not
\* even store the failure.
OnItsWay(e) ==
    \/ \E n \in 0..MaxRetries : BagIn(<<e, n>>, queue)
    \/ \E w \in Workers : worker[w].event = e
AnsweredIsTracked ==
    \A h \in answered : \E e \in Events :
        /\ event[e].hook = h
        /\ \/ event[e].status \in {"processed", "failed"}
           \/ OnItsWay(e) \/ e \in history.dropped \cup history.unmarked

\* An accepted payload comes to an end by its retries alone: all its messages are
\* in the inbox, or the event is FAILED for somebody to see, as it must be for an
\* invalid sender or a deleted contact, or it meets one of the exceptions above.
AcceptedIsSettled ==
    \A h \in Hooks : h \in answered ~>
        \/ Whole(h)
        \/ \E e \in Events :
             /\ event[e].hook = h
             /\ \/ event[e].status = "failed"
                \/ e \in history.dropped \cup history.ignored \cup history.unmarked
=============================================================================

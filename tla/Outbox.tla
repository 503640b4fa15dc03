------------------------------- MODULE Outbox -------------------------------
(***************************************************************************)
(* The transactional outbox: the rows of outbox_events, which services add *)
(* in their own transactions, and the Celery processes that run            *)
(* watesly.outbox.publish.  Beat sends that task every five seconds, so    *)
(* several run at once.  A task claims a whole batch in one transaction    *)
(* and then publishes and commits its rows one by one; the last write of a *)
(* row is a blind update.                                                  *)
(***************************************************************************)
EXTENDS Naturals, FiniteSets

CONSTANTS
    Events,         \* outbox_events rows, numbered by created_at
    Publishers,     \* Celery worker processes
    NoEvent,
    Limit,          \* rows per batch (100)
    MaxAttempts,    \* the max_attempts column (10)
    Faults,         \* may contain "publish" and "crash"
    MaxCrashes,     \* bound on crashes
    MayStall        \* may a lock grow stale while its task is still at work?

ASSUME EventsAssumption == Events \subseteq Nat /\ NoEvent \notin Events
ASSUME PublishersAssumption == IsFiniteSet(Publishers)
ASSUME LimitAssumption == Limit \in Nat \ {0} /\ MaxAttempts \in Nat \ {0}
ASSUME CrashAssumption == MaxCrashes \in Nat /\ MayStall \in BOOLEAN

VARIABLES
    event,          \* status, attempts and age of locked_at of each row
    ready,          \* available_at is in the past
    worker,         \* each process's task and ORM session
    crashes,        \* crashes so far
    copies          \* ghost: how often Redis got the event

vars == <<event, ready, worker, crashes, copies>>

OutboxStatus == {"absent", "pending", "processing", "published", "failed",
                 "dead"}
Lock == {"none", "fresh", "stale"}      \* locked_at, against 120 seconds
PublisherPc == {"idle", "claim", "publish", "record"}

EventRow == [status : OutboxStatus, attempts : 0..MaxAttempts, lock : Lock]
\* held: the attempts attribute of the batch's objects, as it was committed.
Publisher == [pc : PublisherPc, todo : SUBSET Events,
              cur : Events \cup {NoEvent}, held : [Events -> 0..MaxAttempts],
              ok : BOOLEAN]

Idle == [pc |-> "idle", todo |-> {}, cur |-> NoEvent,
         held |-> [e \in Events |-> 0], ok |-> FALSE]

\* The types of the rows and sessions: no row is tried more than max_attempts
\* times, whoever claims it.
TypeOK ==
    /\ event \in [Events -> EventRow]
    /\ ready \in [Events -> BOOLEAN]
    /\ worker \in [Publishers -> Publisher]
    /\ \A w \in Publishers : worker[w].pc = "record" => worker[w].cur \in Events
    /\ crashes \in 0..MaxCrashes
    /\ copies \in [Events -> Nat]

Init ==
    /\ event = [e \in Events |->
                  [status |-> "absent", attempts |-> 0, lock |-> "none"]]
    /\ ready = [e \in Events |-> TRUE]
    /\ worker = [w \in Publishers |-> Idle]
    /\ crashes = 0
    /\ copies = [e \in Events |-> 0]

Become(w, me) == worker' = [worker EXCEPT ![w] = me]

-----------------------------------------------------------------------------
\* add_outbox_event: the row commits with the caller's transaction.
Add(e) ==
    /\ event[e].status = "absent"
    /\ event' = [event EXCEPT ![e].status = "pending"]
    /\ UNCHANGED <<ready, worker, crashes, copies>>

\* The rows reclaim_stale_events updates; it does not look at attempts.
Stale(e) == event[e].status = "processing" /\ event[e].lock = "stale"

\* publish_outbox_events starts: reclaim, and commit.
Reclaim(w) ==
    /\ worker[w].pc = "idle"
    /\ event' = [e \in Events |->
                   IF Stale(e)
                   THEN [event[e] EXCEPT !.status = "failed", !.lock = "none"]
                   ELSE event[e]]
    /\ Become(w, [Idle EXCEPT !.pc = "claim"])
    /\ UNCHANGED <<ready, crashes, copies>>

\* Wrong variant: attempts is not compared with max_attempts.
Untiring(e) == event[e].status \in {"pending", "failed"} /\ ready[e]

Claimable(e) ==
    /\ event[e].status \in {"pending", "failed"} /\ ready[e]
    /\ event[e].attempts < MaxAttempts

\* The Limit oldest.
Batch ==
    LET all == {e \in Events : Claimable(e)}
    IN  {e \in all : Cardinality({d \in all : d < e}) < Limit}

\* Wrong variant: a crash costs no attempt.
TakenUncounted(e) ==
    [status |-> "processing", attempts |-> event[e].attempts, lock |-> "fresh"]

Taken(e) ==
    [status |-> "processing", attempts |-> event[e].attempts + 1,
     lock |-> "fresh"]

\* SELECT ... FOR UPDATE SKIP LOCKED, PROCESSING, attempts + 1, and commit.
Claim(w) ==
    /\ worker[w].pc = "claim"
    /\ event' = [e \in Events |-> IF e \in Batch THEN Taken(e) ELSE event[e]]
    /\ IF Batch = {}
       THEN Become(w, Idle)
       ELSE Become(w, [Idle EXCEPT !.pc = "publish", !.todo = Batch,
                         !.held = [e \in Events |->
                                     IF e \in Batch THEN Taken(e).attempts
                                                    ELSE 0]])
    /\ UNCHANGED <<ready, crashes, copies>>

\* event_bus.publish: no handler of today's events has an effect, so what
\* counts is Redis.  An exception may come before or after Redis got the event.
Publish(w) ==
    /\ worker[w].pc = "publish"
    /\ \E e \in worker[w].todo, ok \in BOOLEAN :
         /\ \A d \in worker[w].todo : e <= d
         /\ ok \/ "publish" \in Faults
         /\ Become(w, [worker[w] EXCEPT !.pc = "record", !.cur = e,
                                        !.todo = @ \ {e}, !.ok = ok])
         /\ \/ copies' = [copies EXCEPT ![e] = @ + 1]
            \/ ~ok /\ UNCHANGED copies
    /\ UNCHANGED <<event, ready, crashes>>

\* Wrong variants: a failure counts as published, as the last one too early, or
\* too late.
Optimistic(me) == IF me.held[me.cur] >= MaxAttempts THEN "dead" ELSE "published"
EarlyDead(me) == IF me.ok THEN "published"
                 ELSE IF me.held[me.cur] + 1 >= MaxAttempts THEN "dead"
                 ELSE "failed"

LateDead(me) == IF me.ok THEN "published"
                ELSE IF me.held[me.cur] > MaxAttempts THEN "dead" ELSE "failed"

\* The status the task leaves, from the attempts its own session holds.
Verdict(me) == IF me.ok THEN "published"
               ELSE IF me.held[me.cur] >= MaxAttempts THEN "dead" ELSE "failed"

\* The commit after each row: nobody looks at status or lock_owner again.
Record(w) ==
    LET me == worker[w]  e == worker[w].cur IN
    /\ me.pc = "record"
    /\ event' = [event EXCEPT ![e].status = Verdict(me), ![e].lock = "none"]
    /\ ready' = IF me.ok THEN ready ELSE [ready EXCEPT ![e] = FALSE]
    /\ Become(w, IF me.todo = {} THEN Idle
                 ELSE [me EXCEPT !.pc = "publish", !.cur = NoEvent, !.ok = FALSE])
    /\ UNCHANGED <<crashes, copies>>

\* The process dies or loses the database: its rows stay PROCESSING.
Crash(w) ==
    /\ worker[w].pc # "idle" /\ "crash" \in Faults /\ crashes < MaxCrashes
    /\ crashes' = crashes + 1
    /\ Become(w, Idle)
    /\ UNCHANGED <<event, ready, copies>>

\* Worker w has the row in its batch and is not done with it.
Holds(w, e) == e \in worker[w].todo \/ e = worker[w].cur

\* 120 seconds pass since the claim.
LockAges(e) ==
    /\ event[e].status = "processing" /\ event[e].lock = "fresh"
    /\ MayStall \/ \A w \in Publishers : ~Holds(w, e)
    /\ event' = [event EXCEPT ![e].lock = "stale"]
    /\ UNCHANGED <<ready, worker, crashes, copies>>

\* next_retry's delay, 2 to 256 seconds, is over.
BackoffEnds(e) ==
    /\ ~ready[e]
    /\ ready' = [ready EXCEPT ![e] = TRUE]
    /\ UNCHANGED <<event, worker, crashes, copies>>

-----------------------------------------------------------------------------
PublisherStep(w) == Reclaim(w) \/ Claim(w) \/ Publish(w) \/ Record(w)

Next ==
    \/ \E w \in Publishers : PublisherStep(w) \/ Crash(w)
    \/ \E e \in Events : Add(e) \/ LockAges(e) \/ BackoffEnds(e)

Spec == Init /\ [][Next]_vars

-----------------------------------------------------------------------------
(* Properties *)

\* PUBLISHED is the audit trail's word for "Redis got it": no crash, reclaim or
\* second publisher makes it a lie.
PublishedWasGiven ==
    \A e \in Events : event[e].status = "published" => copies[e] > 0

\* Every delivery is paid for: an event reaches Redis no more often than its
\* attempts column says, although crashes, reclaims and slow publishers repeat
\* deliveries without recording them.
CopiesWithinAttempts ==
    \A e \in Events : copies[e] <= event[e].attempts

\* "max attempts and dead-letter state": an event that failed and has no attempt
\* left is DEAD, not FAILED, which no claim would select again, as long as no
\* publisher dies and no lock goes stale under a task still at work.
SpentIsDead ==
    crashes = 0 =>
        \A e \in Events :
            event[e].status = "failed" => event[e].attempts < MaxAttempts

\* The outbox keeps its promise as long as no lock goes stale under a task that
\* is still at work.
Stage(e) == CASE event[e].status = "absent"    -> "none"
              [] event[e].status = "published" -> "done"
              [] event[e].status = "dead"      -> "dead"
              [] OTHER                         -> "owed"

Promise == INSTANCE OutboxDelivery WITH
             stage <- [e \in Events |-> Stage(e)],
             tries <- [e \in Events |-> event[e].attempts],
             given <- copies

KeepsPromise == Promise!Spec
=============================================================================

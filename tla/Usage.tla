------------------------------- MODULE Usage -------------------------------
(***************************************************************************)
(* Messages of one channel and the monthly active contacts they make       *)
(* (services/mac_usage.py, services/billing_period.py): inbound messages,  *)
(* which are counted in the transaction that stores them, and outbound     *)
(* ones, which are stored, sent and counted in transactions of their own   *)
(* (services/whatsapp.py send_text_message and its five likes).            *)
(* Transactions are READ COMMITTED; an insert waits for an uncommitted row *)
(* with its key.                                                           *)
(* A date is a number of days since the start of a calendar whose year has *)
(* the months Lengths; the time of day is left out.                        *)
(* An operator marked "wrong" is the one after it with a plausible slip:   *)
(* it is never used, and shows that some property notices the slip.        *)
(***************************************************************************)
EXTENDS Naturals, Sequences

CONSTANTS
    Messages,
    Kind,           \* "inbound", "staff" (a colleague), "ai" (the reply outside
                    \* business hours) or "automation"
    Contact,        \* whom a message is from or to
    Lengths,        \* days of the months of a year
    Horizon,        \* the last day
    Subscription,   \* the account's terms
    Offers,         \* terms an administrator may give the channel
    MaxChanges      \* bound on changes of the terms

VARIABLES
    today,
    terms,          \* billing_starts_at, billing_ends_at, billing_cycle of the channel
    archived,       \* the channel's deleted_at is set
    message,        \* the messages row
    job,            \* the request or task that handles a message
    mac,            \* committed monthly_active_contacts
    changes,
    failed, unmetered   \* ghosts: messages whose job failed after they were sent,
                        \* messages whose channel was gone when they were to count

vars == <<today, terms, archived, message, job, mac, changes, failed, unmetered>>

Days == 0..Horizon
Outbound == {m \in Messages : Kind[m] # "inbound"}
Unset == [starts |-> 0, ends |-> 0, cycle |-> "unset"]

ASSUME UsageAssumption ==
    /\ Kind \in [Messages -> {"inbound", "staff", "ai", "automation"}]
    /\ Lengths \in Seq(Nat \ {0}) /\ Lengths # <<>>
    /\ \A t \in Offers \cup {Subscription} :
         /\ t.starts \in Nat /\ t.ends \in Nat
         /\ t.cycle \in {"monthly", "yearly", "trial", "unset"}
    /\ Horizon \in Nat /\ MaxChanges \in Nat

-----------------------------------------------------------------------------
(* Billing periods *)

Length(month) == Lengths[(month % Len(Lengths)) + 1]
MonthStart[month \in Nat] ==
    IF month = 0 THEN 0 ELSE MonthStart[month - 1] + Length(month - 1)
MonthOf(date) ==
    CHOOSE month \in 0..date : MonthStart[month] <= date /\ date < MonthStart[month + 1]

Earlier(d, e) == IF d < e THEN d ELSE e

\* wrong: the days a month lacks are taken from the next one
DayAnyway(month, day) == day
DayIn(month, day) == Earlier(day, Length(month) - 1)

\* The same day so many months on, or the last one of a month that has none such.
AddMonths(date, months) ==
    LET month == MonthOf(date) + months
    IN  MonthStart[month] + DayIn(month, date - MonthStart[MonthOf(date)])

Step(cycle) == IF cycle = "yearly" THEN Len(Lengths) ELSE 1

Period(start, end) == [start |-> start, end |-> end]

Within(date, end, ends) == date < end \/ end >= ends

\* billing_period_for_anchor.  After the last period, it is that one for ever.
PeriodOf(t, date) ==
    LET walk[start \in t.starts..t.ends] ==
            LET end == Earlier(AddMonths(start, Step(t.cycle)), t.ends)
            IN  IF Within(date, end, t.ends) THEN Period(start, end) ELSE walk[end]
    IN  IF t.cycle = "trial" \/ t.starts >= t.ends THEN Period(t.starts, t.ends)
        ELSE walk[t.starts]

CalendarMonth(date) ==
    Period(MonthStart[MonthOf(date)], MonthStart[MonthOf(date) + 1])

\* resolve_channel_billing_period: the channel's terms, else the account's while
\* they last, else the calendar.
Applicable(t, date) == IF t # Unset THEN t
                       ELSE IF date < Subscription.ends THEN Subscription
                       ELSE Unset
PeriodOn(t, date) == IF t = Unset THEN CalendarMonth(date) ELSE PeriodOf(t, date)
PeriodUnder(t, date) == PeriodOn(Applicable(t, date), date)

\* Under one set of terms two days have the same period or periods apart.
PeriodsPartition ==
    \A t \in Offers \cup {Subscription, Unset} : \A d, e \in Days :
        LET p == PeriodOn(t, d)  q == PeriodOn(t, e) IN
        p.start # q.start => p.end <= q.start \/ q.end <= p.start

-----------------------------------------------------------------------------
(* State *)

\* What Meta later reports of a sent message counts for nothing here.
Status == {"absent", "received", "queued", "sent", "failed"}

\* An inserted row.  by: whose insert it was; under: a ghost, the terms it is of.
Row(m) == [contact |-> Contact[m], period |-> PeriodUnder(terms, today), by |-> m,
           under |-> Applicable(terms, today)]
\* Two rows of a contact are told apart by the start of the period alone.
SameKey(r, s) == r.contact = s.contact /\ r.period.start = s.period.start

\* due: the row the message shall make or find; pending: the transaction's
\* uncommitted row.
NoJob == [pc |-> "idle", pending |-> {}, due |-> {}]

TypeOK ==
    /\ today \in Days
    /\ terms \in Offers \cup {Unset} /\ archived \in BOOLEAN
    /\ message \in [Messages -> Status]
    /\ \A m \in Messages :
         /\ job[m].pc \in {"idle", "persist", "call", "sent", "mac", "insert",
                           "commit", "close", "over"}
         /\ message[m] = "absent" <=>
              \/ job[m].pc \in {"idle", "persist", "commit"}
              \/ job[m].pc = "insert" /\ Kind[m] = "inbound"
         /\ \A r \in job[m].pending : r.by = m /\ job[m].pc \in {"commit", "close"}
    /\ changes \in 0..MaxChanges
    /\ failed \subseteq Outbound /\ unmetered \subseteq Messages

Init ==
    /\ today = 0 /\ terms \in Offers \cup {Unset} /\ archived = FALSE
    /\ message = [m \in Messages |-> "absent"]
    /\ job = [m \in Messages |-> NoJob]
    /\ mac = {}
    /\ changes = 0 /\ failed = {} /\ unmetered = {}

Over(m) == job' = [job EXCEPT ![m].pc = "over", ![m].pending = {}]
world == <<today, terms, archived, changes>>

-----------------------------------------------------------------------------
(* Inbound *)

\* store_and_process_webhook finds the account active; archive_channel ends that.
Receive(m) ==
    /\ Kind[m] = "inbound" /\ job[m].pc = "idle" /\ ~archived
    /\ job' = [job EXCEPT ![m].pc = "persist"]
    /\ UNCHANGED <<world, message, mac, failed, unmetered>>

\* The message and its activity, persisted in one savepoint.
Commit(m) ==
    /\ job[m].pc = "commit"
    /\ message' = [message EXCEPT ![m] = "received"]
    /\ mac' = mac \cup job[m].pending
    /\ Over(m)
    /\ UNCHANGED <<world, failed, unmetered>>

-----------------------------------------------------------------------------
(* record_activity *)

\* resolve_channel_billing_period: a channel that was archived since has none, and
\* nothing is counted.
ReadPeriod(m) ==
    /\ job[m].pc \in {"persist", "mac"}
    /\ job' = [job EXCEPT ![m] = [pc |-> "insert", pending |-> {},
                                  due |-> IF archived THEN {} ELSE {Row(m)}]]
    /\ unmetered' = IF archived THEN unmetered \cup {m} ELSE unmetered
    /\ UNCHANGED <<world, message, mac, failed>>

Pending == UNION {job[m].pending : m \in Messages}

\* wrong: the insert goes by what is committed, and nothing makes it wait
GoesAhead(m) == TRUE
MayInsert(m) == \A r \in Pending, s \in job[m].due : ~SameKey(r, s)

\* wrong: contacts once seen are remembered, whatever became of the transaction
UnlessSeen(m) ==
    {s \in job[m].due : \A r \in mac \cup UNION {job[d].due : d \in Messages \ {m}} :
                           ~SameKey(r, s)}
\* ON CONFLICT DO NOTHING.  The check of source_event_id before it adds nothing:
\* a message that was stored is not stored again.
Inserted(m) == {s \in job[m].due : \A r \in mac : ~SameKey(r, s)}

Insert(m) ==
    /\ job[m].pc = "insert" /\ MayInsert(m)
    /\ job' = [job EXCEPT ![m] = [pc |-> IF Kind[m] = "inbound" THEN "commit" ELSE "close",
                                  pending |-> Inserted(m), due |-> job[m].due]]
    /\ UNCHANGED <<world, message, mac, failed, unmetered>>

-----------------------------------------------------------------------------
(* Outbound *)

\* The row is committed before Meta is called.
Queue(m) ==
    /\ m \in Outbound /\ job[m].pc = "idle" /\ ~archived
    /\ message' = [message EXCEPT ![m] = "queued"]
    /\ job' = [job EXCEPT ![m].pc = "call"]
    /\ UNCHANGED <<world, mac, failed, unmetered>>

MetaAccepts(m) ==
    /\ job[m].pc = "call"
    /\ job' = [job EXCEPT ![m].pc = "sent"]
    /\ UNCHANGED <<world, message, mac, failed, unmetered>>

\* A MetaAPIError is recorded.
MetaErrs(m) ==
    /\ job[m].pc = "call"
    /\ message' = [message EXCEPT ![m] = "failed"]
    /\ Over(m)
    /\ UNCHANGED <<world, mac, failed, unmetered>>

\* httpx raises: nothing is recorded.
AnswerLost(m) ==
    /\ job[m].pc = "call"
    /\ Over(m)
    /\ UNCHANGED <<world, message, mac, failed, unmetered>>

Counts(m) == Kind[m] \in {"staff", "ai"}        \* record_mac = True

RecordSent(m) ==
    /\ job[m].pc = "sent"
    /\ message' = [message EXCEPT ![m] = "sent"]
    /\ IF Counts(m) THEN job' = [job EXCEPT ![m].pc = "mac"] ELSE Over(m)
    /\ UNCHANGED <<world, mac, failed, unmetered>>

\* The worker commits once the side effects are through; after a colleague's
\* request get_db closes the session, which rolls back.
Close(m) ==
    /\ job[m].pc = "close"
    /\ mac' = IF Kind[m] = "ai" THEN mac \cup job[m].pending ELSE mac
    /\ Over(m)
    /\ UNCHANGED <<world, message, failed, unmetered>>

-----------------------------------------------------------------------------
(* Time, administrators and faults *)

NextDay ==
    /\ today < Horizon /\ today' = today + 1
    /\ UNCHANGED <<terms, archived, message, job, mac, changes, failed, unmetered>>

UpdateChannelBilling(t) ==
    /\ ~archived /\ t # terms /\ terms' = t
    /\ changes < MaxChanges /\ changes' = changes + 1
    /\ UNCHANGED <<today, archived, message, job, mac, failed, unmetered>>

ArchiveChannel ==
    /\ ~archived /\ archived' = TRUE
    /\ UNCHANGED <<today, terms, message, job, mac, changes, failed, unmetered>>

\* wrong: a request that died half-way is started again
Restarted(m) == NoJob
\* Meta calls again about an inbound message; a send is never repeated.
AfterFailure(m) == IF Kind[m] = "inbound" THEN NoJob
                   ELSE [NoJob EXCEPT !.pc = "over"]

\* The process dies; or the database refuses a statement or the commit, and the
\* worker rolls back and goes on (the except branch after the side effects).
Fail(m) ==
    /\ job[m].pc \notin {"idle", "over"}
    /\ job' = [job EXCEPT ![m] = AfterFailure(m)]
    /\ failed' = failed \cup ({m} \cap Outbound)
    /\ UNCHANGED <<world, message, mac, unmetered>>

Next ==
    \/ \E m \in Messages :
         \/ Receive(m) \/ ReadPeriod(m) \/ Insert(m) \/ Commit(m)
         \/ Queue(m) \/ MetaAccepts(m) \/ MetaErrs(m) \/ AnswerLost(m)
         \/ RecordSent(m) \/ Close(m) \/ Fail(m)
    \/ NextDay \/ ArchiveChannel
    \/ \E t \in Offers \cup {Unset} : UpdateChannelBilling(t)

Spec == Init /\ [][Next]_vars

-----------------------------------------------------------------------------
(* Properties *)

\* No contact is charged twice for a day under the same terms, although inserts
\* race, transactions roll back and the terms come and go.
ChargedOncePerDay ==
    \A r, s \in mac :
        r.contact = s.contact /\ r.under = s.under /\ r # s
        => r.period.end <= s.period.start \/ s.period.end <= r.period.start

\* A stored inbound message has counted its contact, and so has a reply of the
\* AI whose job did not fail after it was sent; unless the channel was archived
\* between the check of its account and the look for its billing period.
Counted(m) == \E r \in mac, s \in job[m].due : SameKey(r, s)
Answered(m) == job[m].pc = "over" /\ message[m] = "sent" /\ m \notin failed

ActivityCounted ==
    \A m \in Messages \ unmetered :
        message[m] = "received" \/ (Kind[m] = "ai" /\ Answered(m)) => Counted(m)

\* While a subscription lasts, the period of today has today in it, and monthly
\* periods begin in successive calendar months: none is skipped or shared, short
\* months and clipped days notwithstanding.
PeriodFitsToday ==
    LET p == PeriodUnder(terms, today)
        t == Applicable(terms, today)
    IN  t # Unset /\ t.starts <= today /\ today < t.ends =>
            /\ p.start <= today /\ today < p.end
            /\ (t.cycle = "monthly" /\ p.end < t.ends)
                 => MonthOf(p.end) = MonthOf(p.start) + 1

\* "Triggers MAC: inbound, outbound inbox/staff/AI": so does a colleague's
\* message that Meta took and the inbox shows as sent.
StaffReplyCounted ==
    \A m \in Messages \ unmetered : Kind[m] = "staff" /\ Answered(m) => Counted(m)
=============================================================================

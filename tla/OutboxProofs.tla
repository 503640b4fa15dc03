---------------------------- MODULE OutboxProofs ----------------------------
(***************************************************************************)
(* What holds of Outbox for every set of events and publishers, every      *)
(* limit, and every bound on attempts and crashes.                         *)
(***************************************************************************)
EXTENDS Outbox, FiniteSetTheorems, TLAPS

(* Type correctness *)

LEMMA IdleType == Idle \in Publisher /\ Idle.pc = "idle" /\ Idle.todo = {}
                  /\ Idle.cur = NoEvent
  BY LimitAssumption DEF Idle, Publisher, PublisherPc

LEMMA BatchType == /\ Batch \subseteq Events
                   /\ \A e \in Batch : Claimable(e)
  BY DEF Batch

LEMMA TakenType ==
  ASSUME event \in [Events -> EventRow], NEW e \in Batch
  PROVE  /\ Taken(e) \in EventRow
         /\ Taken(e).attempts = event[e].attempts + 1
  BY BatchType, LimitAssumption
  DEF Taken, EventRow, Claimable, OutboxStatus, Lock

LEMMA InitType == Init => TypeOK
<1> SUFFICES ASSUME Init PROVE TypeOK
  OBVIOUS
<1>1. event \in [Events -> EventRow]
  <2>1. [status |-> "absent", attempts |-> 0, lock |-> "none"] \in EventRow
    BY LimitAssumption DEF EventRow, OutboxStatus, Lock
  <2> QED BY <2>1 DEF Init
<1>2. /\ worker \in [Publishers -> Publisher]
      /\ \A w \in Publishers : worker[w].pc # "record"
  BY IdleType DEF Init
<1> QED BY <1>1, <1>2, CrashAssumption DEF Init, TypeOK

LEMMA BecomeType ==
  ASSUME TypeOK, NEW w \in Publishers, NEW me \in Publisher, Become(w, me),
         me.pc = "record" => me.cur \in Events
  PROVE  /\ worker' \in [Publishers -> Publisher]
         /\ \A v \in Publishers :
              worker'[v].pc = "record" => worker'[v].cur \in Events
  BY DEF TypeOK, Become

LEMMA TypeStep == TypeOK /\ [Next]_vars => TypeOK'
<1> SUFFICES ASSUME TypeOK, [Next]_vars PROVE TypeOK'
  OBVIOUS
<1>e. event \in [Events -> EventRow] /\ ready \in [Events -> BOOLEAN]
  BY DEF TypeOK
<1>w. /\ worker \in [Publishers -> Publisher]
      /\ \A w \in Publishers : worker[w].pc = "record" => worker[w].cur \in Events
  BY DEF TypeOK
<1>c. crashes \in 0..MaxCrashes /\ copies \in [Events -> Nat]
  BY DEF TypeOK
<1>1. ASSUME NEW w \in Publishers, Reclaim(w) PROVE TypeOK'
  <2>1. event' \in [Events -> EventRow]
    BY <1>1, <1>e DEF Reclaim, EventRow, OutboxStatus, Lock
  <2>2. [Idle EXCEPT !.pc = "claim"] \in Publisher
    BY IdleType DEF Publisher, PublisherPc
  <2>3. [Idle EXCEPT !.pc = "claim"].pc = "claim"
    BY DEF Idle
  <2> QED BY <1>1, <2>1, <2>2, <2>3, BecomeType DEF Reclaim, TypeOK
<1>2. ASSUME NEW w \in Publishers, Claim(w) PROVE TypeOK'
  <2>1. event' \in [Events -> EventRow]
    BY <1>2, <1>e, TakenType DEF Claim
  <2> DEFINE held == [e \in Events |-> IF e \in Batch THEN Taken(e).attempts
                                                     ELSE 0]
             me == [Idle EXCEPT !.pc = "publish", !.todo = Batch, !.held = held]
  <2>2. held \in [Events -> 0..MaxAttempts]
    <3>1. \A e \in Batch : Taken(e).attempts \in 0..MaxAttempts
      BY <1>e, TakenType DEF EventRow
    <3> QED BY <3>1, LimitAssumption
  <2>3. me \in Publisher /\ me.pc = "publish"
    <3> HIDE DEF held
    <3> QED BY <2>2, IdleType, BatchType DEF Publisher, PublisherPc
  <2>4. Become(w, Idle) \/ Become(w, me)
    BY <1>2 DEF Claim
  <2> HIDE DEF me
  <2>5. /\ worker' \in [Publishers -> Publisher]
        /\ \A v \in Publishers :
             worker'[v].pc = "record" => worker'[v].cur \in Events
    BY <2>3, <2>4, IdleType, BecomeType
  <2> QED BY <1>2, <2>1, <2>5 DEF Claim, TypeOK
<1>3. ASSUME NEW w \in Publishers, Publish(w) PROVE TypeOK'
  <2>1. PICK e \in worker[w].todo, ok \in BOOLEAN :
          /\ Become(w, [worker[w] EXCEPT !.pc = "record", !.cur = e,
                                         !.todo = @ \ {e}, !.ok = ok])
          /\ copies' \in {copies, [copies EXCEPT ![e] = @ + 1]}
    BY <1>3 DEF Publish
  <2> DEFINE me == [worker[w] EXCEPT !.pc = "record", !.cur = e,
                                     !.todo = @ \ {e}, !.ok = ok]
  <2>2. e \in Events
    BY <1>w DEF Publisher
  <2>3. me \in Publisher /\ me.cur = e
    BY <1>w, <2>2 DEF Publisher, PublisherPc
  <2>4. copies' \in [Events -> Nat]
    BY <1>c, <2>1
  <2> HIDE DEF me
  <2>5. /\ worker' \in [Publishers -> Publisher]
        /\ \A v \in Publishers :
             worker'[v].pc = "record" => worker'[v].cur \in Events
    BY <2>1, <2>2, <2>3, BecomeType DEF me
  <2> QED BY <1>3, <2>4, <2>5 DEF Publish, TypeOK
<1>4. ASSUME NEW w \in Publishers, Record(w) PROVE TypeOK'
  <2> DEFINE me == worker[w]
             next == [me EXCEPT !.pc = "publish", !.cur = NoEvent, !.ok = FALSE]
  <2>1. event' \in [Events -> EventRow]
    <3>1. Verdict(me) \in OutboxStatus
      BY DEF Verdict, OutboxStatus
    <3> QED BY <1>4, <1>e, <3>1 DEF Record, EventRow, Lock
  <2>2. ready' \in [Events -> BOOLEAN]
    BY <1>4, <1>e DEF Record
  <2>3. next \in Publisher /\ next.pc = "publish"
    BY <1>w DEF Publisher, PublisherPc
  <2>4. Become(w, Idle) \/ Become(w, next)
    BY <1>4 DEF Record
  <2>5. /\ worker' \in [Publishers -> Publisher]
        /\ \A v \in Publishers :
             worker'[v].pc = "record" => worker'[v].cur \in Events
    BY <2>3, <2>4, IdleType, BecomeType
  <2> QED BY <1>4, <2>1, <2>2, <2>5 DEF Record, TypeOK
<1>5. ASSUME NEW w \in Publishers, Crash(w) PROVE TypeOK'
  <2>1. crashes' \in 0..MaxCrashes
    BY <1>5, <1>c, CrashAssumption DEF Crash
  <2> QED BY <1>5, <2>1, IdleType, BecomeType DEF Crash, TypeOK
<1>6. ASSUME NEW e \in Events, Add(e) \/ LockAges(e) PROVE TypeOK'
  <2>1. event' \in [Events -> EventRow]
    BY <1>6, <1>e DEF Add, LockAges, EventRow, OutboxStatus, Lock
  <2> QED BY <1>6, <2>1 DEF Add, LockAges, TypeOK
<1>7. ASSUME NEW e \in Events, BackoffEnds(e) PROVE TypeOK'
  BY <1>7 DEF BackoffEnds, TypeOK
<1>8. CASE UNCHANGED vars
  BY <1>8 DEF vars, TypeOK
<1> QED BY <1>1, <1>2, <1>3, <1>4, <1>5, <1>6, <1>7, <1>8
        DEF Next, PublisherStep

\* However publishers, crashes and reclaims interleave, rows and sessions stay
\* well typed and no row is tried more than max_attempts times.
THEOREM TypeCorrect == Spec => []TypeOK
<1>1. Init => TypeOK
  BY InitType
<1>2. TypeOK /\ [Next]_vars => TypeOK'
  BY TypeStep
<1> QED BY <1>1, <1>2, PTL DEF Spec

-----------------------------------------------------------------------------
(* PUBLISHED means given. *)

\* A publication that succeeded and is not recorded yet counts too.
Given ==
    /\ PublishedWasGiven
    /\ \A w \in Publishers : worker[w].pc = "record" /\ worker[w].ok
                               => copies[worker[w].cur] > 0

LEMMA InitGiven == Init => Given
  BY IdleType DEF Init, Given, PublishedWasGiven

LEMMA GivenStep == TypeOK /\ Given /\ [Next]_vars => Given'
<1> SUFFICES ASSUME TypeOK, Given, [Next]_vars PROVE Given'
  OBVIOUS
<1>e. event \in [Events -> EventRow] /\ copies \in [Events -> Nat]
  BY DEF TypeOK
<1>w. /\ worker \in [Publishers -> Publisher]
      /\ \A w \in Publishers : worker[w].pc = "record" => worker[w].cur \in Events
  BY DEF TypeOK
<1>a. /\ \A e \in Events : event[e].status = "published" => copies[e] > 0
      /\ \A w \in Publishers : worker[w].pc = "record" /\ worker[w].ok
                                 => copies[worker[w].cur] > 0
  BY DEF Given, PublishedWasGiven
\* Steps that publish nothing: no row becomes PUBLISHED and at most one
\* process, which ends up short of "record", moves.
<1>u. ASSUME \A e \in Events : event'[e].status = "published"
                                 => event[e].status = "published",
             UNCHANGED copies,
             \/ UNCHANGED worker
             \/ \E w \in Publishers : \E me : Become(w, me) /\ me.pc # "record"
      PROVE  Given'
  <2>1. \A v \in Publishers : worker'[v] = worker[v] \/ worker'[v].pc # "record"
    BY <1>u, <1>w DEF Become
  <2>2. \A v \in Publishers : worker'[v].pc = "record" /\ worker'[v].ok
                                => copies'[worker'[v].cur] > 0
    BY <1>u, <1>a, <2>1
  <2> QED BY <1>u, <1>a, <2>2 DEF Given, PublishedWasGiven
<1>1. ASSUME NEW w \in Publishers, Reclaim(w) PROVE Given'
  <2>1. \A e \in Events : event'[e].status = "published"
                            => event[e].status = "published"
    BY <1>1, <1>e DEF Reclaim, EventRow
  <2>2. [Idle EXCEPT !.pc = "claim"].pc = "claim"
    BY DEF Idle
  <2> QED BY <1>1, <1>u, <2>1, <2>2 DEF Reclaim
<1>2. ASSUME NEW w \in Publishers, Claim(w) PROVE Given'
  <2>1. \A e \in Events : event'[e].status = "published"
                            => event[e].status = "published"
    BY <1>2 DEF Claim, Taken
  <2>2. \A held : [Idle EXCEPT !.pc = "publish", !.todo = Batch,
                               !.held = held].pc = "publish"
    BY DEF Idle
  <2>3. Idle.pc # "record"
    BY IdleType
  <2> QED BY <1>2, <1>u, <2>1, <2>2, <2>3 DEF Claim
<1>3. ASSUME NEW w \in Publishers, Publish(w) PROVE Given'
  <2>1. PICK e \in worker[w].todo, ok \in BOOLEAN :
          /\ Become(w, [worker[w] EXCEPT !.pc = "record", !.cur = e,
                                         !.todo = @ \ {e}, !.ok = ok])
          /\ \/ copies' = [copies EXCEPT ![e] = @ + 1]
             \/ ~ok /\ UNCHANGED copies
    BY <1>3 DEF Publish
  <2>2. e \in Events
    BY <1>w DEF Publisher
  <2>3. worker'[w].cur = e /\ worker'[w].ok = ok
    BY <1>w, <2>1 DEF Become, Publisher
  <2>4. \A v \in Publishers \ {w} : worker'[v] = worker[v]
    BY <1>w, <2>1 DEF Become
  <2>5. \A d \in Events : copies[d] > 0 => copies'[d] > 0
    BY <1>e, <2>1, <2>2
  <2>6. ok => copies'[e] > 0
    BY <1>e, <2>1, <2>2
  <2>7. \A v \in Publishers : worker'[v].pc = "record" /\ worker'[v].ok
                                => copies'[worker'[v].cur] > 0
    BY <1>a, <1>w, <2>3, <2>4, <2>5, <2>6
  <2>8. UNCHANGED event
    BY <1>3 DEF Publish
  <2> QED BY <1>a, <2>5, <2>7, <2>8 DEF Given, PublishedWasGiven
<1>4. ASSUME NEW w \in Publishers, Record(w) PROVE Given'
  <2> DEFINE me == worker[w]
             next == [me EXCEPT !.pc = "publish", !.cur = NoEvent, !.ok = FALSE]
  <2>1. /\ me.cur \in Events /\ (me.ok => copies[me.cur] > 0)
        /\ UNCHANGED copies
    BY <1>4, <1>a, <1>w DEF Record
  <2>2. event' = [event EXCEPT ![me.cur].status = Verdict(me),
                               ![me.cur].lock = "none"]
    BY <1>4 DEF Record
  <2>3. Verdict(me) = "published" => me.ok
    BY DEF Verdict
  <2>4. \A e \in Events : event'[e].status = "published" => copies'[e] > 0
    BY <1>a, <1>e, <2>1, <2>2, <2>3 DEF EventRow
  <2>5. next.pc = "publish" /\ Idle.pc = "idle"
    BY <1>w, IdleType DEF Publisher
  <2>6. Become(w, Idle) \/ Become(w, next)
    BY <1>4 DEF Record
  <2>7. \A v \in Publishers : worker'[v] = worker[v] \/ worker'[v].pc # "record"
    BY <1>w, <2>5, <2>6 DEF Become
  <2>8. \A v \in Publishers : worker'[v].pc = "record" /\ worker'[v].ok
                                => copies'[worker'[v].cur] > 0
    BY <1>a, <2>1, <2>7
  <2> QED BY <2>4, <2>8 DEF Given, PublishedWasGiven
<1>5. ASSUME NEW w \in Publishers, Crash(w) PROVE Given'
  BY <1>5, <1>u, IdleType DEF Crash
<1>6. ASSUME NEW e \in Events, Add(e) \/ LockAges(e) PROVE Given'
  <2>1. \A d \in Events : event'[d].status = "published"
                            => event[d].status = "published"
    BY <1>6, <1>e DEF Add, LockAges, EventRow
  <2> QED BY <1>6, <1>u, <2>1 DEF Add, LockAges
<1>7. ASSUME NEW e \in Events, BackoffEnds(e) PROVE Given'
  BY <1>7, <1>u DEF BackoffEnds
<1>8. CASE UNCHANGED vars
  BY <1>8, <1>u DEF vars
<1> QED BY <1>1, <1>2, <1>3, <1>4, <1>5, <1>6, <1>7, <1>8
        DEF Next, PublisherStep

\* A row marked PUBLISHED was given to Redis, even when locks go stale under
\* their owners and several publishers write the same row
\* (outbox_tasks.py:16-32).
THEOREM PublishedMeansGiven == Spec => []PublishedWasGiven
<1>1. Init => TypeOK /\ Given
  BY InitType, InitGiven
<1>2. TypeOK /\ Given /\ [Next]_vars => (TypeOK /\ Given)'
  BY TypeStep, GivenStep
<1>3. Given => PublishedWasGiven
  BY DEF Given
<1> QED BY <1>1, <1>2, <1>3, PTL DEF Spec

-----------------------------------------------------------------------------
(* Deliveries are paid for. *)

\* The publishers that still have the row before them; each has paid for one
\* delivery to come.
Pending(e) == {w \in Publishers : e \in worker[w].todo}

\* Only a publisher at work has rows before it.
Paid ==
    /\ \A w \in Publishers : worker[w].pc \in {"idle", "claim"}
                               => worker[w].todo = {}
    /\ \A e \in Events : copies[e] + Cardinality(Pending(e)) <= event[e].attempts

LEMMA InitPaid == Init => Paid
<1> SUFFICES ASSUME Init PROVE Paid
  OBVIOUS
<1>1. \A w \in Publishers : worker[w].todo = {}
  BY IdleType DEF Init
<1>2. \A e \in Events : Pending(e) = {}
  BY <1>1 DEF Pending
<1>3. \A e \in Events : event[e].attempts = 0 /\ copies[e] = 0
  BY DEF Init
<1>4. \A e \in Events : Cardinality(Pending(e)) = 0
  BY <1>2, FS_EmptySet
<1> QED BY <1>1, <1>3, <1>4 DEF Paid

LEMMA PendingFinite ==
  ASSUME NEW e
  PROVE  IsFiniteSet(Pending(e)) /\ Cardinality(Pending(e)) \in Nat
<1>1. Pending(e) \subseteq Publishers
  BY DEF Pending
<1>2. IsFiniteSet(Pending(e))
  BY <1>1, PublishersAssumption, FS_Subset
<1> QED BY <1>2, FS_CardinalityType

LEMMA PaidEnough == TypeOK /\ Paid => CopiesWithinAttempts
<1> SUFFICES ASSUME TypeOK, Paid, NEW e \in Events
             PROVE  copies[e] <= event[e].attempts
  BY DEF CopiesWithinAttempts
<1>1. copies[e] + Cardinality(Pending(e)) <= event[e].attempts
  BY DEF Paid
<1>2. copies[e] \in Nat /\ event[e].attempts \in Nat
  BY DEF TypeOK, EventRow
<1> QED BY <1>1, <1>2, PendingFinite

LEMMA PendingFiniteNext ==
  ASSUME NEW e
  PROVE  IsFiniteSet(Pending(e)') /\ Cardinality(Pending(e)') \in Nat
<1>1. Pending(e)' \subseteq Publishers
  BY DEF Pending
<1>2. IsFiniteSet(Pending(e)')
  BY <1>1, PublishersAssumption, FS_Subset
<1> QED BY <1>2, FS_CardinalityType

LEMMA PaidStep == TypeOK /\ Paid /\ [Next]_vars => Paid'
<1> SUFFICES ASSUME TypeOK, Paid, [Next]_vars PROVE Paid'
  OBVIOUS
<1>e. event \in [Events -> EventRow] /\ copies \in [Events -> Nat]
  BY DEF TypeOK
<1>w. /\ worker \in [Publishers -> Publisher]
      /\ \A w \in Publishers : worker[w].pc = "record" => worker[w].cur \in Events
  BY DEF TypeOK
<1>n. \A e \in Events : event[e].attempts \in Nat
  BY <1>e DEF EventRow
<1>a. /\ \A w \in Publishers : worker[w].pc \in {"idle", "claim"}
                                 => worker[w].todo = {}
      /\ \A e \in Events :
           copies[e] + Cardinality(Pending(e)) <= event[e].attempts
  BY DEF Paid
\* What every step has to show of one row and of the processes.
<1>g. ASSUME \A w \in Publishers : worker'[w].pc \in {"idle", "claim"}
                                     => worker'[w].todo = {},
             \A e \in Events :
               copies'[e] + Cardinality(Pending(e)') <= event'[e].attempts
      PROVE  Paid'
  BY <1>g DEF Paid
\* A row whose counters do not change and that nobody new has before it.
<1>k. ASSUME NEW e \in Events, copies'[e] = copies[e],
             event'[e].attempts = event[e].attempts,
             Pending(e)' \subseteq Pending(e)
      PROVE  copies'[e] + Cardinality(Pending(e)') <= event'[e].attempts
  <2>1. Cardinality(Pending(e)') <= Cardinality(Pending(e))
    BY <1>k, PendingFinite, FS_Subset
  <2> QED BY <1>k, <1>a, <1>e, <1>n, <2>1, PendingFinite, PendingFiniteNext
\* One process moves to a state with no row it did not have before it.
<1>b. ASSUME NEW w \in Publishers, NEW me, Become(w, me),
             me.pc \in {"idle", "claim"} => me.todo = {},
             me.todo \subseteq worker[w].todo
      PROVE  /\ \A v \in Publishers : worker'[v].pc \in {"idle", "claim"}
                                        => worker'[v].todo = {}
             /\ \A e \in Events : Pending(e)' \subseteq Pending(e)
  <2>1. \A v \in Publishers : worker'[v] = IF v = w THEN me ELSE worker[v]
    BY <1>b, <1>w DEF Become
  <2> QED BY <1>a, <1>b, <2>1 DEF Pending
<1>r. ASSUME UNCHANGED worker
      PROVE  /\ \A v \in Publishers : worker'[v].pc \in {"idle", "claim"}
                                        => worker'[v].todo = {}
             /\ \A e \in Events : Pending(e)' \subseteq Pending(e)
  BY <1>a, <1>r DEF Pending
<1>1. ASSUME NEW w \in Publishers, Reclaim(w) PROVE Paid'
  <2> DEFINE me == [Idle EXCEPT !.pc = "claim"]
  <2>1. Become(w, me) /\ me.todo = {}
    BY <1>1 DEF Reclaim, Idle
  <2>2. \A e \in Events : event'[e].attempts = event[e].attempts
                            /\ copies'[e] = copies[e]
    BY <1>1, <1>e DEF Reclaim, EventRow
  <2> HIDE DEF me
  <2> QED BY <1>b, <1>g, <1>k, <2>1, <2>2
<1>2. ASSUME NEW w \in Publishers, Claim(w) PROVE Paid'
  <2> DEFINE me == [Idle EXCEPT !.pc = "publish", !.todo = Batch,
                      !.held = [e \in Events |->
                                  IF e \in Batch THEN Taken(e).attempts ELSE 0]]
  <2>1. worker[w].todo = {}
    BY <1>2, <1>a DEF Claim
  <2>2. /\ me.todo = Batch /\ me.pc = "publish"
        /\ Idle.todo = {} /\ Idle.pc = "idle"
    BY DEF Idle
  <2>3. worker'[w].todo = Batch
        /\ \A v \in Publishers \ {w} : worker'[v] = worker[v]
    BY <1>2, <1>w, <2>2 DEF Claim, Become
  <2>4. \A v \in Publishers : worker'[v].pc \in {"idle", "claim"}
                                => worker'[v].todo = {}
    BY <1>2, <1>a, <1>w, <2>2, <2>3 DEF Claim, Become
  <2>5. ASSUME NEW e \in Events
        PROVE  copies'[e] + Cardinality(Pending(e)') <= event'[e].attempts
    <3>1. copies'[e] = copies[e]
      BY <1>2 DEF Claim
    <3>2. CASE e \in Batch
      <4>1. Pending(e)' = Pending(e) \cup {w} /\ w \notin Pending(e)
        BY <2>1, <2>3, <3>2 DEF Pending
      <4>2. Cardinality(Pending(e)') = Cardinality(Pending(e)) + 1
        BY <4>1, PendingFinite, FS_AddElement
      <4>3. event'[e].attempts = event[e].attempts + 1
        BY <1>2, <1>e, <3>2, TakenType DEF Claim
      <4> QED BY <1>a, <1>e, <1>n, <3>1, <4>2, <4>3, PendingFinite
    <3>3. CASE e \notin Batch
      <4>1. Pending(e)' \subseteq Pending(e)
        BY <2>3, <3>3 DEF Pending
      <4>2. event'[e] = event[e]
        BY <1>2, <3>3 DEF Claim
      <4> QED BY <1>k, <3>1, <4>1, <4>2
    <3> QED BY <3>2, <3>3
  <2> QED BY <1>g, <2>4, <2>5
<1>3. ASSUME NEW w \in Publishers, Publish(w) PROVE Paid'
  <2>1. PICK e \in worker[w].todo, ok \in BOOLEAN :
          /\ Become(w, [worker[w] EXCEPT !.pc = "record", !.cur = e,
                                         !.todo = @ \ {e}, !.ok = ok])
          /\ copies' \in {copies, [copies EXCEPT ![e] = @ + 1]}
    BY <1>3 DEF Publish
  <2>2. e \in Events /\ UNCHANGED event
    BY <1>3, <1>w DEF Publish, Publisher
  <2>3. /\ worker'[w].todo = worker[w].todo \ {e}
        /\ worker'[w].pc = "record"
        /\ \A v \in Publishers \ {w} : worker'[v] = worker[v]
    BY <1>w, <2>1 DEF Become, Publisher
  <2>4. \A v \in Publishers : worker'[v].pc \in {"idle", "claim"}
                                => worker'[v].todo = {}
    BY <1>a, <2>3
  <2>5. ASSUME NEW d \in Events
        PROVE  copies'[d] + Cardinality(Pending(d)') <= event'[d].attempts
    <3>1. CASE d = e
      <4>1. Pending(d)' = Pending(d) \ {w} /\ w \in Pending(d)
        BY <2>1, <2>3, <3>1 DEF Pending
      <4>2. Cardinality(Pending(d)') = Cardinality(Pending(d)) - 1
        BY <4>1, PendingFinite, FS_RemoveElement
      <4>3. copies'[d] <= copies[d] + 1 /\ copies'[d] \in Nat
        BY <1>e, <2>1, <2>2, <3>1
      <4>4. copies[d] + Cardinality(Pending(d)) <= event'[d].attempts
        BY <1>a, <2>2
      <4> QED BY <1>e, <1>n, <2>2, <4>2, <4>3, <4>4, PendingFinite
    <3>2. CASE d # e
      <4>1. Pending(d)' \subseteq Pending(d)
        BY <2>3 DEF Pending
      <4>2. copies'[d] = copies[d]
        BY <1>e, <2>1, <3>2
      <4> QED BY <1>k, <2>2, <4>1, <4>2
    <3> QED BY <3>1, <3>2
  <2> QED BY <1>g, <2>4, <2>5
<1>4. ASSUME NEW w \in Publishers, Record(w) PROVE Paid'
  <2> DEFINE me == worker[w]
             next == [me EXCEPT !.pc = "publish", !.cur = NoEvent, !.ok = FALSE]
  <2>1. /\ next.todo = me.todo /\ next.pc = "publish"
        /\ Idle.todo = {}
    BY <1>w, IdleType DEF Publisher
  <2>2. Become(w, Idle) \/ Become(w, next)
    BY <1>4 DEF Record
  <2>3. \A e \in Events : event'[e].attempts = event[e].attempts
                            /\ copies'[e] = copies[e]
    BY <1>4, <1>e DEF Record, EventRow
  <2> HIDE DEF next
  <2> QED BY <1>b, <1>g, <1>k, <2>1, <2>2, <2>3
<1>5. ASSUME NEW w \in Publishers, Crash(w) PROVE Paid'
  <2>1. Become(w, Idle) /\ Idle.todo = {}
    BY <1>5, IdleType DEF Crash
  <2>2. \A e \in Events : event'[e].attempts = event[e].attempts
                            /\ copies'[e] = copies[e]
    BY <1>5 DEF Crash
  <2> QED BY <1>b, <1>g, <1>k, <2>1, <2>2
<1>6. ASSUME NEW e \in Events, Add(e) \/ LockAges(e) PROVE Paid'
  <2>1. \A d \in Events : event'[d].attempts = event[d].attempts
                            /\ copies'[d] = copies[d]
    BY <1>6, <1>e DEF Add, LockAges, EventRow
  <2> QED BY <1>6, <1>r, <1>g, <1>k, <2>1 DEF Add, LockAges
<1>7. ASSUME NEW e \in Events, BackoffEnds(e) PROVE Paid'
  BY <1>7, <1>r, <1>g, <1>k DEF BackoffEnds
<1>8. CASE UNCHANGED vars
  BY <1>8, <1>r, <1>g, <1>k DEF vars
<1> QED BY <1>1, <1>2, <1>3, <1>4, <1>5, <1>6, <1>7, <1>8
        DEF Next, PublisherStep

\* An event reaches Redis no more often than its attempts column says, so no
\* more than max_attempts times, with any number of publishers, crashes, stale
\* locks and slow owners (outbox.py:38-44, outbox_tasks.py:16-32).
THEOREM CopiesArePaid == Spec => []CopiesWithinAttempts
<1>1. Init => TypeOK /\ Paid
  BY InitType, InitPaid
<1>2. TypeOK /\ Paid /\ [Next]_vars => (TypeOK /\ Paid)'
  BY TypeStep, PaidStep
<1>3. TypeOK /\ Paid => CopiesWithinAttempts
  BY PaidEnough
<1> QED BY <1>1, <1>2, <1>3, PTL DEF Spec

-----------------------------------------------------------------------------
(* The outbox implements OutboxDelivery while no lock outlives its owner. *)

\* A row in a publisher's hands is PROCESSING under a fresh lock, in nobody
\* else's hands, and the session's attempts are the row's.  A delivery still
\* to come is paid for.
Exclusive ==
    /\ \A w \in Publishers :
         /\ worker[w].pc \in {"idle", "claim"} => worker[w].todo = {}
         /\ worker[w].pc # "record" => worker[w].cur = NoEvent
         /\ worker[w].cur \notin worker[w].todo
    /\ \A w \in Publishers, e \in Events : Holds(w, e) =>
         /\ event[e].status = "processing" /\ event[e].lock = "fresh"
         /\ worker[w].held[e] = event[e].attempts
         /\ \A v \in Publishers \ {w} : ~Holds(v, e)
    /\ \A w \in Publishers, e \in Events :
         e \in worker[w].todo => copies[e] < event[e].attempts

LEMMA ExclusiveStep ==
  ASSUME ~MayStall, TypeOK, CopiesWithinAttempts, Exclusive, [Next]_vars
  PROVE  Exclusive'
<1>e. event \in [Events -> EventRow] /\ copies \in [Events -> Nat]
  BY DEF TypeOK
<1>w. /\ worker \in [Publishers -> Publisher]
      /\ \A w \in Publishers : worker[w].pc = "record" => worker[w].cur \in Events
  BY DEF TypeOK
<1>n. NoEvent \notin Events /\ \A e \in Events : event[e].attempts \in Nat
  BY <1>e, EventsAssumption DEF EventRow
\* Steps that leave held rows and their counters alone, and give nobody a row.
<1>k. ASSUME UNCHANGED copies,
             \A w \in Publishers, e \in Events :
               Holds(w, e) => event'[e] = event[e],
             \A w \in Publishers :
               \/ worker'[w] = worker[w]
               \/ /\ worker'[w].todo = {} /\ worker'[w].cur = NoEvent
      PROVE  Exclusive'
  <2>1. \A w \in Publishers, e \in Events :
          /\ Holds(w, e)' => Holds(w, e) /\ worker'[w] = worker[w]
          /\ e \in worker'[w].todo => e \in worker[w].todo
    BY <1>k, <1>n DEF Holds
  <2>2. \A w \in Publishers, e \in Events :
          e \in worker[w].todo => Holds(w, e)
    BY DEF Holds
  <2>3. \A w \in Publishers :
          /\ worker'[w].pc \in {"idle", "claim"} => worker'[w].todo = {}
          /\ worker'[w].pc # "record" => worker'[w].cur = NoEvent
          /\ worker'[w].cur \notin worker'[w].todo
    BY <1>k DEF Exclusive
  <2>4. \A w \in Publishers, e \in Events : Holds(w, e)' =>
          /\ event'[e].status = "processing" /\ event'[e].lock = "fresh"
          /\ worker'[w].held[e] = event'[e].attempts
          /\ \A v \in Publishers \ {w} : ~Holds(v, e)'
    BY <1>k, <2>1 DEF Exclusive
  <2>5. \A w \in Publishers, e \in Events :
          e \in worker'[w].todo => copies'[e] < event'[e].attempts
    BY <1>k, <2>1, <2>2 DEF Exclusive
  <2> QED BY <2>3, <2>4, <2>5 DEF Exclusive
<1>b. ASSUME NEW w \in Publishers, NEW me, Become(w, me),
             me.todo = {}, me.cur = NoEvent
      PROVE  \A v \in Publishers :
               \/ worker'[v] = worker[v]
               \/ worker'[v].todo = {} /\ worker'[v].cur = NoEvent
  <2>1. \A v \in Publishers : worker'[v] = IF v = w THEN me ELSE worker[v]
    BY <1>b, <1>w DEF Become
  <2> QED BY <1>b, <2>1
<1>1. ASSUME NEW w \in Publishers, Reclaim(w) PROVE Exclusive'
  <2>1. \A v \in Publishers, e \in Events :
          Holds(v, e) => event'[e] = event[e]
    BY <1>1 DEF Reclaim, Stale, Exclusive
  <2> DEFINE me == [Idle EXCEPT !.pc = "claim"]
  <2>2. Become(w, me) /\ me.todo = {} /\ me.cur = NoEvent
    BY <1>1 DEF Reclaim, Idle
  <2> HIDE DEF me
  <2>3. \A v \in Publishers :
          \/ worker'[v] = worker[v]
          \/ worker'[v].todo = {} /\ worker'[v].cur = NoEvent
    BY <1>b, <2>2
  <2> QED BY <1>1, <1>k, <2>1, <2>3 DEF Reclaim
<1>2. ASSUME NEW w \in Publishers, Claim(w) PROVE Exclusive'
  <2> DEFINE held == [e \in Events |-> IF e \in Batch THEN Taken(e).attempts
                                                     ELSE 0]
             me == [Idle EXCEPT !.pc = "publish", !.todo = Batch, !.held = held]
  <2>0. \A e \in Batch, v \in Publishers : ~Holds(v, e)
    BY BatchType DEF Exclusive, Claimable
  <2>1. \A e \in Events : event'[e] = IF e \in Batch THEN Taken(e) ELSE event[e]
    BY <1>2 DEF Claim
  <2>2. CASE Batch = {}
    <3>1. Become(w, Idle) /\ UNCHANGED copies
      BY <1>2, <2>2 DEF Claim
    <3>2. \A v \in Publishers :
            \/ worker'[v] = worker[v]
            \/ worker'[v].todo = {} /\ worker'[v].cur = NoEvent
      BY <1>b, <3>1, IdleType
    <3> QED BY <1>k, <2>1, <2>2, <3>1, <3>2
  <2>3. CASE Batch # {}
    <3>1. /\ me.pc = "publish" /\ me.todo = Batch /\ me.cur = NoEvent
          /\ me.held = held
      BY DEF Idle
    <3>2. /\ worker'[w] = me
          /\ \A v \in Publishers \ {w} : worker'[v] = worker[v]
          /\ UNCHANGED copies
      BY <1>2, <1>w, <2>3 DEF Claim, Become
    <3> HIDE DEF me
    <3>3. ASSUME NEW e \in Batch
          PROVE  /\ event'[e].status = "processing"
                 /\ event'[e].lock = "fresh"
                 /\ event'[e].attempts = event[e].attempts + 1
                 /\ held[e] = event'[e].attempts
      <4>1. e \in Events /\ event'[e] = Taken(e)
        BY <2>1, BatchType
      <4>2. Taken(e).status = "processing" /\ Taken(e).lock = "fresh"
        BY DEF Taken
      <4>3. held[e] = Taken(e).attempts
        BY <4>1
      <4> QED BY <1>e, <4>1, <4>2, <4>3, TakenType
    <3> HIDE DEF held
    <3>4. \A e \in Events : Holds(w, e)' <=> e \in Batch
      BY <1>n, <3>1, <3>2 DEF Holds
    <3>5. \A v \in Publishers \ {w}, e \in Events :
            Holds(v, e)' <=> Holds(v, e)
      BY <3>2 DEF Holds
    <3>6. \A e \in Events : ~Holds(w, e)
      <4>1. worker[w].todo = {} /\ worker[w].cur = NoEvent
        BY <1>2 DEF Claim, Exclusive
      <4> QED BY <1>n, <4>1 DEF Holds
    <3>7. \A v \in Publishers :
            /\ worker'[v].pc \in {"idle", "claim"} => worker'[v].todo = {}
            /\ worker'[v].pc # "record" => worker'[v].cur = NoEvent
            /\ worker'[v].cur \notin worker'[v].todo
      BY <1>n, <3>1, <3>2, BatchType DEF Exclusive
    <3>8. ASSUME NEW v \in Publishers, NEW e \in Events, Holds(v, e)'
          PROVE  /\ event'[e].status = "processing" /\ event'[e].lock = "fresh"
                 /\ worker'[v].held[e] = event'[e].attempts
                 /\ \A u \in Publishers \ {v} : ~Holds(u, e)'
      <4>1. CASE v = w
        BY <2>0, <3>1, <3>2, <3>3, <3>4, <3>5, <3>8, <4>1
      <4>2. CASE v # w
        <5>1. Holds(v, e) /\ e \notin Batch /\ ~Holds(w, e)'
          BY <2>0, <3>4, <3>5, <3>8, <4>2
        <5> QED BY <2>1, <3>2, <3>5, <4>2, <5>1 DEF Exclusive
      <4> QED BY <4>1, <4>2
    <3>9. ASSUME NEW v \in Publishers, NEW e \in Events, e \in worker'[v].todo
          PROVE  copies'[e] < event'[e].attempts
      <4>1. CASE v = w
        <5>1. e \in Batch
          BY <3>1, <3>2, <3>9, <4>1
        <5>2. copies[e] <= event[e].attempts
          BY DEF CopiesWithinAttempts
        <5> QED BY <1>e, <1>n, <3>2, <3>3, <5>1, <5>2
      <4>2. CASE v # w
        <5>1. e \in worker[v].todo /\ Holds(v, e) /\ e \notin Batch
          BY <2>0, <3>2, <3>9, <4>2 DEF Holds
        <5> QED BY <2>1, <3>2, <5>1 DEF Exclusive
      <4> QED BY <4>1, <4>2
    <3> QED BY <3>7, <3>8, <3>9 DEF Exclusive
  <2> QED BY <2>2, <2>3
<1>3. ASSUME NEW w \in Publishers, Publish(w) PROVE Exclusive'
  <2>1. PICK e \in worker[w].todo, ok \in BOOLEAN :
          /\ Become(w, [worker[w] EXCEPT !.pc = "record", !.cur = e,
                                         !.todo = @ \ {e}, !.ok = ok])
          /\ copies' \in {copies, [copies EXCEPT ![e] = @ + 1]}
    BY <1>3 DEF Publish
  <2>2. e \in Events /\ worker[w].cur = NoEvent /\ UNCHANGED event
    BY <1>3, <1>w DEF Publish, Publisher, Exclusive
  <2>3. /\ worker'[w].todo = worker[w].todo \ {e}
        /\ worker'[w].cur = e
        /\ worker'[w].pc = "record" /\ worker'[w].held = worker[w].held
        /\ \A v \in Publishers \ {w} : worker'[v] = worker[v]
    BY <1>w, <2>1 DEF Become, Publisher
  <2>4. \A v \in Publishers, d \in Events : Holds(v, d)' <=> Holds(v, d)
    BY <1>n, <2>1, <2>2, <2>3 DEF Holds
  <2>5. \A v \in Publishers : worker'[v].held = worker[v].held
    BY <2>3
  <2>6. \A v \in Publishers :
          /\ worker'[v].pc \in {"idle", "claim"} => worker'[v].todo = {}
          /\ worker'[v].pc # "record" => worker'[v].cur = NoEvent
          /\ worker'[v].cur \notin worker'[v].todo
    BY <2>3 DEF Exclusive
  <2>7. \A v \in Publishers, d \in Events : Holds(v, d)' =>
          /\ event'[d].status = "processing" /\ event'[d].lock = "fresh"
          /\ worker'[v].held[d] = event'[d].attempts
          /\ \A u \in Publishers \ {v} : ~Holds(u, d)'
    BY <2>2, <2>4, <2>5 DEF Exclusive
  <2>8. ASSUME NEW v \in Publishers, NEW d \in Events, d \in worker'[v].todo
        PROVE  copies'[d] < event'[d].attempts
    <3>1. d \in worker[v].todo
      BY <2>3, <2>8
    <3>2. d # e
      <4>1. CASE v = w
        BY <2>3, <2>8, <4>1
      <4>2. CASE v # w
        <5>1. Holds(w, e) /\ Holds(v, d)
          BY <2>1, <3>1 DEF Holds
        <5> QED BY <2>2, <4>2, <5>1 DEF Exclusive
      <4> QED BY <4>1, <4>2
    <3>3. copies'[d] = copies[d]
      BY <1>e, <2>1, <3>2
    <3> QED BY <2>2, <3>1, <3>3 DEF Exclusive
  <2> QED BY <2>6, <2>7, <2>8 DEF Exclusive
<1>4. ASSUME NEW w \in Publishers, Record(w) PROVE Exclusive'
  <2> DEFINE me == worker[w]  e == worker[w].cur
             next == [me EXCEPT !.pc = "publish", !.cur = NoEvent, !.ok = FALSE]
  <2>1. e \in Events /\ Holds(w, e) /\ e \notin me.todo /\ UNCHANGED copies
    BY <1>4, <1>w DEF Record, Holds, Exclusive
  <2>2. \A d \in Events : d # e => event'[d] = event[d]
    BY <1>4, <1>e DEF Record
  <2>3. (worker'[w] = Idle /\ me.todo = {}) \/ worker'[w] = next
    BY <1>4, <1>w DEF Record, Become
  <2>4. \A v \in Publishers \ {w} : worker'[v] = worker[v]
    BY <1>4, <1>w DEF Record, Become
  <2>5. /\ worker'[w].todo = me.todo /\ worker'[w].cur = NoEvent
        /\ worker'[w].pc \notin {"claim", "record"}
        /\ worker'[w].pc = "idle" => me.todo = {}
        /\ me.todo # {} => worker'[w].held = me.held
    BY <1>w, <2>3, IdleType DEF Publisher
  <2>6. \A v \in Publishers, d \in Events :
          Holds(v, d)' => Holds(v, d) /\ d # e /\ worker'[v].held = worker[v].held
    <3>1. \A d \in Events : Holds(w, d)' => d \in me.todo
      BY <1>n, <2>5 DEF Holds
    <3>2. \A v \in Publishers \ {w} : ~Holds(v, e)
      BY <2>1 DEF Exclusive
    <3> QED BY <2>1, <2>4, <2>5, <3>1, <3>2 DEF Holds
  <2>7. \A v \in Publishers :
          /\ worker'[v].pc \in {"idle", "claim"} => worker'[v].todo = {}
          /\ worker'[v].pc # "record" => worker'[v].cur = NoEvent
          /\ worker'[v].cur \notin worker'[v].todo
    <3>1. NoEvent \notin me.todo
      BY <1>n, <1>w DEF Publisher
    <3> QED BY <2>4, <2>5, <3>1 DEF Exclusive
  <2>8. \A v \in Publishers, d \in Events : Holds(v, d)' =>
          /\ event'[d].status = "processing" /\ event'[d].lock = "fresh"
          /\ worker'[v].held[d] = event'[d].attempts
          /\ \A u \in Publishers \ {v} : ~Holds(u, d)'
    BY <2>2, <2>6 DEF Exclusive
  <2>9. \A v \in Publishers, d \in Events :
          d \in worker'[v].todo => copies'[d] < event'[d].attempts
    <3>1. \A v \in Publishers, d \in Events :
            d \in worker'[v].todo => d \in worker[v].todo /\ Holds(v, d)'
      BY <2>4, <2>5 DEF Holds
    <3> QED BY <2>1, <2>2, <2>6, <3>1 DEF Exclusive
  <2> QED BY <2>7, <2>8, <2>9 DEF Exclusive
<1>5. ASSUME NEW w \in Publishers, Crash(w) PROVE Exclusive'
  <2>1. \A v \in Publishers :
          \/ worker'[v] = worker[v]
          \/ worker'[v].todo = {} /\ worker'[v].cur = NoEvent
    BY <1>5, <1>b, IdleType DEF Crash
  <2> QED BY <1>5, <1>k, <2>1 DEF Crash
<1>6. ASSUME NEW e \in Events, Add(e) PROVE Exclusive'
  <2>1. \A w \in Publishers, d \in Events : Holds(w, d) => event'[d] = event[d]
    BY <1>6, <1>e DEF Add, Exclusive
  <2> QED BY <1>6, <1>k, <2>1 DEF Add
<1>7. ASSUME NEW e \in Events, LockAges(e) PROVE Exclusive'
  <2>1. \A w \in Publishers, d \in Events : Holds(w, d) => event'[d] = event[d]
    BY <1>7, <1>e DEF LockAges
  <2> QED BY <1>7, <1>k, <2>1 DEF LockAges
<1>8. ASSUME NEW e \in Events, BackoffEnds(e) PROVE Exclusive'
  BY <1>8, <1>k DEF BackoffEnds
<1>9. CASE UNCHANGED vars
  BY <1>9, <1>k DEF vars
<1> QED BY <1>1, <1>2, <1>3, <1>4, <1>5, <1>6, <1>7, <1>8, <1>9
        DEF Next, PublisherStep

\* Every step of the outbox is a step of its promise, or none.
LEMMA PromiseStep ==
  ASSUME ~MayStall, TypeOK, CopiesWithinAttempts, Given, Exclusive, [Next]_vars
  PROVE  [Promise!Next]_(Promise!vars)
<1> DEFINE stage == [e \in Events |-> Stage(e)]
           tries == [e \in Events |-> event[e].attempts]
<1>e. event \in [Events -> EventRow] /\ copies \in [Events -> Nat]
  BY DEF TypeOK
<1>w. /\ worker \in [Publishers -> Publisher]
      /\ \A w \in Publishers : worker[w].pc = "record" => worker[w].cur \in Events
  BY DEF TypeOK
<1>u. ASSUME \A e \in Events : Stage(e)' = Stage(e)
                                 /\ event'[e].attempts = event[e].attempts,
             UNCHANGED copies
      PROVE  [Promise!Next]_(Promise!vars)
  <2>1. stage' = stage /\ tries' = tries
    BY <1>u
  <2> QED BY <1>u, <2>1 DEF Promise!vars
<1>v. ASSUME UNCHANGED <<event, copies>>
      PROVE  [Promise!Next]_(Promise!vars)
  BY <1>u, <1>v DEF Stage
<1>1. ASSUME NEW w \in Publishers, Reclaim(w)
      PROVE  [Promise!Next]_(Promise!vars)
  <2>1. \A e \in Events : Stage(e)' = Stage(e)
                            /\ event'[e].attempts = event[e].attempts
    BY <1>1, <1>e DEF Reclaim, Stale, Stage, EventRow
  <2> QED BY <1>1, <1>u, <2>1 DEF Reclaim
<1>2. ASSUME NEW w \in Publishers, Claim(w)
      PROVE  [Promise!Next]_(Promise!vars)
  <2>1. PICK B \in SUBSET Events : B = Batch
    BY BatchType
  <2>2. \A e \in B : stage[e] = "owed" /\ tries[e] < MaxAttempts
    BY <2>1, BatchType DEF Claimable, Stage
  <2>3. \A e \in Events : event'[e] = IF e \in B THEN Taken(e) ELSE event[e]
    BY <1>2, <2>1 DEF Claim
  <2>4. ASSUME NEW e \in Events PROVE Stage(e)' = Stage(e)
    <3>1. CASE e \in B
      <4>1. Stage(e) = "owed"
        BY <2>2, <3>1
      <4>2. event'[e] = Taken(e)
        BY <2>3, <3>1
      <4>3. Taken(e).status = "processing"
        BY DEF Taken
      <4> QED BY <4>1, <4>2, <4>3 DEF Stage
    <3>2. CASE e \notin B
      BY <2>3, <3>2 DEF Stage
    <3> QED BY <3>1, <3>2
  <2>5. stage' = stage
    BY <2>4
  <2>6. tries' = [e \in Events |-> IF e \in B THEN tries[e] + 1 ELSE tries[e]]
    <3>1. \A e \in B : Taken(e).attempts = event[e].attempts + 1
      BY <1>e, <2>1, TakenType
    <3> QED BY <2>3, <3>1
  <2>7. UNCHANGED copies
    BY <1>2 DEF Claim
  <2>8. Promise!Try(B)
    BY <2>2, <2>5, <2>6, <2>7 DEF Promise!Try
  <2> QED BY <2>8 DEF Promise!Next
<1>3. ASSUME NEW w \in Publishers, Publish(w)
      PROVE  [Promise!Next]_(Promise!vars)
  <2>1. PICK e \in worker[w].todo :
          copies' \in {copies, [copies EXCEPT ![e] = @ + 1]}
    BY <1>3 DEF Publish
  <2>2. e \in Events /\ UNCHANGED event
    BY <1>3, <1>w DEF Publish, Publisher
  <2>3. CASE UNCHANGED copies
    BY <1>v, <2>2, <2>3
  <2>4. CASE copies' = [copies EXCEPT ![e] = @ + 1]
    <3>1. Holds(w, e)
      BY <2>1 DEF Holds
    <3>2. stage[e] = "owed" /\ copies[e] < tries[e]
      BY <2>1, <2>2, <3>1 DEF Exclusive, Stage
    <3>3. stage' = stage /\ tries' = tries
      BY <2>2 DEF Stage
    <3>4. Promise!Give(e)
      BY <2>4, <3>2, <3>3 DEF Promise!Give
    <3> QED BY <2>2, <3>4 DEF Promise!Next
  <2> QED BY <2>1, <2>3, <2>4
<1>4. ASSUME NEW w \in Publishers, Record(w)
      PROVE  [Promise!Next]_(Promise!vars)
  <2> DEFINE me == worker[w]
  <2>0. PICK e \in Events : e = worker[w].cur
    BY <1>4, <1>w DEF Record
  <2>1. Holds(w, e) /\ UNCHANGED copies
    BY <1>4, <2>0 DEF Record, Holds
  <2>2. /\ event[e].status = "processing" /\ me.held[e] = event[e].attempts
        /\ me.ok => copies[e] > 0
    BY <1>4, <2>0, <2>1 DEF Record, Exclusive, Given
  <2>3. /\ event'[e].status = Verdict(me)
        /\ \A d \in Events \ {e} : event'[d] = event[d]
        /\ \A d \in Events : event'[d].attempts = event[d].attempts
    BY <1>4, <1>e, <2>0 DEF Record, EventRow
  <2>4. tries' = tries /\ stage[e] = "owed"
    BY <2>2, <2>3 DEF Stage
  <2>5. Stage(e)' = IF Verdict(me) = "published" THEN "done"
                    ELSE IF Verdict(me) = "dead" THEN "dead" ELSE "owed"
    BY <2>3 DEF Stage, Verdict
  <2>6. \A d \in Events \ {e} : Stage(d)' = Stage(d)
    BY <2>3 DEF Stage
  <2>7. CASE Verdict(me) = "published"
    <3>1. copies[e] > 0
      BY <2>2, <2>7 DEF Verdict
    <3>2. stage' = [stage EXCEPT ![e] = "done"]
      BY <2>5, <2>6, <2>7
    <3>3. Promise!Conclude(e)
      BY <2>1, <2>4, <3>1, <3>2 DEF Promise!Conclude
    <3> QED BY <3>3 DEF Promise!Next
  <2>8. CASE Verdict(me) = "dead"
    <3>1. tries[e] = MaxAttempts
      <4>1. event[e].attempts >= MaxAttempts /\ event[e].attempts \in 0..MaxAttempts
        BY <1>e, <2>0, <2>2, <2>8 DEF Verdict, EventRow
      <4> QED BY <4>1, LimitAssumption
    <3>2. stage' = [stage EXCEPT ![e] = "dead"]
      BY <2>5, <2>6, <2>8
    <3>3. Promise!Conclude(e)
      BY <2>1, <2>4, <3>1, <3>2 DEF Promise!Conclude
    <3> QED BY <3>3 DEF Promise!Next
  <2>9. CASE Verdict(me) = "failed"
    <3>1. \A d \in Events : Stage(d)' = Stage(d)
      BY <2>2, <2>5, <2>6, <2>9 DEF Stage
    <3> QED BY <1>u, <2>1, <2>3, <3>1
  <2> QED BY <2>7, <2>8, <2>9 DEF Verdict
<1>5. ASSUME NEW w \in Publishers, Crash(w)
      PROVE  [Promise!Next]_(Promise!vars)
  BY <1>5, <1>v DEF Crash
<1>6. ASSUME NEW e \in Events, Add(e)
      PROVE  [Promise!Next]_(Promise!vars)
  <2>1. /\ event[e].status = "absent" /\ event'[e].status = "pending"
        /\ \A d \in Events \ {e} : event'[d] = event[d]
        /\ \A d \in Events : event'[d].attempts = event[d].attempts
        /\ UNCHANGED copies
    BY <1>6, <1>e DEF Add, EventRow
  <2>2. /\ stage[e] = "none" /\ Stage(e)' = "owed"
        /\ \A d \in Events \ {e} : Stage(d)' = Stage(d)
    BY <2>1 DEF Stage
  <2>3. stage' = [stage EXCEPT ![e] = "owed"] /\ tries' = tries
    BY <2>1, <2>2
  <2>4. Promise!Accept(e)
    BY <2>1, <2>2, <2>3 DEF Promise!Accept
  <2> QED BY <2>4 DEF Promise!Next
<1>7. ASSUME NEW e \in Events, LockAges(e)
      PROVE  [Promise!Next]_(Promise!vars)
  <2>1. \A d \in Events : event'[d].status = event[d].status
                            /\ event'[d].attempts = event[d].attempts
    BY <1>7, <1>e DEF LockAges, EventRow
  <2> QED BY <1>7, <1>u, <2>1 DEF LockAges, Stage
<1>8. ASSUME NEW e \in Events, BackoffEnds(e)
      PROVE  [Promise!Next]_(Promise!vars)
  BY <1>8, <1>v DEF BackoffEnds
<1>9. CASE UNCHANGED vars
  BY <1>9, <1>v DEF vars
<1> QED BY <1>1, <1>2, <1>3, <1>4, <1>5, <1>6, <1>7, <1>8, <1>9
        DEF Next, PublisherStep

\* If no lock goes stale under a task that is still at work, the outbox keeps
\* the promise of OutboxDelivery: bounded tries, PUBLISHED only after a
\* delivery, DEAD only after the last try, and both final.
THEOREM OutboxKeepsPromise == ASSUME ~MayStall PROVE Spec => KeepsPromise
<1> DEFINE Inv == TypeOK /\ Paid /\ Given /\ Exclusive
<1>1. Init => Inv /\ Promise!Init
  <2>1. ASSUME Init PROVE Exclusive /\ Promise!Init
    <3>1. \A w \in Publishers : worker[w].todo = {} /\ worker[w].cur = NoEvent
      BY <2>1, IdleType DEF Init
    <3>2. Exclusive
      BY <3>1, EventsAssumption DEF Exclusive, Holds
    <3>3. Promise!Init
      BY <2>1 DEF Init, Promise!Init, Stage
    <3> QED BY <3>2, <3>3
  <2> QED BY <2>1, InitType, InitGiven, InitPaid
<1>2. Inv /\ [Next]_vars => Inv'
  BY TypeStep, PaidStep, PaidEnough, GivenStep, ExclusiveStep
<1>3. Inv /\ [Next]_vars => [Promise!Next]_(Promise!vars)
  BY PaidEnough, PromiseStep
<1> QED BY <1>1, <1>2, <1>3, PTL DEF Spec, KeepsPromise, Promise!Spec
-----------------------------------------------------------------------------
(* Spent means dead, until a publisher dies *)

\* A row being processed is in somebody's batch, and so no reclaim touches it.
Buried ==
    crashes = 0 =>
        \A e \in Events :
            /\ event[e].status = "failed" => event[e].attempts < MaxAttempts
            /\ event[e].status = "processing" => \E w \in Publishers : Holds(w, e)

\* Steps that leave the rows and the batches alone.
LEMMA BuriedRests ==
  ASSUME Buried, UNCHANGED crashes,
         \A e \in Events : \/ UNCHANGED event[e]
                           \/ event'[e].status \notin {"failed", "processing"},
         \A w \in Publishers, e \in Events : Holds(w, e) => Holds(w, e)'
  PROVE  Buried'
BY DEF Buried

LEMMA BuriedStep ==
  ASSUME ~MayStall, TypeOK, Exclusive, Buried, [Next]_vars
  PROVE  Buried'
<1>e. event \in [Events -> EventRow] /\ worker \in [Publishers -> Publisher]
  BY DEF TypeOK
<1>n. NoEvent \notin Events
  BY EventsAssumption
<1>1. ASSUME NEW w \in Publishers, Reclaim(w) PROVE Buried'
  <2>1. SUFFICES ASSUME crashes = 0 PROVE Buried'
    BY <1>1 DEF Reclaim, Buried
  <2>2. \A e \in Events : ~Stale(e)
    BY <2>1 DEF Stale, Buried, Exclusive
  <2>3. event' = [e \in Events |-> IF Stale(e)
                                   THEN [event[e] EXCEPT !.status = "failed", !.lock = "none"]
                                   ELSE event[e]]
    BY <1>1 DEF Reclaim
  <2>4. \A e \in Events : event'[e] = event[e]
    BY <2>2, <2>3
  <2>5. worker[w].todo = {} /\ worker[w].cur = NoEvent
    BY <1>1 DEF Reclaim, Exclusive
  <2>6. \A v \in Publishers, e \in Events : Holds(v, e) => Holds(v, e)'
    BY <1>1, <1>e, <1>n, <2>5 DEF Reclaim, Become, Holds
  <2> QED BY <1>1, <2>4, <2>6, BuriedRests DEF Reclaim
<1>2. ASSUME NEW w \in Publishers, Claim(w) PROVE Buried'
  <2>1. SUFFICES ASSUME crashes = 0 PROVE Buried'
    BY <1>2 DEF Claim, Buried
  <2>2. \A e \in Events : event'[e] = IF e \in Batch THEN Taken(e) ELSE event[e]
    BY <1>2 DEF Claim
  <2>3. worker[w].todo = {} /\ worker[w].cur = NoEvent
    BY <1>2 DEF Claim, Exclusive
  <2>4. \A v \in Publishers \ {w} : worker'[v] = worker[v]
    BY <1>2, <1>e DEF Claim, Become
  <2>5. Batch # {} => worker'[w].todo = Batch
    <3>1. ASSUME NEW h PROVE [Idle EXCEPT !.pc = "publish", !.todo = Batch, !.held = h].todo = Batch
      BY DEF Idle
    <3> QED BY <1>2, <1>e, <3>1 DEF Claim, Become
  <2>6. \A e \in Batch : Holds(w, e)'
    BY <2>5 DEF Holds
  <2>7. \A e \in Batch : Taken(e).status = "processing"
    BY DEF Taken
  <2>8. \A v \in Publishers, e \in Events : Holds(v, e) => Holds(v, e)'
    BY <1>n, <2>3, <2>4 DEF Holds
  <2> QED BY <1>2, <2>1, <2>2, <2>6, <2>7, <2>8 DEF Buried, Claim
<1>3. ASSUME NEW w \in Publishers, Publish(w) PROVE Buried'
  <2>1. PICK e \in worker[w].todo, ok \in BOOLEAN :
          Become(w, [worker[w] EXCEPT !.pc = "record", !.cur = e,
                                      !.todo = @ \ {e}, !.ok = ok])
    BY <1>3 DEF Publish
  <2>2. worker[w].cur = NoEvent
    BY <1>3 DEF Publish, Exclusive
  <2>3. /\ worker'[w].todo = worker[w].todo \ {e} /\ worker'[w].cur = e
        /\ \A v \in Publishers \ {w} : worker'[v] = worker[v]
    BY <1>e, <2>1 DEF Become, Publisher
  <2>4. \A v \in Publishers, d \in Events : Holds(v, d) => Holds(v, d)'
    BY <1>n, <2>2, <2>3 DEF Holds
  <2> QED BY <1>3, <2>4, BuriedRests DEF Publish
<1>4. ASSUME NEW w \in Publishers, Record(w) PROVE Buried'
  <2>1. SUFFICES ASSUME crashes = 0 PROVE Buried'
    BY <1>4 DEF Record, Buried
  <2> DEFINE me == worker[w]  e == worker[w].cur
  <2>2. e \in Events /\ Holds(w, e) /\ me \in Publisher
    BY <1>4, <1>e DEF Record, TypeOK, Holds
  <2>3. me.held[e] = event[e].attempts /\ event[e].attempts \in 0..MaxAttempts
    BY <2>2, <1>e DEF Exclusive, EventRow
  <2>4. /\ event'[e].status = Verdict(me) /\ event'[e].attempts = event[e].attempts
        /\ \A d \in Events : d # e => event'[d] = event[d]
    BY <1>4, <1>e, <2>2 DEF Record, EventRow
  <2>5. /\ Verdict(me) # "processing"
        /\ Verdict(me) = "failed" => event'[e].attempts < MaxAttempts
    BY <2>3, <2>4, LimitAssumption DEF Verdict
  <2>6. worker'[w].todo = me.todo /\ \A v \in Publishers \ {w} : worker'[v] = worker[v]
    <3>1. [me EXCEPT !.pc = "publish", !.cur = NoEvent, !.ok = FALSE].todo = me.todo
      BY <2>2 DEF Publisher
    <3>2. Become(w, IF me.todo = {} THEN Idle
                    ELSE [me EXCEPT !.pc = "publish", !.cur = NoEvent, !.ok = FALSE])
      BY <1>4 DEF Record
    <3> QED BY <1>e, <3>1, <3>2, IdleType DEF Become
  <2>7. \A v \in Publishers, d \in Events : d # e /\ Holds(v, d) => Holds(v, d)'
    BY <2>6 DEF Holds
  <2>8. ASSUME NEW d \in Events
        PROVE  /\ event'[d].status = "failed" => event'[d].attempts < MaxAttempts
               /\ event'[d].status = "processing" => \E v \in Publishers : Holds(v, d)'
    <3>1. CASE d = e
      BY <2>4, <2>5, <3>1
    <3>2. CASE d # e
      BY <2>1, <2>4, <2>7, <3>2 DEF Buried
    <3> QED BY <3>1, <3>2
  <2> QED BY <2>8 DEF Buried
<1>5. ASSUME NEW w \in Publishers, Crash(w) PROVE Buried'
  BY <1>5, CrashAssumption DEF Crash, Buried, TypeOK
<1>6. ASSUME NEW e \in Events, Add(e) \/ LockAges(e) PROVE Buried'
  <2>1. /\ \A d \in Events \ {e} : event'[d] = event[d]
        /\ UNCHANGED <<worker, crashes>>
    BY <1>6, <1>e DEF Add, LockAges
  <2>2. CASE Add(e)
    <3>1. event'[e].status = "pending"
      BY <2>2, <1>e DEF Add, EventRow
    <3> QED BY <2>1, <3>1, BuriedRests DEF Holds
  <2>3. CASE LockAges(e)
    <3>1. \A w \in Publishers : ~Holds(w, e)
      BY <2>3 DEF LockAges
    <3>2. crashes # 0
      BY <2>3, <3>1 DEF LockAges, Buried
    <3> QED BY <2>1, <3>2 DEF Buried
  <2> QED BY <1>6, <2>2, <2>3
<1>7. ASSUME \/ \E e \in Events : BackoffEnds(e)
             \/ UNCHANGED vars
      PROVE  Buried'
  BY <1>7, BuriedRests DEF BackoffEnds, vars, Holds
<1> QED BY <1>1, <1>2, <1>3, <1>4, <1>5, <1>6, <1>7 DEF Next, PublisherStep

\* The verdict on a failed publication (outbox_tasks.py:19-27) against attempts
\* counted at the claim (outbox.py:43): with any number of publishers, an event
\* without an attempt left is dead-lettered as long as none of them dies and no
\* lock goes stale under one still at work.
THEOREM SpentIsBuried == ASSUME ~MayStall PROVE Spec => []SpentIsDead
<1> DEFINE Inv == TypeOK /\ Paid /\ Exclusive /\ Buried
<1>1. Init => Inv
  <2> SUFFICES ASSUME Init PROVE Exclusive /\ Buried
    BY InitType, InitPaid
  <2>1. \A w \in Publishers : worker[w] = Idle
    BY DEF Init
  <2>2. Exclusive
    BY <2>1, EventsAssumption DEF Exclusive, Holds, Idle
  <2>3. Buried
    BY DEF Init, Buried
  <2> QED BY <2>2, <2>3
<1>2. Inv /\ [Next]_vars => Inv'
  BY TypeStep, PaidStep, PaidEnough, ExclusiveStep, BuriedStep
<1>3. Inv => SpentIsDead
  BY DEF Buried, SpentIsDead
<1> HIDE DEF Inv
<1> QED BY <1>1, <1>2, <1>3, PTL DEF Spec

-----------------------------------------------------------------------------
(* DEAD means spent, however slow the publishers *)

\* A dead row has used up its attempts.
DeadIsSpent == \A e \in Events : event[e].status = "dead" => event[e].attempts = MaxAttempts

\* What a session remembers of a row may be old, but it is never ahead of it.
Remembers ==
    \A w \in Publishers : \A e \in Events :
        worker[w].held[e] <= event[e].attempts

LEMMA SpentStep == TypeOK /\ DeadIsSpent /\ Remembers /\ [Next]_vars
                   => DeadIsSpent' /\ Remembers'
<1> SUFFICES ASSUME TypeOK, DeadIsSpent, Remembers, [Next]_vars
             PROVE  DeadIsSpent' /\ Remembers'
  OBVIOUS
<1>0. event \in [Events -> EventRow] /\ worker \in [Publishers -> Publisher]
  BY DEF TypeOK
<1>a. \A e \in Events : event[e].attempts \in 0..MaxAttempts
  BY <1>0 DEF EventRow
<1>h. \A w \in Publishers : \A e \in Events : worker[w].held[e] \in 0..MaxAttempts
  BY <1>0 DEF Publisher
<1>i. \A e \in Events : Idle.held[e] = 0
  BY DEF Idle
\* Attempts do not fall, and what is remembered anew is what the row says.
<1>1. ASSUME \A e \in Events : /\ event'[e].attempts \in 0..MaxAttempts
                               /\ event[e].attempts <= event'[e].attempts,
             NEW w \in Publishers, NEW me, Become(w, me),
             \A e \in Events : me.held[e] = 0 \/ me.held[e] = worker[w].held[e]
                               \/ me.held[e] = event'[e].attempts
      PROVE  Remembers'
  <2>1. \A v \in Publishers : worker'[v] = IF v = w THEN me ELSE worker[v]
    BY <1>0, <1>1 DEF Become
  <2> SUFFICES ASSUME NEW v \in Publishers, NEW e \in Events
               PROVE  worker'[v].held[e] <= event'[e].attempts
    BY DEF Remembers
  <2>2. worker[v].held[e] <= event[e].attempts
    BY DEF Remembers
  <2>3. worker[v].held[e] <= event'[e].attempts
    BY <1>1, <1>a, <1>h, <2>2
  <2>4. CASE v = w
    BY <1>1, <1>h, <2>1, <2>3, <2>4
  <2>5. CASE v # w
    BY <2>1, <2>3, <2>5
  <2> QED BY <2>4, <2>5
<1>2. ASSUME NEW w \in Publishers, Reclaim(w) PROVE DeadIsSpent' /\ Remembers'
  <2>1. \A e \in Events : /\ event'[e].attempts = event[e].attempts
                          /\ event'[e].status = "dead" => event[e].status = "dead"
    BY <1>0, <1>2 DEF Reclaim, EventRow
  <2> DEFINE me == [Idle EXCEPT !.pc = "claim"]
  <2>2. Become(w, me)
    BY <1>2 DEF Reclaim
  <2>3. me.held = Idle.held
    BY DEF Idle
  <2> HIDE DEF me
  <2>4. Remembers'
    BY <1>1, <1>a, <1>i, <2>1, <2>2, <2>3
  <2> QED BY <2>1, <2>4 DEF DeadIsSpent
<1>3. ASSUME NEW w \in Publishers, Claim(w) PROVE DeadIsSpent' /\ Remembers'
  <2> DEFINE held == [e \in Events |-> IF e \in Batch THEN Taken(e).attempts ELSE 0]
             me == [Idle EXCEPT !.pc = "publish", !.todo = Batch, !.held = held]
  <2>1. \A e \in Events : event'[e] = IF e \in Batch THEN Taken(e) ELSE event[e]
    BY <1>3 DEF Claim
  <2>2. \A e \in Batch : Taken(e).attempts = event[e].attempts + 1
                         /\ Taken(e).attempts \in 0..MaxAttempts /\ Taken(e).status # "dead"
    BY <1>0, TakenType DEF EventRow, Taken
  <2>3. \A e \in Events : /\ event'[e].attempts \in 0..MaxAttempts
                          /\ event[e].attempts <= event'[e].attempts
    BY <1>a, <2>1, <2>2
  <2>4. DeadIsSpent'
    BY <2>1, <2>2 DEF DeadIsSpent
  <2>5. Become(w, Idle) \/ Become(w, me)
    BY <1>3 DEF Claim
  <2>6. me.held = held
    BY DEF Idle
  <2>7. \A e \in Events : held[e] = 0 \/ held[e] = event'[e].attempts
    BY <2>1
  <2> HIDE DEF me, held
  <2>8. \A e \in Events : me.held[e] = 0 \/ me.held[e] = event'[e].attempts
    BY <2>6, <2>7
  <2> QED BY <1>1, <1>i, <2>3, <2>4, <2>5, <2>8
<1>4. ASSUME NEW w \in Publishers, Publish(w) PROVE DeadIsSpent' /\ Remembers'
  <2>1. PICK e \in worker[w].todo, ok \in BOOLEAN :
          Become(w, [worker[w] EXCEPT !.pc = "record", !.cur = e, !.todo = @ \ {e}, !.ok = ok])
    BY <1>4 DEF Publish
  <2> DEFINE me == [worker[w] EXCEPT !.pc = "record", !.cur = e, !.todo = @ \ {e}, !.ok = ok]
  <2>2. me.held = worker[w].held
    BY <1>0 DEF Publisher
  <2>3. UNCHANGED event
    BY <1>4 DEF Publish
  <2>4. Become(w, me)
    BY <2>1
  <2> HIDE DEF me
  <2>5. Remembers'
    BY <1>1, <1>a, <2>2, <2>3, <2>4
  <2> QED BY <2>3, <2>5 DEF DeadIsSpent
<1>5. ASSUME NEW w \in Publishers, Record(w) PROVE DeadIsSpent' /\ Remembers'
  <2> DEFINE me == worker[w]
             c == worker[w].cur
             next == [me EXCEPT !.pc = "publish", !.cur = NoEvent, !.ok = FALSE]
  <2>1. c \in Events /\ event' = [event EXCEPT ![c].status = Verdict(me), ![c].lock = "none"]
    BY <1>5 DEF Record, TypeOK
  <2>2. \A e \in Events : /\ event'[e].attempts = event[e].attempts
                          /\ event'[e].status = IF e = c THEN Verdict(me) ELSE event[e].status
    BY <1>0, <2>1 DEF EventRow
  <2>3. Verdict(me) = "dead" => event[c].attempts = MaxAttempts
    <3>1. Verdict(me) = "dead" => me.held[c] >= MaxAttempts
      BY DEF Verdict
    <3>2. me.held[c] <= event[c].attempts
      BY <2>1 DEF Remembers
    <3> QED BY <1>a, <1>h, <2>1, <3>1, <3>2, LimitAssumption
  <2>4. Become(w, Idle) \/ Become(w, next)
    BY <1>5 DEF Record
  <2>5. next.held = me.held
    BY <1>0 DEF Publisher
  <2> HIDE DEF next
  <2>6. Remembers'
    BY <1>1, <1>a, <1>i, <2>2, <2>4, <2>5
  <2> QED BY <2>2, <2>3, <2>6 DEF DeadIsSpent
<1>6. ASSUME NEW w \in Publishers, Crash(w) PROVE DeadIsSpent' /\ Remembers'
  <2>1. Become(w, Idle) /\ UNCHANGED event
    BY <1>6 DEF Crash
  <2>2. Remembers'
    BY <1>1, <1>a, <1>i, <2>1
  <2> QED BY <2>1, <2>2 DEF DeadIsSpent
<1>7. ASSUME NEW e \in Events, Add(e) \/ LockAges(e) PROVE DeadIsSpent' /\ Remembers'
  <2>1. UNCHANGED worker /\ \A d \in Events :
          /\ event'[d].attempts = event[d].attempts
          /\ event'[d].status = "dead" => event[d].status = "dead"
    BY <1>0, <1>7 DEF Add, LockAges, EventRow
  <2> QED BY <2>1 DEF DeadIsSpent, Remembers
<1>8. CASE UNCHANGED vars \/ \E e \in Events : BackoffEnds(e)
  <2>1. UNCHANGED <<event, worker>>
    BY <1>8 DEF vars, BackoffEnds
  <2> QED BY <2>1 DEF DeadIsSpent, Remembers
<1> QED BY <1>2, <1>3, <1>4, <1>5, <1>6, <1>7, <1>8 DEF Next, PublisherStep

\* A row is dead only after its last attempt, whatever a publisher writes whose
\* lock went stale and whose session remembers an earlier attempt: a second
\* publisher never buries an event that could still be tried.
THEOREM DeadMeansSpent == Spec => []DeadIsSpent
<1>1. Init => TypeOK /\ DeadIsSpent /\ Remembers
  <2> SUFFICES ASSUME Init PROVE DeadIsSpent /\ Remembers
    BY InitType
  <2>1. \A w \in Publishers : \A e \in Events : worker[w].held[e] = 0
    BY DEF Init, Idle
  <2>2. \A e \in Events : event[e].attempts = 0 /\ event[e].status = "absent"
    BY DEF Init
  <2> QED BY <2>1, <2>2 DEF DeadIsSpent, Remembers
<1>2. TypeOK /\ DeadIsSpent /\ Remembers /\ [Next]_vars => (TypeOK /\ DeadIsSpent /\ Remembers)'
  BY TypeStep, SpentStep
<1> QED BY <1>1, <1>2, PTL DEF Spec
=============================================================================

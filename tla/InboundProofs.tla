--------------------------- MODULE InboundProofs ---------------------------
(***************************************************************************)
(* What holds of Inbound for any number of payloads, messages, senders,    *)
(* events, requests, workers, retries and faults.                          *)
(***************************************************************************)
EXTENDS Inbound, FiniteSetTheorems, TLAPS

(* The inductive invariant *)

AtMessage == {"persist", "again", "effects"}

\* A row exists as soon as it holds a payload.
EventPlaces == \A e \in Events : event[e].status # "absent" <=> event[e].hook \in Hooks

RequestPlaces ==
    \A q \in Requests :
        /\ request[q].pc # "idle" => request[q].hook \in Hooks
        /\ request[q].pc = "dispatch" => /\ request[q].event \in Events
                                         /\ event[request[q].event].hook = request[q].hook

QueuePlaces == \A t \in BagToSet(queue) : event[t[1]].hook \in Hooks

\* A task has an event that exists, and is at one of its messages.
WorkerPlaces ==
    \A w \in Workers :
        /\ worker[w].pc = "idle" => worker[w] = IdleWorker
        /\ worker[w].pc # "idle" => /\ worker[w].event \in Events
                                    /\ event[worker[w].event].hook \in Hooks
        /\ worker[w].item > 0
        /\ worker[w].pc \in AtMessage => worker[w].item <= Len(Items(w))

Typed == TypeOK /\ EventPlaces /\ RequestPlaces /\ QueuePlaces /\ WorkerPlaces

\* The side effects of a message have happened, or are in one worker's hands, or
\* are to come; so are its runs.
Doing(w, m) == worker[w].pc = "effects" /\ Current(w) = m
Holds(w, m) == m \in worker[w].runs

Once(m) ==
    /\ \A v, w \in Workers : Doing(v, m) /\ Doing(w, m) => v = w
    /\ \A v, w \in Workers : Holds(v, m) /\ Holds(w, m) => v = w
    /\ \A w \in Workers : Doing(w, m) => m \in stored /\ history.effects[m] = 0
    /\ \A w \in Workers : Holds(w, m) =>
         history.effects[m] = 1 /\ history.dispatched[m] = 0
    /\ m \notin stored => history.effects[m] = 0
    /\ history.effects[m] <= 1 /\ history.dispatched[m] <= history.effects[m]

\* What a task has left behind without an error is in the inbox.
Progress(w) ==
    /\ worker[w].pc \in {"item"} \cup AtMessage
       /\ ~worker[w].errors /\ ~worker[w].spoiled
       => \A i \in 1..Len(Items(w)) : i < worker[w].item => Items(w)[i] \in stored
    /\ worker[w].pc = "effects" => Current(w) \in stored

\* Whoever has an event and will mark it or queue it again.
Carries(w, e) ==
    /\ worker[w].event = e /\ worker[w].pc # "dispatch"
    /\ worker[w].pc = "retry" => Retryable(worker[w].try)
Queued(e) == \E n \in 0..MaxRetries : BagIn(<<e, n>>, queue)
Lost == history.dropped \cup history.unmarked
Cared(e) ==
    \/ event[e].status \in {"processed", "failed"}
    \/ Queued(e) \/ \E w \in Workers : Carries(w, e)
    \/ e \in Lost
Tracked == \A h \in answered : \E e \in Events : event[e].hook = h /\ Cared(e)

IInv == /\ Typed
        /\ \A m \in Messages : Once(m)
        /\ \A w \in Workers : Progress(w)
        /\ ProcessedIsStored /\ Tracked

-----------------------------------------------------------------------------
(* Bags *)

LEMMA SetBag == ASSUME NEW S PROVE IsABag(SetToBag(S)) /\ BagToSet(SetToBag(S)) = S
  BY DEF IsABag, SetToBag, BagToSet

LEMMA BagSum ==
  ASSUME NEW B, NEW S, IsABag(B)
  PROVE  /\ IsABag(B (+) SetToBag(S))
         /\ BagToSet(B (+) SetToBag(S)) = BagToSet(B) \cup S
<1> DEFINE C == SetToBag(S)
<1>1. IsABag(C) /\ DOMAIN C = S
  BY SetBag DEF BagToSet
<1>2. DOMAIN (B (+) C) = DOMAIN B \cup S
  BY <1>1 DEF (+)
<1>3. ASSUME NEW x \in DOMAIN B \cup S PROVE (B (+) C)[x] \in {n \in Nat : n > 0}
  BY <1>1 DEF (+), IsABag
<1>4. IsABag(B (+) C)
  <2>1. (B (+) C) = [x \in DOMAIN (B (+) C) |-> (B (+) C)[x]]
    BY DEF (+)
  <2> QED BY <2>1, <1>2, <1>3 DEF IsABag
<1> QED BY <1>2, <1>4 DEF BagToSet

LEMMA BagTaken ==
  ASSUME NEW B, NEW x, IsABag(B)
  PROVE  /\ IsABag(B (-) SetToBag({x}))
         /\ BagToSet(B (-) SetToBag({x})) \subseteq BagToSet(B)
         /\ \A y \in BagToSet(B) : y # x => y \in BagToSet(B (-) SetToBag({x}))
<1> DEFINE C == SetToBag({x})
           L == [e \in DOMAIN B |-> IF e \in DOMAIN C THEN B[e] - C[e] ELSE B[e]]
           D == {d \in DOMAIN L : L[d] > 0}
           R == [e \in D |-> L[e]]
<1>1. B (-) C = R
  BY DEF (-)
<1>2. DOMAIN C = {x} /\ C[x] = 1
  BY DEF SetToBag
<1>3. \A e \in DOMAIN B : L[e] \in Int /\ (e # x => L[e] = B[e] /\ B[e] > 0)
  BY <1>2 DEF IsABag
<1>4. \A e \in D : R[e] \in {n \in Nat : n > 0}
  BY <1>3
<1>5. DOMAIN R = D /\ IsABag(R)
  BY <1>4 DEF IsABag
<1>6. D \subseteq DOMAIN B /\ \A y \in DOMAIN B : y # x => y \in D
  BY <1>3
<1> QED BY <1>1, <1>5, <1>6 DEF BagToSet

-----------------------------------------------------------------------------
(* Places in the code *)

LEMMA IdleTypes == IdleWorker \in Worker /\ IdleRequest \in Request
                   /\ IdleWorker.pc = "idle" /\ IdleWorker.event = NoEvent
                   /\ IdleWorker.runs = {} /\ IdleWorker.item = 1
  BY InboundAssumption DEF IdleWorker, Worker, IdleRequest, Request, WorkerPc

\* The next message of the payload.
LEMMA AdvanceTo ==
  ASSUME TypeOK, NEW w \in Workers, NEW errors \in BOOLEAN, NEW spoiled \in BOOLEAN,
         NEW runs \in SUBSET Messages, Advance(w, errors, spoiled, runs)
  PROVE  /\ worker' = [worker EXCEPT ![w] = worker'[w]] /\ worker'[w] \in Worker
         /\ worker'[w].pc = "item" /\ worker'[w].event = worker[w].event
         /\ worker'[w].try = worker[w].try /\ worker'[w].item = worker[w].item + 1
         /\ (worker'[w].errors <=> errors) /\ (worker'[w].spoiled <=> spoiled)
         /\ worker'[w].runs = runs
<1>1. worker[w] \in Worker
  BY DEF TypeOK
<1> DEFINE next == [IdleWorker EXCEPT
                      !.pc = "item", !.event = worker[w].event,
                      !.try = worker[w].try, !.item = worker[w].item + 1,
                      !.errors = errors, !.spoiled = spoiled, !.runs = runs]
<1>2. next \in Worker
  <2>1. /\ worker[w].event \in Events \cup {NoEvent} /\ worker[w].try \in 0..MaxRetries
        /\ worker[w].item + 1 \in Nat
    BY <1>1 DEF Worker
  <2>2. "item" \in WorkerPc
    BY DEF WorkerPc
  <2> QED BY <2>1, <2>2, IdleTypes DEF Worker
<1>3. /\ next.pc = "item" /\ next.event = worker[w].event
      /\ next.try = worker[w].try /\ next.item = worker[w].item + 1
      /\ next.runs = runs
  BY IdleTypes DEF Worker
<1>4. (next.errors <=> errors) /\ (next.spoiled <=> spoiled)
  BY IdleTypes DEF Worker
<1>5. worker' = [worker EXCEPT ![w] = next]
  BY DEF Advance
<1>6. worker'[w] = next
  BY <1>5 DEF TypeOK
<1> HIDE DEF next
<1> QED BY <1>2, <1>3, <1>4, <1>5, <1>6

LEMMA GoesTo ==
  ASSUME TypeOK, NEW w \in Workers, NEW pc \in WorkerPc, Goto(w, pc)
  PROVE  /\ worker' = [worker EXCEPT ![w] = worker'[w]] /\ worker'[w] \in Worker
         /\ worker'[w].pc = pc /\ worker'[w].event = worker[w].event
         /\ worker'[w].try = worker[w].try /\ worker'[w].item = worker[w].item
         /\ worker'[w].errors = worker[w].errors
         /\ worker'[w].spoiled = worker[w].spoiled
         /\ worker'[w].runs = worker[w].runs
  BY DEF Goto, TypeOK, Worker

LEMMA FoundType ==
  ASSUME TypeOK, NEW w \in Workers, NEW twice \in BOOLEAN,
         worker' = [worker EXCEPT ![w] = [Found(w) EXCEPT !.twice = twice]]
  PROVE  /\ worker' = [worker EXCEPT ![w] = worker'[w]] /\ worker'[w] \in Worker
         /\ worker'[w].pc = "persist" /\ worker'[w].event = worker[w].event
         /\ worker'[w].try = worker[w].try /\ worker'[w].item = worker[w].item
         /\ worker'[w].errors = worker[w].errors
         /\ worker'[w].spoiled = worker[w].spoiled
         /\ worker'[w].runs = worker[w].runs
<1>1. worker[w] \in Worker
  BY DEF TypeOK
<1> QED BY <1>1 DEF Found, TypeOK, Worker, WorkerPc

LEMMA ItemsType ==
  ASSUME Typed, NEW w \in Workers, worker[w].pc # "idle"
  PROVE  /\ Items(w) \in Seq(Messages) /\ Len(Items(w)) \in Nat
         /\ worker[w].item \in Nat
         /\ worker[w].item <= Len(Items(w)) => Current(w) \in Messages
<1>1. Items(w) \in Seq(Messages)
  BY InboundAssumption DEF Typed, WorkerPlaces, Items
<1>2. worker[w].item \in Nat /\ worker[w].item > 0
  BY DEF Typed, WorkerPlaces, TypeOK, Worker
<1> QED BY <1>1, <1>2 DEF Current

\* A row keeps its payload.
HooksKept == \A e \in Events : event[e].hook \in Hooks => event'[e].hook = event[e].hook

\* What a task's step does to its own place; Shift says where to.
Shift(w) ==
    /\ worker' = [worker EXCEPT ![w] = worker'[w]] /\ worker'[w] \in Worker
    /\ worker'[w].pc = "idle" => worker'[w] = IdleWorker
    /\ worker'[w].pc # "idle" => worker'[w].event = worker[w].event
    /\ worker'[w].item > 0
    /\ worker'[w].pc \in AtMessage => worker'[w].item <= Len(Items(w))

LEMMA ShiftPlaces ==
  ASSUME Typed, NEW w \in Workers, worker[w].pc # "idle", Shift(w), HooksKept
  PROVE  WorkerPlaces'
<1> SUFFICES ASSUME NEW v \in Workers
             PROVE  /\ worker'[v].pc = "idle" => worker'[v] = IdleWorker
                    /\ worker'[v].pc # "idle" =>
                         /\ worker'[v].event \in Events
                         /\ event'[worker'[v].event].hook \in Hooks
                    /\ worker'[v].item > 0
                    /\ worker'[v].pc \in AtMessage => worker'[v].item <= Len(Items(v)')
  BY DEF WorkerPlaces
<1>1. CASE v = w
  BY <1>1 DEF Typed, WorkerPlaces, Shift, HooksKept, Items, AtMessage
<1>2. CASE v # w
  <2>1. worker'[v] = worker[v]
    BY <1>2 DEF Shift, Typed, TypeOK
  <2> QED BY <2>1 DEF Typed, WorkerPlaces, HooksKept, Items, AtMessage
<1> QED BY <1>1, <1>2

LEMMA SamePlaces ==
  ASSUME Typed, HooksKept, UNCHANGED worker PROVE WorkerPlaces'
  BY DEF Typed, WorkerPlaces, HooksKept, Items, AtMessage

-----------------------------------------------------------------------------
(* Steps of one task *)

LEMMA Elsewhere ==
  ASSUME Typed, HooksKept, NEW w \in Workers,
         worker' = [worker EXCEPT ![w] = worker'[w]], NEW v \in Workers, v # w
  PROVE  /\ worker'[v] = worker[v]
         /\ worker[v].pc # "idle" => Items(v)' = Items(v) /\ Current(v)' = Current(v)
<1>1. worker'[v] = worker[v]
  BY DEF Typed, TypeOK
<1>2. worker[v].pc # "idle" => Items(v)' = Items(v)
  BY <1>1 DEF Typed, WorkerPlaces, HooksKept, Items
<1> QED BY <1>1, <1>2 DEF Current

LEMMA ProgressElsewhere ==
  ASSUME Typed, HooksKept, NEW w \in Workers,
         worker' = [worker EXCEPT ![w] = worker'[w]], stored \subseteq stored',
         NEW v \in Workers, v # w, Progress(v)
  PROVE  Progress(v)'
<1>1. CASE worker[v].pc = "idle"
  BY <1>1, Elsewhere DEF Progress, AtMessage
<1>2. CASE worker[v].pc # "idle"
  BY <1>2, Elsewhere DEF Progress
<1> QED BY <1>1, <1>2

\* A step that begins no side effects and takes up no run.
LEMMA OnceKept ==
  ASSUME NEW m \in Messages, Once(m), stored' = stored,
         \A v \in Workers : Doing(v, m)' => Doing(v, m),
         \A v \in Workers : Holds(v, m)' => Holds(v, m),
         history'.effects[m] = history.effects[m],
         history'.dispatched[m] = history.dispatched[m]
  PROVE  Once(m)'
  BY DEF Once

LEMMA DoingElsewhere ==
  ASSUME Typed, HooksKept, NEW w \in Workers,
         worker' = [worker EXCEPT ![w] = worker'[w]], NEW m,
         NEW v \in Workers, v # w
  PROVE  (Doing(v, m)' <=> Doing(v, m)) /\ (Holds(v, m)' <=> Holds(v, m))
<1>1. CASE worker[v].pc = "idle"
  BY <1>1, Elsewhere DEF Doing, Holds
<1>2. CASE worker[v].pc # "idle"
  BY <1>2, Elsewhere DEF Doing, Holds
<1> QED BY <1>1, <1>2

LEMMA StoredKept ==
  ASSUME Typed, ProcessedIsStored, stored \subseteq stored', HooksKept,
         history.ignored \subseteq history'.ignored,
         \A e \in Events : event'[e].status = "processed" => event[e].status = "processed"
  PROVE  ProcessedIsStored'
<1> SUFFICES ASSUME NEW e \in Events, event'[e].status = "processed"
             PROVE  Whole(event[e].hook)' \/ e \in history'.ignored
  BY DEF ProcessedIsStored, HooksKept, Typed, EventPlaces, Whole
<1>1. event[e].status = "processed" /\ event[e].hook \in Hooks
  BY DEF Typed, EventPlaces
<1>2. Whole(event[e].hook) => Whole(event[e].hook)'
  BY <1>1 DEF Whole, HooksKept
<1> QED BY <1>1, <1>2 DEF ProcessedIsStored

LEMMA TrackedKept ==
  ASSUME Typed, Tracked, HooksKept, answered' = answered,
         \A e \in Events : event[e].hook \in Hooks /\ Cared(e) => Cared(e)'
  PROVE  Tracked'
<1> SUFFICES ASSUME NEW h \in answered
             PROVE  \E e \in Events : event'[e].hook = h /\ Cared(e)'
  BY DEF Tracked
<1>1. PICK e \in Events : event[e].hook = h /\ Cared(e)
  BY DEF Tracked
<1>2. h \in Hooks
  BY DEF Typed, TypeOK
<1> QED BY <1>1, <1>2 DEF HooksKept

\* Whoever carried an event and does not move still does.
LEMMA CaredElsewhere ==
  ASSUME Typed, NEW w \in Workers, worker' = [worker EXCEPT ![w] = worker'[w]],
         NEW e \in Events, Cared(e),
         event[e].status \in {"processed", "failed"} => Cared(e)',
         BagToSet(queue) \subseteq BagToSet(queue'),
         Lost \subseteq Lost',
         Carries(w, e) => Cared(e)'
  PROVE  Cared(e)'
<1>1. CASE Queued(e)
  BY <1>1 DEF Queued, BagIn, Cared
<1>2. ASSUME NEW v \in Workers, Carries(v, e), v # w PROVE Cared(e)'
  <2>1. worker'[v] = worker[v]
    BY <1>2 DEF Typed, TypeOK
  <2>2. Carries(v, e)'
    BY <1>2, <2>1 DEF Carries
  <2> QED BY <2>2 DEF Cared
<1>3. CASE e \in Lost
  BY <1>3 DEF Cared
<1> QED BY <1>1, <1>2, <1>3 DEF Cared

\* A task's step keeps its bounds.
TypesKept ==
    /\ stored' \subseteq Messages /\ outage' \in BOOLEAN
    /\ contact' \in [Contacts -> {"absent", "live", "deleted"}]
    /\ convs' \in [Contacts -> SUBSET ConvStatus]
    /\ active' \in BOOLEAN /\ upsets' \in 0..MaxUpsets
    /\ history' \in History

\* A task that begins no side effects and takes up no run.
LEMMA OnceElsewhere ==
  ASSUME IInv, NEW w \in Workers, Shift(w), HooksKept,
         worker'[w].pc # "effects", worker'[w].runs \subseteq worker[w].runs,
         UNCHANGED <<stored, history.effects, history.dispatched>>
  PROVE  \A m \in Messages : Once(m)'
<1> SUFFICES ASSUME NEW m \in Messages PROVE Once(m)'
  OBVIOUS
<1> USE DEF IInv
<1>1. \A v \in Workers : Doing(v, m)' => Doing(v, m)
  BY DoingElsewhere DEF Shift, Doing
<1>2. \A v \in Workers : Holds(v, m)' => Holds(v, m)
  BY DoingElsewhere DEF Shift, Holds
<1> QED BY <1>1, <1>2, OnceKept

\* A task's step leaves events alone and hands on what it carried.
LEMMA TaskStep ==
  ASSUME IInv, NEW w \in Workers, worker[w].pc # "idle", Shift(w), TypesKept,
         UNCHANGED <<event, request, answered, calls>>, stored \subseteq stored',
         IsABag(queue'), BagToSet(queue) \subseteq BagToSet(queue'),
         BagToSet(queue') \subseteq BagToSet(queue)
                                      \cup ({worker[w].event} \X (0..MaxRetries)),
         Lost \subseteq Lost', history.ignored \subseteq history'.ignored,
         \A m \in Messages : Once(m)', Progress(w)',
         \A e \in Events : Carries(w, e) => Cared(e)'
  PROVE  IInv'
<1> USE DEF IInv
<1>1. HooksKept
  BY DEF HooksKept
<1>2. TypeOK'
  <2>1. worker' \in [Workers -> Worker]
    BY DEF Shift, Typed, TypeOK
  <2>2. worker[w].event \in Events
    BY DEF Typed, WorkerPlaces
  <2>3. BagToSet(queue') \subseteq Events \X (0..MaxRetries)
    BY <2>2 DEF Typed, TypeOK
  <2> QED BY <2>1, <2>3 DEF Typed, TypeOK, TypesKept
<1>3. EventPlaces' /\ RequestPlaces'
  BY DEF Typed, EventPlaces, RequestPlaces
<1>4. QueuePlaces'
  <2>1. event[worker[w].event].hook \in Hooks
    BY DEF Typed, WorkerPlaces
  <2> QED BY <2>1 DEF Typed, QueuePlaces
<1>5. WorkerPlaces'
  BY <1>1, ShiftPlaces
<1>6. ASSUME NEW v \in Workers PROVE Progress(v)'
  BY <1>1, ProgressElsewhere DEF Shift
<1>7. ProcessedIsStored'
  BY <1>1, StoredKept
<1>8. Tracked'
  <2>1. ASSUME NEW e \in Events, Cared(e) PROVE Cared(e)'
    <3>1. event[e].status \in {"processed", "failed"} => Cared(e)'
      BY DEF Cared
    <3> QED BY <2>1, <3>1, CaredElsewhere DEF Shift
  <2> QED BY <1>1, <2>1, TrackedKept
<1> QED BY <1>2, <1>3, <1>4, <1>5, <1>6, <1>7, <1>8 DEF Typed

LEMMA QuietTask ==
  ASSUME IInv, NEW w \in Workers, worker[w].pc # "idle", Shift(w),
         worker'[w].pc # "effects", worker'[w].runs \subseteq worker[w].runs,
         UNCHANGED <<event, request, queue, domainVars, answered, calls, history>>,
         upsets' \in 0..MaxUpsets, Progress(w)',
         \A e \in Events : Carries(w, e) => Carries(w, e)'
  PROVE  IInv'
<1>1. IsABag(queue') /\ BagToSet(queue') = BagToSet(queue) /\ TypesKept
  BY DEF IInv, Typed, TypeOK, domainVars, TypesKept
<1>2. \A e \in Events : Carries(w, e) => Cared(e)'
  BY DEF Cared
<1>3. HooksKept
  BY DEF HooksKept
<1>4. \A m \in Messages : Once(m)'
  BY <1>3, OnceElsewhere DEF domainVars
<1> QED BY <1>1, <1>2, <1>4, TaskStep DEF domainVars, Lost

\* The next message: the one left behind is stored or noted as an error.
LEMMA Passes ==
  ASSUME IInv, NEW w \in Workers, worker[w].pc \in {"item"} \cup AtMessage,
         worker[w].item <= Len(Items(w)),
         NEW errors \in BOOLEAN, NEW spoiled \in BOOLEAN, NEW runs \in SUBSET Messages,
         Advance(w, errors, spoiled, runs), UNCHANGED <<event, stored>>,
         ~errors /\ ~spoiled =>
           ~worker[w].errors /\ ~worker[w].spoiled /\ Current(w) \in stored
  PROVE  /\ worker[w].pc # "idle" /\ Shift(w) /\ worker'[w].pc = "item"
         /\ worker'[w].runs = runs
         /\ Progress(w)' /\ \A e \in Events : Carries(w, e) => Carries(w, e)'
<1> USE DEF IInv
<1>1. worker[w].pc # "idle" /\ "item" \notin AtMessage
  BY DEF AtMessage
<1>2. /\ worker' = [worker EXCEPT ![w] = worker'[w]] /\ worker'[w] \in Worker
      /\ worker'[w].pc = "item" /\ worker'[w].event = worker[w].event
      /\ worker'[w].try = worker[w].try /\ worker'[w].item = worker[w].item + 1
      /\ (worker'[w].errors <=> errors) /\ (worker'[w].spoiled <=> spoiled)
      /\ worker'[w].runs = runs
  BY AdvanceTo DEF Typed
<1>3. worker[w].item \in Nat /\ worker[w].item > 0 /\ Len(Items(w)) \in Nat
  BY <1>1, ItemsType DEF Typed, WorkerPlaces
<1>4. Shift(w)
  BY <1>1, <1>2, <1>3 DEF Shift
<1>5. Items(w)' = Items(w)
  BY <1>2 DEF Items
<1>6. Progress(w)'
  <2> SUFFICES ASSUME ~errors, ~spoiled, NEW i \in 1..Len(Items(w)),
                      i < worker[w].item + 1
               PROVE  Items(w)[i] \in stored
    BY <1>1, <1>2, <1>5 DEF Progress
  <2>1. CASE i < worker[w].item
    BY <2>1 DEF Progress
  <2>2. CASE i = worker[w].item
    BY <2>2 DEF Current
  <2> QED BY <2>1, <2>2, <1>3
<1>7. \A e \in Events : Carries(w, e) => Carries(w, e)'
  BY <1>2 DEF Carries
<1> QED BY <1>1, <1>2, <1>4, <1>6, <1>7

LEMMA Flags ==
  ASSUME TypeOK, NEW w \in Workers
  PROVE  /\ worker[w] \in Worker /\ worker[w].errors \in BOOLEAN
         /\ worker[w].spoiled \in BOOLEAN /\ worker[w].runs \in SUBSET Messages
  BY DEF TypeOK, Worker

\* The same for a step that ends with an error noted or the session spoiled.
LEMMA Fails ==
  ASSUME IInv, NEW w \in Workers, worker[w].pc \in {"item"} \cup AtMessage,
         worker[w].item <= Len(Items(w)), UNCHANGED <<event, stored>>,
         Error(w) \/ Advance(w, worker[w].errors, TRUE, worker[w].runs)
  PROVE  /\ worker[w].pc # "idle" /\ Shift(w) /\ worker'[w].pc = "item"
         /\ worker'[w].runs = worker[w].runs
         /\ Progress(w)' /\ \A e \in Events : Carries(w, e) => Carries(w, e)'
<1>1. worker[w].errors \in BOOLEAN /\ worker[w].spoiled \in BOOLEAN
      /\ worker[w].runs \in SUBSET Messages
  BY Flags DEF IInv, Typed
<1>2. ASSUME NEW e \in BOOLEAN, NEW s \in BOOLEAN, e \/ s,
             Advance(w, e, s, worker[w].runs)
      PROVE  /\ worker[w].pc # "idle" /\ Shift(w) /\ worker'[w].pc = "item"
             /\ worker'[w].runs = worker[w].runs
             /\ Progress(w)' /\ \A x \in Events : Carries(w, x) => Carries(w, x)'
  <2>1. ~e /\ ~s => ~worker[w].errors /\ ~worker[w].spoiled /\ Current(w) \in stored
    BY <1>2
  <2> QED BY <1>1, <1>2, <2>1, Passes
<1>3. TRUE \in BOOLEAN
  OBVIOUS
<1> QED BY Zenon, <1>1, <1>2, <1>3 DEF Error

\* The same message, at another place; whether the session is spoiled stays.
LEMMA Stays ==
  ASSUME IInv, NEW w \in Workers, worker[w].pc \in {"item"} \cup AtMessage,
         worker[w].item <= Len(Items(w)),
         worker' = [worker EXCEPT ![w] = worker'[w]], worker'[w] \in Worker,
         worker'[w].pc \in {"persist", "again"}, worker'[w].event = worker[w].event,
         worker'[w].item = worker[w].item,
         worker'[w].errors = worker[w].errors, worker'[w].spoiled = worker[w].spoiled,
         UNCHANGED <<event, stored>>
  PROVE  /\ worker[w].pc # "idle" /\ Shift(w)
         /\ Progress(w)' /\ \A e \in Events : Carries(w, e) => Carries(w, e)'
<1> USE DEF IInv
<1>1. worker[w].pc # "idle"
  BY DEF AtMessage
<1>2. worker[w].item > 0
  BY DEF Typed, WorkerPlaces
<1>3. Shift(w)
  BY <1>2 DEF Shift
<1>4. Items(w)' = Items(w)
  BY DEF Items
<1>5. Progress(w)'
  BY <1>4 DEF Progress, AtMessage
<1>6. \A e \in Events : Carries(w, e) => Carries(w, e)'
  BY DEF Carries
<1> QED BY <1>1, <1>3, <1>5, <1>6

-----------------------------------------------------------------------------
(* The steps of process_whatsapp_webhook *)

LEMMA LookUpStep ==
  ASSUME IInv, NEW w \in Workers, LookUp(w) PROVE IInv'
<1> USE DEF IInv
<1>1. /\ worker[w].pc \in {"item"} \cup AtMessage /\ worker[w].item <= Len(Items(w))
      /\ UNCHANGED <<event, request, queue, domainVars, answered, calls, upsets, history>>
      /\ UNCHANGED stored /\ upsets' \in 0..MaxUpsets
  BY DEF LookUp, domainVars, Typed, TypeOK
<1>2. CASE Current(w) \in stored /\ Skip(w)
  BY <1>1, <1>2, Flags, Passes, QuietTask DEF Skip, Typed
<1>3. CASE Error(w)
  BY <1>1, <1>3, Fails, QuietTask
<1>4. CASE worker' = [worker EXCEPT ![w] = Found(w)]
  <2>1. /\ worker' = [worker EXCEPT ![w] = worker'[w]] /\ worker'[w] \in Worker
        /\ worker'[w].pc = "persist" /\ worker'[w].event = worker[w].event
        /\ worker'[w].item = worker[w].item
        /\ worker'[w].errors = worker[w].errors
        /\ worker'[w].spoiled = worker[w].spoiled
        /\ worker'[w].runs = worker[w].runs
    <3>1. worker' = [worker EXCEPT ![w] = Found(w)]
      BY <1>4
    <3>2. worker[w] \in Worker /\ worker \in [Workers -> Worker]
      BY DEF Typed, TypeOK
    <3> QED BY <3>1, <3>2 DEF Found, Worker, WorkerPc
  <2> QED BY <1>1, <2>1, Stays, QuietTask
<1> QED BY <1>2, <1>3, <1>4 DEF LookUp

LEMMA LookUpAgainStep ==
  ASSUME IInv, NEW w \in Workers, LookUpAgain(w) PROVE IInv'
<1> USE DEF IInv
<1>1. /\ worker[w].pc \in {"item"} \cup AtMessage /\ worker[w].pc \in AtMessage
      /\ UNCHANGED <<event, request, queue, domainVars, answered, calls, upsets, history>>
      /\ UNCHANGED stored /\ upsets' \in 0..MaxUpsets
  BY DEF LookUpAgain, AtMessage, domainVars, Typed, TypeOK
<1>2. worker[w].item <= Len(Items(w))
  BY <1>1 DEF Typed, WorkerPlaces
<1>3. /\ worker' = [worker EXCEPT ![w] = worker'[w]] /\ worker'[w] \in Worker
      /\ worker'[w].pc = "persist" /\ worker'[w].event = worker[w].event
      /\ worker'[w].item = worker[w].item
      /\ worker'[w].errors = worker[w].errors
      /\ worker'[w].spoiled = worker[w].spoiled
      /\ worker'[w].runs = worker[w].runs
  BY FoundType DEF LookUpAgain, Typed
<1> QED BY <1>1, <1>2, <1>3, Stays, QuietTask

LEMMA PersistConflictStep ==
  ASSUME IInv, NEW w \in Workers, PersistConflict(w) PROVE IInv'
<1> USE DEF IInv
<1>1. /\ worker[w].pc \in {"item"} \cup AtMessage /\ worker[w].pc \in AtMessage
      /\ UNCHANGED <<event, request, queue, domainVars, answered, calls, upsets, history>>
      /\ UNCHANGED stored /\ upsets' \in 0..MaxUpsets
  BY DEF PersistConflict, AtMessage, domainVars, Typed, TypeOK
<1>2. worker[w].item <= Len(Items(w))
  BY <1>1 DEF Typed, WorkerPlaces
<1>3. CASE Current(w) \in stored /\ Skip(w)
  BY <1>1, <1>2, <1>3, Flags, Passes, QuietTask DEF Skip, Typed
<1>4. CASE Error(w)
  BY <1>1, <1>2, <1>4, Fails, QuietTask
<1>5. CASE Goto(w, "again")
  <2>1. "again" \in WorkerPc
    BY DEF WorkerPc
  <2>2. /\ worker' = [worker EXCEPT ![w] = worker'[w]] /\ worker'[w] \in Worker
        /\ worker'[w].pc = "again" /\ worker'[w].event = worker[w].event
        /\ worker'[w].item = worker[w].item
        /\ worker'[w].errors = worker[w].errors
        /\ worker'[w].spoiled = worker[w].spoiled
        /\ worker'[w].runs = worker[w].runs
    BY <1>5, <2>1, GoesTo DEF Typed
  <2> QED BY <1>1, <1>2, <2>2, Stays, QuietTask
<1> QED BY <1>3, <1>4, <1>5 DEF PersistConflict, AfterConflict

LEMMA PersistFailsStep ==
  ASSUME IInv, NEW w \in Workers, PersistFails(w) PROVE IInv'
<1> USE DEF IInv
<1>1. /\ worker[w].pc \in {"item"} \cup AtMessage /\ worker[w].pc \in AtMessage
      /\ UNCHANGED <<event, request, queue, domainVars, answered, calls, upsets, history>>
      /\ UNCHANGED stored /\ upsets' \in 0..MaxUpsets
  BY DEF PersistFails, AtMessage, domainVars, Typed, TypeOK
<1>2. worker[w].item <= Len(Items(w))
  BY <1>1 DEF Typed, WorkerPlaces
<1> QED BY <1>1, <1>2, Fails, QuietTask DEF PersistFails

LEMMA SideEffectsFailStep ==
  ASSUME IInv, NEW w \in Workers, SideEffectsFail(w) PROVE IInv'
<1> USE DEF IInv
<1>1. /\ worker[w].pc \in {"item"} \cup AtMessage /\ worker[w].pc \in AtMessage
      /\ UNCHANGED <<event, request, queue, domainVars, answered, calls, history>>
      /\ UNCHANGED stored
  BY DEF SideEffectsFail, AtMessage, domainVars
<1>2. worker[w].item <= Len(Items(w))
  BY <1>1 DEF Typed, WorkerPlaces
<1>3. upsets' \in 0..MaxUpsets
  BY InboundAssumption DEF SideEffectsFail, Upset, Typed, TypeOK
<1> QED BY <1>1, <1>2, <1>3, Fails, QuietTask DEF SideEffectsFail

\* The message is inserted: nobody else can insert it, so nobody else is at it.
LEMMA PersistStep ==
  ASSUME IInv, NEW w \in Workers, Persist(w) PROVE IInv'
<1> USE DEF IInv
<1> DEFINE n == Current(w)
<1>1. /\ worker[w].pc \in AtMessage /\ worker[w].pc = "persist" /\ ~Conflict(w)
      /\ n \notin stored
      /\ UNCHANGED <<event, request, queue, answered, active, outage, calls, upsets,
                     history>>
      /\ stored' = stored \cup {n} /\ Goto(w, "effects")
  BY DEF Persist, AtMessage, Conflict
<1>2. worker[w].item <= Len(Items(w)) /\ worker[w].item > 0
  BY <1>1 DEF Typed, WorkerPlaces
<1>3. n \in Messages /\ Sender[n] \in Contacts
  BY <1>1, <1>2, ItemsType, InboundAssumption
<1>4. "effects" \in WorkerPc
  BY DEF WorkerPc
<1>5. /\ worker' = [worker EXCEPT ![w] = worker'[w]] /\ worker'[w] \in Worker
      /\ worker'[w].pc = "effects" /\ worker'[w].event = worker[w].event
      /\ worker'[w].try = worker[w].try /\ worker'[w].item = worker[w].item
      /\ worker'[w].errors = worker[w].errors
      /\ worker'[w].spoiled = worker[w].spoiled
      /\ worker'[w].runs = worker[w].runs
  BY <1>1, <1>4, GoesTo DEF Typed
<1>6. Shift(w) /\ HooksKept
  BY <1>1, <1>2, <1>5 DEF Shift, HooksKept
<1>7. TypesKept
  <2>1. From(w) \in Contacts
    BY <1>3 DEF From
  <2>2. contact' \in [Contacts -> {"absent", "live", "deleted"}]
    BY <2>1 DEF Persist, Typed, TypeOK
  <2>3. convs' \in [Contacts -> SUBSET ConvStatus]
    BY <2>1 DEF Persist, Typed, TypeOK, ConvStatus
  <2> QED BY <1>1, <1>3, <2>2, <2>3 DEF TypesKept, Typed, TypeOK
<1>8. IsABag(queue') /\ BagToSet(queue') = BagToSet(queue)
  BY <1>1 DEF Typed, TypeOK
<1>9. Items(w)' = Items(w) /\ n' = n
  BY <1>1, <1>5 DEF Items, Current
<1>10. Progress(w)'
  BY <1>1, <1>5, <1>9 DEF Progress
<1>11. \A e \in Events : Carries(w, e) => Cared(e)'
  BY <1>1, <1>5 DEF Carries, Cared
<1>12. ASSUME NEW m \in Messages PROVE Once(m)'
  <2>1. \A v \in Workers : Holds(v, m)' <=> Holds(v, m)
    BY <1>5, <1>6, DoingElsewhere DEF Holds
  <2>2. \A v \in Workers \ {w} : Doing(v, m)' <=> Doing(v, m)
    BY <1>5, <1>6, DoingElsewhere
  <2>3. Doing(w, m)' <=> m = n
    BY <1>5, <1>9 DEF Doing
  <2> QED BY <1>1, <2>1, <2>2, <2>3 DEF Once, Doing
<1> QED BY <1>1, <1>6, <1>7, <1>8, <1>10, <1>11, <1>12, TaskStep DEF Lost

\* The side effects take place, which no other task had begun.
LEMMA SideEffectsStep ==
  ASSUME IInv, NEW w \in Workers, SideEffects(w) PROVE IInv'
<1> USE DEF IInv
<1> DEFINE n == Current(w)
<1>1. /\ worker[w].pc \in {"item"} \cup AtMessage /\ worker[w].pc \in AtMessage
      /\ worker[w].pc = "effects"
      /\ UNCHANGED <<event, request, queue, stored, contact, convs, active, outage,
                     answered, calls, upsets>>
      /\ Advance(w, worker[w].errors, worker[w].spoiled, worker[w].runs \cup {n})
  BY DEF SideEffects, AtMessage, domainVars
<1>2. worker[w].item <= Len(Items(w)) /\ n \in stored
  BY <1>1 DEF Typed, WorkerPlaces, Progress
<1>3. n \in Messages
  BY <1>1, <1>2, ItemsType
<1>4. /\ worker[w].errors \in BOOLEAN /\ worker[w].spoiled \in BOOLEAN
      /\ worker[w].runs \cup {n} \in SUBSET Messages
  BY <1>3, Flags DEF Typed
<1>5. /\ Shift(w) /\ worker'[w].pc = "item"
      /\ worker'[w].runs = worker[w].runs \cup {n}
      /\ Progress(w)' /\ \A e \in Events : Carries(w, e) => Carries(w, e)'
  BY <1>1, <1>2, <1>4, Passes
<1>6. HooksKept /\ \A e \in Events : Carries(w, e) => Cared(e)'
  BY <1>1, <1>5 DEF HooksKept, Cared
<1>7. /\ history' \in History
      /\ Lost' = Lost /\ history'.ignored = history.ignored
      /\ history'.dispatched = history.dispatched
      /\ \A m \in Messages : history'.effects[m] =
           IF m = n THEN history.effects[m] + 1 ELSE history.effects[m]
  <2> DEFINE effects == [history.effects EXCEPT ![n] = @ + 1]
  <2>1. history' = [history EXCEPT !.effects = effects] /\ history \in History
    BY DEF SideEffects, Typed, TypeOK, History
  <2>2. /\ effects \in [Messages -> Nat]
        /\ \A m \in Messages : effects[m] =
             IF m = n THEN history.effects[m] + 1 ELSE history.effects[m]
    BY <1>3, <2>1 DEF History
  <2> HIDE DEF effects
  <2> QED BY <2>1, <2>2 DEF History, Lost
<1>8. TypesKept
  BY <1>1, <1>7 DEF TypesKept, Typed, TypeOK
<1>9. IsABag(queue') /\ BagToSet(queue') = BagToSet(queue)
  BY <1>1 DEF Typed, TypeOK
<1>10. ASSUME NEW m \in Messages PROVE Once(m)'
  <2>1. \A v \in Workers \ {w} : (Doing(v, m)' <=> Doing(v, m))
                                 /\ (Holds(v, m)' <=> Holds(v, m))
    BY <1>5, <1>6, DoingElsewhere DEF Shift
  <2>2. ~Doing(w, m)' /\ (Holds(w, m)' <=> Holds(w, m) \/ m = n)
    BY <1>5 DEF Doing, Holds
  <2>3. Doing(w, m) <=> m = n
    BY <1>1 DEF Doing
  <2>4. Once(m) /\ history.effects[m] \in Nat /\ history.dispatched[m] \in Nat
    BY DEF Typed, TypeOK, History
  <2>5. history'.effects[m] = IF m = n THEN history.effects[m] + 1
                                       ELSE history.effects[m]
    BY <1>7
  <2>6. CASE m = n
    <3>1. /\ \A v \in Workers : ~Doing(v, m)' /\ ~Holds(v, m)
          /\ history.effects[m] = 0 /\ history.dispatched[m] = 0
      BY <2>1, <2>2, <2>3, <2>4, <2>6 DEF Once
    <3> QED BY <1>1, <1>2, <1>7, <2>1, <2>2, <2>5, <2>6, <3>1 DEF Once
  <2>7. CASE m # n
    BY <1>1, <1>7, <2>1, <2>2, <2>3, <2>4, <2>5, <2>7 DEF Once
  <2> QED BY <2>6, <2>7
<1> QED BY <1>1, <1>5, <1>6, <1>7, <1>8, <1>9, <1>10, TaskStep

-----------------------------------------------------------------------------
(* The end of a payload *)

\* The event gets its status, and the task goes on to dispatch or to retry.
LEMMA MarkStep ==
  ASSUME IInv, NEW w \in Workers, worker[w].pc # "idle",
         NEW status \in {"received", "processed", "failed"},
         event' = [event EXCEPT ![worker[w].event].status = status],
         NEW pc \in {"dispatch", "retry"}, Goto(w, pc),
         UNCHANGED <<request, queue, domainVars, answered, calls, upsets,
                     history.effects, history.dispatched>>,
         history' \in History, Lost \subseteq Lost',
         history.ignored \subseteq history'.ignored,
         status = "processed" => \/ \A i \in 1..Len(Items(w)) : Items(w)[i] \in stored
                                 \/ worker[w].event \in history'.ignored,
         status = "received" => pc = "retry" /\ Retryable(worker[w].try)
  PROVE  IInv'
<1> USE DEF IInv
<1> DEFINE x == worker[w].event
<1>1. x \in Events /\ event[x].hook \in Hooks /\ worker[w].item > 0
  BY DEF Typed, WorkerPlaces
<1>2. pc \in WorkerPc /\ pc \notin AtMessage /\ pc # "idle" /\ pc # "item"
  BY DEF WorkerPc, AtMessage
<1>3. /\ worker' = [worker EXCEPT ![w] = worker'[w]] /\ worker'[w] \in Worker
      /\ worker'[w].pc = pc /\ worker'[w].event = x
      /\ worker'[w].try = worker[w].try /\ worker'[w].item = worker[w].item
      /\ worker'[w].runs = worker[w].runs
  BY <1>2, GoesTo DEF Typed
<1>4. /\ event' \in [Events -> [hook : Hooks \cup {NoHook}, status : EventStatus]]
      /\ \A e \in Events : event'[e].hook = event[e].hook
      /\ \A e \in Events : event'[e].status = IF e = x THEN status ELSE event[e].status
  BY <1>1 DEF Typed, TypeOK, EventStatus
<1>5. Shift(w) /\ HooksKept
  BY <1>1, <1>2, <1>3, <1>4 DEF Shift, HooksKept
<1>6. TypeOK'
  <2>1. worker' \in [Workers -> Worker]
    BY <1>3 DEF Typed, TypeOK
  <2> QED BY <1>4, <2>1 DEF Typed, TypeOK, domainVars
<1>7. EventPlaces'
  BY <1>1, <1>4 DEF Typed, EventPlaces
<1>8. RequestPlaces'
  BY <1>4 DEF Typed, RequestPlaces
<1>9. QueuePlaces'
  BY <1>4 DEF Typed, QueuePlaces, TypeOK
<1>10. WorkerPlaces'
  BY <1>5, ShiftPlaces
<1>11. \A m \in Messages : Once(m)'
  BY <1>2, <1>3, <1>5, OnceElsewhere DEF domainVars
<1>12. ASSUME NEW v \in Workers PROVE Progress(v)'
  <2>1. CASE v = w
    BY <1>2, <1>3, <2>1 DEF Progress, AtMessage
  <2>2. CASE v # w
    BY <1>3, <1>5, <2>2, ProgressElsewhere DEF domainVars
  <2> QED BY <2>1, <2>2
<1>13. ProcessedIsStored'
  <2> SUFFICES ASSUME NEW e \in Events, event'[e].status = "processed"
               PROVE  Whole(event[e].hook) \/ e \in history'.ignored
    BY <1>4 DEF ProcessedIsStored, domainVars, Whole
  <2>1. CASE e = x
    BY <1>4, <2>1 DEF Items, Whole
  <2>2. CASE e # x
    BY <1>4, <2>2 DEF ProcessedIsStored
  <2> QED BY <2>1, <2>2
<1>14. Tracked'
  <2>1. ASSUME NEW e \in Events, Cared(e) PROVE Cared(e)'
    <3>1. CASE e = x
      <4>1. CASE status \in {"processed", "failed"}
        BY <1>4, <3>1, <4>1 DEF Cared
      <4>2. CASE status = "received"
        <5>1. Carries(w, e)'
          BY <1>3, <3>1, <4>2 DEF Carries
        <5> QED BY <5>1 DEF Cared
      <4> QED BY <4>1, <4>2
    <3>2. CASE e # x
      <4>1. ~Carries(w, e)
        BY <3>2 DEF Carries
      <4>2. event[e].status \in {"processed", "failed"} => Cared(e)'
        BY <1>4, <3>2 DEF Cared
      <4> QED BY <1>3, <2>1, <4>1, <4>2, CaredElsewhere
    <3> QED BY <3>1, <3>2
  <2> QED BY <1>5, <2>1, TrackedKept
<1> QED BY <1>6, <1>7, <1>8, <1>9, <1>10, <1>11, <1>12, <1>13, <1>14 DEF Typed

\* The task raises: its event is for _mark_failed.
LEMMA RaisedStep ==
  ASSUME IInv, NEW w \in Workers, worker[w].pc # "idle", worker[w].pc # "dispatch",
         worker[w].pc # "retry", Goto(w, "failed"),
         UNCHANGED <<event, request, queue, domainVars, answered, calls, upsets, history>>
  PROVE  IInv'
<1> USE DEF IInv
<1>1. "failed" \in WorkerPc /\ "failed" \notin AtMessage
  BY DEF WorkerPc, AtMessage
<1>2. /\ worker' = [worker EXCEPT ![w] = worker'[w]] /\ worker'[w] \in Worker
      /\ worker'[w].pc = "failed" /\ worker'[w].event = worker[w].event
      /\ worker'[w].item = worker[w].item /\ worker'[w].runs = worker[w].runs
  BY <1>1, GoesTo DEF Typed
<1>3. Shift(w)
  BY <1>1, <1>2 DEF Shift, Typed, WorkerPlaces
<1>4. Progress(w)'
  BY <1>1, <1>2 DEF Progress
<1>5. \A e \in Events : Carries(w, e) => Carries(w, e)'
  BY <1>2 DEF Carries
<1>6. upsets' \in 0..MaxUpsets
  BY DEF Typed, TypeOK
<1> QED BY <1>2, <1>3, <1>4, <1>5, <1>6, QuietTask

LEMMA TaskFailsStep ==
  ASSUME IInv, NEW w \in Workers, TaskFails(w) PROVE IInv'
  BY RaisedStep DEF TaskFails, AtEnd

LEMMA EndOfBatchStep ==
  ASSUME IInv, NEW w \in Workers, EndOfBatch(w) PROVE IInv'
<1> USE DEF IInv
<1> DEFINE x == worker[w].event
           S == {y \in {x} : worker[w].pc = "ignored"}
<1>1. /\ worker[w].pc \in {"item", "ignored"} /\ worker[w].pc # "idle"
      /\ worker[w].pc = "item" => worker[w].item > Len(Items(w))
      /\ UNCHANGED <<request, queue, domainVars, answered, calls, upsets>>
  BY DEF EndOfBatch, AtEnd
<1>2. CASE Goto(w, "failed") /\ UNCHANGED <<event, history>>
  BY <1>1, <1>2, RaisedStep
<1>3. CASE /\ ~Raises(w) /\ Goto(w, "dispatch")
           /\ event' = [event EXCEPT ![x].status = "processed"]
           /\ history' = [history EXCEPT !.ignored = @ \cup S]
  <2>1. worker[w].pc = "item" => \A i \in 1..Len(Items(w)) : Items(w)[i] \in stored
    <3>1. worker[w].item \in Nat /\ Len(Items(w)) \in Nat
      BY <1>1, ItemsType
    <3> QED BY <1>1, <1>3, <3>1 DEF Progress, Raises
  <2>2. x \in Events /\ history \in History /\ S \subseteq Events
    BY <1>1 DEF Typed, TypeOK, WorkerPlaces
  <2>3. worker[w].pc = "ignored" => x \in S
    OBVIOUS
  <2> HIDE DEF S
  <2>4. /\ history' \in History /\ Lost' = Lost
        /\ history'.ignored = history.ignored \cup S
        /\ UNCHANGED <<history.effects, history.dispatched>>
    BY <1>3, <2>2 DEF History, Lost
  <2>5. "processed" \in {"received", "processed", "failed"}
        /\ "dispatch" \in {"dispatch", "retry"}
    OBVIOUS
  <2> QED BY <1>1, <1>3, <2>1, <2>3, <2>4, <2>5, MarkStep
<1> QED BY <1>2, <1>3 DEF EndOfBatch

LEMMA MarkFailedStep ==
  ASSUME IInv, NEW w \in Workers, MarkFailed(w) PROVE IInv'
<1> DEFINE s == StatusAfter(worker[w].try)
<1>1. /\ s \in {"received", "processed", "failed"} /\ s # "processed"
      /\ s = "received" => Retryable(worker[w].try)
  BY DEF StatusAfter
<1>2. /\ worker[w].pc # "idle" /\ Goto(w, "retry")
      /\ event' = [event EXCEPT ![worker[w].event].status = s]
      /\ UNCHANGED <<request, queue, domainVars, answered, calls, upsets, history>>
  BY DEF MarkFailed
<1>3. history' \in History /\ Lost' = Lost
  BY <1>2 DEF IInv, Typed, TypeOK, Lost
<1> HIDE DEF s
<1> QED BY <1>1, <1>2, <1>3, MarkStep

\* On the last try the event is lost: nothing but a repetition by Meta, or by hand,
\* takes it up again.
LEMMA MarkFailsStep ==
  ASSUME IInv, NEW w \in Workers, MarkFails(w) PROVE IInv'
<1> USE DEF IInv
<1> DEFINE x == worker[w].event
           S == {y \in {x} : ~Retryable(worker[w].try)}
<1>1. /\ worker[w].pc = "failed" /\ worker[w].pc # "idle" /\ Goto(w, "retry")
      /\ history' = [history EXCEPT !.unmarked = @ \cup S]
      /\ UNCHANGED <<event, request, queue, domainVars, answered, calls, upsets>>
  BY DEF MarkFails
<1>2. "retry" \in WorkerPc /\ "retry" \notin AtMessage
  BY DEF WorkerPc, AtMessage
<1>3. /\ worker' = [worker EXCEPT ![w] = worker'[w]] /\ worker'[w] \in Worker
      /\ worker'[w].pc = "retry" /\ worker'[w].event = x
      /\ worker'[w].try = worker[w].try
      /\ worker'[w].item = worker[w].item /\ worker'[w].runs = worker[w].runs
  BY <1>1, <1>2, GoesTo DEF Typed
<1>4. x \in Events /\ history \in History /\ S \subseteq Events
  BY <1>1 DEF Typed, TypeOK, WorkerPlaces
<1>5. ~Retryable(worker[w].try) => x \in S
  OBVIOUS
<1> HIDE DEF S
<1>6. /\ history' \in History /\ Lost' = Lost \cup S /\ history'.ignored = history.ignored
      /\ UNCHANGED <<history.effects, history.dispatched>>
  BY <1>1, <1>4 DEF History, Lost
<1>7. Shift(w) /\ HooksKept
  BY <1>1, <1>2, <1>3 DEF Shift, HooksKept, Typed, WorkerPlaces
<1>8. Progress(w)'
  BY <1>2, <1>3 DEF Progress
<1>9. \A m \in Messages : Once(m)'
  BY <1>1, <1>3, <1>6, <1>7, OnceElsewhere DEF domainVars
<1>10. ASSUME NEW e \in Events, Carries(w, e) PROVE Cared(e)'
  <2>1. e = x
    BY <1>10 DEF Carries
  <2>2. CASE Retryable(worker[w].try)
    <3>1. Carries(w, e)'
      BY <1>3, <2>1, <2>2 DEF Carries, Retryable
    <3> QED BY <3>1 DEF Cared
  <2>3. CASE ~Retryable(worker[w].try)
    BY <1>5, <1>6, <2>1, <2>3 DEF Cared
  <2> QED BY <2>2, <2>3
<1>11. TypesKept /\ IsABag(queue') /\ BagToSet(queue') = BagToSet(queue)
  BY <1>1, <1>6 DEF TypesKept, domainVars, Typed, TypeOK
<1> QED BY <1>1, <1>6, <1>7, <1>8, <1>9, <1>10, <1>11, TaskStep DEF domainVars

\* The task is over: its record is empty again.
LEMMA Leaves ==
  ASSUME IInv, NEW w \in Workers, worker' = [worker EXCEPT ![w] = IdleWorker]
  PROVE  /\ Shift(w) /\ worker'[w].pc = "idle" /\ worker'[w].runs = {}
         /\ worker'[w] = IdleWorker /\ Progress(w)'
<1>1. worker'[w] = IdleWorker
  BY DEF IInv, Typed, TypeOK
<1>2. Shift(w)
  <2>1. worker' = [worker EXCEPT ![w] = worker'[w]]
    BY <1>1
  <2>2. /\ worker'[w] \in Worker /\ worker'[w].pc = "idle" /\ worker'[w].item = 1
        /\ worker'[w].pc \notin AtMessage
    BY <1>1, IdleTypes DEF AtMessage
  <2> QED BY <1>1, <2>1, <2>2 DEF Shift
<1>3. Progress(w)'
  BY <1>1, IdleTypes DEF Progress, AtMessage
<1> QED BY <1>1, <1>2, <1>3, IdleTypes

LEMMA RequeuedBag ==
  ASSUME IInv, NEW w \in Workers, worker[w].pc # "idle", Requeued(w)
  PROVE  /\ IsABag(queue') /\ BagToSet(queue) \subseteq BagToSet(queue')
         /\ BagToSet(queue') \subseteq BagToSet(queue)
                                         \cup ({worker[w].event} \X (0..MaxRetries))
         /\ Retryable(worker[w].try) =>
              /\ worker[w].try + 1 \in 0..MaxRetries
              /\ <<worker[w].event, worker[w].try + 1>> \in BagToSet(queue')
<1> DEFINE n == worker[w].try
           t == <<worker[w].event, n + 1>>
<1>1. n \in 0..MaxRetries /\ MaxRetries \in Nat /\ IsABag(queue)
  BY InboundAssumption DEF IInv, Typed, TypeOK, Worker
<1>2. CASE Retryable(n)
  <2>1. n + 1 \in 0..MaxRetries
    BY <1>1, <1>2 DEF Retryable
  <2>2. queue' = queue (+) SetToBag({t})
    BY <1>2 DEF Requeued
  <2>3. IsABag(queue') /\ BagToSet(queue') = BagToSet(queue) \cup {t}
    BY <1>1, <2>2, BagSum
  <2> QED BY <2>1, <2>3
<1>3. CASE ~Retryable(n)
  BY <1>1, <1>3 DEF Requeued
<1> QED BY <1>2, <1>3

LEMMA RetryStep ==
  ASSUME IInv, NEW w \in Workers, Retry(w) PROVE IInv'
<1> USE DEF IInv
<1>1. /\ worker[w].pc = "retry" /\ worker[w].pc # "idle" /\ Requeued(w)
      /\ worker' = [worker EXCEPT ![w] = IdleWorker]
      /\ UNCHANGED <<event, request, domainVars, answered, calls, upsets, history>>
  BY DEF Retry
<1>2. TypesKept /\ HooksKept
  BY <1>1 DEF TypesKept, HooksKept, domainVars, Typed, TypeOK
<1>3. \A m \in Messages : Once(m)'
  BY <1>1, <1>2, Leaves, OnceElsewhere DEF domainVars
<1>4. ASSUME NEW e \in Events, Carries(w, e) PROVE Cared(e)'
  <2>1. Retryable(worker[w].try) /\ worker[w].event = e
    BY <1>1, <1>4 DEF Carries
  <2>2. Queued(e)'
    BY <1>1, <2>1, RequeuedBag DEF Queued, BagIn
  <2> QED BY <2>2 DEF Cared
<1> QED BY <1>1, <1>2, <1>3, <1>4, Leaves, RequeuedBag, TaskStep DEF domainVars, Lost

LEMMA DispatchRefusedStep ==
  ASSUME IInv, NEW w \in Workers, DispatchRefused(w) PROVE IInv'
<1> USE DEF IInv
<1>1. /\ worker[w].pc = "dispatch" /\ worker[w].pc # "idle" /\ Requeued(w)
      /\ worker' = [worker EXCEPT ![w] = IdleWorker]
      /\ UNCHANGED <<event, request, domainVars, answered, calls, history>>
      /\ upsets' \in 0..MaxUpsets
  BY InboundAssumption DEF DispatchRefused, Upset, Typed, TypeOK
<1>2. TypesKept /\ HooksKept
  BY <1>1 DEF TypesKept, HooksKept, domainVars, Typed, TypeOK
<1>3. \A m \in Messages : Once(m)'
  BY <1>1, <1>2, Leaves, OnceElsewhere DEF domainVars
<1>4. \A e \in Events : ~Carries(w, e)
  BY <1>1 DEF Carries
<1> QED BY <1>1, <1>2, <1>3, <1>4, Leaves, RequeuedBag, TaskStep DEF domainVars, Lost

LEMMA WorkerCrashStep ==
  ASSUME IInv, NEW w \in Workers, WorkerCrash(w) PROVE IInv'
<1> USE DEF IInv
<1>1. /\ worker[w].pc # "idle" /\ worker' = [worker EXCEPT ![w] = IdleWorker]
      /\ UNCHANGED <<event, request, queue, domainVars, answered, calls>>
      /\ upsets' \in 0..MaxUpsets
  BY InboundAssumption DEF WorkerCrash, Upset, Typed, TypeOK
<1>2. worker[w].event \in Events
  BY <1>1 DEF Typed, WorkerPlaces
<1>3. /\ history' \in History
      /\ Lost' = Lost \cup {worker[w].event} /\ history'.ignored = history.ignored
      /\ UNCHANGED <<history.effects, history.dispatched>>
  BY <1>2 DEF WorkerCrash, Typed, TypeOK, History, Lost
<1>4. TypesKept /\ HooksKept
  BY <1>1, <1>3 DEF TypesKept, HooksKept, domainVars, Typed, TypeOK
<1>5. \A m \in Messages : Once(m)'
  BY <1>1, <1>3, <1>4, Leaves, OnceElsewhere DEF domainVars
<1>6. \A e \in Events : Carries(w, e) => Cared(e)'
  BY <1>3 DEF Carries, Cared
<1>7. IsABag(queue') /\ BagToSet(queue') = BagToSet(queue)
  BY <1>1 DEF Typed, TypeOK
<1> QED BY <1>1, <1>3, <1>4, <1>5, <1>6, <1>7, Leaves, TaskStep DEF domainVars

\* The runs of the batch are queued, which nobody else holds.
LEMMA DispatchRunsStep ==
  ASSUME IInv, NEW w \in Workers, DispatchRuns(w) PROVE IInv'
<1> USE DEF IInv
<1>1. /\ worker[w].pc = "dispatch" /\ worker[w].pc # "idle"
      /\ worker' = [worker EXCEPT ![w] = IdleWorker]
      /\ UNCHANGED <<event, request, queue, domainVars, answered, calls, upsets>>
  BY DEF DispatchRuns
<1>2. /\ history' \in History
      /\ Lost' = Lost /\ history'.ignored = history.ignored
      /\ history'.effects = history.effects
      /\ \A m \in Messages : history'.dispatched[m] =
           history.dispatched[m] + IF Holds(w, m) THEN 1 ELSE 0
  BY DEF DispatchRuns, Holds, Typed, TypeOK, History, Lost
<1>3. TypesKept /\ HooksKept
  BY <1>1, <1>2 DEF TypesKept, HooksKept, domainVars, Typed, TypeOK
<1>4. \A e \in Events : ~Carries(w, e)
  BY <1>1 DEF Carries
<1>5. IsABag(queue') /\ BagToSet(queue') = BagToSet(queue)
  BY <1>1 DEF Typed, TypeOK
<1>6. ASSUME NEW m \in Messages PROVE Once(m)'
  <2>1. \A v \in Workers \ {w} : (Doing(v, m)' <=> Doing(v, m))
                                 /\ (Holds(v, m)' <=> Holds(v, m))
    BY <1>1, <1>3, Leaves, DoingElsewhere DEF Shift
  <2>2. ~Doing(w, m)' /\ ~Holds(w, m)'
    BY <1>1, Leaves DEF Doing, Holds
  <2>3. Once(m) /\ history.effects[m] \in Nat /\ history.dispatched[m] \in Nat
    BY DEF Typed, TypeOK, History
  <2>4. CASE Holds(w, m)
    <3>1. history'.dispatched[m] = 1 /\ history.effects[m] = 1
      BY <1>2, <2>3, <2>4 DEF Once
    <3>2. \A v \in Workers : ~Doing(v, m)' /\ ~Holds(v, m)'
      BY <2>1, <2>2, <2>3, <2>4, <3>1 DEF Once
    <3> QED BY <1>1, <1>2, <2>3, <3>1, <3>2 DEF Once, domainVars
  <2>5. CASE ~Holds(w, m)
    BY <1>1, <1>2, <2>1, <2>2, <2>3, <2>5 DEF Once, domainVars
  <2> QED BY <2>4, <2>5
<1> QED BY <1>1, <1>2, <1>3, <1>4, <1>5, <1>6, Leaves, TaskStep DEF domainVars

-----------------------------------------------------------------------------
(* Ingress, delivery and users *)

\* A step that leaves the tasks' records alone.
LEMMA NoTask ==
  ASSUME IInv, UNCHANGED <<worker, stored, history>>, HooksKept,
         TypeOK', EventPlaces', RequestPlaces', QueuePlaces',
         \A e \in Events :
           event'[e].status = "processed" => event[e].status = "processed",
         Tracked'
  PROVE  IInv'
<1> USE DEF IInv
<1>1. WorkerPlaces'
  BY SamePlaces
<1>2. \A w \in Workers : worker[w].pc # "idle" =>
        Items(w)' = Items(w) /\ Current(w)' = Current(w)
  BY DEF Typed, WorkerPlaces, HooksKept, Items, Current
<1>3. ASSUME NEW m \in Messages PROVE Once(m)'
  <2>1. \A w \in Workers : (Doing(w, m)' <=> Doing(w, m))
                           /\ (Holds(w, m)' <=> Holds(w, m))
    BY <1>2 DEF Doing, Holds
  <2> QED BY <2>1, OnceKept
<1>4. ASSUME NEW w \in Workers PROVE Progress(w)'
  BY <1>2 DEF Progress, AtMessage
<1>5. ProcessedIsStored'
  BY StoredKept
<1> QED BY <1>1, <1>3, <1>4, <1>5 DEF Typed

\* Without a change of events or tasks whatever was tracked still is.
LEMMA TrackedStill ==
  ASSUME IInv, UNCHANGED <<event, worker, answered, history>>,
         BagToSet(queue) \subseteq BagToSet(queue')
  PROVE  Tracked' /\ HooksKept
<1> USE DEF IInv
<1>1. HooksKept
  BY DEF HooksKept
<1>2. ASSUME NEW e \in Events, Cared(e) PROVE Cared(e)'
  <2>1. Queued(e) => Queued(e)'
    BY DEF Queued, BagIn
  <2>2. \A w \in Workers : Carries(w, e) => Carries(w, e)'
    BY DEF Carries
  <2> QED BY <1>2, <2>1, <2>2 DEF Cared, Lost
<1> QED BY <1>1, <1>2, TrackedKept

LEMMA ReceiveWebhookStep ==
  ASSUME IInv, NEW q \in Requests, NEW h \in Hooks, ReceiveWebhook(q, h)
  PROVE  IInv'
<1> USE DEF IInv
<1> DEFINE r == Reaction(h)
<1>1. /\ UNCHANGED <<event, queue, worker, domainVars, answered, upsets, history>>
      /\ request' = [request EXCEPT ![q] = r] /\ calls' \in 0..MaxCalls
  BY InboundAssumption DEF ReceiveWebhook, Typed, TypeOK
<1>2. /\ r \in Request
      /\ r.pc # "idle" => r.hook = h
      /\ r.pc = "dispatch" => r.event \in Events /\ event[r.event].hook = h
  <2>1. CASE Matching(h) = {}
    <3>1. Cardinality(Matching(h)) # 1
      BY <2>1, FS_EmptySet
    <3> QED BY <2>1, <3>1 DEF Reaction, Request
  <2>2. CASE Matching(h) # {} /\ Cardinality(Matching(h)) = 1
    <3>1. (CHOOSE e \in Matching(h) : TRUE) \in Matching(h)
      BY <2>2
    <3> QED BY <2>2, <3>1 DEF Reaction, Request, Matching
  <2>3. CASE Matching(h) # {} /\ Cardinality(Matching(h)) # 1
    BY <2>3, IdleTypes DEF Reaction, IdleRequest
  <2> QED BY <2>1, <2>2, <2>3
<1> HIDE DEF r
<1>3. TypeOK'
  BY <1>1, <1>2 DEF Typed, TypeOK, domainVars
<1>4. RequestPlaces'
  BY <1>1, <1>2 DEF Typed, RequestPlaces, TypeOK
<1>5. EventPlaces' /\ QueuePlaces'
  BY <1>1 DEF Typed, EventPlaces, QueuePlaces
<1> QED BY <1>1, <1>3, <1>4, <1>5, TrackedStill, NoTask DEF domainVars

LEMMA StoreWebhookStep ==
  ASSUME IInv, NEW q \in Requests, StoreWebhook(q) PROVE IInv'
<1> USE DEF IInv
<1>1. PICK e \in Events :
        /\ request[q].pc = "insert" /\ event[e].status = "absent"
        /\ event' = [event EXCEPT ![e] = [hook |-> request[q].hook,
                                          status |-> "received"]]
        /\ request' = [request EXCEPT ![q].pc = "dispatch", ![q].event = e]
        /\ UNCHANGED <<queue, worker, domainVars, answered, calls, upsets, history>>
  BY DEF StoreWebhook
<1>2. request[q].hook \in Hooks /\ event[e].hook \notin Hooks
  BY <1>1 DEF Typed, RequestPlaces, EventPlaces
<1>3. /\ event' \in [Events -> [hook : Hooks \cup {NoHook}, status : EventStatus]]
      /\ event'[e].hook = request[q].hook /\ event'[e].status = "received"
      /\ \A x \in Events \ {e} : event'[x] = event[x]
  BY <1>1, <1>2 DEF Typed, TypeOK, EventStatus
<1>4. HooksKept
  BY <1>2, <1>3 DEF HooksKept
<1>5. /\ request' = [request EXCEPT ![q] = request'[q]] /\ request'[q] \in Request
      /\ request'[q].pc = "dispatch" /\ request'[q].hook = request[q].hook
      /\ request'[q].event = e
  BY <1>1 DEF Typed, TypeOK, Request
<1>6. TypeOK'
  <2>1. request' \in [Requests -> Request]
    BY <1>5 DEF Typed, TypeOK
  <2> QED BY <1>1, <1>3, <2>1 DEF Typed, TypeOK, domainVars
<1>7. EventPlaces'
  BY <1>2, <1>3 DEF Typed, EventPlaces
<1>8. RequestPlaces'
  <2> SUFFICES ASSUME NEW p \in Requests
               PROVE  /\ request'[p].pc # "idle" => request'[p].hook \in Hooks
                      /\ request'[p].pc = "dispatch" =>
                           /\ request'[p].event \in Events
                           /\ event'[request'[p].event].hook = request'[p].hook
    BY DEF RequestPlaces
  <2>1. CASE p = q
    BY <1>2, <1>3, <1>5, <2>1
  <2>2. CASE p # q
    <3>1. request'[p] = request[p]
      BY <1>5, <2>2 DEF Typed, TypeOK
    <3> QED BY <1>4, <3>1 DEF HooksKept, Typed, RequestPlaces
  <2> QED BY <2>1, <2>2
<1>9. QueuePlaces'
  BY <1>1, <1>4 DEF Typed, QueuePlaces, TypeOK, HooksKept
<1>10. \A x \in Events : event'[x].status = "processed" => event[x].status = "processed"
  BY <1>3
<1>11. Tracked'
  <2>1. ASSUME NEW x \in Events, event[x].hook \in Hooks, Cared(x) PROVE Cared(x)'
    <3>1. event'[x] = event[x]
      BY <1>2, <1>3, <2>1
    <3>2. \A w \in Workers : Carries(w, x) => Carries(w, x)'
      BY <1>1 DEF Carries
    <3>3. Queued(x) => Queued(x)'
      BY <1>1 DEF Queued
    <3> QED BY <1>1, <2>1, <3>1, <3>2, <3>3 DEF Cared, Lost
  <2> QED BY <1>1, <1>4, <2>1, TrackedKept
<1> QED BY <1>1, <1>4, <1>6, <1>7, <1>8, <1>9, <1>10, <1>11, NoTask DEF domainVars

LEMMA DispatchWebhookStep ==
  ASSUME IInv, NEW q \in Requests, DispatchWebhook(q) PROVE IInv'
<1> USE DEF IInv
<1>1. request[q].event \in Events /\ event[request[q].event].hook = request[q].hook
      /\ request[q].hook \in Hooks /\ request[q].pc = "dispatch"
  BY DEF DispatchWebhook, Typed, RequestPlaces
<1>2. PICK e \in Events : e = request[q].event
  BY <1>1
<1>3. PICK t \in Events \X (0..MaxRetries) : t = <<e, 0>> /\ t[1] = e
  <2>1. <<e, 0>> \in Events \X (0..MaxRetries) /\ <<e, 0>>[1] = e
    BY InboundAssumption
  <2> QED BY <2>1
<1>4. /\ queue' = queue (+) SetToBag({t})
      /\ answered' = answered \cup {request[q].hook}
      /\ request' = [request EXCEPT ![q] = IdleRequest]
      /\ UNCHANGED <<event, worker, domainVars, calls, upsets, history>>
  BY <1>2, <1>3 DEF DispatchWebhook, Enqueued
<1>5. IsABag(queue') /\ BagToSet(queue') = BagToSet(queue) \cup {t}
  BY <1>4, BagSum DEF Typed, TypeOK
<1>6. t \in Events \X (0..MaxRetries) /\ 0 \in 0..MaxRetries
  BY <1>3, InboundAssumption
<1>7. TypeOK'
  BY <1>1, <1>4, <1>5, <1>6, IdleTypes DEF Typed, TypeOK, domainVars
<1>8. EventPlaces' /\ RequestPlaces'
  BY <1>4, IdleTypes DEF Typed, EventPlaces, RequestPlaces, TypeOK, IdleRequest
<1>9. QueuePlaces'
  BY <1>1, <1>2, <1>3, <1>4, <1>5 DEF Typed, QueuePlaces
<1>10. HooksKept
  BY <1>4 DEF HooksKept
<1>11. Tracked'
  <2>1. Cared(e)'
    BY <1>3, <1>5, <1>6 DEF Cared, Queued, BagIn
  <2>2. ASSUME NEW x \in Events, Cared(x) PROVE Cared(x)'
    <3>1. Queued(x) => Queued(x)'
      BY <1>5 DEF Queued, BagIn
    <3>2. \A w \in Workers : Carries(w, x) => Carries(w, x)'
      BY <1>4 DEF Carries
    <3> QED BY <1>4, <2>2, <3>1, <3>2 DEF Cared, Lost
  <2>3. ASSUME NEW h \in answered' PROVE \E x \in Events : event'[x].hook = h /\ Cared(x)'
    <3>1. CASE h \in answered
      BY <1>4, <2>2, <3>1 DEF Tracked
    <3>2. CASE h = request[q].hook
      BY <1>1, <1>2, <1>4, <2>1, <3>2
    <3> QED BY <1>4, <3>1, <3>2
  <2> QED BY <2>3 DEF Tracked
<1>12. UNCHANGED <<worker, stored, history>>
       /\ \A x \in Events :
            event'[x].status = "processed" => event[x].status = "processed"
  BY <1>4 DEF domainVars
<1> QED BY <1>7, <1>8, <1>9, <1>10, <1>11, <1>12, NoTask

LEMMA RequestCrashStep ==
  ASSUME IInv, NEW q \in Requests, RequestCrash(q) PROVE IInv'
<1> USE DEF IInv
<1>1. /\ request' = [request EXCEPT ![q] = IdleRequest]
      /\ UNCHANGED <<event, queue, worker, domainVars, answered, calls, history>>
      /\ upsets' \in 0..MaxUpsets
  BY InboundAssumption DEF RequestCrash, Upset, Typed, TypeOK
<1>2. TypeOK'
  BY <1>1, IdleTypes DEF Typed, TypeOK, domainVars
<1>3. EventPlaces' /\ RequestPlaces' /\ QueuePlaces'
  BY <1>1, IdleTypes
  DEF Typed, EventPlaces, RequestPlaces, QueuePlaces, TypeOK, IdleRequest
<1> QED BY <1>1, <1>2, <1>3, TrackedStill, NoTask DEF domainVars

LEMMA RetryFailedWebhooksStep ==
  ASSUME IInv, RetryFailedWebhooks PROVE IInv'
<1> USE DEF IInv
<1> DEFINE S == Sweepable \X {0}
<1>1. /\ queue' = queue (+) SetToBag(S)
      /\ UNCHANGED <<event, request, worker, domainVars, answered, calls, upsets,
                     history>>
  BY DEF RetryFailedWebhooks
<1>2. IsABag(queue') /\ BagToSet(queue') = BagToSet(queue) \cup S
  BY <1>1, BagSum DEF Typed, TypeOK
<1>3. S \subseteq Events \X (0..MaxRetries) /\ \A t \in S : event[t[1]].hook \in Hooks
  BY InboundAssumption DEF Sweepable, Typed, EventPlaces
<1> HIDE DEF S
<1>4. TypeOK'
  BY <1>1, <1>2, <1>3 DEF Typed, TypeOK, domainVars
<1>5. EventPlaces' /\ RequestPlaces' /\ QueuePlaces'
  BY <1>1, <1>2, <1>3 DEF Typed, EventPlaces, RequestPlaces, QueuePlaces
<1> QED BY <1>1, <1>2, <1>4, <1>5, TrackedStill, NoTask DEF domainVars

\* The inbox's users and outages: nothing that a task or an event shows.
LEMMA UsersStep ==
  ASSUME IInv, \/ OutageBegins \/ OutageEnds
               \/ SwitchAccount
               \/ \E c \in Contacts : \/ DeleteContact(c)
                                      \/ \E s, t \in ConvStatus : ChangeStatus(c, s, t)
  PROVE  IInv'
<1> USE DEF IInv
<1>1. UNCHANGED <<event, request, queue, worker, stored, answered, calls, history>>
  BY DEF OutageBegins, OutageEnds, SwitchAccount, DeleteContact, ChangeStatus
<1>2. upsets' \in 0..MaxUpsets /\ outage' \in BOOLEAN /\ active' \in BOOLEAN
  <2>1. upsets \in 0..MaxUpsets /\ MaxUpsets \in Nat /\ outage \in BOOLEAN
        /\ active \in BOOLEAN
    BY InboundAssumption DEF Typed, TypeOK
  <2>2. upsets' = upsets \/ (upsets < MaxUpsets /\ upsets' = upsets + 1)
    BY DEF OutageBegins, OutageEnds, SwitchAccount, DeleteContact, ChangeStatus, Upset
  <2>3. upsets' \in 0..MaxUpsets
    BY <2>1, <2>2
  <2>4. outage' \in BOOLEAN /\ active' \in BOOLEAN
    BY <2>1 DEF OutageBegins, OutageEnds, SwitchAccount, DeleteContact, ChangeStatus
  <2> QED BY <2>3, <2>4
<1>3. contact' \in [Contacts -> {"absent", "live", "deleted"}]
  BY DEF OutageBegins, OutageEnds, SwitchAccount, DeleteContact, ChangeStatus, Typed, TypeOK
<1>4. convs' \in [Contacts -> SUBSET ConvStatus]
  BY DEF OutageBegins, OutageEnds, SwitchAccount, DeleteContact, ChangeStatus, Typed, TypeOK
<1>5. TypeOK'
  BY <1>1, <1>2, <1>3, <1>4 DEF Typed, TypeOK
<1>6. EventPlaces' /\ RequestPlaces' /\ QueuePlaces'
  BY <1>1 DEF Typed, EventPlaces, RequestPlaces, QueuePlaces
<1> QED BY <1>1, <1>5, <1>6, TrackedStill, NoTask

\* A task is taken from the queue, and the worker carries its event.
LEMMA ReceiveTaskStep ==
  ASSUME IInv, NEW w \in Workers, NEW t \in BagToSet(queue), ReceiveTask(w, t[1], t[2])
  PROVE  IInv'
<1> USE DEF IInv
<1> DEFINE me == [IdleWorker EXCEPT !.pc = IF active THEN "item" ELSE "ignored",
                                    !.event = t[1], !.try = t[2]]
<1>1. /\ t \in Events \X (0..MaxRetries) /\ t = <<t[1], t[2]>>
      /\ event[t[1]].hook \in Hooks
  BY DEF Typed, TypeOK, QueuePlaces
<1>2. /\ worker[w].pc = "idle" /\ queue' = queue (-) SetToBag({t})
      /\ worker' = [worker EXCEPT ![w] = me]
      /\ UNCHANGED <<event, request, domainVars, answered, calls, upsets, history>>
  BY <1>1 DEF ReceiveTask
<1>3. /\ me \in Worker /\ me.pc \in {"item", "ignored"} /\ me.event = t[1] /\ me.item = 1
      /\ me.runs = {}
  BY <1>1, IdleTypes DEF Worker, WorkerPc
<1> HIDE DEF me
<1>4. worker'[w] = me /\ worker' = [worker EXCEPT ![w] = worker'[w]]
  BY <1>2 DEF Typed, TypeOK
<1>5. /\ IsABag(queue') /\ BagToSet(queue') \subseteq BagToSet(queue)
      /\ \A y \in BagToSet(queue) : y # t => y \in BagToSet(queue')
  BY <1>2, BagTaken DEF Typed, TypeOK
<1>6. HooksKept
  BY <1>2 DEF HooksKept
<1>7. TypeOK'
  <2>1. worker' \in [Workers -> Worker]
    BY <1>3, <1>4 DEF Typed, TypeOK
  <2> QED BY <1>2, <1>5, <2>1 DEF Typed, TypeOK, domainVars
<1>8. EventPlaces' /\ RequestPlaces' /\ QueuePlaces'
  BY <1>2, <1>5 DEF Typed, EventPlaces, RequestPlaces, QueuePlaces
<1>9. WorkerPlaces'
  <2> SUFFICES ASSUME NEW v \in Workers
               PROVE  /\ worker'[v].pc = "idle" => worker'[v] = IdleWorker
                      /\ worker'[v].pc # "idle" =>
                           /\ worker'[v].event \in Events
                           /\ event'[worker'[v].event].hook \in Hooks
                      /\ worker'[v].item > 0
                      /\ worker'[v].pc \in AtMessage => worker'[v].item <= Len(Items(v)')
    BY DEF WorkerPlaces
  <2>1. CASE v = w
    BY <1>1, <1>2, <1>3, <1>4, <2>1 DEF AtMessage
  <2>2. CASE v # w
    <3>1. worker'[v] = worker[v]
      BY <1>4, <1>6, <2>2, Elsewhere
    <3> QED BY <1>2, <3>1 DEF Typed, WorkerPlaces, Items
  <2> QED BY <2>1, <2>2
<1>10. ASSUME NEW m \in Messages PROVE Once(m)'
  <2>1. \A v \in Workers : Doing(v, m)' => Doing(v, m)
    BY <1>3, <1>4, <1>6, DoingElsewhere DEF Doing
  <2>2. \A v \in Workers : Holds(v, m)' => Holds(v, m)
    BY <1>3, <1>4, <1>6, DoingElsewhere DEF Holds
  <2> QED BY <1>2, <2>1, <2>2, OnceKept DEF domainVars
<1>11. ASSUME NEW v \in Workers PROVE Progress(v)'
  <2>1. CASE v = w
    BY <1>3, <1>4, <2>1 DEF Progress, AtMessage
  <2>2. CASE v # w
    BY <1>2, <1>4, <1>6, <2>2, ProgressElsewhere DEF domainVars
  <2> QED BY <2>1, <2>2
<1>12. ProcessedIsStored'
  BY <1>2, <1>6, StoredKept DEF domainVars
<1>13. Tracked'
  <2>1. ASSUME NEW e \in Events, Cared(e) PROVE Cared(e)'
    <3>1. CASE event[e].status \in {"processed", "failed"} \/ e \in Lost
      BY <1>2, <3>1 DEF Cared, Lost
    <3>2. CASE Queued(e)
      <4>1. PICK n \in 0..MaxRetries : <<e, n>> \in BagToSet(queue)
        BY <3>2 DEF Queued, BagIn
      <4>2. CASE <<e, n>> = t
        <5>1. Carries(w, e)'
          BY <1>3, <1>4, <4>2 DEF Carries
        <5> QED BY <5>1 DEF Cared
      <4>3. CASE <<e, n>> # t
        BY <1>5, <4>1, <4>3 DEF Cared, Queued, BagIn
      <4> QED BY <4>2, <4>3
    <3>3. ASSUME NEW v \in Workers, Carries(v, e) PROVE Cared(e)'
      <4>1. worker[v].event # NoEvent /\ v # w
        BY <1>2, <3>3, IdleTypes, InboundAssumption DEF Carries, Typed, WorkerPlaces
      <4>2. worker'[v] = worker[v]
        BY <1>4, <1>6, <4>1, Elsewhere
      <4>3. Carries(v, e)'
        BY <3>3, <4>2 DEF Carries
      <4> QED BY <4>3 DEF Cared
    <3> QED BY <2>1, <3>1, <3>2, <3>3 DEF Cared
  <2> QED BY <1>2, <1>6, <2>1, TrackedKept
<1> QED BY <1>7, <1>8, <1>9, <1>10, <1>11, <1>12, <1>13 DEF Typed

-----------------------------------------------------------------------------
(* The theorems *)

LEMMA InitIInv == Init => IInv
<1> SUFFICES ASSUME Init PROVE IInv
  OBVIOUS
<1>1. IsABag(queue) /\ BagToSet(queue) = {}
  BY SetBag DEF Init, EmptyBag
<1>2. TypeOK
  <2>1. /\ event \in [Events -> [hook : Hooks \cup {NoHook}, status : EventStatus]]
        /\ request \in [Requests -> Request] /\ worker \in [Workers -> Worker]
    BY IdleTypes DEF Init, EventStatus
  <2>2. /\ contact \in [Contacts -> {"absent", "live", "deleted"}]
        /\ convs \in [Contacts -> SUBSET ConvStatus]
    BY DEF Init
  <2>3. calls \in 0..MaxCalls /\ upsets \in 0..MaxUpsets
    BY InboundAssumption DEF Init
  <2>4. history \in History
    BY DEF Init, History
  <2>5. stored \subseteq Messages /\ answered \subseteq Hooks /\ outage \in BOOLEAN /\ active \in BOOLEAN
    BY DEF Init
  <2> QED BY <1>1, <2>1, <2>2, <2>3, <2>4, <2>5 DEF TypeOK
<1>3. EventPlaces /\ RequestPlaces /\ QueuePlaces
  BY <1>1, InboundAssumption
  DEF Init, EventPlaces, RequestPlaces, QueuePlaces, IdleRequest
<1>4. WorkerPlaces
  BY IdleTypes DEF Init, WorkerPlaces, AtMessage
<1>5. (\A m \in Messages : Once(m)) /\ \A w \in Workers : Progress(w)
  BY IdleTypes DEF Init, Once, Doing, Holds, Progress, AtMessage
<1>6. ProcessedIsStored /\ Tracked
  BY DEF Init, ProcessedIsStored, Tracked
<1> QED BY <1>2, <1>3, <1>4, <1>5, <1>6 DEF IInv, Typed

LEMMA NextIInv == IInv /\ [Next]_vars => IInv'
<1> SUFFICES ASSUME IInv, [Next]_vars PROVE IInv'
  OBVIOUS
<1>1. CASE UNCHANGED vars
  <2>1. TypeOK' /\ EventPlaces' /\ RequestPlaces' /\ QueuePlaces'
    BY <1>1 DEF vars, IInv, Typed, TypeOK, EventPlaces, RequestPlaces, QueuePlaces
  <2>2. UNCHANGED <<event, worker, stored, answered, queue, history>>
    BY <1>1 DEF vars
  <2> QED BY <2>1, <2>2, TrackedStill, NoTask
<1>2. ASSUME NEW w \in Workers, WorkerStep(w) PROVE IInv'
  BY <1>2, LookUpStep, LookUpAgainStep, PersistStep, PersistConflictStep,
     SideEffectsStep, EndOfBatchStep, MarkFailedStep, RetryStep, DispatchRunsStep
  DEF WorkerStep
<1> QED BY <1>1, <1>2, ReceiveWebhookStep, StoreWebhookStep, DispatchWebhookStep,
           RequestCrashStep, ReceiveTaskStep, PersistFailsStep, SideEffectsFailStep,
           TaskFailsStep, MarkFailsStep, DispatchRefusedStep, WorkerCrashStep, RetryFailedWebhooksStep, UsersStep
        DEF Next

LEMMA IInvHolds == Spec => []IInv
  BY InitIInv, NextIInv, PTL DEF Spec

\* Tables, tasks and the bag in the broker keep their types.
THEOREM TypeCorrect == Spec => []TypeOK
<1>1. IInv => TypeOK
  BY DEF IInv, Typed
<1> QED BY <1>1, IInvHolds, PTL

\* The unique message id and the savepoint: side effects of a message and the
\* dispatch of its run happen once, for any number of calls, duplicate events,
\* workers, retries and sweeps.
THEOREM NoEffectTwice == Spec => []EffectsAtMostOnce
<1>1. IInv => EffectsAtMostOnce
  <2> SUFFICES ASSUME IInv, NEW m \in Messages
               PROVE  history.effects[m] <= 1 /\ history.dispatched[m] <= 1
    BY DEF EffectsAtMostOnce
  <2>1. history.effects[m] \in Nat /\ history.dispatched[m] \in Nat
    BY DEF IInv, Typed, TypeOK, History
  <2> QED BY <2>1 DEF IInv, Once
<1> QED BY <1>1, IInvHolds, PTL

\* mark_webhook_processed: an event it marks has all its messages in the inbox,
\* whatever failed before and whoever else was at it, but for the one branch that
\* drops messages: the payload's account was unknown or not active.
THEOREM ProcessedIsTrue == Spec => []ProcessedIsStored
<1>1. IInv => ProcessedIsStored
  BY DEF IInv
<1> QED BY <1>1, IInvHolds, PTL

\* The task's retries and dead letters: what Meta got its 200 for is in some hand,
\* unless a worker died with it or the failure of its last try was not stored.
THEOREM NothingForgotten == Spec => []AnsweredIsTracked
<1>1. IInv => AnsweredIsTracked
  <2> SUFFICES ASSUME IInv, NEW h \in answered
               PROVE  \E e \in Events :
                        /\ event[e].hook = h
                        /\ \/ event[e].status \in {"processed", "failed"}
                           \/ OnItsWay(e) \/ e \in history.dropped \cup history.unmarked
    BY DEF AnsweredIsTracked
  <2>1. PICK e \in Events : event[e].hook = h /\ Cared(e)
    BY DEF IInv, Tracked
  <2>2. Queued(e) \/ (\E w \in Workers : Carries(w, e)) => OnItsWay(e)
    BY DEF Queued, Carries, OnItsWay
  <2> QED BY <2>1, <2>2 DEF Cared, Lost
<1> QED BY <1>1, IInvHolds, PTL
=============================================================================

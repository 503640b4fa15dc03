--------------------------- MODULE OutboxDelivery ---------------------------
(***************************************************************************)
(* What the transactional outbox promises of each event, whoever publishes *)
(* it and however often: a committed event is owed; it is tried a bounded  *)
(* number of times; each try gives it to Redis at most once; it is called  *)
(* done only after it was given, and dead only when every try was used up; *)
(* done and dead are final.                                                *)
(***************************************************************************)
EXTENDS Naturals

CONSTANTS Events, MaxAttempts

VARIABLES
    stage,      \* "none", "owed", "done" or "dead"
    tries,      \* how often a publisher took the event on
    given       \* how often Redis got it

vars == <<stage, tries, given>>

Init ==
    /\ stage = [e \in Events |-> "none"]
    /\ tries = [e \in Events |-> 0]
    /\ given = [e \in Events |-> 0]

Accept(e) ==
    /\ stage[e] = "none"
    /\ stage' = [stage EXCEPT ![e] = "owed"]
    /\ UNCHANGED <<tries, given>>

\* A publisher takes on a batch of events.
Try(B) ==
    /\ \A e \in B : stage[e] = "owed" /\ tries[e] < MaxAttempts
    /\ tries' = [e \in Events |-> IF e \in B THEN tries[e] + 1 ELSE tries[e]]
    /\ UNCHANGED <<stage, given>>

Give(e) ==
    /\ stage[e] = "owed" /\ given[e] < tries[e]
    /\ given' = [given EXCEPT ![e] = @ + 1]
    /\ UNCHANGED <<stage, tries>>

Conclude(e) ==
    /\ stage[e] = "owed"
    /\ \/ given[e] > 0 /\ stage' = [stage EXCEPT ![e] = "done"]
       \/ tries[e] = MaxAttempts /\ stage' = [stage EXCEPT ![e] = "dead"]
    /\ UNCHANGED <<tries, given>>

Next ==
    \/ \E e \in Events : Accept(e) \/ Give(e) \/ Conclude(e)
    \/ \E B \in SUBSET Events : Try(B)

Spec == Init /\ [][Next]_vars
=============================================================================

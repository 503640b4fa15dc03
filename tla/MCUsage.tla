------------------------------ MODULE MCUsage ------------------------------
(* A colleague and the AI write to a contact who writes twice, in a year of two
   months, the second of which lacks the days the first ends on. *)
EXTENDS Usage, TLC

CONSTANTS i1, i2, o1, o2

MCKind == i1 :> "inbound" @@ i2 :> "inbound" @@ o1 :> "staff" @@ o2 :> "ai"
MCContact == [m \in Messages |-> "c"]
MCLengths == <<4, 2>>
MCSubscription == [starts |-> 1, ends |-> 8, cycle |-> "yearly"]
MCOffers == {[starts |-> 3, ends |-> 10, cycle |-> "monthly"],
             [starts |-> 3, ends |-> 5, cycle |-> "trial"]}

\* The two inbound messages differ in nothing.
MCSymmetry == Permutations({i1, i2})

\* What PeriodsNeverOverlap proves for every calendar, for these terms and every day.
ASSUME PartitionAssumption == PeriodsPartition
=============================================================================

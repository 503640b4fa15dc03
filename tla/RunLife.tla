------------------------------ MODULE RunLife ------------------------------
(***************************************************************************)
(* What an automation run is to those who look at it, whoever executes it: *)
(* it is created once with a limit; it runs, may wait and run again; nodes *)
(* are begun only while it runs and within the limit; it is stopped only   *)
(* when that was asked for; it ends once, and nothing happens to it after  *)
(* that but a request to stop that comes too late.                         *)
(***************************************************************************)
EXTENDS Naturals

CONSTANTS Runs

VARIABLES
    stage,      \* its status, "absent" before it is created
    limit,      \* how many nodes it may begin
    begun,      \* how many it has
    asked       \* somebody wants it stopped

vars == <<stage, limit, begun, asked>>

Init ==
    /\ stage = [r \in Runs |-> "absent"]
    /\ limit = [r \in Runs |-> 0]
    /\ begun = [r \in Runs |-> 0]
    /\ asked = [r \in Runs |-> FALSE]

Goes(r, from, to) ==
    /\ stage[r] \in from
    /\ \E s \in to : stage' = [stage EXCEPT ![r] = s]
    /\ UNCHANGED <<begun, asked>>

Create(r) ==
    /\ Goes(r, {"absent"}, {"queued"})
    /\ limit'[r] \in Nat /\ limit' = [limit EXCEPT ![r] = limit'[r]]

Start(r) == Goes(r, {"queued", "waiting"}, {"running"}) /\ UNCHANGED limit
Pause(r) == Goes(r, {"running"}, {"waiting"}) /\ UNCHANGED limit
End(r) == Goes(r, {"running"}, {"succeeded", "failed"}) /\ UNCHANGED limit
\* There is nothing left to execute when its turn comes.
GiveUp(r) == Goes(r, {"queued", "waiting"}, {"failed"}) /\ UNCHANGED limit
Stop(r) == asked[r] /\ Goes(r, {"running"}, {"stopped"}) /\ UNCHANGED limit

BeginNode(r) ==
    /\ stage[r] = "running" /\ begun[r] < limit[r]
    /\ begun' = [begun EXCEPT ![r] = @ + 1]
    /\ UNCHANGED <<stage, limit, asked>>

Ask(r) ==
    /\ stage[r] # "absent"
    /\ asked' = [asked EXCEPT ![r] = TRUE]
    /\ UNCHANGED <<stage, limit, begun>>

Next == \E r \in Runs :
    \/ Create(r) \/ Start(r) \/ Pause(r) \/ End(r) \/ GiveUp(r) \/ Stop(r)
    \/ BeginNode(r) \/ Ask(r)

Spec == Init /\ [][Next]_vars
=============================================================================

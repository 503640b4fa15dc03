----------------------------- MODULE MCCampaign -----------------------------
(* Instances of Campaign for TLC. *)
EXTENDS Campaign, TLC

CONSTANTS r1, r2, w1, w2, q1, q2, t1, t2, t3

Symmetry == Permutations(Recipients) \cup Permutations(Workers)
            \cup Permutations(Requests) \cup Permutations(Tokens)
=============================================================================

------------------------------ MODULE MCAccess ------------------------------
(* Symmetry of the requests and of the accounts. *)
EXTENDS Access, TLC

MCSymmetry == Permutations(Requests) \cup Permutations(Accounts)
=============================================================================

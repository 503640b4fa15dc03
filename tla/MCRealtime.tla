----------------------------- MODULE MCRealtime -----------------------------
(* Symmetry of the API processes and of the sockets, for runs of safety. *)
EXTENDS Realtime, TLC

MCSymmetry == Permutations(Processes) \cup Permutations(Sockets)
=============================================================================

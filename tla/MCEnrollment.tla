---------------------------- MODULE MCEnrollment ----------------------------
(* Two requests and two hosts that nothing tells apart. *)
EXTENDS Enrollment, TLC

Symmetry == Permutations(Tokens) \cup Permutations(Requests) \cup Permutations(Hosts)
=============================================================================

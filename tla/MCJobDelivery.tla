--------------------------- MODULE MCJobDelivery ----------------------------
(* Instances of JobDelivery for TLC.  The connections and the goroutines   *)
(* are interchangeable.                                                    *)
EXTENDS JobDelivery, TLC

Symmetry == Permutations(Conns) \cup Permutations(Goroutines)
=============================================================================

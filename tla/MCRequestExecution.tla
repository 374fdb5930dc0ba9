------------------------- MODULE MCRequestExecution -------------------------
(* Small instances of RequestExecution for TLC. *)
EXTENDS RequestExecution, TLC

\* The Request objects of the program are interchangeable.
Symmetry == Permutations(UserRequests)

=============================================================================

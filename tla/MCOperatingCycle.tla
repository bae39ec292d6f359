-------------------------- MODULE MCOperatingCycle --------------------------
(***************************************************************************)
(* Small instances of OperatingCycle for TLC.                              *)
(***************************************************************************)
EXTENDS OperatingCycle, TLC

\* Identities of one table are interchangeable.
Symmetry == Permutations(Reservations) \cup Permutations(Requests)
                \cup Permutations(Children) \cup Permutations(Cycles)

=============================================================================

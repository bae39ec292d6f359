---------------------------- MODULE MCNativeChild ----------------------------
(***************************************************************************)
(* Small instances of NativeChild for TLC.                                 *)
(***************************************************************************)
EXTENDS NativeChild, TLC

\* Identities of one table are interchangeable.
Symmetry == Permutations(Requests) \cup Permutations(Pids)
                \cup Permutations(Attempts) \cup Permutations(Experiments)

=============================================================================

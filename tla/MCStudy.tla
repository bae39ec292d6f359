------------------------------ MODULE MCStudy -------------------------------
EXTENDS Study, TLC

CONSTANTS e1, e2, e3

Symmetry == Permutations(Episodes)
=============================================================================

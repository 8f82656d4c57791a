---------------------------- MODULE MCAppUIState ----------------------------
(* AppUIState with two handler tasks.                                      *)
EXTENDS AppUIState, TLC

CONSTANTS t1, t2

MCTasks == {t1, t2}

MCSymmetry == Permutations(MCTasks)

=============================================================================

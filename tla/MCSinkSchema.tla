---------------------------- MODULE MCSinkSchema ----------------------------
(* SinkSchema with two field names and two physical cache names; each set *)
(* is a symmetry set.                                                      *)
EXTENDS SinkSchema, TLC

CONSTANTS n1, n2, c1, c2

MCNames == {n1, n2}

MCCacheIds == {c1, c2}

MCSymmetry == Permutations(MCNames) \cup Permutations(MCCacheIds)

=============================================================================

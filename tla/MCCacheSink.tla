---------------------------- MODULE MCCacheSink ----------------------------
(***************************************************************************)
(* Model-checking instance of CacheSink: keys and contents are model      *)
(* values, and a key permutation or a contents permutation maps a         *)
(* behaviour to a behaviour (ids are naturals and do not depend on them), *)
(* so both are symmetry sets.                                              *)
(***************************************************************************)
EXTENDS CacheSink, TLC

CONSTANTS k1, k2, k3, v1, v2

MCKeys == {k1, k2, k3}
MCVals == {v1, v2}

MCSymmetry == Permutations(MCKeys) \cup Permutations(MCVals)

=============================================================================

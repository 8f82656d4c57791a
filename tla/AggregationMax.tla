---------------------------- MODULE AggregationMax ----------------------------
(***************************************************************************)
(* The aggregation operator for SELECT g, MAX(v) ... GROUP BY g (spec      *)
(* 4.1).  Its code is not among the repository's sources; only its tests   *)
(* are (dozer-sql/.../aggregation/tests/aggregation_max_tests.rs).  The    *)
(* operator keeps, per group, the persisted accumulator of a MAX: the      *)
(* multiset of the group's live values (an AggregationState entry exists   *)
(* exactly while it is non-empty).  For each input delta it updates the    *)
(* accumulator and returns the output deltas.                              *)
(***************************************************************************)
EXTENDS Naturals, Sequences

CONSTANTS
    Groups,   \* group-key values
    Vals,     \* measure values, a set of naturals (ordered as numbers)
    Absent,   \* no output row for a group, not a member of Vals
    MaxOps    \* bound on the input deltas, a natural

(* A multiset of values: value -> number of live rows holding it.          *)
EmptyBag == [v \in Vals |-> 0]
Put(b, v) == [b EXCEPT ![v] = b[v] + 1]
Take(b, v) == [b EXCEPT ![v] = b[v] - 1]
IsEmpty(b) == \A v \in Vals : b[v] = 0

(* The MAX of a non-empty accumulator.                                      *)
BagMax(b) == CHOOSE m \in Vals : b[m] > 0 /\ \A v \in Vals : b[v] > 0 => v <= m

(* An output delta on a group's row.                                        *)
Ins(g, new) == [op |-> "insert", g |-> g, old |-> Absent, new |-> new]
Upd(g, old, new) == [op |-> "update", g |-> g, old |-> old, new |-> new]
Del(g, old) == [op |-> "delete", g |-> g, old |-> old, new |-> Absent]

VARIABLES
    live,      \* group -> multiset of the values of its live upstream rows
    acc,       \* group -> accumulator (AggregationState)
    out,       \* the deltas the last input produced, in order
    ops        \* input deltas processed (bounded)

vars == <<live, acc, out, ops>>

-----------------------------------------------------------------------------
(* Insert(row) into group g: fold v in; Insert if the group had no output, *)
(* else Update from the previous MAX to the new one.                        *)
InsertDelta(b, g, v) ==
    IF IsEmpty(b) THEN Ins(g, v) ELSE Upd(g, BagMax(b), BagMax(Put(b, v)))

(* Delete(row) from group g: take v out; Delete when the group empties,    *)
(* else Update with the recomputed MAX.                                     *)
DeleteDelta(b, g, v) ==
    IF IsEmpty(Take(b, v)) THEN Del(g, BagMax(b)) ELSE Upd(g, BagMax(b), BagMax(Take(b, v)))

(* Update(old, new) within group g: retract then apply against the same    *)
(* accumulator; the group survives, so one Update.                         *)
SameGroupDelta(b, g, v1, v2) == Upd(g, BagMax(b), BagMax(Put(Take(b, v1), v2)))

(* One call of the operator: the accumulator becomes a2, the deltas ds are *)
(* returned, the live rows become l2.                                       *)
Emit(l2, a2, ds) ==
    /\ ops < MaxOps
    /\ live' = l2
    /\ acc' = a2
    /\ out' = ds
    /\ ops' = ops + 1

-----------------------------------------------------------------------------
Init ==
    /\ live = [g \in Groups |-> EmptyBag]
    /\ acc = [g \in Groups |-> EmptyBag]
    /\ out = << >>
    /\ ops = 0

Insert(g, v) ==
    Emit([live EXCEPT ![g] = Put(@, v)], [acc EXCEPT ![g] = Put(@, v)],
         << InsertDelta(acc[g], g, v) >>)

(* Delete carries a row the upstream holds (spec 3).                        *)
Delete(g, v) ==
    /\ live[g][v] > 0
    /\ Emit([live EXCEPT ![g] = Take(@, v)], [acc EXCEPT ![g] = Take(@, v)],
            << DeleteDelta(acc[g], g, v) >>)

(* Update(old, new): one Update when the group is unchanged; else the      *)
(* Delete of old against its group and the Insert of new against its       *)
(* group, old-group delta first (spec 4.1).                                 *)
Update(g1, v1, g2, v2) ==
    /\ live[g1][v1] > 0
    /\ IF g1 = g2
       THEN Emit([live EXCEPT ![g1] = Put(Take(@, v1), v2)],
                 [acc EXCEPT ![g1] = Put(Take(@, v1), v2)],
                 << SameGroupDelta(acc[g1], g1, v1, v2) >>)
       ELSE Emit([live EXCEPT ![g1] = Take(@, v1), ![g2] = Put(@, v2)],
                 [acc EXCEPT ![g1] = Take(@, v1), ![g2] = Put(@, v2)],
                 << DeleteDelta(acc[g1], g1, v1), InsertDelta(acc[g2], g2, v2) >>)

Next ==
    \/ \E g \in Groups, v \in Vals : Insert(g, v) \/ Delete(g, v)
    \/ \E g1, g2 \in Groups, v1, v2 \in Vals : Update(g1, v1, g2, v2)

Spec == Init /\ [][Next]_vars

=============================================================================

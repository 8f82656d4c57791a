------------------------ MODULE MCAggregationMaxTest ------------------------
(* The input deltas of test_max_aggregation_float                          *)
(* (aggregation_max_tests.rs) fed to the operator in order, and the output *)
(* deltas the test asserts after each (the int, decimal, timestamp and date *)
(* tests repeat the scenario with other field types).                       *)
EXTENDS AggregationMax

CONSTANTS Italy, Singapore

MCGroups == {Italy, Singapore}

MCVals == {50, 100, 200}

VARIABLE step   \* inputs fed so far

TestInputs ==
    << [op |-> "insert", g |-> Italy, v |-> 100],
       [op |-> "insert", g |-> Italy, v |-> 100],
       [op |-> "insert", g |-> Singapore, v |-> 50],
       [op |-> "update", g |-> Singapore, v |-> 50, g2 |-> Italy, v2 |-> 50],
       [op |-> "update", g |-> Italy, v |-> 100, g2 |-> Italy, v2 |-> 200],
       [op |-> "delete", g |-> Italy, v |-> 200],
       [op |-> "delete", g |-> Italy, v |-> 50],
       [op |-> "delete", g |-> Italy, v |-> 100] >>

TestExpected ==
    << << Ins(Italy, 100) >>,
       << Upd(Italy, 100, 100) >>,
       << Ins(Singapore, 50) >>,
       << Upd(Italy, 100, 100), Del(Singapore, 50) >>,
       << Upd(Italy, 100, 200) >>,
       << Upd(Italy, 200, 100) >>,
       << Upd(Italy, 100, 100) >>,
       << Del(Italy, 100) >> >>

TestInit == Init /\ step = 0

TestNext ==
    /\ step < Len(TestInputs)
    /\ LET i == TestInputs[step + 1] IN
         CASE i.op = "insert" -> Insert(i.g, i.v)
           [] i.op = "delete" -> Delete(i.g, i.v)
           [] i.op = "update" -> Update(i.g, i.v, i.g2, i.v2)
    /\ step' = step + 1

(* After each input the operator has emitted exactly the deltas the test   *)
(* asserts with assert_eq!(out, exp).                                       *)
TestExpectations == step > 0 => out = TestExpected[step]

=============================================================================

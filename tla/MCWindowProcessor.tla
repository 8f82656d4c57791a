------------------------- MODULE MCWindowProcessor -------------------------
(* A hop window of size 2 and hop 1 over times 0..2: the row at time t    *)
(* falls in the windows starting at t - 1 and t.                           *)
EXTENDS WindowProcessor

MCTimes == 0..2

MCAssign == [t \in MCTimes |-> {w \in MCTimes : w <= t /\ t < w + 2}]

=============================================================================

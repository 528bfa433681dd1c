------------------------------ MODULE MCFanout ------------------------------
(* The instances of Fanout that TLC checks. *)
EXTENDS Fanout, TLC
CONSTANT q1

Publish1 == [batches |-> <<1>>, gated |-> TRUE]
Score == [batches |-> <<1, 1>>, gated |-> TRUE]
Wraps(n) == [batches |-> <<n>>, gated |-> FALSE]

Single == {q1 :> Score, q1 :> Publish1, q1 :> Wraps(2)}
=============================================================================

------------------------------ MODULE MCOutbox ------------------------------
(* Instances of Outbox for TLC: two overlapping ticks.                     *)
EXTENDS OutboxHistory, TLC

CONSTANTS w1, w2

const_Workers == {w1, w2}
const_Symmetry == Permutations(const_Workers)
=============================================================================

----------------------------- MODULE MCContract -----------------------------
(* Instances of Contract for TLC: one or two requests of administrators    *)
(* and one of the client in flight.                                        *)
EXTENDS Contract, TLC

CONSTANTS a1, a2, c1, t1, t2, t3, n1, n2

const_Terms == {t1, t2, t3}
const_Names == {n1, n2}

\* t1 and t2 differ in a column that is not printed.
const_Text == {1, 2} \X const_Names
const_Render ==
  [t \in const_Terms |-> [n \in const_Names |-> <<IF t = t3 THEN 2 ELSE 1, n>>]]

const_Symmetry == Permutations(const_Names)
=============================================================================

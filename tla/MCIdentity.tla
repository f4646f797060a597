----------------------------- MODULE MCIdentity -----------------------------
(* Instances of Identity for TLC: one or two API processes, an entry that  *)
(* cannot be parsed.                                                       *)
EXTENDS Identity, TLC

CONSTANTS c1, c2, broken

const_Consumers == {c1, c2}
const_Symmetry == Permutations(const_Consumers)
=============================================================================

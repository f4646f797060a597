----------------------------- MODULE MCEventBus -----------------------------
(* An instance of EventBus for TLC: two API processes, an event that may be *)
(* in the stream several times, and entries without a payload.  The event   *)
(* need not be poison: its handlers may throw any number of times.          *)
EXTENDS EventBusHistory, TLC

CONSTANTS c1, c2, event, junk

const_Consumers == {c1, c2}
const_Symmetry == Permutations(const_Consumers)
=============================================================================

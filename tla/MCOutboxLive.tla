---------------------------- MODULE MCOutboxLive ----------------------------
(* Instance of Outbox for the liveness properties: two overlapping ticks,  *)
(* one row per claim, so that an older row can hold back a younger one.    *)
EXTENDS Outbox

CONSTANTS w1, w2

const_Workers == {w1, w2}
=============================================================================

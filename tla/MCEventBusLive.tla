--------------------------- MODULE MCEventBusLive ---------------------------
(* An instance of EventBus for liveness: two API processes, an event whose    *)
(* handlers always throw, and one whose handlers succeed in the end.          *)
EXTENDS EventBus

CONSTANTS c1, c2, event, poison

const_Consumers == {c1, c2}
=============================================================================

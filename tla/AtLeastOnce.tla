----------------------------- MODULE AtLeastOnce -----------------------------
(***************************************************************************)
(* What the transactional outbox promises (ADR-003): an event accepted in  *)
(* a committed transaction is in the stream sooner or later, nothing else  *)
(* ever is, and the outbox settles an event (publishes or purges its row)  *)
(* only after the event is in the stream.                                  *)
(***************************************************************************)
CONSTANT Event

VARIABLES accepted, streamed, settled

vars == <<accepted, streamed, settled>>

Init == accepted = {} /\ streamed = {} /\ settled = {}

\* A transaction commits with the events S in its outbox rows.
Accept(S) ==
  /\ accepted' = accepted \cup S
  /\ UNCHANGED <<streamed, settled>>

\* Events reach the stream, some of them perhaps once more.
Stream(S) ==
  /\ S \subseteq accepted
  /\ streamed' = streamed \cup S
  /\ UNCHANGED <<accepted, settled>>

Settle(S) ==
  /\ S \subseteq streamed
  /\ settled' = settled \cup S
  /\ UNCHANGED <<accepted, streamed>>

Next == \E S \in SUBSET Event : Accept(S) \/ Stream(S) \/ Settle(S)

\* Every accepted event is settled in the end, and so is in the stream.
Liveness == \A e \in Event : (e \in accepted) ~> (e \in settled)

Safety == Init /\ [][Next]_vars

Spec == Safety /\ Liveness
=============================================================================

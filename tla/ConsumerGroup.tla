--------------------------- MODULE ConsumerGroup ---------------------------
(***************************************************************************)
(* What the consumers of a stream promise, both those of the domain events *)
(* and those of the identity events: the group is given an entry as new    *)
(* once only, an entry is confirmed only after it was given and has ended  *)
(* (it was handled, is a dead letter, asks for nothing or is no longer in  *)
(* the stream), it stays confirmed, and it is confirmed sooner or later.   *)
(* An entry may end before it is given: its event came with another entry. *)
(***************************************************************************)
CONSTANT Entry

VARIABLES given, ended, confirmed

vars == <<given, ended, confirmed>>

Init == given = {} /\ ended = {} /\ confirmed = {}

\* XREADGROUP returns the entries S.
Give(S) ==
  /\ S \cap given = {}
  /\ given' = given \cup S
  /\ UNCHANGED <<ended, confirmed>>

\* Nothing more has to happen to the entries S, now or when they come.
End(S) ==
  /\ ended' = ended \cup S
  /\ UNCHANGED <<given, confirmed>>

\* The entries S leave the pending list.
Confirm(S) ==
  /\ S \subseteq given \cap ended
  /\ confirmed' = confirmed \cup S
  /\ UNCHANGED <<given, ended>>

Next == \E S \in SUBSET Entry : Give(S) \/ End(S) \/ Confirm(S)

\* Every entry given to the group is confirmed in the end.
Liveness == \A i \in Entry : (i \in given) ~> (i \in confirmed)

Safety == Init /\ [][Next]_vars

Spec == Safety /\ Liveness
=============================================================================

---------------------------- MODULE OutboxProofs ----------------------------
(***************************************************************************)
(* Proofs about Outbox for any number of events, runs, batch sizes.        *)
(***************************************************************************)
EXTENDS OutboxHistory, TLAPS

\* The events of a run that have a row: claimed, published or failing.
InRun(w) == batch[w] \cup toPublish[w] \cup toFail[w]

\* Only a committed mutation has a row.
RowsCommitted == \A e \in Event : status[e] # "absent" => e \in business

\* A run handles rows that exist, and confirms only what it streamed.
RunsHandleRows ==
  \A w \in Worker : /\ \A e \in InRun(w) : status[e] # "absent"
                    /\ \A e \in toPublish[w] : copies[e] > 0

\* The SLA job owes events to blocked tasks that have no row yet, and no two
\* runs owe the same event.
SlaOwed ==
  /\ \A w \in Worker : \A e \in slaQueue[w] :
       e \in business /\ e \in SlaEvent /\ status[e] = "absent"
  /\ \A v, w \in Worker : v # w => slaQueue[v] \cap slaQueue[w] = {}

\* Only rows reach the stream.
StreamedRows == \A e \in Event : copies[e] > 0 => status[e] # "absent"

IInv ==
  /\ TypeOK
  /\ RowsCommitted
  /\ RunsHandleRows
  /\ SlaOwed
  /\ StreamedRows
  /\ NoLostEvent

-----------------------------------------------------------------------------
(* Type correctness.                                                       *)

\* The next-state relation, one disjunct per action, is what the case splits
\* of the proofs below use.
LEMMA NextCases ==
  ASSUME [Next]_vars
  PROVE  \/ \E e \in Event : EmitInTx(e) \/ TimerElapses(e)
         \/ \E w \in Worker :
              \/ Claim(w) \/ NothingToPublish(w)
              \/ \E added \in SUBSET batch[w] : \E acked \in SUBSET added :
                   Publish(w, added, acked)
              \/ MarkPublished(w) \/ MarkPublishedRaises(w)
              \/ \E e \in Event : MarkFailed(w, e) \/ MarkFailedRaises(w, e)
              \/ EndPublishing(w)
              \/ \E S \in SUBSET Event : Prune(w, S)
              \/ \E S \in SUBSET SlaEvent : SlaBlock(w, S)
              \/ \E e \in Event : SlaEmit(w, e) \/ SlaEmitFails(w, e)
              \/ EndTick(w) \/ Crash(w)
         \/ UNCHANGED vars
  BY Zenon DEF Next, Tick, PublishStep, PruneStep, SlaBlockStep

\* Initially every variable has its type.
LEMMA TypeInit == Init => TypeOK
  BY OutboxAssumption DEF Init, TypeOK, Status, Phase

\* Every step of the outbox keeps the types.
LEMMA TypeStep == TypeOK /\ [Next]_vars => TypeOK'
  <1> SUFFICES ASSUME TypeOK, [Next]_vars PROVE TypeOK'
    OBVIOUS
  <1> USE OutboxAssumption DEF TypeOK, Status, Phase, rowVars, runVars
  <1>1. ASSUME NEW e \in Event, EmitInTx(e) PROVE TypeOK'
    BY <1>1 DEF EmitInTx, CreateOutboxEvent
  <1>2. ASSUME NEW e \in Event, TimerElapses(e) PROVE TypeOK'
    BY <1>2 DEF TimerElapses
  <1>3. ASSUME NEW w \in Worker, Claim(w) PROVE TypeOK'
    <2>1. Oldest(Candidates, Batch) \subseteq Event
      BY DEF Oldest, Candidates
    <2>2. QED
      BY <1>3, <2>1 DEF Claim
  <1>4. ASSUME NEW w \in Worker, NothingToPublish(w) PROVE TypeOK'
    BY <1>4 DEF NothingToPublish
  <1>5. ASSUME NEW w \in Worker, NEW added \in SUBSET batch[w],
               NEW acked \in SUBSET added, Publish(w, added, acked)
        PROVE  TypeOK'
    <2>1. copies' \in [Event -> 0 .. CopyCap]
      BY <1>5 DEF Publish
    <2>2. batch[w] \in SUBSET Event
      OBVIOUS
    <2>3. QED
      BY <1>5, <2>1, <2>2 DEF Publish
  <1>6. ASSUME NEW w \in Worker, MarkPublished(w) PROVE TypeOK'
    BY <1>6 DEF MarkPublished
  <1>7. ASSUME NEW w \in Worker, MarkPublishedRaises(w) PROVE TypeOK'
    BY <1>7 DEF MarkPublishedRaises
  <1>8. ASSUME NEW w \in Worker, NEW e \in Event, MarkFailed(w, e) PROVE TypeOK'
    BY <1>8 DEF MarkFailed, Held
  <1>9. ASSUME NEW w \in Worker, NEW e \in Event, MarkFailedRaises(w, e)
        PROVE  TypeOK'
    BY <1>9 DEF MarkFailedRaises
  <1>10. ASSUME NEW w \in Worker, EndPublishing(w) PROVE TypeOK'
    BY <1>10 DEF EndPublishing, Forget
  <1>11. ASSUME NEW w \in Worker, NEW S \in SUBSET Event, Prune(w, S)
         PROVE  TypeOK'
    BY <1>11 DEF Prune
  <1>12. ASSUME NEW w \in Worker, NEW S \in SUBSET SlaEvent, SlaBlock(w, S)
         PROVE  TypeOK'
    BY <1>12 DEF SlaBlock
  <1>13. ASSUME NEW w \in Worker, NEW e \in Event, SlaEmit(w, e) PROVE TypeOK'
    BY <1>13 DEF SlaEmit, CreateOutboxEvent
  <1>14. ASSUME NEW w \in Worker, NEW e \in Event, SlaEmitFails(w, e)
         PROVE  TypeOK'
    BY <1>14 DEF SlaEmitFails
  <1>15. ASSUME NEW w \in Worker, EndTick(w) PROVE TypeOK'
    BY <1>15 DEF EndTick
  <1>16. ASSUME NEW w \in Worker, Crash(w) PROVE TypeOK'
    BY <1>16 DEF Crash, Forget
  <1>17. CASE UNCHANGED vars
    BY <1>17 DEF vars
  <1>18. QED
    BY NextCases, <1>1, <1>2, <1>3, <1>4, <1>5, <1>6, <1>7, <1>8, <1>9, <1>10,
       <1>11, <1>12, <1>13, <1>14, <1>15, <1>16, <1>17, Zenon

\* Every variable of the outbox keeps its type, and attempts never passes the
\* value at which the backoff of markCollabOutboxFailed overflows.
THEOREM OutboxTypeCorrect == Spec => []TypeOK
  BY TypeInit, TypeStep, PTL DEF Spec
-----------------------------------------------------------------------------
(* The inductive invariant.                                                *)

\* What the claim query takes has a row that is not settled.
LEMMA ClaimedRows ==
  \A e \in Oldest(Candidates, Batch) :
    /\ e \in Event
    /\ status[e] \in {"pending", "failed", "processing"}
  BY DEF Oldest, Candidates

\* The invariant holds before any event is accepted.
LEMMA InvInit == Init => IInv
  BY TypeInit, OutboxAssumption
  DEF Init, IInv, RowsCommitted, RunsHandleRows, InRun, SlaOwed, StreamedRows,
      NoLostEvent, Settled

\* Every step of the outbox keeps the invariant.
LEMMA InvStep == IInv /\ [Next]_vars => IInv'
  <1> SUFFICES ASSUME IInv, [Next]_vars PROVE IInv'
    OBVIOUS
  <1>0. TypeOK'
    BY TypeStep DEF IInv
  <1> USE <1>0, OutboxAssumption
      DEF IInv, TypeOK, RowsCommitted, RunsHandleRows, InRun, SlaOwed,
          StreamedRows, NoLostEvent, Settled, rowVars, runVars
  <1>1. ASSUME NEW e \in Event, EmitInTx(e)
        PROVE  IInv'
    BY <1>1 DEF EmitInTx, CreateOutboxEvent
  <1>2. ASSUME NEW e \in Event, TimerElapses(e)
        PROVE  IInv'
    BY <1>2 DEF TimerElapses
  <1>3. ASSUME NEW w \in Worker, Claim(w)
        PROVE  IInv'
    BY <1>3, ClaimedRows DEF Claim
  <1>4. ASSUME NEW w \in Worker, NothingToPublish(w)
        PROVE  IInv'
    BY <1>4 DEF NothingToPublish
  <1>5. ASSUME NEW w \in Worker, NEW added \in SUBSET batch[w],
               NEW acked \in SUBSET added, Publish(w, added, acked)
        PROVE  IInv'
    BY <1>5 DEF Publish
  <1>6. ASSUME NEW w \in Worker, MarkPublished(w)
        PROVE  IInv'
    BY <1>6 DEF MarkPublished
  <1>7. ASSUME NEW w \in Worker, MarkPublishedRaises(w)
        PROVE  IInv'
    BY <1>7 DEF MarkPublishedRaises
  <1>8. ASSUME NEW w \in Worker, NEW e \in Event, MarkFailed(w, e)
        PROVE  IInv'
    BY <1>8 DEF MarkFailed, Held
  <1>9. ASSUME NEW w \in Worker, NEW e \in Event, MarkFailedRaises(w, e)
        PROVE  IInv'
    BY <1>9 DEF MarkFailedRaises
  <1>10. ASSUME NEW w \in Worker, EndPublishing(w)
        PROVE  IInv'
    BY <1>10 DEF EndPublishing
  <1>11. ASSUME NEW w \in Worker, NEW S \in SUBSET Event, Prune(w, S)
        PROVE  IInv'
    BY <1>11 DEF Prune
  <1>12. ASSUME NEW w \in Worker, NEW S \in SUBSET SlaEvent, SlaBlock(w, S)
        PROVE  IInv'
    BY <1>12 DEF SlaBlock
  <1>13. ASSUME NEW w \in Worker, NEW e \in Event, SlaEmit(w, e)
        PROVE  IInv'
    BY <1>13 DEF SlaEmit, CreateOutboxEvent
  <1>14. ASSUME NEW w \in Worker, NEW e \in Event, SlaEmitFails(w, e)
        PROVE  IInv'
    BY <1>14 DEF SlaEmitFails
  <1>15. ASSUME NEW w \in Worker, EndTick(w)
        PROVE  IInv'
    BY <1>15 DEF EndTick
  <1>16. ASSUME NEW w \in Worker, Crash(w)
        PROVE  IInv'
    BY <1>16 DEF Crash
  <1>17. CASE UNCHANGED vars
    BY <1>17 DEF vars
  <1>18. QED
    BY NextCases, <1>1, <1>2, <1>3, <1>4, <1>5, <1>6, <1>7, <1>8, <1>9,
       <1>10, <1>11, <1>12, <1>13, <1>14, <1>15, <1>16, <1>17, Zenon

\* The invariant holds in every reachable state.
LEMMA InvAlways == Spec => []IInv
  BY InvInit, InvStep, PTL DEF Spec

\* No committed event is lost on its way to Redis: a row that is published or
\* purged has its event in the stream.
THEOREM OutboxNoLostEvent == Spec => []NoLostEvent
  <1>1. IInv => NoLostEvent
    BY DEF IInv
  <1>2. QED
    BY <1>1, InvAlways, PTL

\* Nothing reaches the stream whose domain mutation did not commit.
THEOREM OutboxNoPhantomEvent == Spec => []NoPhantomEvent
  <1>1. IInv => NoPhantomEvent
    BY DEF IInv, StreamedRows, RowsCommitted, NoPhantomEvent
  <1>2. QED
    BY <1>1, InvAlways, PTL
-----------------------------------------------------------------------------
(* Action properties.                                                      *)

\* In every step a row leaves "processing" only by the verdict of the run
\* that holds its claim, and a settled row is not reopened.
LEMMA VerdictStep == IInv /\ [Next]_vars => HolderDecides /\ NeverReopened
  <1> SUFFICES ASSUME IInv, [Next]_vars PROVE HolderDecides /\ NeverReopened
    OBVIOUS
  <1> USE OutboxAssumption
      DEF IInv, TypeOK, RowsCommitted, SlaOwed, HolderDecides, NeverReopened,
          Settled, Status, rowVars, runVars
  <1>1. ASSUME NEW e \in Event, EmitInTx(e)
        PROVE  HolderDecides /\ NeverReopened
    BY <1>1 DEF EmitInTx, CreateOutboxEvent
  <1>2. ASSUME NEW e \in Event, TimerElapses(e)
        PROVE  HolderDecides /\ NeverReopened
    BY <1>2 DEF TimerElapses
  <1>3. ASSUME NEW w \in Worker, Claim(w)
        PROVE  HolderDecides /\ NeverReopened
    BY <1>3, ClaimedRows DEF Claim
  <1>4. ASSUME NEW w \in Worker, NothingToPublish(w)
        PROVE  HolderDecides /\ NeverReopened
    BY <1>4 DEF NothingToPublish
  <1>5. ASSUME NEW w \in Worker, NEW added \in SUBSET batch[w],
               NEW acked \in SUBSET added, Publish(w, added, acked)
        PROVE  HolderDecides /\ NeverReopened
    BY <1>5 DEF Publish
  <1>6. ASSUME NEW w \in Worker, MarkPublished(w)
        PROVE  HolderDecides /\ NeverReopened
    BY <1>6 DEF MarkPublished, Held
  <1>7. ASSUME NEW w \in Worker, MarkPublishedRaises(w)
        PROVE  HolderDecides /\ NeverReopened
    BY <1>7 DEF MarkPublishedRaises
  <1>8. ASSUME NEW w \in Worker, NEW e \in Event, MarkFailed(w, e)
        PROVE  HolderDecides /\ NeverReopened
    BY <1>8 DEF MarkFailed, Held
  <1>9. ASSUME NEW w \in Worker, NEW e \in Event, MarkFailedRaises(w, e)
        PROVE  HolderDecides /\ NeverReopened
    BY <1>9 DEF MarkFailedRaises
  <1>10. ASSUME NEW w \in Worker, EndPublishing(w)
        PROVE  HolderDecides /\ NeverReopened
    BY <1>10 DEF EndPublishing
  <1>11. ASSUME NEW w \in Worker, NEW S \in SUBSET Event, Prune(w, S)
        PROVE  HolderDecides /\ NeverReopened
    BY <1>11 DEF Prune
  <1>12. ASSUME NEW w \in Worker, NEW S \in SUBSET SlaEvent, SlaBlock(w, S)
        PROVE  HolderDecides /\ NeverReopened
    BY <1>12 DEF SlaBlock
  <1>13. ASSUME NEW w \in Worker, NEW e \in Event, SlaEmit(w, e)
        PROVE  HolderDecides /\ NeverReopened
    BY <1>13 DEF SlaEmit, CreateOutboxEvent
  <1>14. ASSUME NEW w \in Worker, NEW e \in Event, SlaEmitFails(w, e)
        PROVE  HolderDecides /\ NeverReopened
    BY <1>14 DEF SlaEmitFails
  <1>15. ASSUME NEW w \in Worker, EndTick(w)
        PROVE  HolderDecides /\ NeverReopened
    BY <1>15 DEF EndTick
  <1>16. ASSUME NEW w \in Worker, Crash(w)
        PROVE  HolderDecides /\ NeverReopened
    BY <1>16 DEF Crash
  <1>17. CASE UNCHANGED vars
    BY <1>17 DEF vars
  <1>18. QED
    BY NextCases, <1>1, <1>2, <1>3, <1>4, <1>5, <1>6, <1>7, <1>8, <1>9,
       <1>10, <1>11, <1>12, <1>13, <1>14, <1>15, <1>16, <1>17, Zenon

\* A run that lost its claim to another one changes nothing, however late
\* Redis answers it.
THEOREM OutboxVerdictOfHolder == Spec => VerdictOfHolder
  BY InvAlways, VerdictStep, PTL DEF Spec, VerdictOfHolder

\* A published row is never reopened, and the purge removes nothing else.
THEOREM OutboxSettledForGood == Spec => SettledForGood
  BY InvAlways, VerdictStep, PTL DEF Spec, SettledForGood

-----------------------------------------------------------------------------
(* The outbox implements at-least-once delivery (its safety part).         *)

\* The initial state maps to the initial state.
LEMMA RefineInit == Init => Delivery!Init
  BY DEF Init, Delivery!Init, Settled

\* Every step of the outbox is a step of the abstract delivery or a stutter.
LEMMA RefineStep == IInv /\ [Next]_vars => [Delivery!Next]_(Delivery!vars)
  <1> SUFFICES ASSUME IInv, [Next]_vars PROVE [Delivery!Next]_(Delivery!vars)
    OBVIOUS
  <1> USE OutboxAssumption
      DEF IInv, TypeOK, RowsCommitted, RunsHandleRows, InRun, SlaOwed,
          StreamedRows, Settled, rowVars, runVars
  <1> DEFINE Rows == {e \in Event : status[e] # "absent"}
             Streamed == {e \in Event : copies[e] > 0}
  <1>a. ASSUME NEW S \in SUBSET Event, Rows' = Rows \cup S,
               Streamed' = Streamed, Settled' = Settled
        PROVE  [Delivery!Next]_(Delivery!vars)
    BY <1>a DEF Delivery!Next, Delivery!Accept
  <1>b. ASSUME NEW S \in SUBSET Event, S \subseteq Rows, Rows' = Rows,
               Streamed' = Streamed \cup S, Settled' = Settled
        PROVE  [Delivery!Next]_(Delivery!vars)
    BY <1>b DEF Delivery!Next, Delivery!Stream
  <1>c. ASSUME NEW S \in SUBSET Event, S \subseteq Streamed, Rows' = Rows,
               Streamed' = Streamed, Settled' = Settled \cup S
        PROVE  [Delivery!Next]_(Delivery!vars)
    BY <1>c DEF Delivery!Next, Delivery!Settle
  <1>d. ASSUME Rows' = Rows, Streamed' = Streamed, Settled' = Settled
        PROVE  [Delivery!Next]_(Delivery!vars)
    BY <1>d DEF Delivery!vars
  <1>1. ASSUME NEW e \in Event, EmitInTx(e)
        PROVE  [Delivery!Next]_(Delivery!vars)
    <2>1. Rows' = Rows \cup {e} /\ Streamed' = Streamed /\ Settled' = Settled
      BY <1>1 DEF EmitInTx, CreateOutboxEvent
    <2>2. QED
      BY <1>a, <2>1
  <1>2. ASSUME NEW w \in Worker, NEW e \in Event, SlaEmit(w, e)
        PROVE  [Delivery!Next]_(Delivery!vars)
    <2>1. Rows' = Rows \cup {e} /\ Streamed' = Streamed /\ Settled' = Settled
      BY <1>2 DEF SlaEmit, CreateOutboxEvent
    <2>2. QED
      BY <1>a, <2>1
  <1>3. ASSUME NEW w \in Worker, NEW added \in SUBSET batch[w],
               NEW acked \in SUBSET added, Publish(w, added, acked)
        PROVE  [Delivery!Next]_(Delivery!vars)
    <2>1. added \subseteq Event /\ added \subseteq Rows
      OBVIOUS
    <2>2. Rows' = Rows /\ Streamed' = Streamed \cup added /\ Settled' = Settled
      BY <1>3, <2>1 DEF Publish
    <2>3. added \in SUBSET Event
      BY <2>1
    <2>4. QED
      BY <1>b, <2>1, <2>2, <2>3
  <1>4. ASSUME NEW w \in Worker, MarkPublished(w)
        PROVE  [Delivery!Next]_(Delivery!vars)
    <2> DEFINE S == {e \in toPublish[w] : Held(w, e)}
    <2>1. S \subseteq Event /\ S \subseteq Streamed
      BY DEF Held
    <2>2. Rows' = Rows /\ Streamed' = Streamed /\ Settled' = Settled \cup S
      BY <1>4, <2>1 DEF MarkPublished, Held
    <2>3. QED
      BY <1>c, <2>1, <2>2
  <1>5. ASSUME NEW w \in Worker, Claim(w)
        PROVE  [Delivery!Next]_(Delivery!vars)
    <2>1. Rows' = Rows /\ Streamed' = Streamed /\ Settled' = Settled
      BY <1>5, ClaimedRows DEF Claim
    <2>2. QED
      BY <1>d, <2>1
  <1>6. ASSUME NEW w \in Worker, NEW e \in Event, MarkFailed(w, e)
        PROVE  [Delivery!Next]_(Delivery!vars)
    <2>1. Rows' = Rows /\ Streamed' = Streamed /\ Settled' = Settled
      BY <1>6 DEF MarkFailed, Held
    <2>2. QED
      BY <1>d, <2>1
  <1>7. ASSUME NEW w \in Worker, NEW S \in SUBSET Event, Prune(w, S)
        PROVE  [Delivery!Next]_(Delivery!vars)
    <2>1. Rows' = Rows /\ Streamed' = Streamed /\ Settled' = Settled
      BY <1>7 DEF Prune
    <2>2. QED
      BY <1>d, <2>1
  <1>8. ASSUME UNCHANGED <<status, copies>>
        PROVE  [Delivery!Next]_(Delivery!vars)
    BY <1>d, <1>8
  <1>9. QED
    BY NextCases, <1>1, <1>2, <1>3, <1>4, <1>5, <1>6, <1>7, <1>8
    DEF TimerElapses, NothingToPublish, MarkPublishedRaises, MarkFailedRaises,
        EndPublishing, SlaBlock, SlaEmitFails, EndTick, Crash, vars

\* The outbox only streams accepted events and only settles streamed ones.
THEOREM OutboxImplementsSafety == Spec => ImplementsSafety
  <1>1. Spec => []IInv /\ Init /\ [][Next]_vars
    BY InvAlways, PTL DEF Spec
  <1>2. QED
    BY <1>1, RefineInit, RefineStep, PTL
    DEF ImplementsSafety, Delivery!Safety
-----------------------------------------------------------------------------
(* Where duplicates come from.                                             *)

\* A claim token is the one of a run that is publishing, a run has a batch only
\* between its claim and its pipeline, a row still pending is in no batch and was
\* never streamed, and a failed one has an attempt on its count.
ClaimsLive ==
  /\ \A e \in Event, w \in Worker : token[e] = w => phase[w] \in {"claimed", "marking"}
  /\ \A w \in Worker : batch[w] # {} => phase[w] = "claimed"
  /\ \A w \in Worker : \A e \in batch[w] : status[e] \notin {"absent", "pending"}
  /\ \A e \in Event : status[e] = "pending" => copies[e] = 0
  /\ \A e \in Event : status[e] = "failed" => attempts[e] > 0

\* While no attempt of an event failed and no claim of it was taken over, it is in
\* the stream at most once, and a run that has still to stream it holds its only
\* claim.
FirstClaim ==
  \A e \in Event : attempts[e] = 0 /\ e \notin takeovers =>
    /\ copies[e] <= 1
    /\ \A w \in Worker :
         e \in batch[w] => copies[e] = 0 /\ status[e] = "processing" /\ token[e] = w

\* Before any event is accepted there is no claim.
LEMMA ClaimsInit == InitH => ClaimsLive /\ FirstClaim
  BY OutboxAssumption DEF InitH, Init, ClaimsLive, FirstClaim

\* Every step keeps both, the history remembering the claims taken over in it.
LEMMA ClaimsStep ==
  ASSUME IInv, ClaimsLive, FirstClaim, [Next]_vars, takeovers' = takeovers \cup TakenOver
  PROVE  ClaimsLive' /\ FirstClaim'
  <1> USE OutboxAssumption
      DEF IInv, TypeOK, RowsCommitted, SlaOwed, StreamedRows, ClaimsLive, FirstClaim,
          rowVars, runVars
  <1>1. ASSUME NEW e \in Event, EmitInTx(e)
        PROVE  ClaimsLive' /\ FirstClaim'
    BY <1>1 DEF EmitInTx, CreateOutboxEvent
  <1>2. ASSUME NEW e \in Event, TimerElapses(e)
        PROVE  ClaimsLive' /\ FirstClaim'
    BY <1>2 DEF TimerElapses
  <1>3. ASSUME NEW w \in Worker, Claim(w)
        PROVE  ClaimsLive' /\ FirstClaim'
    <2> DEFINE S == Oldest(Candidates, Batch)
    <2>1. \A e \in S : e \in Event /\ status[e] \in {"pending", "failed", "processing"}
      BY ClaimedRows
    <2>2. \A e \in S : status[e] = "processing" => e \in takeovers'
      <3>1. ASSUME NEW e \in S, status[e] = "processing" PROVE e \in TakenOver
        <4>1. e \in elapsed
          BY <3>1 DEF Oldest, Candidates
        <4>2. status'[e] = "processing" /\ token'[e] = w /\ token[e] # w
          BY <1>3, <2>1, <3>1 DEF Claim
        <4>3. QED
          BY <2>1, <3>1, <4>1, <4>2 DEF TakenOver
      <3>2. QED
        BY <3>1
    <2>3. /\ \A e \in Event : /\ status'[e] = IF e \in S THEN "processing" ELSE status[e]
                              /\ token'[e] = IF e \in S THEN w ELSE token[e]
          /\ batch' = [batch EXCEPT ![w] = S] /\ phase' = [phase EXCEPT ![w] = "claimed"]
          /\ attempts' = attempts /\ copies' = copies
      BY <1>3 DEF Claim
    <2> HIDE DEF S
    <2>4. ClaimsLive'
      BY <2>1, <2>3
    <2>5. FirstClaim'
      BY <2>1, <2>2, <2>3
    <2>6. QED
      BY <2>4, <2>5
  <1>4. ASSUME NEW w \in Worker, NothingToPublish(w)
        PROVE  ClaimsLive' /\ FirstClaim'
    BY <1>4 DEF NothingToPublish
  <1>5. ASSUME NEW w \in Worker, NEW added \in SUBSET batch[w],
               NEW acked \in SUBSET added, Publish(w, added, acked)
        PROVE  ClaimsLive' /\ FirstClaim'
    <2>1. /\ \A e \in Event : copies'[e] \in Nat /\ copies[e] \in Nat
          /\ \A e \in Event : \/ copies'[e] = copies[e]
                              \/ e \in batch[w] /\ copies'[e] = copies[e] + 1
      BY <1>5 DEF Publish
    <2>2. /\ phase[w] = "claimed" /\ phase' = [phase EXCEPT ![w] = "marking"]
          /\ batch' = [batch EXCEPT ![w] = {}]
          /\ status' = status /\ token' = token /\ attempts' = attempts
      BY <1>5 DEF Publish
    <2>3. \A v \in Worker : batch'[v] = IF v = w THEN {} ELSE batch[v]
      BY <2>2
    <2>4. ClaimsLive'
      <3>1. \A e \in Event : status[e] = "pending" => e \notin batch[w] /\ copies'[e] = 0
        BY <2>1
      <3>2. QED
        BY <2>2, <2>3, <3>1
    <2>5. FirstClaim'
      BY <2>1, <2>2, <2>3
    <2>6. QED
      BY <2>4, <2>5
  <1>6. ASSUME NEW w \in Worker, MarkPublished(w)
        PROVE  ClaimsLive' /\ FirstClaim'
    BY <1>6 DEF MarkPublished, Held
  <1>7. ASSUME NEW w \in Worker, MarkPublishedRaises(w)
        PROVE  ClaimsLive' /\ FirstClaim'
    BY <1>7 DEF MarkPublishedRaises
  <1>8. ASSUME NEW w \in Worker, NEW e \in Event, MarkFailed(w, e)
        PROVE  ClaimsLive' /\ FirstClaim'
    <2>1. UNCHANGED <<copies, phase, batch>>
      BY <1>8 DEF MarkFailed
    <2>2. CASE Held(w, e)
      <3>1. /\ status' = [status EXCEPT ![e] = "failed"]
            /\ token' = [token EXCEPT ![e] = NoToken]
            /\ attempts' = [attempts EXCEPT ![e] = @ + 1]
        BY <1>8, <2>2 DEF MarkFailed
      <3>2. attempts'[e] > 0 /\ \A f \in Event \ {e} : attempts'[f] = attempts[f]
        BY <3>1
      <3>3. ClaimsLive'
        BY <2>1, <3>1, <3>2
      <3>4. FirstClaim'
        BY <2>1, <3>1, <3>2
      <3>5. QED
        BY <3>3, <3>4
    <2>3. CASE ~Held(w, e)
      <3>1. UNCHANGED rowVars
        BY <1>8, <2>3 DEF MarkFailed
      <3>2. QED
        BY <2>1, <3>1
    <2>4. QED
      BY <2>2, <2>3
  <1>9. ASSUME NEW w \in Worker, NEW e \in Event, MarkFailedRaises(w, e)
        PROVE  ClaimsLive' /\ FirstClaim'
    BY <1>9 DEF MarkFailedRaises
  <1>10. ASSUME NEW w \in Worker, EndPublishing(w)
        PROVE  ClaimsLive' /\ FirstClaim'
    BY <1>10 DEF EndPublishing, Forget
  <1>11. ASSUME NEW w \in Worker, NEW S \in SUBSET Event, Prune(w, S)
        PROVE  ClaimsLive' /\ FirstClaim'
    BY <1>11 DEF Prune
  <1>12. ASSUME NEW w \in Worker, NEW S \in SUBSET SlaEvent, SlaBlock(w, S)
        PROVE  ClaimsLive' /\ FirstClaim'
    BY <1>12 DEF SlaBlock
  <1>13. ASSUME NEW w \in Worker, NEW e \in Event, SlaEmit(w, e)
        PROVE  ClaimsLive' /\ FirstClaim'
    BY <1>13 DEF SlaEmit, CreateOutboxEvent
  <1>14. ASSUME NEW w \in Worker, NEW e \in Event, SlaEmitFails(w, e)
        PROVE  ClaimsLive' /\ FirstClaim'
    BY <1>14 DEF SlaEmitFails
  <1>15. ASSUME NEW w \in Worker, EndTick(w)
        PROVE  ClaimsLive' /\ FirstClaim'
    BY <1>15 DEF EndTick
  <1>16. ASSUME NEW w \in Worker, Crash(w)
        PROVE  ClaimsLive' /\ FirstClaim'
    BY <1>16 DEF Crash, Forget
  <1>17. CASE UNCHANGED vars
    BY <1>17 DEF vars
  <1>18. QED
    BY NextCases, <1>1, <1>2, <1>3, <1>4, <1>5, <1>6, <1>7, <1>8, <1>9,
       <1>10, <1>11, <1>12, <1>13, <1>14, <1>15, <1>16, <1>17, Zenon

\* An event is streamed a second time only after a failed attempt or a claim that
\* ran out, for any number of overlapping ticks.
THEOREM OutboxNoNeedlessDuplicate == SpecH => []NoNeedlessDuplicate
  <1> DEFINE Inv == IInv /\ ClaimsLive /\ FirstClaim
  <1>1. InitH => Inv
    BY InvInit, ClaimsInit DEF InitH
  <1>2. Inv /\ [NextH]_historyVars => Inv'
    <2>1. CASE NextH
      BY <2>1, InvStep, ClaimsStep DEF NextH
    <2>2. ASSUME Inv, UNCHANGED historyVars PROVE Inv'
      <3>1. IInv'
        BY <2>2, InvStep DEF historyVars
      <3>2. ClaimsLive' /\ FirstClaim'
        BY <2>2 DEF historyVars, vars, rowVars, runVars, ClaimsLive, FirstClaim
      <3>3. QED
        BY <3>1, <3>2
    <2>3. QED
      BY <2>1, <2>2
  <1>3. Inv => NoNeedlessDuplicate
    BY OutboxAssumption DEF IInv, TypeOK, FirstClaim, NoNeedlessDuplicate
  <1>4. QED
    BY <1>1, <1>2, <1>3, PTL DEF SpecH
=============================================================================

--------------------------- MODULE EventBusProofs ---------------------------
(***************************************************************************)
(* Proofs about EventBus for any number of events, entries and consumers,  *)
(* any batch size, retry limit and stream length.                          *)
(***************************************************************************)
EXTENDS EventBusHistory, ExtremaLemmas, FiniteSetTheorems

\* A consumer has an entry in hand in these places of processMessage.
InHand == {"dispatch", "failed", "dlq", "ack"}

\* Whatever is pending, in a batch or dead was delivered, once at least.
Delivered ==
  /\ pel \subseteq 1 .. last /\ dlq \subseteq 1 .. last
  /\ \A i \in pel : deliveries[i] >= 1
  /\ \A c \in Consumer : /\ queue[c] \subseteq 1 .. last
                         /\ \A i \in queue[c] : deliveries[i] >= 1

\* Nobody reads before the group is there.
GroupFirst == group = -1 => last = 0 /\ \A c \in Consumer : pc[c] = "down"

\* An entry about to be confirmed is accounted for, one about to be given up on has
\* used up its deliveries.
HandOf(c) ==
  /\ pc[c] \in InHand => queue[c] # {}
  /\ pc[c] = "ack" => Accounted(Current(c))
  /\ pc[c] = "dlq" => deliveries[Current(c)] >= MaxRetries

HandIsRight == \A c \in Consumer : HandOf(c)

IInv ==
  /\ TypeOK
  /\ Delivered
  /\ GroupFirst
  /\ HandIsRight
  /\ NoSilentDrop
  /\ DlqAfterRetries

-----------------------------------------------------------------------------
(* The operators.                                                          *)

\* COUNT takes the lowest ids: with an entry, all those before it.
LEMMA LowestIs ==
  ASSUME NEW S, S \subseteq Nat, IsFiniteSet(S)
  PROVE  /\ Lowest(S) \subseteq S
         /\ \A m \in Lowest(S), i \in S : i <= m => i \in Lowest(S)
  <1>1. Lowest(S) = LowestOf(S, BatchSize)
    BY DEF Lowest, LowestOf
  <1>2. BatchSize \in Nat
    BY BusAssumption
  <1>3. /\ LowestOf(S, BatchSize) \subseteq S
        /\ \A m \in LowestOf(S, BatchSize), i \in S : i <= m => i \in LowestOf(S, BatchSize)
    BY <1>2, LowestOfIs
  <1>4. QED
    BY <1>1, <1>3

\* A set of ids is finite.
LEMMA IdsFinite ==
  ASSUME NEW S, S \subseteq Id
  PROVE  S \subseteq Nat /\ IsFiniteSet(S)
  <1>1. S \in SUBSET Nat /\ \A s \in S : s <= NumEntries
    BY BusAssumption DEF Id
  <1>2. QED
    BY <1>1, FS_BoundedSetOfNaturals, BusAssumption

\* The entry in hand belongs to the batch.
LEMMA CurrentInBatch ==
  ASSUME TypeOK, NEW c \in Consumer, queue[c] # {}
  PROVE  Current(c) \in queue[c] /\ Current(c) \in Id
  <1>1. queue[c] \subseteq Nat /\ queue[c] \subseteq Id
    BY BusAssumption DEF TypeOK, Id
  <1>2. QED
    BY <1>1, MinIs DEF Current

\* The entries XREADGROUP returns, and how far the group gets with them: what it
\* passes over is gone already.
Fresh == Lowest({i \in last + 1 .. Len(stream) : i > trimmed})

\* What XREADGROUP returns is new to the group, and what it passes over is trimmed.
LEMMA FreshIs ==
  ASSUME TypeOK
  PROVE  LET m == Max({last} \cup Fresh) IN
         /\ m \in last .. Len(stream)
         /\ Fresh \subseteq last + 1 .. m /\ Fresh \subseteq Id
         /\ \A i \in last + 1 .. m : i \in Fresh \/ i <= trimmed
  <1> DEFINE A == {i \in last + 1 .. Len(stream) : i > trimmed}
             M == {last} \cup Fresh
  <1>1. A \subseteq Id /\ A \subseteq last + 1 .. Len(stream)
    BY BusAssumption DEF TypeOK, Id
  <1>2. A \subseteq Nat /\ IsFiniteSet(A)
    BY <1>1, IdsFinite
  <1>3. Fresh \subseteq A /\ \A x \in Fresh, i \in A : i <= x => i \in Fresh
    <2> HIDE DEF A
    <2>1. Lowest(A) \subseteq A /\ \A x \in Lowest(A), i \in A : i <= x => i \in Lowest(A)
      BY <1>2, LowestIs
    <2>2. QED
      BY <2>1 DEF Fresh, A
  <1> HIDE DEF A
  <1>4. last \in Nat /\ Len(stream) \in Nat /\ last <= Len(stream)
    BY DEF TypeOK
  <1>5. M \subseteq Int /\ M # {} /\ \A x \in M : x <= Len(stream)
    BY <1>1, <1>3, <1>4
  <1>6. Max(M) \in M /\ \A y \in M : Max(M) >= y
    BY <1>4, <1>5, MaxIs
  <1>61. Max(M) \in Int /\ last <= Max(M) /\ Max(M) <= Len(stream)
    BY <1>5, <1>6
  <1>7. Fresh \subseteq Id
    BY <1>1, <1>3
  <1>8. ASSUME NEW i \in last + 1 .. Max(M), i > trimmed PROVE i \in Fresh
    <2>1. Max(M) \in Fresh /\ Max(M) \in last + 1 .. Len(stream)
      <3>1. Max(M) # last
        BY <1>4, <1>61
      <3>2. Max(M) \in Fresh
        BY <1>6, <3>1
      <3>3. QED
        BY <1>1, <1>3, <3>2
    <2>2. i \in A
      BY <1>4, <1>8, <2>1 DEF A
    <2>3. i <= Max(M)
      BY <1>4, <2>1
    <2>4. QED
      BY <1>3, <2>1, <2>2, <2>3
  <1>9. trimmed \in Int
    BY DEF TypeOK
  <1> HIDE DEF M
  <1>10. /\ Max(M) \in last .. Len(stream)
         /\ Fresh \subseteq last + 1 .. Max(M)
    <2>1. Max(M) \in last .. Len(stream)
      BY <1>4, <1>61
    <2>2. ASSUME NEW i \in Fresh PROVE i \in last + 1 .. Max(M)
      <3>1. i \in last + 1 .. Len(stream) /\ i \in M
        BY <1>1, <1>3 DEF M
      <3>2. Max(M) >= i
        BY <1>6, <3>1
      <3>3. QED
        BY <1>4, <1>61, <3>1, <3>2
    <2>3. QED
      BY <2>1, <2>2
  <1>11. \A i \in last + 1 .. Max(M) : i \in Fresh \/ i <= trimmed
    BY <1>4, <1>8, <1>9, <1>10
  <1>12. QED
    BY <1>7, <1>10, <1>11 DEF M

\* The place a scan goes on from is 0 or a pending entry.
LEMMA NextStartIs ==
  ASSUME TypeOK, NEW T
  PROVE  NextStart(T) \in 0 .. NumEntries
  <1> DEFINE after == {i \in pel : \A j \in T : j < i}
  <1>1. after \subseteq Nat /\ after \subseteq Id
    <2>1. after \subseteq pel
      OBVIOUS
    <2>2. pel \subseteq Id /\ Id \subseteq Nat
      BY BusAssumption DEF TypeOK, Id
    <2> HIDE DEF after
    <2>3. QED
      BY <2>1, <2>2
  <1>2. after # {} => Min(after) \in after
    BY <1>1, MinIs
  <1>3. NextStart(T) = 0 \/ (after # {} /\ NextStart(T) = Min(after))
    BY DEF NextStart
  <1> HIDE DEF after
  <1>4. after # {} => Min(after) \in 0 .. NumEntries
    <2>1. after # {} => Min(after) \in Id
      BY <1>1, <1>2
    <2>2. Id \subseteq 0 .. NumEntries
      BY BusAssumption DEF Id
    <2>3. QED
      BY <2>1, <2>2
  <1>5. QED
    <2>1. 0 \in 0 .. NumEntries
      BY BusAssumption
    <2>2. QED
      BY <1>3, <1>4, <2>1

\* The lengths XADD may trim to.
LEMMA TrimIs ==
  ASSUME TypeOK, NEW t \in trimmed .. Max({trimmed, Len(stream) + 1 - MaxLen})
  PROVE  t \in 0 .. Len(stream) + 1
  <1> DEFINE M == {trimmed, Len(stream) + 1 - MaxLen}
  <1>1. trimmed \in Nat /\ Len(stream) \in Nat /\ trimmed <= Len(stream)
    BY DEF TypeOK
  <1>2. M \subseteq Int /\ M # {} /\ \A x \in M : x <= Len(stream) + 1
    BY <1>1, BusAssumption
  <1>3. Max(M) \in M
    BY <1>1, <1>2, MaxIs
  <1> HIDE DEF M
  <1>4. t \in trimmed .. Max(M)
    BY DEF M
  <1>5. QED
    <2>1. Max(M) \in Int /\ Max(M) <= Len(stream) + 1
      BY <1>2, <1>3
    <2>2. QED
      BY <1>1, <1>4, <2>1

-----------------------------------------------------------------------------
(* Steps.                                                                  *)

\* The next-state relation, one disjunct per action.
LEMMA NextCases ==
  ASSUME [Next]_vars
  PROVE  \/ \E x \in Event \cup Junk : Emit(x)
         \/ \E i \in Id : IdleElapses(i)
         \/ \E c \in Consumer :
              \/ Connect(c) \/ Recover(c) \/ Read(c) \/ DispatchOk(c) \/ DispatchFails(c)
              \/ \E n \in 1 .. MaxRetries : AfterFailure(c, n)
              \/ SendToDlq(c) \/ SendToDlqFails(c) \/ Ack(c) \/ AckFails(c) \/ Stop(c)
         \/ UNCHANGED vars
  BY Zenon DEF Next, Step

\* Nothing the consumers were given changes, and what is known of it only grows.
Grows ==
  /\ \A i \in 1 .. last : stream'[i] = stream[i] /\ deliveries'[i] >= deliveries[i]
  /\ handled \subseteq handled' /\ dlq \subseteq dlq'

\* What a consumer has in hand stays right while others work.
LEMMA HandStays ==
  ASSUME IInv, TypeOK', Grows, NEW d \in Consumer, pc'[d] = pc[d], queue'[d] = queue[d]
  PROVE  HandOf(d)'
  <1>1. HandOf(d) /\ TypeOK /\ queue[d] \subseteq 1 .. last
    BY DEF IInv, HandIsRight, Delivered
  <1>2. Current(d)' = Current(d)
    BY DEF Current
  <1>3. pc[d] \in InHand => Current(d) \in 1 .. last /\ Current(d) \in Id
    BY <1>1, CurrentInBatch DEF HandOf
  <1>4. pc[d] = "ack" => Accounted(Current(d))'
    BY <1>1, <1>2, <1>3 DEF HandOf, Accounted, Grows, InHand
  <1>5. pc[d] = "dlq" => deliveries'[Current(d)] >= MaxRetries
    <2>1. CASE pc[d] = "dlq"
      <3>1. deliveries[Current(d)] >= MaxRetries /\ Current(d) \in 1 .. last /\ Current(d) \in Id
        BY <1>1, <1>3, <2>1 DEF HandOf, InHand
      <3>2. PICK k : k = Current(d)
        OBVIOUS
      <3>3. deliveries[k] >= MaxRetries /\ deliveries'[k] >= deliveries[k]
        BY <3>1, <3>2 DEF Grows
      <3>4. deliveries[k] \in Nat /\ deliveries'[k] \in Nat
        BY <1>1, <3>1, <3>2 DEF TypeOK
      <3>5. QED
        BY <3>2, <3>3, <3>4, BusAssumption
    <2>2. QED
      BY <2>1
  <1>6. QED
    BY <1>1, <1>2, <1>4, <1>5 DEF HandOf

\* A step of a consumer that works through its batch, gives it up or stops: it reads
\* nothing new and confirms only what is accounted for.
LEMMA WorkStep ==
  ASSUME IInv, NEW c \in Consumer,
         UNCHANGED <<stream, trimmed, group, last, deliveries>>,
         pel' \subseteq pel, idle' \subseteq pel',
         handled \subseteq handled', handled' \subseteq Event, dlq \subseteq dlq',
         \A i \in dlq' : i \in dlq \/ (i \in 1 .. last /\ deliveries[i] >= MaxRetries),
         NEW q \in SUBSET queue[c], queue' = [queue EXCEPT ![c] = q],
         NEW l \in Loc, pc' = [pc EXCEPT ![c] = l],
         NEW s \in ScanDone .. NumEntries, scan' = [scan EXCEPT ![c] = s],
         pc[c] # "down",
         HandOf(c)',
         \A i \in pel \ pel' : Accounted(i)'
  PROVE  IInv'
  <1> USE BusAssumption
  <1>1. TypeOK'
    <2>1. 1 .. last \subseteq Id
      BY DEF IInv, TypeOK, Id
    <2>2. QED
      BY <2>1 DEF IInv, TypeOK
  <1>2. Delivered'
    BY DEF IInv, Delivered, TypeOK
  <1>3. GroupFirst'
    BY DEF IInv, GroupFirst, TypeOK
  <1>4. Grows
    <2>1. \A i \in 1 .. last : deliveries[i] \in Nat
      BY DEF IInv, TypeOK, Id
    <2>2. QED
      BY <2>1 DEF Grows
  <1>5. HandIsRight'
    <2>1. ASSUME NEW d \in Consumer PROVE HandOf(d)'
      <3>1. CASE d = c
        BY <3>1
      <3>2. CASE d # c
        BY <1>1, <1>4, <3>2, HandStays DEF IInv, TypeOK
      <3>3. QED
        BY <3>1, <3>2
    <2>2. QED
      BY <2>1 DEF HandIsRight
  <1>6. NoSilentDrop'
    <2>1. ASSUME NEW i \in 1 .. Len(stream), Accounted(i) PROVE Accounted(i)'
      BY <2>1 DEF Accounted
    <2>2. QED
      BY <2>1 DEF IInv, NoSilentDrop
  <1>7. DlqAfterRetries'
    BY DEF IInv, DlqAfterRetries
  <1>8. QED
    BY <1>1, <1>2, <1>3, <1>5, <1>6, <1>7 DEF IInv

\* Going on with the batch leaves the rest of it, and nothing in hand but an entry
\* that is to be dispatched.
LEMMA ContinueIs ==
  ASSUME TypeOK, NEW c \in Consumer, Continue(c)
  PROVE  \E q \in SUBSET queue[c], l \in Loc, s \in ScanDone .. NumEntries :
           /\ queue' = [queue EXCEPT ![c] = q]
           /\ pc' = [pc EXCEPT ![c] = l]
           /\ scan' = [scan EXCEPT ![c] = s]
           /\ HandOf(c)'
  <1> DEFINE q == queue[c] \ {Current(c)}
             l == IF q # {} THEN "dispatch"
                  ELSE IF scan[c] = ScanDone THEN "read" ELSE "recover"
  <1>1. /\ queue' = [queue EXCEPT ![c] = q]
        /\ pc' = [pc EXCEPT ![c] = l]
        /\ scan' = [scan EXCEPT ![c] = scan[c]]
    BY DEF Continue, TypeOK
  <1>2. q \in SUBSET queue[c] /\ l \in Loc /\ scan[c] \in ScanDone .. NumEntries
    BY DEF TypeOK, Loc
  <1>3. pc'[c] = l /\ queue'[c] = q
    BY <1>1 DEF TypeOK
  <1>4. HandOf(c)'
    BY <1>3 DEF HandOf, InHand
  <1> HIDE DEF q, l
  <1>5. QED
    BY <1>1, <1>2, <1>4, Zenon

\* An abandoned batch leaves nothing in hand.
LEMMA AbandonIs ==
  ASSUME TypeOK, NEW c \in Consumer, Abandon(c)
  PROVE  \E q \in SUBSET queue[c], l \in Loc, s \in ScanDone .. NumEntries :
           /\ queue' = [queue EXCEPT ![c] = q]
           /\ pc' = [pc EXCEPT ![c] = l]
           /\ scan' = [scan EXCEPT ![c] = s]
           /\ HandOf(c)'
  <1>1. {} \in SUBSET queue[c] /\ "recover" \in Loc /\ 0 \in ScanDone .. NumEntries
    BY BusAssumption DEF Loc, ScanDone
  <1>2. pc'[c] = "recover"
    BY DEF Abandon, TypeOK
  <1>3. HandOf(c)'
    BY <1>2 DEF HandOf, InHand
  <1>4. QED
    BY <1>1, <1>3, Zenon DEF Abandon

\* The actions of a consumer at work.
LEMMA WorkingSteps ==
  ASSUME IInv, NEW c \in Consumer,
         \/ DispatchOk(c) \/ DispatchFails(c)
         \/ \E n \in 1 .. MaxRetries : AfterFailure(c, n)
         \/ SendToDlq(c) \/ SendToDlqFails(c) \/ Ack(c) \/ AckFails(c) \/ Stop(c)
  PROVE  IInv'
  <1> USE BusAssumption
  <1>i. PICK i : i = Current(c)
    OBVIOUS
  <1>0. /\ TypeOK /\ HandOf(c) /\ queue[c] \subseteq 1 .. last
        /\ \A j \in queue[c] : deliveries[j] >= 1
        /\ idle \subseteq pel /\ handled \subseteq Event
        /\ dlq \subseteq dlq
    BY DEF IInv, TypeOK, HandIsRight, Delivered
  <1>1. pc[c] \in InHand => i \in queue[c] /\ i \in 1 .. last /\ i \in Id /\ deliveries[i] \in Nat
    BY <1>i, <1>0, CurrentInBatch DEF HandOf, TypeOK
  <1>2. queue = [queue EXCEPT ![c] = queue[c]] /\ scan = [scan EXCEPT ![c] = scan[c]]
        /\ queue[c] \in SUBSET queue[c] /\ scan[c] \in ScanDone .. NumEntries
    BY <1>i, <1>0 DEF TypeOK
  <1>3. CASE DispatchOk(c)
    <2>1. /\ pc[c] = "dispatch" /\ pc' = [pc EXCEPT ![c] = "ack"] /\ "ack" \in Loc
          /\ UNCHANGED <<stream, trimmed, group, last, pel, idle, deliveries, queue, scan, dlq>>
      BY <1>i, <1>3 DEF DispatchOk, redisVars, Loc
    <2>2. i \in Id /\ i \in 1 .. last /\ queue[c] # {}
      BY <1>i, <1>0, <1>1, <2>1 DEF InHand, HandOf
    <2>3. stream[i] \in Event \cup Junk
      <3>1. i \in 1 .. Len(stream)
        BY <1>i, <1>0, <2>2 DEF TypeOK
      <3>2. QED
        BY <1>i, <1>0, <3>1 DEF TypeOK
    <2>4. handled \subseteq handled' /\ handled' \subseteq Event
          /\ (stream[i] \in Junk \/ stream[i] \in handled')
      BY <1>i, <1>0, <1>3, <2>3 DEF DispatchOk, Notify
    <2>5. HandOf(c)'
      <3>1. Current(c)' = i /\ pc'[c] = "ack" /\ queue'[c] # {}
        BY <1>i, <1>0, <2>1, <2>2 DEF Current, TypeOK
      <3>2. Accounted(i)'
        BY <1>i, <2>1, <2>4 DEF Accounted
      <3>3. QED
        BY <1>i, <3>1, <3>2 DEF HandOf
    <2>6. queue' = [queue EXCEPT ![c] = queue[c]] /\ scan' = [scan EXCEPT ![c] = scan[c]]
      BY <1>i, <1>2, <2>1
    <2>7. pc[c] # "down"
      BY <1>i, <2>1
    <2>8. QED
      BY <1>0, <1>2, <2>1, <2>4, <2>5, <2>6, <2>7, WorkStep
  <1>4. CASE DispatchFails(c)
    <2>1. /\ pc[c] = "dispatch" /\ pc' = [pc EXCEPT ![c] = "failed"] /\ "failed" \in Loc
          /\ UNCHANGED <<stream, trimmed, group, last, pel, idle, deliveries, queue, scan, dlq>>
      BY <1>i, <1>4 DEF DispatchFails, redisVars, Loc
    <2>2. i \in Id /\ i \in 1 .. last /\ queue[c] # {}
      BY <1>i, <1>0, <1>1, <2>1 DEF InHand, HandOf
    <2>3. stream[i] \in Event \cup Junk
      <3>1. i \in 1 .. Len(stream)
        BY <1>i, <1>0, <2>2 DEF TypeOK
      <3>2. QED
        BY <1>i, <1>0, <3>1 DEF TypeOK
    <2>4. handled \subseteq handled' /\ handled' \subseteq Event
      BY <1>i, <1>0, <1>4, <2>3 DEF DispatchFails, Notify
    <2>5. HandOf(c)'
      <3>1. pc'[c] = "failed" /\ queue'[c] # {}
        BY <1>i, <1>0, <2>1, <2>2 DEF TypeOK
      <3>2. QED
        BY <1>i, <3>1 DEF HandOf
    <2>6. queue' = [queue EXCEPT ![c] = queue[c]] /\ scan' = [scan EXCEPT ![c] = scan[c]]
      BY <1>i, <1>2, <2>1
    <2>7. pc[c] # "down"
      BY <1>i, <2>1
    <2>8. QED
      BY <1>0, <1>2, <2>1, <2>4, <2>5, <2>6, <2>7, WorkStep
  <1>5. ASSUME NEW n \in 1 .. MaxRetries, AfterFailure(c, n) PROVE IInv'
    <2>1. /\ pc[c] = "failed" /\ pc[c] # "down" /\ n \in DeliveryCounts(i)
          /\ UNCHANGED <<stream, trimmed, group, last, pel, idle, deliveries, handled, dlq>>
      BY <1>i, <1>5 DEF AfterFailure, redisVars
    <2>2. i \in queue[c] /\ i \in 1 .. last /\ deliveries[i] \in Nat
      BY <1>i, <1>1, <2>1 DEF InHand
    <2>3. CASE n >= MaxRetries
      <3>1. /\ pc' = [pc EXCEPT ![c] = "dlq"] /\ "dlq" \in Loc
            /\ UNCHANGED <<queue, scan>>
        BY <1>i, <1>5, <2>3 DEF AfterFailure, Loc
      <3>2. deliveries[i] >= MaxRetries
        <4>1. n = 1 \/ n = deliveries[i]
          BY <1>i, <2>1 DEF DeliveryCounts
        <4>2. deliveries[i] >= 1
          BY <1>i, <1>0, <2>2
        <4>3. QED
          BY <1>i, <2>2, <2>3, <4>1, <4>2
      <3>3. HandOf(c)'
        <4>1. Current(c)' = i /\ pc'[c] = "dlq" /\ queue'[c] # {} /\ deliveries' = deliveries
          BY <1>i, <1>0, <2>1, <2>2, <3>1 DEF Current, TypeOK
        <4>2. QED
          BY <1>i, <3>2, <4>1 DEF HandOf
      <3>4. queue' = [queue EXCEPT ![c] = queue[c]] /\ scan' = [scan EXCEPT ![c] = scan[c]]
        BY <1>i, <1>2, <3>1
      <3>5. QED
        BY <1>0, <1>2, <2>1, <3>1, <3>3, <3>4, WorkStep
    <2>4. CASE ~ (n >= MaxRetries)
      <3>1. Continue(c)
        BY <1>i, <1>5, <2>4 DEF AfterFailure
      <3>2. PICK q \in SUBSET queue[c], l \in Loc, s \in ScanDone .. NumEntries :
              /\ queue' = [queue EXCEPT ![c] = q]
              /\ pc' = [pc EXCEPT ![c] = l]
              /\ scan' = [scan EXCEPT ![c] = s]
              /\ HandOf(c)'
        BY <1>0, <3>1, ContinueIs
      <3>3. QED
        BY <1>0, <2>1, <3>2, WorkStep
    <2>5. QED
      BY <1>i, <2>3, <2>4
  <1>6. CASE SendToDlq(c)
    <2>1. /\ pc[c] = "dlq" /\ pc' = [pc EXCEPT ![c] = "ack"] /\ "ack" \in Loc /\ pc[c] # "down"
          /\ dlq' = dlq \cup {i}
          /\ UNCHANGED <<stream, trimmed, group, last, pel, idle, deliveries, queue, scan, handled>>
      BY <1>i, <1>6 DEF SendToDlq, redisVars, Loc
    <2>2. i \in 1 .. last /\ queue[c] # {} /\ deliveries[i] >= MaxRetries
      BY <1>i, <1>0, <1>1, <2>1 DEF InHand, HandOf
    <2>3. HandOf(c)'
      <3>1. Current(c)' = i /\ pc'[c] = "ack" /\ queue'[c] # {}
        BY <1>i, <1>0, <2>1, <2>2 DEF Current, TypeOK
      <3>2. Accounted(i)'
        BY <1>i, <2>1 DEF Accounted
      <3>3. QED
        BY <1>i, <3>1, <3>2 DEF HandOf
    <2>4. queue' = [queue EXCEPT ![c] = queue[c]] /\ scan' = [scan EXCEPT ![c] = scan[c]]
      BY <1>i, <1>2, <2>1
    <2>5. QED
      BY <1>0, <1>2, <2>1, <2>2, <2>3, <2>4, WorkStep
  <1>7. CASE SendToDlqFails(c)
    <2>1. /\ pc[c] = "dlq" /\ pc[c] # "down" /\ Abandon(c)
          /\ dlq' \in {dlq, dlq \cup {i}}
          /\ UNCHANGED <<stream, trimmed, group, last, pel, idle, deliveries, handled>>
      BY <1>i, <1>7 DEF SendToDlqFails, redisVars
    <2>2. i \in 1 .. last /\ deliveries[i] >= MaxRetries
      BY <1>i, <1>0, <1>1, <2>1 DEF InHand, HandOf
    <2>3. PICK q \in SUBSET queue[c], l \in Loc, s \in ScanDone .. NumEntries :
            /\ queue' = [queue EXCEPT ![c] = q]
            /\ pc' = [pc EXCEPT ![c] = l]
            /\ scan' = [scan EXCEPT ![c] = s]
            /\ HandOf(c)'
      BY <1>0, <2>1, AbandonIs
    <2>4. QED
      BY <1>0, <2>1, <2>2, <2>3, WorkStep
  <1>8. CASE Ack(c)
    <2>1. /\ pc[c] = "ack" /\ pc[c] # "down" /\ Continue(c)
          /\ pel' = pel \ {i} /\ idle' = idle \ {i}
          /\ UNCHANGED <<stream, trimmed, group, last, deliveries, handled, dlq>>
      BY <1>i, <1>8 DEF Ack
    <2>2. Accounted(i)'
      BY <1>i, <1>0, <2>1 DEF HandOf, Accounted
    <2>3. PICK q \in SUBSET queue[c], l \in Loc, s \in ScanDone .. NumEntries :
            /\ queue' = [queue EXCEPT ![c] = q]
            /\ pc' = [pc EXCEPT ![c] = l]
            /\ scan' = [scan EXCEPT ![c] = s]
            /\ HandOf(c)'
      BY <1>0, <2>1, ContinueIs
    <2>4. \A j \in pel \ pel' : Accounted(j)'
      BY <1>i, <2>1, <2>2
    <2>5. pel' \subseteq pel /\ idle' \subseteq pel'
      BY <1>i, <1>0, <2>1
    <2>6. QED
      BY <1>0, <2>1, <2>3, <2>4, <2>5, WorkStep
  <1>9. CASE AckFails(c)
    <2>1. /\ pc[c] = "ack" /\ pc[c] # "down" /\ Abandon(c)
          /\ pel' \in {pel, pel \ {i}} /\ idle' = idle \cap pel'
          /\ UNCHANGED <<stream, trimmed, group, last, deliveries, handled, dlq>>
      BY <1>i, <1>9 DEF AckFails
    <2>2. Accounted(i)'
      BY <1>i, <1>0, <2>1 DEF HandOf, Accounted
    <2>3. PICK q \in SUBSET queue[c], l \in Loc, s \in ScanDone .. NumEntries :
            /\ queue' = [queue EXCEPT ![c] = q]
            /\ pc' = [pc EXCEPT ![c] = l]
            /\ scan' = [scan EXCEPT ![c] = s]
            /\ HandOf(c)'
      BY <1>0, <2>1, AbandonIs
    <2>4. \A j \in pel \ pel' : Accounted(j)'
      BY <1>i, <2>1, <2>2
    <2>5. pel' \subseteq pel /\ idle' \subseteq pel'
      BY <1>i, <2>1
    <2>6. QED
      BY <1>0, <2>1, <2>3, <2>4, <2>5, WorkStep
  <1>10. CASE Stop(c)
    <2>1. /\ pc[c] # "down" /\ pc' = [pc EXCEPT ![c] = "down"] /\ "down" \in Loc
          /\ queue' = [queue EXCEPT ![c] = {}] /\ {} \in SUBSET queue[c]
          /\ scan' = [scan EXCEPT ![c] = 0] /\ 0 \in ScanDone .. NumEntries
          /\ UNCHANGED <<stream, trimmed, group, last, pel, idle, deliveries, handled, dlq>>
      BY <1>i, <1>10 DEF Stop, redisVars, Loc, ScanDone
    <2>2. HandOf(c)'
      <3>1. pc'[c] = "down"
        BY <1>i, <1>0, <2>1 DEF TypeOK
      <3>2. QED
        BY <1>i, <3>1 DEF HandOf, InHand
    <2>3. QED
      BY <1>0, <2>1, <2>2, WorkStep
  <1>11. QED
    BY <1>i, <1>3, <1>4, <1>5, <1>6, <1>7, <1>8, <1>9, <1>10

\* An appended entry is nobody's business yet.
LEMMA EmitStep ==
  ASSUME IInv, NEW x \in Event \cup Junk, Emit(x)
  PROVE  IInv'
  <1> USE BusAssumption
  <1>1. /\ Len(stream) < NumEntries /\ stream' = Append(stream, x)
        /\ trimmed' \in trimmed .. Max({trimmed, Len(stream) + 1 - MaxLen})
        /\ UNCHANGED <<group, last, pel, idle, deliveries, pc, queue, scan, handled, dlq>>
    BY DEF Emit
  <1>2. /\ stream \in Seq(Event \cup Junk) /\ Len(stream) \in Nat /\ last \in 0 .. Len(stream)
        /\ trimmed \in Nat
    BY DEF IInv, TypeOK
  <1>3. /\ stream' \in Seq(Event \cup Junk) /\ Len(stream') = Len(stream) + 1
        /\ \A i \in 1 .. Len(stream) : stream'[i] = stream[i]
    BY <1>1, <1>2
  <1>4. trimmed' \in 0 .. Len(stream')
    <2>1. trimmed' \in 0 .. Len(stream) + 1
      BY <1>1, TrimIs DEF IInv
    <2>2. QED
      BY <1>3, <2>1
  <1>5. trimmed <= trimmed' /\ trimmed' \in Nat
    BY <1>1, <1>2, <1>3, <1>4
  <1>6. TypeOK'
    BY <1>1, <1>2, <1>3, <1>4 DEF IInv, TypeOK
  <1>7. Grows
    <2>1. \A i \in 1 .. last : deliveries[i] \in Nat
      BY DEF IInv, TypeOK, Id
    <2>2. QED
      BY <1>1, <1>2, <1>3, <2>1 DEF Grows
  <1>8. HandIsRight'
    BY <1>1, <1>6, <1>7, HandStays DEF HandIsRight
  <1>9. NoSilentDrop'
    <2>1. ASSUME NEW i \in 1 .. Len(stream'), group < i, i <= last, i \notin pel
          PROVE  Accounted(i)' \/ i <= trimmed'
      <3>1. i \in 1 .. Len(stream)
        BY <1>2, <1>3, <2>1
      <3>2. Accounted(i) \/ i <= trimmed
        BY <2>1, <3>1 DEF IInv, NoSilentDrop
      <3>3. Accounted(i) => Accounted(i)'
        BY <1>1, <1>3, <3>1 DEF Accounted
      <3>4. QED
        BY <1>2, <1>5, <3>1, <3>2, <3>3
    <2>2. QED
      BY <1>1, <2>1 DEF NoSilentDrop
  <1>10. Delivered' /\ GroupFirst' /\ DlqAfterRetries'
    BY <1>1 DEF IInv, Delivered, GroupFirst, DlqAfterRetries
  <1>11. QED
    BY <1>6, <1>8, <1>9, <1>10 DEF IInv

\* Time, and the first connection, change nothing that was delivered.
LEMMA ConnectStep ==
  ASSUME IInv, NEW c \in Consumer, Connect(c)
  PROVE  IInv'
  <1> USE BusAssumption
  <1>1. /\ pc[c] = "down" /\ pc' = [pc EXCEPT ![c] = "recover"]
        /\ IF group = -1 THEN group' = Len(stream) /\ last' = Len(stream)
                         ELSE group' = group /\ last' = last
        /\ UNCHANGED <<stream, trimmed, pel, idle, deliveries, queue, scan, handled, dlq>>
    BY DEF Connect
  <1>2. Len(stream) \in Nat /\ last \in 0 .. Len(stream) /\ group \in -1 .. Len(stream)
    BY DEF IInv, TypeOK
  <1>3. TypeOK'
    BY <1>1, <1>2 DEF IInv, TypeOK, Loc
  <1>4. group' # -1 /\ last <= last' /\ last' \in Nat
    BY <1>1, <1>2
  <1>5. Delivered'
    <2>1. 1 .. last \subseteq 1 .. last'
      BY <1>2, <1>4
    <2>2. QED
      BY <1>1, <2>1 DEF IInv, Delivered
  <1>6. GroupFirst'
    BY <1>4 DEF GroupFirst
  <1>7. Grows
    <2>1. \A i \in 1 .. last : deliveries[i] \in Nat
      BY DEF IInv, TypeOK, Id
    <2>2. QED
      BY <1>1, <2>1 DEF Grows
  <1>8. HandIsRight'
    <2>1. ASSUME NEW d \in Consumer PROVE HandOf(d)'
      <3>1. CASE d = c
        BY <1>1, <3>1 DEF HandOf, InHand, IInv, TypeOK
      <3>2. CASE d # c
        <4>1. pc'[d] = pc[d] /\ queue'[d] = queue[d]
          BY <1>1, <3>2 DEF IInv, TypeOK
        <4>2. QED
          BY <1>3, <1>7, <4>1, HandStays
      <3>3. QED
        BY <3>1, <3>2
    <2>2. QED
      BY <2>1 DEF HandIsRight
  <1>9. NoSilentDrop'
    <2>1. ASSUME NEW i \in 1 .. Len(stream), group' < i, i <= last', i \notin pel
          PROVE  Accounted(i)' \/ i <= trimmed
      <3>1. group' = group /\ last' = last
        BY <1>1, <1>2, <2>1
      <3>2. Accounted(i) \/ i <= trimmed
        BY <2>1, <3>1 DEF IInv, NoSilentDrop
      <3>3. QED
        BY <1>1, <3>2 DEF Accounted
    <2>2. QED
      BY <1>1, <2>1 DEF NoSilentDrop
  <1>10. DlqAfterRetries'
    BY <1>1 DEF IInv, DlqAfterRetries
  <1>11. QED
    BY <1>3, <1>5, <1>6, <1>8, <1>9, <1>10 DEF IInv

\* A pending entry becomes idle for long enough to be claimed.
LEMMA IdleStep ==
  ASSUME IInv, NEW i \in Id, IdleElapses(i)
  PROVE  IInv'
  <1>1. /\ idle' = idle \cup {i} /\ i \in pel
        /\ UNCHANGED <<stream, trimmed, group, last, pel, deliveries, pc, queue, scan, handled, dlq>>
    BY DEF IdleElapses
  <1>2. TypeOK'
    BY <1>1 DEF IInv, TypeOK
  <1>3. HandIsRight'
    BY <1>1 DEF IInv, HandIsRight, HandOf, Accounted, Current
  <1>4. Delivered' /\ GroupFirst' /\ NoSilentDrop' /\ DlqAfterRetries'
    BY <1>1
    DEF IInv, Delivered, GroupFirst, NoSilentDrop, Accounted, DlqAfterRetries
  <1>5. QED
    BY <1>2, <1>3, <1>4 DEF IInv

\* XAUTOCLAIM drops from the pending list only what MAXLEN has dropped already.
LEMMA RecoverStep ==
  ASSUME IInv, NEW c \in Consumer, Recover(c)
  PROVE  IInv'
  <1> USE BusAssumption
  <1> DEFINE A == {i \in pel : i >= scan[c] /\ (i \in idle \/ i <= trimmed)}
  <1>1. PICK taken : taken = Lowest(A)
    OBVIOUS
  <1>2. PICK S : S = {i \in taken : i > trimmed}
    OBVIOUS
  <1>3. PICK next : next = IF S = {} \/ NextStart(taken) = scan[c] THEN ScanDone
                           ELSE NextStart(taken)
    OBVIOUS
  <1>4. PICK loc : loc = IF S = {} THEN "read" ELSE "dispatch"
    OBVIOUS
  <1>5. /\ pc[c] = "recover"
        /\ deliveries' = [i \in Id |-> IF i \in S /\ deliveries[i] < MaxRetries
                                       THEN deliveries[i] + 1 ELSE deliveries[i]]
        /\ pel' = pel \ (taken \ S) /\ idle' = idle \ taken
        /\ scan' = [scan EXCEPT ![c] = next] /\ queue' = [queue EXCEPT ![c] = S]
        /\ pc' = [pc EXCEPT ![c] = loc]
        /\ UNCHANGED <<stream, trimmed, group, last, handled, dlq>>
    BY <1>1, <1>2, <1>3, <1>4, Zenon DEF Recover, Begin
  <1>6. taken \subseteq pel /\ S \subseteq taken /\ \A i \in taken \ S : i <= trimmed
    <2>1. A \subseteq pel /\ pel \subseteq Id
      BY DEF IInv, TypeOK
    <2>2. taken \subseteq A
      BY <1>1 DEF Lowest
    <2>3. trimmed \in Nat /\ Id \subseteq Nat
      BY DEF IInv, TypeOK, Id
    <2> HIDE DEF A
    <2>4. QED
      BY <1>2, <2>1, <2>2, <2>3
  <1> HIDE DEF A
  <1>7. next \in ScanDone .. NumEntries /\ loc \in Loc
    <2>1. NextStart(taken) \in 0 .. NumEntries
      BY NextStartIs DEF IInv
    <2>2. next = ScanDone \/ next \in 0 .. NumEntries
      BY <1>3, <2>1
    <2>3. QED
      BY <1>4, <2>2 DEF ScanDone, Loc
  <1>8. /\ deliveries' \in [Id -> 0 .. MaxRetries]
        /\ \A i \in Id : deliveries'[i] >= deliveries[i]
    BY <1>5 DEF IInv, TypeOK
  <1>9. pel \subseteq 1 .. last /\ 1 .. last \subseteq Id /\ pel \subseteq Id /\ last \in Nat
    BY DEF IInv, TypeOK, Delivered, Id
  <1>10. TypeOK'
    BY <1>5, <1>6, <1>7, <1>8, <1>9 DEF IInv, TypeOK
  <1>11. Grows
    BY <1>5, <1>8, <1>9 DEF Grows
  <1>12. Delivered'
    <2>1. \A i \in 1 .. last : deliveries[i] >= 1 => deliveries'[i] >= 1
      BY <1>8, <1>9 DEF IInv, TypeOK
    <2>2. \A i \in pel' : deliveries'[i] >= 1
      BY <1>5, <1>9, <2>1 DEF IInv, Delivered
    <2>3. ASSUME NEW d \in Consumer
          PROVE  queue'[d] \subseteq 1 .. last /\ \A i \in queue'[d] : deliveries'[i] >= 1
      <3>1. queue[d] \subseteq 1 .. last /\ \A i \in queue[d] : deliveries[i] >= 1
        BY DEF IInv, Delivered
      <3>2. \A i \in S : i \in 1 .. last /\ deliveries[i] >= 1
        BY <1>6, <1>9 DEF IInv, Delivered
      <3>3. queue'[d] = IF d = c THEN S ELSE queue[d]
        BY <1>5 DEF IInv, TypeOK
      <3>4. QED
        BY <2>1, <3>1, <3>2, <3>3
    <2>4. QED
      BY <1>5, <1>9, <2>2, <2>3 DEF IInv, Delivered
  <1>13. GroupFirst'
    BY <1>5 DEF IInv, GroupFirst
  <1>14. HandIsRight'
    <2>1. ASSUME NEW d \in Consumer PROVE HandOf(d)'
      <3>1. CASE d = c
        <4>1. pc'[c] = loc /\ queue'[c] = S
          BY <1>5 DEF IInv, TypeOK
        <4>2. QED
          BY <1>4, <3>1, <4>1 DEF HandOf, InHand
      <3>2. CASE d # c
        <4>1. pc'[d] = pc[d] /\ queue'[d] = queue[d]
          BY <1>5, <3>2 DEF IInv, TypeOK
        <4>2. QED
          BY <1>10, <1>11, <4>1, HandStays
      <3>3. QED
        BY <3>1, <3>2
    <2>2. QED
      BY <2>1 DEF HandIsRight
  <1>15. NoSilentDrop'
    <2>1. ASSUME NEW i \in 1 .. Len(stream), group < i, i <= last, i \notin pel'
          PROVE  Accounted(i)' \/ i <= trimmed
      <3>1. CASE i \in pel
        BY <1>5, <1>6, <2>1, <3>1
      <3>2. CASE i \notin pel
        <4>1. Accounted(i) \/ i <= trimmed
          BY <2>1, <3>2 DEF IInv, NoSilentDrop
        <4>2. QED
          BY <1>5, <4>1 DEF Accounted
      <3>3. QED
        BY <3>1, <3>2
    <2>2. QED
      BY <1>5, <2>1 DEF NoSilentDrop
  <1>16. DlqAfterRetries'
    <2>1. ASSUME NEW i \in dlq PROVE deliveries'[i] >= MaxRetries
      <3>1. i \in Id /\ deliveries[i] >= MaxRetries
        BY DEF IInv, TypeOK, DlqAfterRetries
      <3>2. deliveries[i] \in Nat /\ deliveries'[i] \in Nat /\ deliveries'[i] >= deliveries[i]
        BY <1>8, <3>1 DEF IInv, TypeOK
      <3>3. QED
        BY <3>1, <3>2
    <2>2. QED
      BY <1>5, <2>1 DEF DlqAfterRetries
  <1>17. QED
    BY <1>10, <1>12, <1>13, <1>14, <1>15, <1>16 DEF IInv

\* XREADGROUP makes pending all it passes but what MAXLEN has dropped, and it
\* passes nothing twice.
LEMMA ReadStep ==
  ASSUME IInv, NEW c \in Consumer, Read(c)
  PROVE  IInv'
  <1> USE BusAssumption
  <1>1. PICK S : S = Fresh
    OBVIOUS
  <1>2. PICK loc : loc = IF S = {} THEN "recover" ELSE "dispatch"
    OBVIOUS
  <1>3. /\ pc[c] = "read"
        /\ last' = Max({last} \cup S) /\ pel' = pel \cup S
        /\ deliveries' = [i \in Id |-> IF i \in S THEN 1 ELSE deliveries[i]]
        /\ scan' = [scan EXCEPT ![c] = 0] /\ queue' = [queue EXCEPT ![c] = S]
        /\ pc' = [pc EXCEPT ![c] = loc]
        /\ UNCHANGED <<stream, trimmed, group, idle, handled, dlq>>
    BY <1>1, <1>2, Zenon DEF Read, Begin, Fresh
  <1>4. /\ last' \in last .. Len(stream)
        /\ S \subseteq last + 1 .. last' /\ S \subseteq Id
        /\ \A i \in last + 1 .. last' : i \in S \/ i <= trimmed
    <2>1. PICK m : m = Max({last} \cup S)
      OBVIOUS
    <2>2. /\ m \in last .. Len(stream)
          /\ S \subseteq last + 1 .. m /\ S \subseteq Id
          /\ \A i \in last + 1 .. m : i \in S \/ i <= trimmed
      BY <1>1, <2>1, FreshIs DEF IInv
    <2>3. last' = m
      BY <1>3, <2>1
    <2>4. QED
      BY <2>2, <2>3
  <1>5. last \in Nat /\ last' \in Nat /\ last <= last' /\ Len(stream) \in Nat /\ last' <= Len(stream)
    BY <1>4 DEF IInv, TypeOK
  <1>6. /\ 1 .. last \subseteq 1 .. last' /\ 1 .. last \subseteq Id /\ S \subseteq 1 .. last'
        /\ S \cap (1 .. last) = {}
    <2>1. Len(stream) <= NumEntries
      BY DEF IInv, TypeOK
    <2>2. QED
      BY <1>4, <1>5, <2>1 DEF Id
  <1>7. /\ deliveries' \in [Id -> 0 .. MaxRetries]
        /\ \A i \in S : deliveries'[i] = 1
        /\ \A i \in 1 .. last : deliveries'[i] = deliveries[i]
    BY <1>3, <1>4, <1>6 DEF IInv, TypeOK
  <1>8. TypeOK'
    <2>1. loc \in Loc /\ 0 \in ScanDone .. NumEntries
      BY <1>2 DEF Loc, ScanDone
    <2>2. QED
      BY <1>3, <1>4, <1>5, <1>7, <2>1 DEF IInv, TypeOK
  <1>9. Grows
    <2>1. \A i \in 1 .. last : deliveries[i] \in Nat
      BY <1>6 DEF IInv, TypeOK
    <2>2. QED
      BY <1>3, <1>7, <2>1 DEF Grows
  <1>10. Delivered'
    <2>0. \A i \in S : i \in 1 .. last' /\ deliveries'[i] >= 1
      BY <1>6, <1>7
    <2>1. \A i \in pel' : i \in 1 .. last' /\ deliveries'[i] >= 1
      <3>1. \A i \in pel : i \in 1 .. last /\ deliveries[i] >= 1
        BY DEF IInv, Delivered
      <3>2. \A i \in pel : i \in 1 .. last' /\ deliveries'[i] >= 1
        BY <1>6, <1>7, <3>1
      <3>3. QED
        BY <1>3, <2>0, <3>2
    <2>2. ASSUME NEW d \in Consumer
          PROVE  queue'[d] \subseteq 1 .. last' /\ \A i \in queue'[d] : deliveries'[i] >= 1
      <3>1. queue[d] \subseteq 1 .. last /\ \A i \in queue[d] : deliveries[i] >= 1
        BY DEF IInv, Delivered
      <3>2. queue'[d] = IF d = c THEN S ELSE queue[d]
        BY <1>3 DEF IInv, TypeOK
      <3>3. \A i \in queue[d] : i \in 1 .. last' /\ deliveries'[i] >= 1
        BY <1>6, <1>7, <3>1
      <3>4. QED
        BY <2>0, <3>2, <3>3
    <2>3. dlq' \subseteq 1 .. last'
      BY <1>3, <1>6 DEF IInv, Delivered
    <2>4. QED
      BY <2>1, <2>2, <2>3 DEF Delivered
  <1>11. GroupFirst'
    BY <1>3 DEF IInv, GroupFirst
  <1>12. HandIsRight'
    <2>1. ASSUME NEW d \in Consumer PROVE HandOf(d)'
      <3>1. CASE d = c
        <4>1. pc'[c] = loc /\ queue'[c] = S
          BY <1>3 DEF IInv, TypeOK
        <4>2. QED
          BY <1>2, <3>1, <4>1 DEF HandOf, InHand
      <3>2. CASE d # c
        <4>1. pc'[d] = pc[d] /\ queue'[d] = queue[d]
          BY <1>3, <3>2 DEF IInv, TypeOK
        <4>2. QED
          BY <1>8, <1>9, <4>1, HandStays
      <3>3. QED
        BY <3>1, <3>2
    <2>2. QED
      BY <2>1 DEF HandIsRight
  <1>13. NoSilentDrop'
    <2>1. ASSUME NEW i \in 1 .. Len(stream), group < i, i <= last', i \notin pel'
          PROVE  Accounted(i)' \/ i <= trimmed
      <3>1. CASE i <= last
        <4>1. Accounted(i) \/ i <= trimmed
          BY <1>3, <2>1, <3>1 DEF IInv, NoSilentDrop
        <4>2. QED
          BY <1>3, <4>1 DEF Accounted
      <3>2. CASE ~ (i <= last)
        <4>1. i \in last + 1 .. last'
          BY <1>5, <2>1, <3>2
        <4>2. QED
          BY <1>3, <1>4, <2>1, <4>1
      <3>3. QED
        BY <3>1, <3>2
    <2>2. QED
      BY <1>3, <2>1 DEF NoSilentDrop
  <1>14. DlqAfterRetries'
    BY <1>3, <1>7 DEF IInv, DlqAfterRetries, Delivered
  <1>15. QED
    BY <1>8, <1>10, <1>11, <1>12, <1>13, <1>14 DEF IInv

-----------------------------------------------------------------------------
(* Results.                                                                *)

\* The invariant holds before anything is appended.
LEMMA InvInit == Init => IInv
  BY BusAssumption
  DEF Init, IInv, TypeOK, Delivered, GroupFirst, HandIsRight, HandOf, InHand,
      NoSilentDrop, DlqAfterRetries, Loc, ScanDone

\* Every step keeps the invariant.
LEMMA InvStep == IInv /\ [Next]_vars => IInv'
  <1> SUFFICES ASSUME IInv, [Next]_vars PROVE IInv'
    OBVIOUS
  <1>1. CASE UNCHANGED vars
    BY <1>1
    DEF vars, redisVars, IInv, TypeOK, Delivered, GroupFirst, HandIsRight, HandOf, Current,
        NoSilentDrop, Accounted, DlqAfterRetries
  <1>2. QED
    BY <1>1, NextCases, EmitStep, IdleStep, ConnectStep, RecoverStep, ReadStep,
       WorkingSteps

\* The invariant holds in every reachable state.
LEMMA InvAlways == Spec => []IInv
  BY InvInit, InvStep, PTL DEF Spec

\* The variables of the bus keep their types, whatever the limits.
THEOREM BusTypeCorrect == Spec => []TypeOK
  <1>1. IInv => TypeOK
    BY DEF IInv
  <1>2. QED
    BY <1>1, InvAlways, PTL

\* An entry that the group was given and that is no longer pending is accounted for,
\* or MAXLEN dropped it: no interleaving of consumers, crash or lost answer drops an
\* event silently.
THEOREM BusNoSilentDrop == Spec => []NoSilentDrop
  <1>1. IInv => NoSilentDrop
    BY DEF IInv
  <1>2. QED
    BY <1>1, InvAlways, PTL

\* An entry goes to the dead-letter stream only after MaxRetries deliveries, although
\* the count is read after the failure and may not be answered.
THEOREM BusDlqAfterRetries == Spec => []DlqAfterRetries
  <1>1. IInv => DlqAfterRetries
    BY DEF IInv
  <1>2. QED
    BY <1>1, InvAlways, PTL

-----------------------------------------------------------------------------
(* Who is busy with an entry.                                              *)

\* The handlers have run for the entry in hand.
Busy == {"failed", "dlq", "ack"}

\* An entry that was never left pending for long is in one batch at most, and if its
\* handlers have run, its consumer is still busy with it.
HandedOutOnce ==
  \A i \in Id \ slow : \A c, d \in Consumer : i \in queue[c] /\ i \in queue[d] => c = d

BusyWithIt ==
  \A i \in ran \ slow : \A c \in Consumer :
    i \in queue[c] => i = Current(c) /\ pc[c] \in Busy

HInv ==
  /\ idle \subseteq slow
  /\ ran \subseteq 1 .. last
  /\ HandedOutOnce
  /\ BusyWithIt

\* The entry a consumer runs its handlers for is in its batch.
LEMMA RunsInHand ==
  ASSUME IInv, NEW i \in Runs
  PROVE  \E c \in Consumer : i = Current(c) /\ pc[c] = "dispatch" /\ i \in queue[c]
  <1>1. PICK c \in Consumer : i = Current(c) /\ pc[c] = "dispatch"
    BY DEF Runs
  <1>2. queue[c] # {} /\ TypeOK
    BY <1>1 DEF IInv, HandIsRight, HandOf, InHand
  <1>3. QED
    BY <1>1, <1>2, CurrentInBatch

\* Handlers run again only for an entry that was left pending for long.
LEMMA RunsAgain ==
  ASSUME IInv, HInv
  PROVE  Runs \cap ran \subseteq slow
  <1> SUFFICES ASSUME NEW i \in Runs, i \in ran, i \notin slow PROVE FALSE
    OBVIOUS
  <1>1. PICK c \in Consumer : pc[c] = "dispatch" /\ i \in queue[c]
    BY RunsInHand
  <1>2. QED
    BY <1>1 DEF HInv, BusyWithIt, Busy

\* A step of one consumer: its batch afterwards holds entries it had, slow ones and
\* ones new to the group, and it is busy with those whose handlers have run.
LEMMA ConsumerKeepsHInv ==
  ASSUME IInv, HInv, TypeOK', NEW c \in Consumer,
         slow' = slow \cup idle', last <= last',
         NEW R, ran' = ran \cup R, R \subseteq 1 .. last, R \subseteq queue[c],
         \A d \in Consumer \ {c} : queue'[d] = queue[d] /\ pc'[d] = pc[d],
         \A i \in queue'[c] : i \in queue[c] \/ i \in slow \/ i > last,
         \A i \in queue'[c] : i \in ran' => i \in slow \/ (i = Current(c)' /\ pc'[c] \in Busy)
  PROVE  HInv'
  <1>1. last \in Nat /\ last' \in Nat /\ \A d \in Consumer : queue[d] \subseteq 1 .. last
    BY DEF IInv, TypeOK, Delivered
  <1>2. ran' \subseteq 1 .. last'
    BY <1>1 DEF HInv
  <1>3. ASSUME NEW i \in Id, i \notin slow, NEW d \in Consumer, d # c, i \in queue'[c], i \in queue'[d]
        PROVE  FALSE
    <2>1. i \in queue[d] /\ i \in 1 .. last
      BY <1>1, <1>3
    <2>2. i \in queue[c]
      BY <1>1, <1>3, <2>1
    <2>3. QED
      BY <1>3, <2>1, <2>2 DEF HInv, HandedOutOnce
  <1>4. HandedOutOnce'
    <2>1. ASSUME NEW i \in Id, i \notin slow', NEW d \in Consumer, NEW e \in Consumer,
                 i \in queue'[d], i \in queue'[e]
          PROVE  d = e
      <3>1. i \notin slow
        BY <2>1
      <3>2. CASE d = c \/ e = c
        BY <1>3, <2>1, <3>1, <3>2
      <3>3. CASE d # c /\ e # c
        BY <2>1, <3>1, <3>3 DEF HInv, HandedOutOnce
      <3>4. QED
        BY <3>2, <3>3
    <2>2. QED
      BY <2>1 DEF HandedOutOnce
  <1>5. BusyWithIt'
    <2>1. ASSUME NEW i \in ran', i \notin slow', NEW d \in Consumer, i \in queue'[d]
          PROVE  i = Current(d)' /\ pc'[d] \in Busy
      <3>1. i \notin slow
        BY <2>1
      <3>2. CASE d = c
        BY <2>1, <3>1, <3>2
      <3>3. CASE d # c
        <4>1. i \in queue[d] /\ Current(d)' = Current(d) /\ i \in Id
          BY <2>1, <3>3 DEF Current, IInv, TypeOK
        <4>2. i \in ran
          BY <2>1, <3>1, <3>3, <4>1 DEF HInv, HandedOutOnce
        <4>3. i = Current(d) /\ pc[d] \in Busy
          BY <3>1, <4>1, <4>2 DEF HInv, BusyWithIt
        <4>4. QED
          BY <3>3, <4>1, <4>3
      <3>4. QED
        BY <3>2, <3>3
    <2>2. QED
      BY <2>1 DEF BusyWithIt
  <1>6. QED
    BY <1>2, <1>4, <1>5 DEF HInv

\* Steps of the environment and of time leave the batches alone.
LEMMA OthersKeepHInv ==
  ASSUME IInv, HInv, TypeOK', UNCHANGED <<pc, queue, last>>, slow' = slow \cup idle', ran' = ran
  PROVE  HInv'
  <1>1. HandedOutOnce'
    BY DEF HInv, HandedOutOnce
  <1>2. BusyWithIt'
    BY DEF HInv, BusyWithIt, Current
  <1>3. QED
    BY <1>1, <1>2 DEF HInv

\* Which handlers run in a step of one consumer, given its new place.
LEMMA RunsOf ==
  ASSUME IInv, NEW c \in Consumer, NEW l, pc' = [pc EXCEPT ![c] = l]
  PROVE  Runs = IF pc[c] = "dispatch" /\ l \in {"ack", "failed"} THEN {Current(c)} ELSE {}
  <1>1. pc \in [Consumer -> Loc]
    BY DEF IInv, TypeOK
  <1>2. pc'[c] = l /\ \A d \in Consumer \ {c} : pc'[d] = pc[d]
    BY <1>1
  <1>3. {d \in Consumer : pc[d] = "dispatch" /\ pc'[d] \in {"ack", "failed"}}
        = IF pc[c] = "dispatch" /\ l \in {"ack", "failed"} THEN {c} ELSE {}
    BY <1>2
  <1>4. QED
    BY <1>3 DEF Runs

\* A step that runs no handlers and leaves the batch as it is, or takes the entry in
\* hand out of it, or empties it.
LEMMA ShrinkKeepsHInv ==
  ASSUME IInv, HInv, TypeOK', NEW c \in Consumer, UNCHANGED last,
         slow' = slow \cup idle', ran' = ran,
         NEW l, pc' = [pc EXCEPT ![c] = l],
         NEW q \in SUBSET queue[c], queue' = [queue EXCEPT ![c] = q],
         Current(c) \notin q \/ (q = queue[c] /\ (pc[c] \in Busy => l \in Busy))
  PROVE  HInv'
  <1>1. /\ queue'[c] = q /\ pc'[c] = l
        /\ \A d \in Consumer \ {c} : queue'[d] = queue[d] /\ pc'[d] = pc[d]
    BY DEF IInv, TypeOK
  <1>2. ASSUME NEW i \in queue'[c], i \in ran', i \notin slow
        PROVE  i = Current(c)' /\ pc'[c] \in Busy
    <2>1. i = Current(c) /\ pc[c] \in Busy /\ i \in q
      BY <1>1, <1>2 DEF HInv, BusyWithIt
    <2>2. queue'[c] = queue[c] /\ l \in Busy
      BY <1>1, <2>1
    <2>3. QED
      BY <1>1, <2>1, <2>2 DEF Current
  <1>3. last \in Nat
    BY DEF IInv, TypeOK
  <1>4. PICK R : R = {}
    OBVIOUS
  <1>5. ran' = ran \cup R /\ R \subseteq 1 .. last /\ R \subseteq queue[c] /\ last <= last'
    BY <1>3, <1>4
  <1>6. /\ \A i \in queue'[c] : i \in queue[c] \/ i \in slow \/ i > last
        /\ \A i \in queue'[c] : i \in ran' => i \in slow \/ (i = Current(c)' /\ pc'[c] \in Busy)
    BY <1>1, <1>2
  <1>7. QED
    BY <1>1, <1>5, <1>6, ConsumerKeepsHInv

\* XAUTOCLAIM hands out only what was left pending for long.
LEMMA RecoverKeepsHInv ==
  ASSUME IInv, HInv, TypeOK', NEW c \in Consumer, Recover(c), slow' = slow \cup idle',
         ran' = ran \cup Runs
  PROVE  HInv'
  <1>1. PICK taken : taken = Lowest({i \in pel : i >= scan[c] /\ (i \in idle \/ i <= trimmed)})
    OBVIOUS
  <1>2. PICK S : S = {i \in taken : i > trimmed}
    OBVIOUS
  <1>3. PICK l : l = IF S = {} THEN "read" ELSE "dispatch"
    OBVIOUS
  <1>4. /\ pc[c] = "recover" /\ UNCHANGED last
        /\ queue' = [queue EXCEPT ![c] = S] /\ pc' = [pc EXCEPT ![c] = l]
    BY <1>1, <1>2, <1>3, Zenon DEF Recover, Begin
  <1>5. S \subseteq slow
    <2>1. \A i \in taken : i \in pel /\ (i \in idle \/ i <= trimmed)
      BY <1>1 DEF Lowest
    <2>2. trimmed \in Nat /\ pel \subseteq Nat
      BY BusAssumption DEF IInv, TypeOK, Id
    <2>3. ASSUME NEW i \in S PROVE i \in idle
      <3>1. i \in taken /\ i > trimmed
        BY <1>2
      <3>2. i \in Nat /\ (i \in idle \/ i <= trimmed)
        BY <2>1, <2>2, <3>1
      <3>3. QED
        BY <2>2, <3>1, <3>2
    <2>4. QED
      BY <2>3 DEF HInv
  <1>6. PICK R : R = {}
    OBVIOUS
  <1>61. ran' = ran \cup R
    BY <1>4, <1>6, RunsOf
  <1>7. /\ queue'[c] = S
        /\ \A d \in Consumer \ {c} : queue'[d] = queue[d] /\ pc'[d] = pc[d]
    BY <1>4 DEF IInv, TypeOK
  <1>8. last \in Nat
    BY DEF IInv, TypeOK
  <1>9. /\ R \subseteq 1 .. last /\ R \subseteq queue[c] /\ last <= last'
        /\ \A i \in queue'[c] : i \in slow
    BY <1>4, <1>5, <1>6, <1>7, <1>8
  <1>10. QED
    BY <1>61, <1>7, <1>9, ConsumerKeepsHInv

\* XREADGROUP hands out what nobody was given before.
LEMMA ReadKeepsHInv ==
  ASSUME IInv, HInv, TypeOK', NEW c \in Consumer, Read(c), slow' = slow \cup idle',
         ran' = ran \cup Runs
  PROVE  HInv'
  <1>1. PICK S : S = Fresh
    OBVIOUS
  <1>2. PICK m : m = Max({last} \cup S)
    OBVIOUS
  <1>3. PICK l : l = IF S = {} THEN "recover" ELSE "dispatch"
    OBVIOUS
  <1>4. /\ pc[c] = "read" /\ last' = m
        /\ queue' = [queue EXCEPT ![c] = S] /\ pc' = [pc EXCEPT ![c] = l]
    BY <1>1, <1>2, <1>3, Zenon DEF Read, Begin, Fresh
  <1>5. last \in Nat /\ m \in last .. Len(stream) /\ S \subseteq last + 1 .. m
    <2>1. m \in last .. Len(stream) /\ S \subseteq last + 1 .. m
      BY <1>1, <1>2, FreshIs DEF IInv
    <2>2. QED
      BY <2>1 DEF IInv, TypeOK
  <1>6. PICK R : R = {}
    OBVIOUS
  <1>61. ran' = ran \cup R
    BY <1>4, <1>6, RunsOf
  <1>7. /\ queue'[c] = S
        /\ \A d \in Consumer \ {c} : queue'[d] = queue[d] /\ pc'[d] = pc[d]
    BY <1>4 DEF IInv, TypeOK
  <1>8. \A i \in S : i > last /\ i \notin ran
    BY <1>5 DEF HInv
  <1>9. R \subseteq 1 .. last /\ R \subseteq queue[c] /\ last <= last'
    BY <1>4, <1>5, <1>6
  <1>10. \A i \in queue'[c] : i > last /\ i \notin ran'
    BY <1>6, <1>61, <1>7, <1>8
  <1>11. QED
    BY <1>61, <1>7, <1>9, <1>10, ConsumerKeepsHInv

\* The handlers run for the entry in hand, which its consumer is then busy with.
LEMMA DispatchKeepsHInv ==
  ASSUME IInv, HInv, TypeOK', NEW c \in Consumer, DispatchOk(c) \/ DispatchFails(c),
         slow' = slow \cup idle', ran' = ran \cup Runs
  PROVE  HInv'
  <1>1. PICK l \in {"ack", "failed"} : pc' = [pc EXCEPT ![c] = l]
    BY DEF DispatchOk, DispatchFails
  <1>2. pc[c] = "dispatch" /\ UNCHANGED <<queue, last>>
    BY DEF DispatchOk, DispatchFails, redisVars
  <1>3. PICK k : k = Current(c)
    OBVIOUS
  <1>4. k \in queue[c] /\ k \in 1 .. last /\ last \in Nat
    <2>1. queue[c] # {} /\ queue[c] \subseteq 1 .. last /\ TypeOK
      BY <1>2 DEF IInv, HandIsRight, HandOf, InHand, Delivered
    <2>2. QED
      BY <1>3, <2>1, CurrentInBatch DEF TypeOK
  <1>5. ran' = ran \cup {k}
    BY <1>1, <1>2, <1>3, RunsOf
  <1>6. pc'[c] \in Busy /\ \A d \in Consumer \ {c} : queue'[d] = queue[d] /\ pc'[d] = pc[d]
    BY <1>1, <1>2 DEF IInv, TypeOK, Busy
  <1>7. Current(c)' = k /\ queue'[c] = queue[c]
    BY <1>2, <1>3 DEF Current
  <1>8. ASSUME NEW i \in queue'[c], i \in ran', i \notin slow PROVE i = k
    <2>1. CASE i \in ran
      BY <1>2, <1>7, <1>8, <2>1 DEF HInv, BusyWithIt, Busy
    <2>2. QED
      BY <1>5, <1>8, <2>1
  <1>9. PICK R : R = {k}
    OBVIOUS
  <1>10. ran' = ran \cup R /\ R \subseteq 1 .. last /\ R \subseteq queue[c] /\ last <= last'
    BY <1>2, <1>4, <1>5, <1>9
  <1>11. /\ \A i \in queue'[c] : i \in queue[c]
         /\ \A i \in queue'[c] : i \in ran' => i \in slow \/ (i = Current(c)' /\ pc'[c] \in Busy)
    BY <1>6, <1>7, <1>8
  <1>12. QED
    BY <1>6, <1>10, <1>11, ConsumerKeepsHInv

\* The other steps of a consumer.
LEMMA OtherStepsKeepHInv ==
  ASSUME IInv, HInv, TypeOK', NEW c \in Consumer,
         \/ Connect(c) \/ \E n \in 1 .. MaxRetries : AfterFailure(c, n)
         \/ SendToDlq(c) \/ SendToDlqFails(c) \/ Ack(c) \/ AckFails(c) \/ Stop(c),
         slow' = slow \cup idle', ran' = ran \cup Runs
  PROVE  HInv'
  <1>0. TypeOK /\ queue[c] \in SUBSET queue[c] /\ {} \in SUBSET queue[c]
        /\ queue = [queue EXCEPT ![c] = queue[c]]
    BY DEF IInv, TypeOK
  <1>1. CASE Connect(c)
    <2>1. pc[c] = "down" /\ pc' = [pc EXCEPT ![c] = "recover"] /\ UNCHANGED queue
      BY <1>1 DEF Connect
    <2>2. last \in Nat /\ last' \in Nat /\ last <= last'
      BY <1>1 DEF Connect, IInv, TypeOK
    <2>r. PICK R : R = {}
      OBVIOUS
    <2>3. ran' = ran \cup R /\ R \subseteq 1 .. last /\ R \subseteq queue[c]
      BY <2>1, <2>r, RunsOf
    <2>4. \A i \in queue[c] : i \in ran => i \in slow
      BY <2>1 DEF HInv, BusyWithIt, Busy
    <2>5. \A d \in Consumer \ {c} : queue'[d] = queue[d] /\ pc'[d] = pc[d]
      BY <1>0, <2>1 DEF TypeOK
    <2>6. /\ \A i \in queue'[c] : i \in queue[c]
          /\ \A i \in queue'[c] : i \in ran' => i \in slow
      BY <2>1, <2>r, <2>3, <2>4
    <2>7. QED
      BY <2>2, <2>3, <2>5, <2>6, ConsumerKeepsHInv
  <1>2. ASSUME NEW l, pc' = [pc EXCEPT ![c] = l], pc[c] # "dispatch" \/ l \notin {"ack", "failed"},
               NEW q \in SUBSET queue[c], queue' = [queue EXCEPT ![c] = q], UNCHANGED last,
               Current(c) \notin q \/ (q = queue[c] /\ (pc[c] \in Busy => l \in Busy))
        PROVE  HInv'
    <2>1. ran' = ran
      BY <1>2, RunsOf
    <2>2. QED
      BY <1>2, <2>1, ShrinkKeepsHInv
  <1>3. ASSUME Continue(c), UNCHANGED last, pc[c] # "dispatch" PROVE HInv'
    <2>1. PICK q : q = queue[c] \ {Current(c)}
      OBVIOUS
    <2>2. PICK l : l = IF q # {} THEN "dispatch"
                       ELSE IF scan[c] = ScanDone THEN "read" ELSE "recover"
      OBVIOUS
    <2>3. /\ queue' = [queue EXCEPT ![c] = q] /\ pc' = [pc EXCEPT ![c] = l]
          /\ q \in SUBSET queue[c] /\ Current(c) \notin q
      BY <1>3, <2>1, <2>2, Zenon DEF Continue
    <2>4. QED
      BY <1>2, <1>3, <2>3
  <1>4. ASSUME Abandon(c), UNCHANGED last PROVE HInv'
    <2>1. queue' = [queue EXCEPT ![c] = {}] /\ pc' = [pc EXCEPT ![c] = "recover"]
      BY <1>4 DEF Abandon
    <2>2. QED
      BY <1>0, <1>2, <1>4, <2>1
  <1>5. ASSUME NEW l \in {"dlq", "ack"}, pc' = [pc EXCEPT ![c] = l], pc[c] # "dispatch",
               UNCHANGED <<queue, last>>
        PROVE  HInv'
    <2>1. queue' = [queue EXCEPT ![c] = queue[c]]
      BY <1>0, <1>5
    <2>2. l \in Busy
      BY DEF Busy
    <2>3. QED
      BY <1>0, <1>2, <1>5, <2>1, <2>2
  <1>6. CASE \E n \in 1 .. MaxRetries : AfterFailure(c, n)
    <2>1. /\ pc[c] = "failed" /\ UNCHANGED last
          /\ \/ pc' = [pc EXCEPT ![c] = "dlq"] /\ UNCHANGED queue
             \/ Continue(c)
      BY <1>6 DEF AfterFailure, redisVars
    <2>2. QED
      BY <1>3, <1>5, <2>1
  <1>7. CASE SendToDlq(c)
    BY <1>5, <1>7 DEF SendToDlq, redisVars
  <1>8. CASE SendToDlqFails(c)
    BY <1>4, <1>8 DEF SendToDlqFails, redisVars
  <1>9. CASE Ack(c)
    BY <1>3, <1>9 DEF Ack
  <1>10. CASE AckFails(c)
    BY <1>4, <1>10 DEF AckFails
  <1>11. CASE Stop(c)
    <2>1. /\ queue' = [queue EXCEPT ![c] = {}] /\ pc' = [pc EXCEPT ![c] = "down"]
          /\ UNCHANGED last
      BY <1>11 DEF Stop, redisVars
    <2>2. QED
      BY <1>0, <1>2, <2>1
  <1>12. QED
    BY <1>1, <1>6, <1>7, <1>8, <1>9, <1>10, <1>11

\* Every step keeps what is said about batches.
LEMMA HInvStep ==
  ASSUME IInv, HInv, [NextH]_historyVars
  PROVE  HInv'
  <1>1. [Next]_vars
    BY DEF NextH, historyVars
  <1>2. TypeOK'
    BY <1>1, InvStep DEF IInv
  <1>3. slow' = slow \cup idle' /\ ran' = ran \cup Runs
    <2>1. CASE UNCHANGED historyVars
      <3>1. Runs = {}
        BY <2>1 DEF Runs, historyVars, vars
      <3>2. idle' \subseteq slow
        BY <2>1 DEF HInv, historyVars, vars, redisVars
      <3>3. QED
        BY <2>1, <3>1, <3>2 DEF historyVars
    <2>2. QED
      BY <2>1 DEF NextH
  <1>4. ASSUME UNCHANGED <<pc, queue, last>> PROVE HInv'
    <2>1. Runs = {}
      BY <1>4 DEF Runs
    <2>2. QED
      BY <1>2, <1>3, <1>4, <2>1, OthersKeepHInv
  <1>5. CASE UNCHANGED vars
    BY <1>4, <1>5 DEF vars, redisVars
  <1>6. ASSUME NEW x \in Event \cup Junk, Emit(x) PROVE HInv'
    BY <1>4, <1>6 DEF Emit
  <1>7. ASSUME NEW i \in Id, IdleElapses(i) PROVE HInv'
    BY <1>4, <1>7 DEF IdleElapses
  <1>8. QED
    BY NextCases, <1>1, <1>2, <1>3, <1>5, <1>6, <1>7, RecoverKeepsHInv, ReadKeepsHInv,
       DispatchKeepsHInv, OtherStepsKeepHInv

\* The handlers run again for an entry only after it was left pending for as long as
\* the code waits before it claims one: while a consumer is busy with an entry, or has
\* just failed it, no other process runs them - for any number of processes, batches
\* and restarts.
THEOREM BusNoNeedlessRetry == SpecH => NoNeedlessRetry
  <1>1. InitH => IInv /\ HInv
    <2>1. InitH => IInv
      BY InvInit DEF InitH
    <2>2. InitH => HInv
      BY DEF InitH, Init, HInv, HandedOutOnce, BusyWithIt
    <2>3. QED
      BY <2>1, <2>2
  <1>2. IInv /\ HInv /\ [NextH]_historyVars => IInv' /\ HInv'
    <2>1. [NextH]_historyVars => [Next]_vars
      BY DEF NextH, historyVars
    <2>2. QED
      BY <2>1, InvStep, HInvStep
  <1>3. IInv /\ HInv /\ [NextH]_historyVars => [Runs \cap ran \subseteq slow]_historyVars
    BY RunsAgain
  <1>4. QED
    BY <1>1, <1>2, <1>3, PTL DEF SpecH, NoNeedlessRetry

-----------------------------------------------------------------------------
(* The consumers keep the promise of a consumer group.                     *)

\* Nothing beyond the last delivered id was given.
NoneAhead == \A i \in Given : i <= last

\* Entries are given for the first time.
LEMMA GroupGives ==
  ASSUME NEW S \in SUBSET Id, S \cap Given = {}, Given' = Given \cup S, Ended' = Ended,
         (Given \ pel)' = Given \ pel
  PROVE  [Group!Next]_(Group!vars)
  BY Zenon DEF Group!Next, Group!Give

\* More entries have ended, or nothing has changed.
LEMMA GroupEnds ==
  ASSUME TypeOK', Given' = Given, Ended \subseteq Ended', (Given \ pel)' = Given \ pel
  PROVE  [Group!Next]_(Group!vars)
  <1>1. PICK S : S = Ended'
    OBVIOUS
  <1>2. S \in SUBSET Id /\ Ended' = Ended \cup S
    BY <1>1, BusAssumption DEF Ended, TypeOK, Id
  <1>3. QED
    BY <1>2, Zenon DEF Group!Next, Group!End

\* Entries that were given and have ended are confirmed.
LEMMA GroupConfirms ==
  ASSUME NEW S \in SUBSET Id, S \subseteq Given \cap Ended, Given' = Given, Ended' = Ended,
         (Given \ pel)' = (Given \ pel) \cup S
  PROVE  [Group!Next]_(Group!vars)
  BY Zenon DEF Group!Next, Group!Confirm

\* What has ended depends on these variables and grows with them.
LEMMA EndedGrows ==
  ASSUME TypeOK, trimmed' \in Nat, trimmed <= trimmed', handled \subseteq handled', dlq \subseteq dlq',
         Len(stream') \in Nat, Len(stream) <= Len(stream'),
         \A i \in 1 .. Len(stream) : stream'[i] = stream[i]
  PROVE  Ended \subseteq Ended'
  <1> SUFFICES ASSUME NEW i \in Ended PROVE i \in Ended'
    OBVIOUS
  <1>1. i \in 1 .. Len(stream) /\ (Accounted(i) \/ i <= trimmed)
    BY DEF Ended
  <1>2. i \in 1 .. Len(stream') /\ stream'[i] = stream[i]
    BY <1>1 DEF TypeOK
  <1>3. Accounted(i)' \/ i <= trimmed'
    BY <1>1, <1>2 DEF Accounted, TypeOK
  <1>4. QED
    BY <1>2, <1>3 DEF Ended

\* XADD: an entry may end as it comes, and others as they are dropped.
LEMMA EmitRefines ==
  ASSUME IInv, IInv', NEW x \in Event \cup Junk, Emit(x)
  PROVE  [Group!Next]_(Group!vars)
  <1>1. stream' = Append(stream, x) /\ UNCHANGED <<pel, deliveries, handled, dlq>>
    BY DEF Emit
  <1>2. stream \in Seq(Event \cup Junk) /\ Len(stream) \in Nat /\ trimmed \in Nat /\ trimmed' \in Nat
    BY DEF IInv, TypeOK
  <1>3. trimmed <= trimmed'
    <2>1. PICK m : m = Max({trimmed, Len(stream) + 1 - MaxLen})
      OBVIOUS
    <2>2. trimmed' \in trimmed .. m
      BY <2>1 DEF Emit
    <2>3. QED
      BY <1>2, <2>2
  <1>4. Len(stream') = Len(stream) + 1 /\ \A i \in 1 .. Len(stream) : stream'[i] = stream[i]
    BY <1>1, <1>2
  <1>5. Ended \subseteq Ended'
    BY <1>1, <1>2, <1>3, <1>4, EndedGrows DEF IInv
  <1>6. Given' = Given /\ (Given \ pel)' = Given \ pel
    BY <1>1 DEF Given
  <1>7. QED
    BY <1>5, <1>6, GroupEnds DEF IInv

\* Steps that leave the pending list alone: handlers run, dead letters are written,
\* processes start and stop, time passes.
LEMMA QuietRefines ==
  ASSUME IInv, IInv', UNCHANGED <<stream, trimmed, pel, deliveries>>,
         handled \subseteq handled', dlq \subseteq dlq'
  PROVE  [Group!Next]_(Group!vars)
  <1>1. Ended \subseteq Ended'
    BY EndedGrows DEF IInv, TypeOK
  <1>2. Given' = Given /\ (Given \ pel)' = Given \ pel
    BY DEF Given
  <1>3. QED
    BY <1>1, <1>2, GroupEnds DEF IInv

\* XACK confirms an entry that was given and has ended.
LEMMA AckRefines ==
  ASSUME IInv, NEW c \in Consumer, Ack(c) \/ AckFails(c)
  PROVE  [Group!Next]_(Group!vars)
  <1>i. PICK i : i = Current(c)
    OBVIOUS
  <1>1. /\ pc[c] = "ack" /\ pel' \in {pel, pel \ {i}}
        /\ UNCHANGED <<stream, trimmed, deliveries, handled, dlq>>
    BY <1>i DEF Ack, AckFails
  <1>2. queue[c] # {} /\ Accounted(i)
    BY <1>i, <1>1 DEF IInv, HandIsRight, HandOf, InHand
  <1>3. i \in queue[c] /\ i \in Id
    BY <1>i, <1>2, CurrentInBatch DEF IInv
  <1>4. i \in 1 .. Len(stream) /\ deliveries[i] > 0
    BY <1>3, BusAssumption DEF IInv, TypeOK, Delivered
  <1>5. i \in Given /\ i \in Ended
    BY <1>2, <1>3, <1>4 DEF Given, Ended
  <1>6. Given' = Given /\ Ended' = Ended
    BY <1>1 DEF Given, Ended, Accounted
  <1>7. PICK S : S = pel \ pel'
    OBVIOUS
  <1>8. S \subseteq {i} /\ (Given \ pel)' = (Given \ pel) \cup S
    BY <1>1, <1>5, <1>6, <1>7
  <1>9. S \in SUBSET Id /\ S \subseteq Given \cap Ended
    BY <1>3, <1>5, <1>8
  <1>10. QED
    BY <1>6, <1>8, <1>9, GroupConfirms

\* XAUTOCLAIM confirms only what MAXLEN has dropped.
LEMMA RecoverRefines ==
  ASSUME IInv, NEW c \in Consumer, Recover(c)
  PROVE  [Group!Next]_(Group!vars) /\ Given' = Given
  <1> DEFINE A == {i \in pel : i >= scan[c] /\ (i \in idle \/ i <= trimmed)}
  <1>1. PICK taken : taken = Lowest(A)
    OBVIOUS
  <1>2. PICK S : S = {i \in taken : i > trimmed}
    OBVIOUS
  <1>3. /\ deliveries' = [i \in Id |-> IF i \in S /\ deliveries[i] < MaxRetries
                                       THEN deliveries[i] + 1 ELSE deliveries[i]]
        /\ pel' = pel \ (taken \ S)
        /\ UNCHANGED <<stream, trimmed, last, handled, dlq>>
    BY <1>1, <1>2, Zenon DEF Recover
  <1>4. taken \subseteq pel
    BY <1>1 DEF Lowest
  <1> HIDE DEF A
  <1>5. /\ pel \subseteq Id /\ Id \subseteq Nat /\ trimmed \in Nat /\ pel \subseteq 1 .. Len(stream)
        /\ deliveries \in [Id -> 0 .. MaxRetries] /\ \A i \in pel : deliveries[i] > 0
    BY BusAssumption DEF IInv, TypeOK, Delivered, Id
  <1>6. ASSUME NEW i \in Id PROVE deliveries'[i] > 0 <=> deliveries[i] > 0
    <2>1. deliveries[i] \in Nat /\ (i \in S => deliveries[i] > 0)
      BY <1>2, <1>4, <1>5
    <2>2. deliveries'[i] \in {deliveries[i], deliveries[i] + 1} /\ (i \notin S => deliveries'[i] = deliveries[i])
      BY <1>3
    <2>3. QED
      BY <2>1, <2>2
  <1>7. Given' = Given /\ Ended' = Ended
    BY <1>3, <1>6 DEF Given, Ended, Accounted
  <1>8. PICK T : T = taken \ S
    OBVIOUS
  <1>9. T \in SUBSET Id /\ T \subseteq pel /\ T \subseteq Given \cap Ended
    <2>1. \A i \in T : i \in pel /\ i \in Id /\ i <= trimmed /\ i \in 1 .. Len(stream)
      BY <1>2, <1>4, <1>5, <1>8
    <2>2. QED
      BY <1>5, <2>1 DEF Given, Ended
  <1>10. (Given \ pel)' = (Given \ pel) \cup T
    BY <1>3, <1>7, <1>8, <1>9
  <1>11. QED
    BY <1>7, <1>9, <1>10, GroupConfirms

\* XREADGROUP gives what was not given before.
LEMMA ReadRefines ==
  ASSUME IInv, NoneAhead, NEW c \in Consumer, Read(c)
  PROVE  [Group!Next]_(Group!vars) /\ NoneAhead'
  <1>1. PICK S : S = Fresh
    OBVIOUS
  <1>2. PICK m : m = Max({last} \cup S)
    OBVIOUS
  <1>3. /\ last' = m /\ pel' = pel \cup S
        /\ deliveries' = [i \in Id |-> IF i \in S THEN 1 ELSE deliveries[i]]
        /\ UNCHANGED <<stream, trimmed, handled, dlq>>
    BY <1>1, <1>2, Zenon DEF Read, Fresh
  <1>4. m \in last .. Len(stream) /\ S \subseteq last + 1 .. m /\ S \subseteq Id /\ last \in Nat
    <2>1. m \in last .. Len(stream) /\ S \subseteq last + 1 .. m /\ S \subseteq Id
      BY <1>1, <1>2, FreshIs DEF IInv
    <2>2. last \in Nat
      BY DEF IInv, TypeOK
    <2>3. QED
      BY <2>1, <2>2
  <1>5. S \cap Given = {}
    BY <1>4, BusAssumption DEF NoneAhead, Given, Id
  <1>6. Given' = Given \cup S
    <2>1. \A i \in Id : deliveries'[i] > 0 <=> deliveries[i] > 0 \/ i \in S
      BY <1>3
    <2>2. QED
      BY <1>4, <2>1 DEF Given
  <1>7. Ended' = Ended
    BY <1>3 DEF Ended, Accounted
  <1>8. (Given \ pel)' = Given \ pel
    BY <1>3, <1>5, <1>6
  <1>9. NoneAhead'
    <2>1. ASSUME NEW i \in Given \cup S PROVE i <= m
      <3>1. i \in Int /\ (i \in Given => i <= last)
        BY <1>4, <2>1, BusAssumption DEF NoneAhead, Given, Id
      <3>2. QED
        BY <1>4, <2>1, <3>1
    <2>2. QED
      BY <1>3, <1>6, <2>1 DEF NoneAhead
  <1>10. QED
    BY <1>4, <1>5, <1>6, <1>7, <1>8, <1>9, GroupGives

\* Every step of the bus is a step of the group or a stutter.
LEMMA GroupStep == IInv /\ NoneAhead /\ [Next]_vars => [Group!Next]_(Group!vars) /\ NoneAhead'
  <1> SUFFICES ASSUME IInv, NoneAhead, [Next]_vars
               PROVE  [Group!Next]_(Group!vars) /\ NoneAhead'
    OBVIOUS
  <1>0. IInv'
    BY InvStep
  <1>1. ASSUME UNCHANGED deliveries, last' \in Nat, last <= last' PROVE NoneAhead'
    <2>1. \A i \in Given : i \in Int /\ i <= last
      BY BusAssumption DEF NoneAhead, Given, Id
    <2>2. last \in Nat /\ Given' = Given
      BY <1>1 DEF IInv, TypeOK, Given
    <2>3. QED
      BY <1>1, <2>1, <2>2 DEF NoneAhead
  <1>2. last \in Nat /\ Len(stream) \in Nat /\ last <= Len(stream)
    BY DEF IInv, TypeOK
  <1>3. ASSUME NEW x \in Event \cup Junk, Emit(x)
        PROVE  [Group!Next]_(Group!vars) /\ NoneAhead'
    <2>1. UNCHANGED <<deliveries, last>>
      BY <1>3 DEF Emit
    <2>2. QED
      BY <1>0, <1>1, <1>2, <1>3, <2>1, EmitRefines
  <1>4. ASSUME UNCHANGED <<stream, trimmed, pel, deliveries>>, last' = last \/ last' = Len(stream),
               handled \subseteq handled', dlq \subseteq dlq'
        PROVE  [Group!Next]_(Group!vars) /\ NoneAhead'
    BY <1>0, <1>1, <1>2, <1>4, QuietRefines
  <1>5. ASSUME NEW c \in Consumer, Ack(c) \/ AckFails(c)
        PROVE  [Group!Next]_(Group!vars) /\ NoneAhead'
    <2>1. UNCHANGED <<deliveries, last>>
      BY <1>5 DEF Ack, AckFails
    <2>2. QED
      BY <1>1, <1>2, <1>5, <2>1, AckRefines
  <1>6. ASSUME NEW c \in Consumer, Recover(c)
        PROVE  [Group!Next]_(Group!vars) /\ NoneAhead'
    <2>1. last' = last
      BY <1>6 DEF Recover
    <2>2. QED
      BY <1>6, <2>1, RecoverRefines DEF NoneAhead
  <1>7. ASSUME NEW c \in Consumer, Read(c)
        PROVE  [Group!Next]_(Group!vars) /\ NoneAhead'
    BY <1>7, ReadRefines
  <1>8. ASSUME NEW i \in Id, IdleElapses(i)
        PROVE  [Group!Next]_(Group!vars) /\ NoneAhead'
    BY <1>4, <1>8 DEF IdleElapses
  <1>9. ASSUME NEW c \in Consumer,
               \/ Connect(c) \/ DispatchOk(c) \/ DispatchFails(c)
               \/ \E n \in 1 .. MaxRetries : AfterFailure(c, n)
               \/ SendToDlq(c) \/ SendToDlqFails(c) \/ Stop(c)
        PROVE  [Group!Next]_(Group!vars) /\ NoneAhead'
    <2>1. /\ UNCHANGED <<stream, trimmed, pel, deliveries>>
          /\ last' = last \/ last' = Len(stream)
          /\ handled \subseteq handled' /\ dlq \subseteq dlq'
      BY <1>9 DEF Connect, DispatchOk, DispatchFails, Notify, AfterFailure, SendToDlq,
                  SendToDlqFails, Stop, redisVars
    <2>2. QED
      BY <1>4, <2>1
  <1>10. CASE UNCHANGED vars
    BY <1>4, <1>10 DEF vars, redisVars
  <1>11. QED
    BY NextCases, <1>3, <1>5, <1>6, <1>7, <1>8, <1>9, <1>10

\* Before anything is appended nothing is given, ended or confirmed.
LEMMA GroupInit == Init => Group!Init /\ NoneAhead
  BY BusAssumption DEF Init, Group!Init, NoneAhead, Given, Ended, Id

\* The group is given an entry as new once only; an entry leaves the pending list only
\* after it was handled, became a dead letter, proved to be junk or was dropped by
\* MAXLEN; and it never becomes pending again - whatever consumers crash, steal
\* entries or lose answers, for any number of them.
THEOREM BusImplementsGroup == Spec => ImplementsGroupSafety
  <1>1. Spec => []IInv
    BY InvAlways
  <1>2. QED
    BY <1>1, GroupInit, GroupStep, PTL DEF Spec, ImplementsGroupSafety, Group!Safety
=============================================================================

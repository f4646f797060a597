--------------------------- MODULE IdentityProofs ---------------------------
(***************************************************************************)
(* Proofs about Identity for any number of events, entries and API         *)
(* processes, any batch size and retry limit.                              *)
(***************************************************************************)
EXTENDS Identity, ExtremaLemmas, FiniteSetTheorems

Entry == Event \cup {Shutdown} \cup Broken

\* A consumer has an entry in hand in these places of processMessages.
InHand == {"validate", "handle", "ack", "failed", "dlq", "ackDead"}

\* The stream speaks of what has happened.
Known == \A i \in 1 .. Len(stream) : stream[i] \in Event => stream[i] <= Len(history)

\* From these places the entry in hand may become a dead letter.
MayDie == {"ack", "failed", "dlq"}

\* The entries that may be dead letters.
Mortal == {i \in 1 .. last : stream[i] # Shutdown}

\* A consumer has an entry in hand when it has a batch, it handles events only, a
\* shutdown entry does not become a dead letter, and what it is about to confirm is
\* settled.
HandOf(c) ==
  /\ pc[c] \in InHand <=> queue[c] # {}
  /\ pc[c] = "handle" => stream[Current(c)] \in Event
  /\ pc[c] \in MayDie => stream[Current(c)] # Shutdown
  /\ pc[c] = "ack" => stream[Current(c)] \in applied
  /\ pc[c] = "ackDead" => Settled(Current(c))

HandIsRight == \A c \in Consumer : HandOf(c)

IInv ==
  /\ TypeOK
  /\ Known
  /\ HandIsRight
  /\ NothingLost

-----------------------------------------------------------------------------
(* What the row shows while processing follows the stream's order.         *)

\* The row an event leaves behind.
Left(k) == IF history[k] = "deleted" THEN 0 ELSE k

\* The row shows the last event among the first m entries.
RowAt(m) ==
  \/ row = 0 /\ \A j \in 1 .. m : stream[j] \notin Event
  \/ \E i \in 1 .. m : /\ stream[i] \in Event
                       /\ row = Left(stream[i])
                       /\ \A j \in i + 1 .. m : stream[j] \notin Event

\* None of the first m entries is pending, and nothing is dead.
Clean(m) == dlq = {} /\ \A i \in pel : i > m

UpTo(m) == Clean(m) => RowAt(m)

\* The stream's events are in their order, and the newest is among them.
InOrder ==
  /\ \A i, j \in 1 .. Len(stream) :
       i < j /\ stream[i] \in Event /\ stream[j] \in Event => stream[i] <= stream[j]
  /\ history # <<>> => \E i \in 1 .. Len(stream) : stream[i] = Len(history)

\* The batch is the end of what was delivered, its rest is pending, and the row shows
\* the entries before the one in hand, or that one too.
BatchOf(c) ==
  LET i == Current(c) IN
    /\ \A x \in queue[c], y \in 1 .. last : x <= y => y \in queue[c]
    /\ queue[c] \ {i} \subseteq pel
    /\ pc[c] \in {"validate", "handle"} => i \in pel /\ UpTo(i - 1)
    /\ pc[c] \in {"ack", "ackDead"} => (Clean(i - 1) => RowAt(i))
    /\ pc[c] \in {"failed", "dlq"} => UpTo(i)

Orderly ==
  /\ InOrder
  /\ \A c, d \in Consumer : queue[c] # {} /\ queue[d] # {} => c = d
  /\ UpTo(last)
  /\ \A c \in Consumer : queue[c] # {} => BatchOf(c)

OInv == ~disorder => Orderly

-----------------------------------------------------------------------------
(* The operators.                                                          *)

\* A set of ids is finite.
LEMMA IdsFinite ==
  ASSUME NEW S, S \subseteq Id
  PROVE  S \subseteq Nat /\ IsFiniteSet(S)
  <1>1. S \in SUBSET Nat /\ \A s \in S : s <= NumEntries
    BY IdentityAssumption DEF Id
  <1>2. QED
    BY <1>1, FS_BoundedSetOfNaturals, IdentityAssumption

\* The entry in hand is the first of the batch.
LEMMA CurrentIs ==
  ASSUME TypeOK, NEW c \in Consumer, queue[c] # {}
  PROVE  /\ Current(c) \in queue[c] /\ Current(c) \in 1 .. last /\ Current(c) \in 1 .. Len(stream)
         /\ \A x \in queue[c] : Current(c) <= x
  <1>1. last \in Nat /\ Len(stream) \in Nat /\ last <= Len(stream) /\ queue[c] \subseteq 1 .. last
    BY DEF TypeOK
  <1>2. queue[c] \subseteq Nat
    BY <1>1
  <1>3. Current(c) \in queue[c] /\ \A x \in queue[c] : Current(c) <= x
    BY <1>2, MinIs DEF Current
  <1>4. QED
    BY <1>1, <1>3

\* The entries XREADGROUP returns are the next ones, and the group gets to the last
\* of them.
Fresh == Lowest(last + 1 .. Len(stream))

\* What XREADGROUP returns is new to the group, without gaps.
LEMMA FreshIs ==
  ASSUME TypeOK
  PROVE  LET m == Max({last} \cup Fresh) IN
         m \in last .. Len(stream) /\ Fresh = last + 1 .. m
  <1> DEFINE A == last + 1 .. Len(stream)
             M == {last} \cup Fresh
  <1>1. last \in Nat /\ Len(stream) \in Nat /\ last <= Len(stream) /\ Len(stream) <= NumEntries
    BY DEF TypeOK
  <1>2. A \subseteq Id
    BY <1>1, IdentityAssumption DEF Id
  <1>3. A \subseteq Nat /\ IsFiniteSet(A)
    BY <1>2, IdsFinite
  <1>4. Fresh \subseteq A /\ \A x \in Fresh, i \in A : i <= x => i \in Fresh
    <2> HIDE DEF A
    <2>1. BatchSize \in Nat
      BY IdentityAssumption
    <2>2. /\ LowestOf(A, BatchSize) \subseteq A
          /\ \A x \in LowestOf(A, BatchSize), i \in A : i <= x => i \in LowestOf(A, BatchSize)
      BY <1>3, <2>1, LowestOfIs
    <2>3. Fresh = LowestOf(A, BatchSize)
      BY DEF Fresh, Lowest, LowestOf, A
    <2>4. QED
      BY <2>2, <2>3
  <1>5. M \subseteq Int /\ M # {} /\ \A x \in M : x <= Len(stream)
    BY <1>1, <1>4
  <1>6. Max(M) \in M /\ \A y \in M : Max(M) >= y
    BY <1>1, <1>5, MaxIs
  <1>7. Max(M) \in Int /\ last <= Max(M) /\ Max(M) <= Len(stream)
    BY <1>5, <1>6
  <1>8. ASSUME NEW i \in last + 1 .. Max(M) PROVE i \in Fresh
    <2>1. Max(M) \in Fresh
      <3>1. Max(M) # last
        BY <1>1, <1>7
      <3>2. QED
        BY <1>6, <3>1
    <2>2. i \in A /\ i <= Max(M)
      BY <1>1, <1>7
    <2>3. QED
      BY <1>4, <2>1, <2>2
  <1>9. ASSUME NEW i \in Fresh PROVE i \in last + 1 .. Max(M)
    <2>1. i \in last + 1 .. Len(stream) /\ i \in M
      BY <1>4
    <2>2. Max(M) >= i
      BY <1>6, <2>1
    <2> HIDE DEF M
    <2>3. QED
      BY <1>1, <1>7, <2>1, <2>2
  <1>10. Fresh = last + 1 .. Max(M)
    <2> HIDE DEF M
    <2>1. QED
      BY <1>8, <1>9
  <1>11. Max(M) \in last .. Len(stream)
    <2> HIDE DEF M
    <2>1. QED
      BY <1>1, <1>7
  <1>12. QED
    BY <1>10, <1>11

-----------------------------------------------------------------------------
(* Steps.                                                                  *)

\* The next-state relation, one disjunct per action.
LEMMA NextCases ==
  ASSUME [Next]_vars
  PROVE  \/ \E kind \in {"upsert", "deleted"} : AuthEmit(kind)
         \/ \E x \in Broken : EmitBroken(x)
         \/ AuthReplay
         \/ \E i \in Id, r \in BOOLEAN : Replay(i, r)
         \/ \E i \in Id : IdleElapses(i)
         \/ \E c \in Consumer :
              \/ Start(c) \/ Stop(c)
              \/ \E S \in SUBSET Id : Reclaim(c, S)
              \/ Read(c)
              \/ \E n \in 1 .. MaxRetries : Validate(c, n)
              \/ HandleAuthEvent(c) \/ HandlerFails(c) \/ Ack(c) \/ AckFails(c) \/ Failed(c)
              \/ SendToDlq(c) \/ SendToDlqFails(c)
         \/ UNCHANGED vars
  <1>1. ASSUME NEW i \in Id, AutoReplay(i) \/ Replay(i, FALSE)
        PROVE  \E r \in BOOLEAN : Replay(i, r)
    BY <1>1 DEF AutoReplay
  <1>2. QED
    BY <1>1, Zenon DEF Next

\* The stream and what happened only grow, and the stream stays true to it.
Lengthens ==
  /\ stream' \in Seq(Entry) /\ Len(stream') <= NumEntries
  /\ Len(stream) <= Len(stream') /\ \A i \in 1 .. Len(stream) : stream'[i] = stream[i]
  /\ history' \in Seq({"upsert", "deleted"}) /\ Len(history') <= NumEvents
  /\ Len(history) <= Len(history') /\ \A k \in 1 .. Len(history) : history'[k] = history[k]
  /\ Known'

\* Nothing is appended.
LEMMA SameLengthens ==
  ASSUME TypeOK, Known, UNCHANGED <<stream, history>>
  PROVE  Lengthens
  BY DEF TypeOK, Known, Lengthens, Entry

\* An entry is appended that speaks of what has happened.
LEMMA AppendLengthens ==
  ASSUME TypeOK, Known, NEW x \in Entry, Add(x), x \in Event => x <= Len(history'),
         history' \in Seq({"upsert", "deleted"}), Len(history') <= NumEvents,
         Len(history) <= Len(history'), \A k \in 1 .. Len(history) : history'[k] = history[k]
  PROVE  Lengthens /\ Len(stream') = Len(stream) + 1 /\ stream'[Len(stream) + 1] = x
  <1>1. stream \in Seq(Entry) /\ Len(stream) \in Nat /\ Len(history) \in Nat
    BY DEF TypeOK, Entry
  <1>2. Len(stream) < NumEntries /\ stream' = Append(stream, x)
    BY DEF Add
  <1>3. /\ stream' \in Seq(Entry) /\ Len(stream') = Len(stream) + 1
        /\ \A i \in 1 .. Len(stream) : stream'[i] = stream[i]
        /\ stream'[Len(stream) + 1] = x
    BY <1>1, <1>2
  <1>4. Known'
    <2>1. ASSUME NEW i \in 1 .. Len(stream'), stream'[i] \in Event
          PROVE  stream'[i] <= Len(history')
      <3>1. CASE i = Len(stream) + 1
        BY <1>3, <2>1, <3>1
      <3>2. CASE i # Len(stream) + 1
        <4>1. i \in 1 .. Len(stream)
          BY <1>1, <1>3, <3>2
        <4>2. stream[i] \in Event /\ stream[i] <= Len(history) /\ stream'[i] = stream[i]
          BY <1>3, <2>1, <4>1 DEF Known
        <4>3. QED
          BY <1>1, <4>2 DEF Event
      <3>3. QED
        BY <3>1, <3>2
    <2>2. QED
      BY <2>1 DEF Known
  <1>5. QED
    BY <1>1, <1>2, <1>3, <1>4, IdentityAssumption DEF Lengthens

\* What is settled stays so, if nothing is unapplied and nothing leaves the dead
\* letters without being put back.
LEMMA SettledStays ==
  ASSUME TypeOK, Lengthens, applied \subseteq applied',
         \A i \in dlq \ dlq' : \E j \in i + 1 .. Len(stream') : stream'[j] = stream[i],
         NEW i \in 1 .. last, Settled(i)
  PROVE  Settled(i)'
  <1>1. Len(stream) \in Nat /\ Len(stream') \in Nat /\ last \in 0 .. Len(stream)
        /\ Len(stream) <= Len(stream')
    BY DEF TypeOK, Lengthens
  <1>2. i \in Nat /\ i \in 1 .. Len(stream)
    BY <1>1
  <1>3. stream'[i] = stream[i]
    BY <1>2 DEF Lengthens
  <1>4. CASE stream[i] \in applied \cup {Shutdown}
    BY <1>3, <1>4 DEF Settled
  <1>5. CASE i \in dlq
    BY <1>3, <1>5 DEF Settled
  <1>6. CASE \E j \in i + 1 .. Len(stream) : stream[j] = stream[i]
    <2>1. PICK j \in i + 1 .. Len(stream) : stream[j] = stream[i]
      BY <1>6
    <2>2. j \in 1 .. Len(stream) /\ j \in i + 1 .. Len(stream')
      BY <1>1, <1>2
    <2>3. stream'[j] = stream'[i]
      BY <1>3, <2>1, <2>2 DEF Lengthens
    <2>4. QED
      BY <2>2, <2>3 DEF Settled
  <1>7. QED
    BY <1>4, <1>5, <1>6 DEF Settled

\* What a consumer has in hand stays right while others work.
LEMMA HandStays ==
  ASSUME IInv, Lengthens, applied \subseteq applied',
         \A i \in dlq \ dlq' : \E j \in i + 1 .. Len(stream') : stream'[j] = stream[i],
         NEW d \in Consumer, pc'[d] = pc[d], queue'[d] = queue[d]
  PROVE  HandOf(d)'
  <1>1. PICK i : i = Current(d)
    OBVIOUS
  <1>2. HandOf(d) /\ TypeOK
    BY DEF IInv, HandIsRight
  <1>3. Current(d)' = i
    BY <1>1 DEF Current
  <1>4. pc[d] \in InHand => i \in 1 .. last /\ i \in 1 .. Len(stream)
    BY <1>1, <1>2, CurrentIs DEF HandOf
  <1>5. pc[d] \in InHand => stream'[i] = stream[i]
    BY <1>4 DEF Lengthens
  <1>6. pc[d] = "ackDead" => Settled(i)'
    <2>1. CASE pc[d] = "ackDead"
      <3>1. Settled(i) /\ i \in 1 .. last
        BY <1>1, <1>2, <1>4, <2>1 DEF HandOf, InHand
      <3>2. QED
        BY <1>2, <3>1, SettledStays
    <2>2. QED
      BY <2>1
  <1>7. /\ pc'[d] \in InHand <=> queue'[d] # {}
        /\ pc'[d] = "handle" => stream'[i] \in Event
        /\ pc'[d] \in MayDie => stream'[i] # Shutdown
        /\ pc'[d] = "ack" => stream'[i] \in applied'
    BY <1>1, <1>2, <1>5 DEF HandOf, InHand, MayDie
  <1>8. QED
    BY <1>3, <1>6, <1>7 DEF HandOf

\* Nothing new was delivered, and what is no longer pending is settled.
LEMMA NothingLostStays ==
  ASSUME IInv, Lengthens, applied \subseteq applied', last' = last,
         \A i \in dlq \ dlq' : \E j \in i + 1 .. Len(stream') : stream'[j] = stream[i],
         \A i \in pel \ pel' : Settled(i)'
  PROVE  NothingLost'
  <1>1. ASSUME NEW i \in 1 .. last, i \notin pel' PROVE Settled(i)'
    <2>1. CASE i \in pel
      BY <1>1, <2>1
    <2>2. CASE i \notin pel
      <3>1. Settled(i)
        BY <2>2 DEF IInv, NothingLost, Settled
      <3>2. QED
        BY <3>1, SettledStays DEF IInv
    <2>3. QED
      BY <2>1, <2>2
  <1>2. QED
    BY <1>1 DEF NothingLost, Settled

\* A step of a consumer that works through its batch, gives it up or stops: it reads
\* nothing new and confirms only what is settled.
LEMMA WorkStep ==
  ASSUME IInv, Lengthens, NEW c \in Consumer,
         last' = last, deliveries' = deliveries,
         pel' \subseteq pel, idle' \subseteq pel',
         row' \in 0 .. Len(history'), applied \subseteq applied', applied' \subseteq 1 .. Len(history'),
         dlq \subseteq dlq', dlq' \subseteq Mortal, wanted' \in BOOLEAN, disorder' \in BOOLEAN,
         NEW q \in SUBSET queue[c], queue' = [queue EXCEPT ![c] = q],
         NEW l \in Loc, pc' = [pc EXCEPT ![c] = l],
         NEW o \in {"reclaim", "read"}, origin' = [origin EXCEPT ![c] = o],
         NEW n \in 1 .. MaxRetries, count' = [count EXCEPT ![c] = n],
         HandOf(c)',
         \A i \in pel \ pel' : Settled(i)'
  PROVE  IInv'
  <1>0. last \in Nat /\ Len(stream) \in Nat /\ Len(stream') \in Nat
        /\ last <= Len(stream) /\ Len(stream) <= Len(stream')
    BY DEF IInv, TypeOK, Lengthens
  <1>1. TypeOK'
    <2>1. /\ pc' \in [Consumer -> Loc]
          /\ origin' \in [Consumer -> {"reclaim", "read"}]
          /\ queue' \in [Consumer -> SUBSET (1 .. last)]
          /\ count' \in [Consumer -> 1 .. MaxRetries]
      BY DEF IInv, TypeOK
    <2>2. last' \in 0 .. Len(stream')
      BY <1>0
    <2>3. pel' \subseteq 1 .. last' /\ deliveries' \in [Id -> 0 .. MaxRetries]
      BY DEF IInv, TypeOK
    <2>4. dlq' \subseteq {i \in 1 .. last' : stream'[i] # Shutdown}
      BY <1>0 DEF Mortal, Lengthens
    <2>5. QED
      BY <2>1, <2>2, <2>3, <2>4 DEF TypeOK, Lengthens, Entry
  <1>2. HandIsRight'
    <2>1. ASSUME NEW d \in Consumer PROVE HandOf(d)'
      <3>1. CASE d = c
        BY <3>1
      <3>2. CASE d # c
        <4>1. pc'[d] = pc[d] /\ queue'[d] = queue[d]
          BY <3>2 DEF IInv, TypeOK
        <4>2. QED
          BY <4>1, HandStays
      <3>3. QED
        BY <3>1, <3>2
    <2>2. QED
      BY <2>1 DEF HandIsRight
  <1>3. NothingLost'
    BY NothingLostStays
  <1>4. QED
    BY <1>1, <1>2, <1>3 DEF IInv, Lengthens

\* Going on with the batch leaves the rest of it, with nothing in hand but an entry
\* to be validated.
LEMMA ContinueIs ==
  ASSUME TypeOK, NEW c \in Consumer, Continue(c)
  PROVE  \E q \in SUBSET queue[c], l \in Loc, o \in {"reclaim", "read"}, n \in 1 .. MaxRetries :
           /\ queue' = [queue EXCEPT ![c] = q]
           /\ pc' = [pc EXCEPT ![c] = l]
           /\ origin' = [origin EXCEPT ![c] = o]
           /\ count' = [count EXCEPT ![c] = n]
           /\ HandOf(c)'
  <1> DEFINE q == queue[c] \ {Current(c)}
             l == IF q = {} THEN After(origin[c]) ELSE "validate"
             o == IF q = {} THEN "read" ELSE origin[c]
  <1>1. /\ queue' = [queue EXCEPT ![c] = q]
        /\ pc' = [pc EXCEPT ![c] = l]
        /\ origin' = [origin EXCEPT ![c] = o]
        /\ count' = [count EXCEPT ![c] = 1]
    BY DEF Continue, TypeOK
  <1>2. q \in SUBSET queue[c] /\ l \in Loc /\ o \in {"reclaim", "read"} /\ 1 \in 1 .. MaxRetries
    BY IdentityAssumption DEF TypeOK, Loc, After
  <1>3. pc'[c] = l /\ queue'[c] = q
    BY <1>1 DEF TypeOK
  <1>4. HandOf(c)'
    BY <1>3 DEF HandOf, InHand, MayDie, After
  <1> HIDE DEF q, l, o
  <1>5. QED
    BY <1>1, <1>2, <1>4, Zenon

\* An abandoned batch leaves nothing in hand.
LEMMA AbandonIs ==
  ASSUME TypeOK, NEW c \in Consumer, Abandon(c)
  PROVE  \E q \in SUBSET queue[c], l \in Loc, o \in {"reclaim", "read"}, n \in 1 .. MaxRetries :
           /\ queue' = [queue EXCEPT ![c] = q]
           /\ pc' = [pc EXCEPT ![c] = l]
           /\ origin' = [origin EXCEPT ![c] = o]
           /\ count' = [count EXCEPT ![c] = n]
           /\ HandOf(c)'
  <1>1. /\ {} \in SUBSET queue[c] /\ After(origin[c]) \in Loc /\ "read" \in {"reclaim", "read"}
        /\ 1 \in 1 .. MaxRetries
    BY IdentityAssumption DEF Loc, After
  <1>2. pc'[c] = After(origin[c]) /\ queue'[c] = {}
    BY DEF Abandon, TypeOK
  <1>3. HandOf(c)'
    BY <1>2 DEF HandOf, InHand, MayDie, After
  <1>4. QED
    BY <1>1, <1>3, Zenon DEF Abandon

\* The actions of a consumer at work.
LEMMA WorkingSteps ==
  ASSUME IInv, NEW c \in Consumer,
         \/ \E n \in 1 .. MaxRetries : Validate(c, n)
         \/ HandleAuthEvent(c) \/ HandlerFails(c) \/ Ack(c) \/ AckFails(c) \/ Failed(c)
         \/ SendToDlq(c) \/ SendToDlqFails(c) \/ Stop(c)
  PROVE  IInv'
  <1> USE IdentityAssumption
  <1>i. PICK i : i = Current(c)
    OBVIOUS
  <1>0. /\ TypeOK /\ Known /\ HandOf(c)
        /\ pel \subseteq pel /\ idle \subseteq pel
        /\ row \in 0 .. Len(history) /\ applied \subseteq applied /\ applied \subseteq 1 .. Len(history)
        /\ dlq \subseteq dlq /\ dlq \subseteq Mortal /\ wanted \in BOOLEAN /\ disorder \in BOOLEAN
        /\ Len(history) \in Nat
    BY DEF IInv, TypeOK, HandIsRight, Mortal
  <1>1. pc[c] \in InHand => /\ i \in queue[c] /\ i \in 1 .. last /\ i \in 1 .. Len(stream)
                            /\ queue[c] # {}
    BY <1>i, <1>0, CurrentIs DEF HandOf
  <1>2. /\ queue = [queue EXCEPT ![c] = queue[c]] /\ origin = [origin EXCEPT ![c] = origin[c]]
        /\ count = [count EXCEPT ![c] = count[c]]
        /\ queue[c] \in SUBSET queue[c] /\ origin[c] \in {"reclaim", "read"}
        /\ count[c] \in 1 .. MaxRetries
    BY <1>0 DEF TypeOK
  <1>3. ASSUME NEW n \in 1 .. MaxRetries, Validate(c, n) PROVE IInv'
    <2>1. /\ pc[c] = "validate" /\ count' = [count EXCEPT ![c] = n]
          /\ UNCHANGED <<history, stream, last, pel, idle, deliveries, origin, queue, row, applied,
                         dlq, wanted, disorder>>
      BY <1>3 DEF Validate, redisVars
    <2>2. Lengthens
      BY <1>0, <2>1, SameLengthens
    <2>3. PICK l \in {"ackDead", "dlq", "handle"} :
            /\ pc' = [pc EXCEPT ![c] = l]
            /\ l = "ackDead" => stream[i] = Shutdown
            /\ l = "handle" => stream[i] \in Event
            /\ l = "dlq" => stream[i] # Shutdown
      <3>1. Shutdown \notin Broken
        BY DEF Shutdown
      <3>2. QED
        BY <1>i, <1>3, <3>1 DEF Validate
    <2>4. HandOf(c)'
      <3>1. Current(c)' = i /\ pc'[c] = l /\ queue'[c] # {}
        BY <1>i, <1>0, <1>1, <2>1, <2>3 DEF Current, TypeOK, InHand
      <3>2. l = "ackDead" => Settled(i)'
        BY <2>1, <2>3 DEF Settled
      <3>3. QED
        BY <2>1, <2>3, <3>1, <3>2 DEF HandOf, InHand, MayDie
    <2>5. queue' = [queue EXCEPT ![c] = queue[c]] /\ origin' = [origin EXCEPT ![c] = origin[c]]
          /\ l \in Loc
      BY <1>2, <2>1 DEF Loc
    <2>6. QED
      BY <1>0, <1>2, <2>1, <2>2, <2>3, <2>4, <2>5, WorkStep
  <1>4. CASE HandleAuthEvent(c) \/ HandlerFails(c)
    <2>1. /\ pc[c] = "handle"
          /\ UNCHANGED <<history, stream, last, pel, idle, deliveries, origin, queue, count, dlq,
                         wanted, disorder>>
      BY <1>4 DEF HandleAuthEvent, HandlerFails, redisVars
    <2>2. Lengthens
      BY <1>0, <2>1, SameLengthens
    <2>3. stream[i] \in Event /\ stream[i] \in 1 .. Len(history)
      <3>1. stream[i] \in Event /\ i \in 1 .. Len(stream)
        BY <1>i, <1>0, <1>1, <2>1 DEF HandOf, InHand
      <3>2. stream[i] <= Len(history)
        BY <1>0, <3>1 DEF Known
      <3>3. QED
        BY <1>0, <3>1, <3>2 DEF Event
    <2>4. row' \in 0 .. Len(history) /\ applied \subseteq applied' /\ applied' \subseteq 1 .. Len(history)
      <3>1. row' \in {row, 0, stream[i]} /\ applied' \in {applied, applied \cup {stream[i]}}
        BY <1>i, <1>4
        DEF HandleAuthEvent, HandlerFails, Apply, AnonymizeUserPII, UpsertUserIdentitySnapshot
      <3>2. row' \in 0 .. Len(history)
        BY <1>0, <2>3, <3>1
      <3>3. QED
        BY <1>0, <2>3, <3>1, <3>2
    <2>5. PICK l \in {"ack", "failed"} :
            pc' = [pc EXCEPT ![c] = l] /\ (l = "ack" => stream[i] \in applied')
      BY <1>i, <1>4 DEF HandleAuthEvent, HandlerFails, Apply
    <2>6. HandOf(c)'
      <3>1. Current(c)' = i /\ pc'[c] = l /\ queue'[c] # {}
        BY <1>i, <1>0, <1>1, <2>1, <2>5 DEF Current, TypeOK, InHand
      <3>2. stream'[i] # Shutdown
        BY <2>1, <2>3 DEF Event, Shutdown
      <3>3. QED
        BY <2>1, <2>5, <3>1, <3>2 DEF HandOf, InHand
    <2>7. /\ queue' = [queue EXCEPT ![c] = queue[c]] /\ origin' = [origin EXCEPT ![c] = origin[c]]
          /\ count' = [count EXCEPT ![c] = count[c]] /\ l \in Loc
      BY <1>2, <2>1 DEF Loc
    <2>8. QED
      BY <1>0, <1>2, <2>1, <2>2, <2>4, <2>5, <2>6, <2>7, WorkStep
  <1>5. CASE Ack(c)
    <2>1. /\ pc[c] \in {"ack", "ackDead"} /\ Continue(c)
          /\ pel' = pel \ {i} /\ idle' = idle \ {i}
          /\ UNCHANGED <<history, stream, last, deliveries, row, applied, dlq, wanted, disorder>>
      BY <1>i, <1>5 DEF Ack
    <2>2. Lengthens
      BY <1>0, <2>1, SameLengthens
    <2>3. Settled(i)'
      BY <1>i, <1>0, <2>1 DEF HandOf, Settled
    <2>4. PICK q \in SUBSET queue[c], l \in Loc, o \in {"reclaim", "read"}, n \in 1 .. MaxRetries :
            /\ queue' = [queue EXCEPT ![c] = q]
            /\ pc' = [pc EXCEPT ![c] = l]
            /\ origin' = [origin EXCEPT ![c] = o]
            /\ count' = [count EXCEPT ![c] = n]
            /\ HandOf(c)'
      BY <1>0, <2>1, ContinueIs
    <2>5. pel' \subseteq pel /\ idle' \subseteq pel' /\ \A j \in pel \ pel' : Settled(j)'
      BY <1>0, <2>1, <2>3
    <2>6. QED
      BY <1>0, <2>1, <2>2, <2>4, <2>5, WorkStep
  <1>6. CASE AckFails(c)
    <2>1. /\ pc[c] \in {"ack", "ackDead"}
          /\ pel' \in {pel, pel \ {i}} /\ idle' = idle \cap pel'
          /\ UNCHANGED <<history, stream, last, deliveries, row, applied, dlq, wanted, disorder>>
      BY <1>i, <1>6 DEF AckFails
    <2>2. Lengthens
      BY <1>0, <2>1, SameLengthens
    <2>3. Settled(i)'
      BY <1>i, <1>0, <2>1 DEF HandOf, Settled
    <2>4. pel' \subseteq pel /\ idle' \subseteq pel' /\ \A j \in pel \ pel' : Settled(j)'
      BY <2>1, <2>3
    <2>5. CASE pc[c] = "ack"
      <3>1. pc' = [pc EXCEPT ![c] = "failed"] /\ UNCHANGED <<origin, queue, count>> /\ "failed" \in Loc
        BY <1>6, <2>5 DEF AckFails, Loc
      <3>2. HandOf(c)'
        <4>1. pc'[c] = "failed" /\ queue'[c] # {} /\ Current(c)' = Current(c)
          BY <1>0, <1>1, <2>5, <3>1 DEF TypeOK, InHand, Current
        <4>2. stream[Current(c)] # Shutdown
          BY <1>0, <2>5 DEF HandOf, MayDie
        <4>3. QED
          BY <2>1, <4>1, <4>2 DEF HandOf, InHand
      <3>3. /\ queue' = [queue EXCEPT ![c] = queue[c]] /\ origin' = [origin EXCEPT ![c] = origin[c]]
            /\ count' = [count EXCEPT ![c] = count[c]]
        BY <1>2, <3>1
      <3>4. QED
        BY <1>0, <1>2, <2>1, <2>2, <2>4, <3>1, <3>2, <3>3, WorkStep
    <2>6. CASE pc[c] # "ack"
      <3>1. Abandon(c)
        BY <1>6, <2>6 DEF AckFails
      <3>2. PICK q \in SUBSET queue[c], l \in Loc, o \in {"reclaim", "read"}, n \in 1 .. MaxRetries :
              /\ queue' = [queue EXCEPT ![c] = q]
              /\ pc' = [pc EXCEPT ![c] = l]
              /\ origin' = [origin EXCEPT ![c] = o]
              /\ count' = [count EXCEPT ![c] = n]
              /\ HandOf(c)'
        BY <1>0, <3>1, AbandonIs
      <3>3. QED
        BY <1>0, <2>1, <2>2, <2>4, <3>2, WorkStep
    <2>7. QED
      BY <2>5, <2>6
  <1>7. CASE Failed(c)
    <2>1. /\ pc[c] = "failed"
          /\ UNCHANGED <<history, stream, last, pel, idle, deliveries, row, applied, dlq, wanted,
                         disorder>>
      BY <1>7 DEF Failed, redisVars
    <2>2. Lengthens
      BY <1>0, <2>1, SameLengthens
    <2>3. CASE count[c] < MaxRetries
      <3>1. Continue(c)
        BY <1>7, <2>3 DEF Failed
      <3>2. PICK q \in SUBSET queue[c], l \in Loc, o \in {"reclaim", "read"}, n \in 1 .. MaxRetries :
              /\ queue' = [queue EXCEPT ![c] = q]
              /\ pc' = [pc EXCEPT ![c] = l]
              /\ origin' = [origin EXCEPT ![c] = o]
              /\ count' = [count EXCEPT ![c] = n]
              /\ HandOf(c)'
        BY <1>0, <3>1, ContinueIs
      <3>3. QED
        BY <1>0, <2>1, <2>2, <3>2, WorkStep
    <2>4. CASE ~ (count[c] < MaxRetries)
      <3>1. pc' = [pc EXCEPT ![c] = "dlq"] /\ UNCHANGED <<origin, queue, count>> /\ "dlq" \in Loc
        BY <1>7, <2>4 DEF Failed, Loc
      <3>2. HandOf(c)'
        <4>1. pc'[c] = "dlq" /\ queue'[c] # {} /\ Current(c)' = Current(c)
          BY <1>0, <1>1, <2>1, <3>1 DEF TypeOK, InHand, Current
        <4>2. stream[Current(c)] # Shutdown
          BY <1>0, <2>1 DEF HandOf, MayDie
        <4>3. QED
          BY <2>1, <4>1, <4>2 DEF HandOf, InHand
      <3>3. /\ queue' = [queue EXCEPT ![c] = queue[c]] /\ origin' = [origin EXCEPT ![c] = origin[c]]
            /\ count' = [count EXCEPT ![c] = count[c]]
        BY <1>2, <3>1
      <3>4. QED
        BY <1>0, <1>2, <2>1, <2>2, <3>1, <3>2, <3>3, WorkStep
    <2>5. QED
      BY <2>3, <2>4
  <1>8. CASE SendToDlq(c)
    <2>1. /\ pc[c] = "dlq" /\ pc' = [pc EXCEPT ![c] = "ackDead"] /\ "ackDead" \in Loc
          /\ dlq' = dlq \cup {i}
          /\ UNCHANGED <<history, stream, last, pel, idle, deliveries, origin, queue, count, row,
                         applied, wanted, disorder>>
      BY <1>i, <1>8 DEF SendToDlq, AppendAuthEventToDlq, redisVars, Loc
    <2>2. Lengthens
      BY <1>0, <2>1, SameLengthens
    <2>3. dlq \subseteq dlq' /\ dlq' \subseteq Mortal
      <3>1. i \in Mortal
        BY <1>i, <1>0, <1>1, <2>1 DEF InHand, HandOf, MayDie, Mortal
      <3>2. QED
        BY <1>0, <2>1, <3>1
    <2>4. HandOf(c)'
      <3>1. Current(c)' = i /\ pc'[c] = "ackDead" /\ queue'[c] # {}
        BY <1>i, <1>0, <1>1, <2>1 DEF Current, TypeOK, InHand
      <3>2. Settled(i)'
        BY <2>1 DEF Settled
      <3>3. QED
        BY <3>1, <3>2 DEF HandOf, InHand, MayDie
    <2>5. /\ queue' = [queue EXCEPT ![c] = queue[c]] /\ origin' = [origin EXCEPT ![c] = origin[c]]
          /\ count' = [count EXCEPT ![c] = count[c]]
      BY <1>2, <2>1
    <2>6. QED
      BY <1>0, <1>2, <2>1, <2>2, <2>3, <2>4, <2>5, WorkStep
  <1>9. CASE SendToDlqFails(c)
    <2>1. /\ pc[c] = "dlq" /\ Abandon(c)
          /\ dlq' \in {dlq, dlq \cup {i}}
          /\ UNCHANGED <<history, stream, last, pel, idle, deliveries, row, applied, wanted, disorder>>
      BY <1>i, <1>9 DEF SendToDlqFails, AppendAuthEventToDlq, redisVars
    <2>2. Lengthens
      BY <1>0, <2>1, SameLengthens
    <2>3. dlq \subseteq dlq' /\ dlq' \subseteq Mortal
      <3>1. i \in Mortal
        BY <1>i, <1>0, <1>1, <2>1 DEF InHand, HandOf, MayDie, Mortal
      <3>2. QED
        BY <1>0, <2>1, <3>1
    <2>4. PICK q \in SUBSET queue[c], l \in Loc, o \in {"reclaim", "read"}, n \in 1 .. MaxRetries :
            /\ queue' = [queue EXCEPT ![c] = q]
            /\ pc' = [pc EXCEPT ![c] = l]
            /\ origin' = [origin EXCEPT ![c] = o]
            /\ count' = [count EXCEPT ![c] = n]
            /\ HandOf(c)'
      BY <1>0, <2>1, AbandonIs
    <2>5. QED
      BY <1>0, <2>1, <2>2, <2>3, <2>4, WorkStep
  <1>10. CASE Stop(c)
    <2>1. /\ pc' = [pc EXCEPT ![c] = "down"] /\ "down" \in Loc
          /\ origin' = [origin EXCEPT ![c] = "read"]
          /\ queue' = [queue EXCEPT ![c] = {}] /\ {} \in SUBSET queue[c]
          /\ count' = [count EXCEPT ![c] = 1] /\ 1 \in 1 .. MaxRetries
          /\ UNCHANGED <<history, last, pel, idle, deliveries, row, applied, dlq, wanted, disorder>>
      BY <1>10 DEF Stop, redisVars, Loc
    <2>2. Lengthens
      <3>1. CASE UNCHANGED stream
        BY <1>0, <2>1, <3>1, SameLengthens
      <3>2. CASE Add(Shutdown)
        <4>1. Shutdown \in Entry /\ Shutdown \notin Event
          BY DEF Entry, Shutdown, Event
        <4>2. /\ history' \in Seq({"upsert", "deleted"}) /\ Len(history') <= NumEvents
              /\ Len(history) <= Len(history')
              /\ \A k \in 1 .. Len(history) : history'[k] = history[k]
          BY <1>0, <2>1 DEF TypeOK
        <4>3. QED
          BY <1>0, <3>2, <4>1, <4>2, AppendLengthens
      <3>3. QED
        BY <1>10, <3>1, <3>2 DEF Stop
    <2>3. HandOf(c)'
      <3>1. pc'[c] = "down" /\ queue'[c] = {}
        BY <1>0, <2>1 DEF TypeOK
      <3>2. QED
        BY <3>1 DEF HandOf, InHand, MayDie
    <2>4. "read" \in {"reclaim", "read"}
      OBVIOUS
    <2>5. QED
      BY <1>0, <2>1, <2>2, <2>3, <2>4, WorkStep
  <1>11. QED
    BY <1>3, <1>4, <1>5, <1>6, <1>7, <1>8, <1>9, <1>10

\* crm-auth and the operator append to the stream; what leaves the dead letters was
\* put back before.
LEMMA OutsideStep ==
  ASSUME IInv, Lengthens, UNCHANGED <<redisVars, loopVars, row, applied>>,
         dlq' \subseteq dlq, wanted' \in BOOLEAN, disorder' \in BOOLEAN,
         \A i \in dlq \ dlq' : \E j \in i + 1 .. Len(stream') : stream'[j] = stream[i]
  PROVE  IInv'
  <1>1. UNCHANGED <<last, pel, idle, deliveries, pc, origin, queue, count, row, applied>>
    BY DEF redisVars, loopVars
  <1>2. TypeOK'
    <2>1. last' \in 0 .. Len(stream') /\ row' \in 0 .. Len(history') /\ applied' \subseteq 1 .. Len(history')
      <3>1. /\ last \in Nat /\ Len(stream) \in Nat /\ Len(stream') \in Nat /\ last <= Len(stream)
            /\ Len(stream) <= Len(stream') /\ Len(history) \in Nat /\ Len(history') \in Nat
            /\ Len(history) <= Len(history') /\ row \in 0 .. Len(history)
            /\ applied \subseteq 1 .. Len(history)
        BY DEF IInv, TypeOK, Lengthens
      <3>2. QED
        BY <1>1, <3>1
    <2>2. dlq' \subseteq {i \in 1 .. last' : stream'[i] # Shutdown}
      <3>1. /\ dlq \subseteq {i \in 1 .. last : stream[i] # Shutdown}
            /\ last \in Nat /\ Len(stream) \in Nat /\ last <= Len(stream)
        BY DEF IInv, TypeOK
      <3>2. \A i \in 1 .. last : stream'[i] = stream[i]
        BY <3>1 DEF Lengthens
      <3>3. QED
        BY <1>1, <3>1, <3>2
    <2>3. QED
      BY <1>1, <2>1, <2>2 DEF IInv, TypeOK, Lengthens, Entry
  <1>3. HandIsRight'
    BY <1>1, HandStays DEF HandIsRight
  <1>4. NothingLost'
    BY <1>1, NothingLostStays
  <1>5. QED
    BY <1>2, <1>3, <1>4 DEF IInv, Lengthens

\* What crm-auth and the operator append.
LEMMA OutsideSteps ==
  ASSUME IInv,
         \/ \E kind \in {"upsert", "deleted"} : AuthEmit(kind)
         \/ \E x \in Broken : EmitBroken(x)
         \/ AuthReplay
         \/ \E i \in Id, r \in BOOLEAN : Replay(i, r)
  PROVE  IInv'
  <1> USE IdentityAssumption
  <1>0. /\ TypeOK /\ Known /\ wanted \in BOOLEAN /\ disorder \in BOOLEAN /\ dlq \subseteq dlq
        /\ history \in Seq({"upsert", "deleted"}) /\ Len(history) \in Nat /\ Len(history) <= NumEvents
        /\ stream \in Seq(Entry) /\ Len(stream) \in Nat
    BY DEF IInv, TypeOK, Entry
  <1>1. ASSUME NEW kind \in {"upsert", "deleted"}, AuthEmit(kind) PROVE IInv'
    <2>1. /\ Len(history) < NumEvents /\ history' = Append(history, kind) /\ Add(Len(history) + 1)
          /\ UNCHANGED <<redisVars, loopVars, row, applied, dlq, wanted, disorder>>
      BY <1>1 DEF AuthEmit
    <2>2. /\ history' \in Seq({"upsert", "deleted"}) /\ Len(history') = Len(history) + 1
          /\ \A k \in 1 .. Len(history) : history'[k] = history[k]
      BY <1>0, <2>1
    <2>3. Len(history) + 1 \in Entry /\ Len(history') <= NumEvents
      BY <1>0, <2>1, <2>2 DEF Entry, Event
    <2>4. Lengthens
      BY <1>0, <2>1, <2>2, <2>3, AppendLengthens
    <2>5. QED
      BY <1>0, <2>1, <2>4, OutsideStep
  <1>2. ASSUME NEW x \in Entry, Add(x), x \in Event => x <= Len(history), history' = history
        PROVE  Lengthens /\ Len(stream') = Len(stream) + 1 /\ stream'[Len(stream) + 1] = x
    BY <1>0, <1>2, AppendLengthens
  <1>3. ASSUME NEW x \in Broken, EmitBroken(x) PROVE IInv'
    <2>1. /\ Add(x)
          /\ UNCHANGED <<history, redisVars, loopVars, row, applied, dlq, wanted, disorder>>
      BY <1>3 DEF EmitBroken
    <2>2. x \in Entry /\ x \notin Event
      BY DEF Entry, Event
    <2>3. QED
      BY <1>0, <1>2, <2>1, <2>2, OutsideStep
  <1>4. CASE AuthReplay
    <2>1. /\ wanted' = FALSE
          /\ stream' = stream \/ (history # <<>> /\ Add(Len(history)))
          /\ UNCHANGED <<history, redisVars, loopVars, row, applied, dlq, disorder>>
      BY <1>4 DEF AuthReplay
    <2>2. Lengthens
      <3>1. CASE stream' = stream
        BY <1>0, <2>1, <3>1, SameLengthens
      <3>2. CASE history # <<>> /\ Add(Len(history))
        <4>1. Len(history) \in Entry
          BY <1>0, <3>2 DEF Entry, Event
        <4>2. QED
          BY <1>0, <1>2, <2>1, <3>2, <4>1
      <3>3. QED
        BY <2>1, <3>1, <3>2
    <2>3. wanted' \in BOOLEAN
      BY <2>1
    <2>4. QED
      BY <1>0, <2>1, <2>2, <2>3, OutsideStep
  <1>5. ASSUME NEW i \in Id, NEW r \in BOOLEAN, Replay(i, r) PROVE IInv'
    <2>1. /\ i \in dlq /\ Add(stream[i]) /\ disorder' = TRUE /\ dlq' \in {dlq, dlq \ {i}}
          /\ UNCHANGED <<history, redisVars, loopVars, row, applied, wanted>>
      BY <1>5 DEF Replay
    <2>2. i \in 1 .. Len(stream)
      BY <2>1 DEF IInv, TypeOK
    <2>3. stream[i] \in Entry /\ (stream[i] \in Event => stream[i] <= Len(history))
      BY <1>0, <2>2 DEF Known
    <2>4. Lengthens /\ Len(stream') = Len(stream) + 1 /\ stream'[Len(stream) + 1] = stream[i]
      BY <1>2, <2>1, <2>3
    <2>5. ASSUME NEW k \in dlq \ dlq'
          PROVE  \E j \in k + 1 .. Len(stream') : stream'[j] = stream[k]
      <3>1. k = i
        BY <2>1
      <3>2. Len(stream) + 1 \in k + 1 .. Len(stream')
        BY <1>0, <2>2, <2>4, <3>1
      <3>3. QED
        BY <2>4, <3>1, <3>2
    <2>6. dlq' \subseteq dlq /\ disorder' \in BOOLEAN
      BY <2>1
    <2>7. QED
      BY <1>0, <2>1, <2>4, <2>5, <2>6, OutsideStep
  <1>6. QED
    BY <1>1, <1>3, <1>4, <1>5

\* Time passes.
LEMMA IdleStep ==
  ASSUME IInv, NEW i \in Id, IdleElapses(i)
  PROVE  IInv'
  <1>1. /\ idle' = idle \cup {i} /\ i \in pel
        /\ UNCHANGED <<history, stream, last, pel, deliveries, pc, origin, queue, count, row, applied,
                       dlq, wanted, disorder>>
    BY DEF IdleElapses, loopVars
  <1>2. TypeOK'
    BY <1>1 DEF IInv, TypeOK
  <1>3. HandIsRight'
    BY <1>1 DEF IInv, HandIsRight, HandOf, Settled, Current
  <1>4. Known' /\ NothingLost'
    BY <1>1 DEF IInv, Known, NothingLost, Settled
  <1>5. QED
    BY <1>2, <1>3, <1>4 DEF IInv

\* A process starts, perhaps asking for a replay.
LEMMA StartStep ==
  ASSUME IInv, NEW c \in Consumer, Start(c)
  PROVE  IInv'
  <1>1. /\ pc[c] = "down" /\ pc' = [pc EXCEPT ![c] = "reclaim"]
        /\ wanted' \in {wanted, wanted \/ row = 0}
        /\ UNCHANGED <<history, stream, last, pel, idle, deliveries, origin, queue, count, row, applied,
                       dlq, disorder>>
    BY DEF Start, CheckAndTriggerReplay, redisVars
  <1>2. Lengthens
    BY <1>1, SameLengthens DEF IInv
  <1>3. wanted' \in BOOLEAN
    BY <1>1 DEF IInv, TypeOK
  <1>4. TypeOK'
    BY <1>1, <1>3 DEF IInv, TypeOK, Loc
  <1>5. HandIsRight'
    <2>1. ASSUME NEW d \in Consumer PROVE HandOf(d)'
      <3>1. CASE d = c
        <4>1. queue[c] = {} /\ pc'[c] = "reclaim"
          BY <1>1 DEF IInv, TypeOK, HandIsRight, HandOf, InHand
        <4>2. QED
          BY <1>1, <3>1, <4>1 DEF HandOf, InHand, MayDie
      <3>2. CASE d # c
        <4>1. pc'[d] = pc[d] /\ queue'[d] = queue[d]
          BY <1>1, <3>2 DEF IInv, TypeOK
        <4>2. QED
          BY <1>1, <1>2, <4>1, HandStays
      <3>3. QED
        BY <3>1, <3>2
    <2>2. QED
      BY <2>1 DEF HandIsRight
  <1>6. NothingLost'
    BY <1>1 DEF IInv, NothingLost, Settled
  <1>7. QED
    BY <1>2, <1>4, <1>5, <1>6 DEF IInv, Lengthens

\* A batch is delivered to a consumer: for the first time or again.
LEMMA BatchStep ==
  ASSUME IInv, NEW c \in Consumer, NEW from \in {"reclaim", "read"}, NEW S,
         pc[c] = from, Begin(c, from, S),
         UNCHANGED <<history, stream, row, applied, dlq, wanted>>,
         last' \in last .. Len(stream), S \subseteq 1 .. last',
         pel' = pel \cup S, \A i \in last + 1 .. last' : i \in S,
         idle' \subseteq idle,
         deliveries' \in [Id -> 0 .. MaxRetries], disorder' \in BOOLEAN
  PROVE  IInv'
  <1> USE IdentityAssumption
  <1>1. PICK l : l = IF S = {} THEN After(from) ELSE "validate"
    OBVIOUS
  <1>2. PICK o : o = IF S = {} THEN "read" ELSE from
    OBVIOUS
  <1>3. /\ queue' = [queue EXCEPT ![c] = S] /\ pc' = [pc EXCEPT ![c] = l]
        /\ origin' = [origin EXCEPT ![c] = o] /\ count' = count
    BY <1>1, <1>2 DEF Begin
  <1>4. l \in Loc /\ o \in {"reclaim", "read"}
    BY <1>1, <1>2 DEF Loc, After
  <1>5. last \in Nat /\ last' \in Nat /\ last <= last' /\ 1 .. last \subseteq 1 .. last'
    BY DEF IInv, TypeOK
  <1>6. Lengthens
    BY SameLengthens DEF IInv
  <1>7. TypeOK'
    <2>1. pel \subseteq 1 .. last /\ dlq \subseteq {i \in 1 .. last : stream[i] # Shutdown}
          /\ idle \subseteq pel
      BY DEF IInv, TypeOK
    <2>2. pel' \subseteq 1 .. last' /\ dlq' \subseteq {i \in 1 .. last' : stream'[i] # Shutdown}
          /\ idle' \subseteq pel'
      BY <1>5, <2>1
    <2>3. last' \in 0 .. Len(stream')
      BY <1>5 DEF IInv, TypeOK
    <2>4. queue' \in [Consumer -> SUBSET (1 .. last')]
      <3>1. \A d \in Consumer : queue[d] \subseteq 1 .. last'
        BY <1>5 DEF IInv, TypeOK
      <3>2. QED
        BY <1>3, <3>1 DEF IInv, TypeOK
    <2>5. /\ pc' \in [Consumer -> Loc] /\ origin' \in [Consumer -> {"reclaim", "read"}]
          /\ count' \in [Consumer -> 1 .. MaxRetries]
      BY <1>3, <1>4 DEF IInv, TypeOK
    <2>6. QED
      BY <2>2, <2>3, <2>4, <2>5 DEF IInv, TypeOK
  <1>8. HandIsRight'
    <2>1. ASSUME NEW d \in Consumer PROVE HandOf(d)'
      <3>1. CASE d = c
        <4>1. pc'[c] = l /\ queue'[c] = S
          BY <1>3 DEF IInv, TypeOK
        <4>2. QED
          BY <1>1, <3>1, <4>1 DEF HandOf, InHand, MayDie, After
      <3>2. CASE d # c
        <4>1. pc'[d] = pc[d] /\ queue'[d] = queue[d]
          BY <1>3, <3>2 DEF IInv, TypeOK
        <4>2. QED
          BY <1>6, <4>1, HandStays
      <3>3. QED
        BY <3>1, <3>2
    <2>2. QED
      BY <2>1 DEF HandIsRight
  <1>9. NothingLost'
    <2>1. ASSUME NEW i \in 1 .. last', i \notin pel' PROVE i \in 1 .. last /\ i \notin pel
      <3>1. i \notin last + 1 .. last'
        BY <2>1
      <3>2. QED
        BY <1>5, <2>1, <3>1
    <2>2. QED
      BY <2>1 DEF IInv, NothingLost, Settled
  <1>10. QED
    BY <1>6, <1>7, <1>8, <1>9 DEF IInv, Lengthens

\* XAUTOCLAIM.
LEMMA ReclaimStep ==
  ASSUME IInv, NEW c \in Consumer, NEW S \in SUBSET Id, Reclaim(c, S)
  PROVE  IInv'
  <1> USE IdentityAssumption
  <1>1. /\ pc[c] = "reclaim" /\ S \in {{}, Lowest(idle)} /\ Begin(c, "reclaim", S)
        /\ deliveries' = [i \in Id |-> IF i \in S /\ deliveries[i] < MaxRetries
                                       THEN deliveries[i] + 1 ELSE deliveries[i]]
        /\ idle' = idle \ S /\ disorder' = (disorder \/ S # {})
        /\ UNCHANGED <<history, stream, last, pel, row, applied, dlq, wanted>>
    BY DEF Reclaim
  <1>2. S \subseteq pel
    BY <1>1 DEF Lowest, IInv, TypeOK
  <1>3. deliveries' \in [Id -> 0 .. MaxRetries]
    BY <1>1 DEF IInv, TypeOK
  <1>4. disorder' \in BOOLEAN
    BY <1>1
  <1>5. last' \in last .. Len(stream) /\ \A i \in last + 1 .. last' : i \in S
    BY <1>1 DEF IInv, TypeOK
  <1>6. pel' = pel \cup S /\ S \subseteq 1 .. last' /\ idle' \subseteq idle
    BY <1>1, <1>2 DEF IInv, TypeOK
  <1>7. QED
    BY <1>1, <1>3, <1>4, <1>5, <1>6, BatchStep

\* XREADGROUP.
LEMMA ReadStep ==
  ASSUME IInv, NEW c \in Consumer, Read(c)
  PROVE  IInv' /\ last' \in last .. Len(stream) /\ Fresh = last + 1 .. last'
  <1> USE IdentityAssumption
  <1>1. PICK S : S = Fresh
    OBVIOUS
  <1>2. /\ pc[c] = "read" /\ Begin(c, "read", S)
        /\ last' = Max({last} \cup S) /\ pel' = pel \cup S
        /\ deliveries' = [i \in Id |-> IF i \in S THEN 1 ELSE deliveries[i]]
        /\ disorder' = (disorder \/ (S # {} /\ \E d \in Consumer : queue[d] # {}))
        /\ UNCHANGED <<history, stream, idle, row, applied, dlq, wanted>>
    BY <1>1, Zenon DEF Read, Fresh
  <1>3. last' \in last .. Len(stream) /\ S = last + 1 .. last'
    BY <1>1, <1>2, FreshIs DEF IInv
  <1>4. S \subseteq 1 .. last' /\ idle' \subseteq idle
    <2>1. last \in Nat /\ last' \in Int
      BY <1>3 DEF IInv, TypeOK
    <2>2. S \subseteq 1 .. last'
      BY <1>3, <2>1
    <2>3. QED
      BY <1>2, <2>2
  <1>5. deliveries' \in [Id -> 0 .. MaxRetries]
    BY <1>2 DEF IInv, TypeOK
  <1>6. disorder' \in BOOLEAN
    BY <1>2
  <1>7. IInv'
    BY <1>2, <1>3, <1>4, <1>5, <1>6, BatchStep
  <1>8. QED
    BY <1>1, <1>3, <1>7

\* Nothing is delivered before anything is appended.
LEMMA InvInit == Init => IInv
  <1> SUFFICES ASSUME Init PROVE IInv
    OBVIOUS
  <1>1. TypeOK
    <2>1. /\ history \in Seq({"upsert", "deleted"}) /\ Len(history) = 0
          /\ stream \in Seq(Event \cup {Shutdown} \cup Broken) /\ Len(stream) = 0
      BY DEF Init
    <2>2. /\ deliveries \in [Id -> 0 .. MaxRetries] /\ pc \in [Consumer -> Loc]
          /\ origin \in [Consumer -> {"reclaim", "read"}]
          /\ queue \in [Consumer -> SUBSET (1 .. last)]
          /\ count \in [Consumer -> 1 .. MaxRetries]
      BY IdentityAssumption DEF Init, Loc
    <2>3. /\ Len(history) <= NumEvents /\ Len(stream) <= NumEntries /\ last \in 0 .. Len(stream)
          /\ row \in 0 .. Len(history)
      BY <2>1, IdentityAssumption DEF Init
    <2>4. /\ pel = {} /\ idle = {} /\ applied = {} /\ dlq = {}
          /\ wanted \in BOOLEAN /\ disorder \in BOOLEAN
      BY DEF Init
    <2>5. QED
      BY <2>1, <2>2, <2>3, <2>4 DEF TypeOK
  <1>2. Known /\ HandIsRight /\ NothingLost
    BY DEF Init, Known, HandIsRight, HandOf, InHand, MayDie, NothingLost
  <1>3. QED
    BY <1>1, <1>2 DEF IInv

\* Every step keeps the invariant.
LEMMA InvStep == IInv /\ [Next]_vars => IInv'
  <1> SUFFICES ASSUME IInv, [Next]_vars PROVE IInv'
    OBVIOUS
  <1>1. CASE UNCHANGED vars
    BY <1>1
    DEF vars, redisVars, loopVars, IInv, TypeOK, Known, HandIsRight, HandOf, Current, Settled,
        NothingLost
  <1>2. QED
    BY <1>1, NextCases, OutsideSteps, IdleStep, StartStep, ReclaimStep, ReadStep,
       WorkingSteps

-----------------------------------------------------------------------------
(* Processing in the stream's order.                                       *)

\* The row shows the same entries while it does not change.
LEMMA RowAtStays ==
  ASSUME IInv, Lengthens, row' = row, NEW m \in 0 .. Len(stream), RowAt(m)
  PROVE  RowAt(m)'
  <1>1. Len(stream) \in Nat /\ \A j \in 1 .. m : j \in 1 .. Len(stream) /\ stream'[j] = stream[j]
    BY DEF IInv, TypeOK, Lengthens
  <1>2. CASE row = 0 /\ \A j \in 1 .. m : stream[j] \notin Event
    BY <1>1, <1>2 DEF RowAt
  <1>3. ASSUME NEW i \in 1 .. m, stream[i] \in Event, row = Left(stream[i]),
               \A j \in i + 1 .. m : stream[j] \notin Event
        PROVE  RowAt(m)'
    <2>1. PICK k : k = stream[i]
      OBVIOUS
    <2>2. k \in 1 .. Len(history)
      <3>1. k \in Event /\ k <= Len(history)
        BY <1>1, <1>3, <2>1 DEF IInv, Known
      <3>2. QED
        BY <3>1 DEF Event, IInv, TypeOK
    <2>3. row' = IF history'[k] = "deleted" THEN 0 ELSE k
      BY <1>3, <2>1, <2>2 DEF Left, Lengthens
    <2>4. stream'[i] = k
      BY <1>1, <2>1
    <2>5. ASSUME NEW j \in i + 1 .. m PROVE stream'[j] \notin Event
      <3>1. j \in 1 .. m
        BY <1>1
      <3>2. QED
        BY <1>1, <1>3, <3>1
    <2>6. QED
      BY <1>3, <2>1, <2>3, <2>4, <2>5 DEF RowAt, Left
  <1>4. QED
    BY <1>2, <1>3 DEF RowAt

\* An entry that is no event changes nothing.
LEMMA RowAtNext ==
  ASSUME NEW i \in Nat \ {0}, RowAt(i - 1), stream[i] \notin Event
  PROVE  RowAt(i)
  <1>1. CASE row = 0 /\ \A j \in 1 .. i - 1 : stream[j] \notin Event
    <2>1. \A j \in 1 .. i : j = i \/ j \in 1 .. i - 1
      OBVIOUS
    <2>2. QED
      BY <1>1, <2>1 DEF RowAt
  <1>2. ASSUME NEW k \in 1 .. i - 1, stream[k] \in Event, row = Left(stream[k]),
               \A j \in k + 1 .. i - 1 : stream[j] \notin Event
        PROVE  RowAt(i)
    <2>1. k \in 1 .. i /\ \A j \in k + 1 .. i : j = i \/ j \in k + 1 .. i - 1
      OBVIOUS
    <2>2. QED
      BY <1>2, <2>1 DEF RowAt
  <1>3. QED
    BY <1>1, <1>2 DEF RowAt

\* The same for what UpTo says, if nothing pending or dead disappears.
LEMMA UpToStays ==
  ASSUME IInv, Lengthens, row' = row, pel \subseteq pel', dlq \subseteq dlq',
         NEW m \in 0 .. Len(stream)
  PROVE  (Clean(m)' => Clean(m)) /\ (UpTo(m) => UpTo(m)')
  <1>1. Clean(m)' => Clean(m)
    BY DEF Clean
  <1>2. RowAt(m) => RowAt(m)'
    BY RowAtStays
  <1>3. QED
    BY <1>1, <1>2 DEF UpTo

\* The events stay in order when crm-auth appends its newest, or something else is
\* appended.
LEMMA InOrderStays ==
  ASSUME IInv, InOrder, Lengthens,
         \/ UNCHANGED <<stream, history>>
         \/ \E x \in Entry :
              /\ Len(stream') = Len(stream) + 1 /\ stream'[Len(stream) + 1] = x
              /\ x \in Event => x = Len(history')
              /\ history' = history \/ x = Len(history')
  PROVE  InOrder'
  <1>1. CASE UNCHANGED <<stream, history>>
    BY <1>1 DEF InOrder
  <1>2. ASSUME NEW x \in Entry,
               Len(stream') = Len(stream) + 1, stream'[Len(stream) + 1] = x,
               x \in Event => x = Len(history'),
               history' = history \/ x = Len(history')
        PROVE  InOrder'
    <2>1. /\ Len(stream) \in Nat /\ Len(history) \in Nat /\ Len(history') \in Nat
          /\ Len(history) <= Len(history')
      BY DEF IInv, TypeOK, Lengthens
    <2>2. ASSUME NEW i \in 1 .. Len(stream'), NEW j \in 1 .. Len(stream'),
                 i < j, stream'[i] \in Event, stream'[j] \in Event
          PROVE  stream'[i] <= stream'[j]
      <3>1. i \in 1 .. Len(stream) /\ stream'[i] = stream[i]
        <4>1. i \in 1 .. Len(stream)
          BY <1>2, <2>1, <2>2
        <4>2. QED
          BY <4>1 DEF Lengthens
      <3>2. CASE j = Len(stream) + 1
        <4>1. stream[i] <= Len(history) /\ stream[i] \in Int
          BY <2>2, <3>1 DEF IInv, Known, Event
        <4>2. stream'[j] = Len(history')
          BY <1>2, <2>2, <3>2
        <4>3. QED
          BY <2>1, <3>1, <4>1, <4>2
      <3>3. CASE j # Len(stream) + 1
        <4>1. j \in 1 .. Len(stream)
          BY <1>2, <2>1, <3>3
        <4>2. stream'[j] = stream[j]
          BY <4>1 DEF Lengthens
        <4>3. QED
          BY <2>2, <3>1, <4>1, <4>2 DEF InOrder
      <3>4. QED
        BY <3>2, <3>3
    <2>3. ASSUME history' # <<>> PROVE \E i \in 1 .. Len(stream') : stream'[i] = Len(history')
      <3>1. CASE x = Len(history')
        <4>1. Len(stream) + 1 \in 1 .. Len(stream')
          BY <1>2, <2>1
        <4>2. QED
          BY <1>2, <3>1, <4>1
      <3>2. CASE history' = history
        <4>1. PICK i \in 1 .. Len(stream) : stream[i] = Len(history)
          BY <2>3, <3>2 DEF InOrder
        <4>2. i \in 1 .. Len(stream') /\ stream'[i] = stream[i]
          BY <1>2, <2>1 DEF Lengthens
        <4>3. QED
          BY <3>2, <4>1, <4>2
      <3>3. QED
        BY <1>2, <3>1, <3>2
    <2>4. QED
      BY <2>2, <2>3 DEF InOrder
  <1>3. QED
    BY <1>1, <1>2

\* Steps that leave the row and the pending entries alone, and each consumer what it
\* has or without a batch.
LEMMA OrderlyStays ==
  ASSUME IInv, Orderly, Lengthens, InOrder', UNCHANGED <<last, row, pel>>, dlq \subseteq dlq',
         \A d \in Consumer : queue'[d] = {} \/ (queue'[d] = queue[d] /\ pc'[d] = pc[d])
  PROVE  Orderly'
  <1>0. Len(stream) \in Nat /\ last \in 0 .. Len(stream)
    BY DEF IInv, TypeOK
  <1>1. \A m \in 0 .. Len(stream) : (Clean(m)' => Clean(m)) /\ (UpTo(m) => UpTo(m)')
    BY UpToStays
  <1>2. UpTo(last)'
    <2>1. PICK m : m = last
      OBVIOUS
    <2>2. UpTo(m)'
      BY <1>0, <1>1, <2>1 DEF Orderly
    <2>3. QED
      BY <2>1, <2>2 DEF UpTo, Clean, RowAt
  <1>3. ASSUME NEW d \in Consumer, queue'[d] # {} PROVE BatchOf(d)'
    <2>1. queue'[d] = queue[d] /\ pc'[d] = pc[d] /\ BatchOf(d)
      BY <1>3 DEF Orderly
    <2>2. PICK i : i = Current(d)
      OBVIOUS
    <2>3. Current(d)' = i
      BY <2>1, <2>2 DEF Current
    <2>4. i \in 1 .. last /\ i \in 1 .. Len(stream)
      BY <1>3, <2>1, <2>2, CurrentIs DEF IInv
    <2>5. i \in 0 .. Len(stream) /\ i - 1 \in 0 .. Len(stream)
      BY <1>0, <2>4
    <2>6. (RowAt(i) => RowAt(i)')
      BY <2>5, RowAtStays
    <2>7. PICK h : h = i - 1
      OBVIOUS
    <2>8. (Clean(h)' => Clean(h)) /\ (UpTo(h) => UpTo(h)') /\ (UpTo(i) => UpTo(i)')
      BY <1>1, <2>5, <2>7
    <2>9. /\ \A x \in queue[d], y \in 1 .. last : x <= y => y \in queue[d]
          /\ queue[d] \ {i} \subseteq pel
          /\ pc[d] \in {"validate", "handle"} => i \in pel /\ UpTo(h)
          /\ pc[d] \in {"ack", "ackDead"} => (Clean(h) => RowAt(i))
          /\ pc[d] \in {"failed", "dlq"} => UpTo(i)
      BY <2>1, <2>2, <2>7 DEF BatchOf
    <2>10. /\ \A x \in queue'[d], y \in 1 .. last' : x <= y => y \in queue'[d]
           /\ queue'[d] \ {i} \subseteq pel'
           /\ pc'[d] \in {"validate", "handle"} => i \in pel' /\ UpTo(h)'
           /\ pc'[d] \in {"ack", "ackDead"} => (Clean(h)' => RowAt(i)')
           /\ pc'[d] \in {"failed", "dlq"} => UpTo(i)'
      BY <2>1, <2>6, <2>8, <2>9
    <2>11. QED
      BY <2>3, <2>7, <2>10 DEF BatchOf
  <1>4. ASSUME NEW c \in Consumer, NEW d \in Consumer, queue'[c] # {}, queue'[d] # {}
        PROVE  c = d
    BY <1>4 DEF Orderly
  <1>5. QED
    BY <1>2, <1>3, <1>4 DEF Orderly

\* Steps of the one consumer that has a batch.
LEMMA OrderlyAtWork ==
  ASSUME Orderly, InOrder', NEW c \in Consumer, queue[c] # {},
         \A d \in Consumer \ {c} : queue'[d] = queue[d],
         UpTo(last)', queue'[c] # {} => BatchOf(c)'
  PROVE  Orderly'
  <1>1. ASSUME NEW d \in Consumer, queue'[d] # {} PROVE d = c
    BY <1>1 DEF Orderly
  <1>2. QED
    BY <1>1 DEF Orderly

\* What BatchOf says, with a name for the entry in hand and for the one before.
LEMMA BatchIs ==
  ASSUME IInv, Orderly, NEW c \in Consumer, queue[c] # {}, NEW i, i = Current(c), NEW h, h = i - 1
  PROVE  /\ i \in queue[c] /\ i \in 1 .. last /\ i \in 1 .. Len(stream) /\ i \in 0 .. Len(stream)
         /\ h \in 0 .. Len(stream) /\ i = h + 1 /\ i \in Nat \ {0}
         /\ last \in Nat /\ last \in 0 .. Len(stream) /\ Len(stream) \in Nat /\ pel \subseteq 1 .. last
         /\ \A x \in queue[c] : i <= x
         /\ \A x \in queue[c], y \in 1 .. last : x <= y => y \in queue[c]
         /\ queue[c] \subseteq 1 .. last /\ queue[c] \ {i} \subseteq pel
         /\ pc[c] \in {"validate", "handle"} => i \in pel /\ UpTo(h)
         /\ pc[c] \in {"ack", "ackDead"} => (Clean(h) => RowAt(i))
         /\ pc[c] \in {"failed", "dlq"} => UpTo(i)
  <1>1. BatchOf(c)
    BY DEF Orderly
  <1>2. /\ \A x \in queue[c], y \in 1 .. last : x <= y => y \in queue[c]
        /\ queue[c] \ {i} \subseteq pel
        /\ pc[c] \in {"validate", "handle"} => i \in pel /\ UpTo(h)
        /\ pc[c] \in {"ack", "ackDead"} => (Clean(h) => RowAt(i))
        /\ pc[c] \in {"failed", "dlq"} => UpTo(i)
    BY <1>1 DEF BatchOf
  <1>3. /\ i \in queue[c] /\ i \in 1 .. last /\ i \in 1 .. Len(stream)
        /\ \A x \in queue[c] : i <= x
    BY CurrentIs DEF IInv
  <1>4. /\ last \in Nat /\ last \in 0 .. Len(stream) /\ Len(stream) \in Nat /\ pel \subseteq 1 .. last
        /\ queue[c] \subseteq 1 .. last
    BY DEF IInv, TypeOK
  <1>5. h \in 0 .. Len(stream) /\ i = h + 1 /\ i \in Nat \ {0} /\ i \in 0 .. Len(stream)
    BY <1>3, <1>4
  <1>6. QED
    BY <1>2, <1>3, <1>4, <1>5

\* A pending entry is in the way of being clean.
LEMMA PendingUpTo ==
  ASSUME NEW m \in Int, NEW i \in Int, i <= m, i \in pel
  PROVE  ~ Clean(m) /\ UpTo(m)
  BY DEF Clean, UpTo

\* The same in the state after a step.
LEMMA PendingUpToNext ==
  ASSUME NEW m \in Int, NEW i \in Int, i <= m, i \in pel'
  PROVE  ~ Clean(m)' /\ UpTo(m)'
  BY DEF Clean, UpTo

\* The batch of the consumer that keeps it, in the state after a step.
LEMMA BatchNext ==
  ASSUME NEW c \in Consumer, NEW i, Current(c)' = i, NEW h, h = i - 1,
         \A x \in queue'[c], y \in 1 .. last' : x <= y => y \in queue'[c],
         queue'[c] \ {i} \subseteq pel',
         pc'[c] \in {"validate", "handle"} => i \in pel' /\ UpTo(h)',
         pc'[c] \in {"ack", "ackDead"} => (Clean(h)' => RowAt(i)'),
         pc'[c] \in {"failed", "dlq"} => UpTo(i)'
  PROVE  BatchOf(c)'
  BY DEF BatchOf

\* Going on to the next entry.
LEMMA ContinueBatch ==
  ASSUME IInv, Orderly, NEW c \in Consumer, queue[c] # {}, Continue(c), last' = last,
         NEW i, i = Current(c), pel \ {i} \subseteq pel', UpTo(i)', queue'[c] # {}
  PROVE  BatchOf(c)'
  <1>1. PICK h : h = i - 1
    OBVIOUS
  <1>2. /\ i \in queue[c] /\ i \in 1 .. last /\ last \in Nat /\ i \in Nat
        /\ queue[c] \subseteq 1 .. last /\ queue[c] \ {i} \subseteq pel
        /\ \A x \in queue[c] : i <= x
        /\ \A x \in queue[c], y \in 1 .. last : x <= y => y \in queue[c]
    BY <1>1, BatchIs
  <1>3. queue'[c] = queue[c] \ {i}
    BY DEF Continue, IInv, TypeOK
  <1>4. pc'[c] = "validate"
    BY <1>3 DEF Continue, IInv, TypeOK
  <1>5. PICK x \in queue'[c] : TRUE
    OBVIOUS
  <1>6. x \in queue[c] /\ x # i /\ x \in 1 .. last /\ i <= x
    BY <1>2, <1>3, <1>5
  <1>7. PICK k : k = i + 1
    OBVIOUS
  <1>8. k \in 1 .. last /\ i <= k /\ k # i
    BY <1>2, <1>6, <1>7
  <1>9. k \in queue[c]
    BY <1>2, <1>8
  <1>10. \A y \in queue'[c] : k <= y
    BY <1>2, <1>3, <1>7
  <1>11. Current(c)' = k
    <2>1. queue'[c] \subseteq Nat /\ k \in queue'[c]
      BY <1>2, <1>3, <1>8, <1>9
    <2>2. Min(queue'[c]) \in queue'[c] /\ \A y \in queue'[c] : Min(queue'[c]) <= y
      BY <2>1, MinIs
    <2>3. PICK z : z = Min(queue'[c])
      OBVIOUS
    <2>4. z \in Nat /\ k \in Nat /\ z <= k /\ k <= z
      BY <1>10, <2>1, <2>2, <2>3
    <2>5. z = k
      BY <2>4
    <2>6. QED
      BY <2>3, <2>5 DEF Current
  <1>12. i = k - 1
    BY <1>2, <1>7
  <1>13. \A y \in queue'[c], z \in 1 .. last' : y <= z => z \in queue'[c]
    <2>1. ASSUME NEW y \in queue'[c], NEW z \in 1 .. last, y <= z PROVE z \in queue'[c]
      <3>1. y \in queue[c] /\ y # i /\ y \in 1 .. last /\ i <= y
        BY <1>2, <1>3
      <3>2. z \in queue[c]
        BY <1>2, <2>1, <3>1
      <3>3. z # i
        BY <1>2, <2>1, <3>1
      <3>4. QED
        BY <1>3, <3>2, <3>3
    <2>2. QED
      BY <2>1
  <1>14. queue'[c] \ {k} \subseteq pel' /\ k \in pel'
    BY <1>2, <1>3, <1>8, <1>9
  <1>15. QED
    BY <1>4, <1>11, <1>12, <1>13, <1>14, BatchNext

\* A confirmed entry is in the row already.
LEMMA AckOrder ==
  ASSUME IInv, Orderly, Lengthens, NEW c \in Consumer, pc[c] \in {"ack", "ackDead"}, queue[c] # {},
         NEW i, i = Current(c), pel' \in {pel, pel \ {i}}, UNCHANGED <<last, row, dlq>>
  PROVE  UpTo(i)' /\ UpTo(last)'
  <1>1. PICK h : h = i - 1
    OBVIOUS
  <1>2. /\ i \in queue[c] /\ i \in 1 .. last /\ last \in Nat /\ i \in Nat /\ i = h + 1
        /\ i \in 0 .. Len(stream) /\ pel \subseteq 1 .. last
        /\ queue[c] \subseteq 1 .. last /\ queue[c] \ {i} \subseteq pel
        /\ \A x \in queue[c], y \in 1 .. last : x <= y => y \in queue[c]
        /\ Clean(h) => RowAt(i)
    BY <1>1, BatchIs
  <1>3. RowAt(i) => RowAt(i)'
    BY <1>2, RowAtStays
  <1>4. Clean(i)' => Clean(h)
    <2>1. ASSUME Clean(i)', NEW x \in pel PROVE x > h
      <3>1. x = i \/ x \in pel'
        OBVIOUS
      <3>2. x \in pel' => x > i
        BY <2>1 DEF Clean
      <3>3. x \in Int /\ h \in Int
        BY <1>1, <1>2
      <3>4. QED
        BY <1>2, <3>1, <3>2, <3>3
    <2>2. Clean(i)' => dlq = {}
      BY DEF Clean
    <2>3. QED
      BY <2>1, <2>2 DEF Clean
  <1>5. UpTo(i)'
    BY <1>2, <1>3, <1>4 DEF UpTo
  <1>6. PICK m : m = last
    OBVIOUS
  <1>7. UpTo(m)'
    <2>1. CASE m = i
      BY <1>5, <2>1
    <2>2. CASE m # i
      <3>1. m \in queue[c]
        BY <1>2, <1>6
      <3>2. m \in pel'
        BY <1>2, <2>2, <3>1
      <3>3. m \in Int
        BY <1>2, <1>6
      <3>4. m <= m
        BY <3>3
      <3>5. QED
        BY <3>2, <3>3, <3>4, PendingUpToNext
    <2>3. QED
      BY <2>1, <2>2
  <1>8. QED
    BY <1>5, <1>6, <1>7 DEF UpTo, Clean, RowAt

\* A consumer at work keeps to the order.
LEMMA WorkOrder ==
  ASSUME IInv, Orderly, NEW c \in Consumer,
         \/ \E n \in 1 .. MaxRetries : Validate(c, n)
         \/ HandleAuthEvent(c) \/ HandlerFails(c) \/ Ack(c) \/ AckFails(c) \/ Failed(c)
         \/ SendToDlq(c) \/ SendToDlqFails(c)
  PROVE  Orderly'
  <1>i. PICK i : i = Current(c)
    OBVIOUS
  <1>h. PICK h : h = i - 1
    OBVIOUS
  <1>m. PICK m : m = last
    OBVIOUS
  <1>1. UNCHANGED <<history, stream, last, disorder>>
    BY DEF Validate, HandleAuthEvent, HandlerFails, Ack, AckFails, Failed, SendToDlq,
           SendToDlqFails, redisVars
  <1>2. Lengthens /\ InOrder'
    <2>1. Lengthens
      BY <1>1, SameLengthens DEF IInv
    <2>2. QED
      BY <1>1, <2>1, InOrderStays DEF Orderly
  <1>3. queue[c] # {} /\ \A d \in Consumer \ {c} : queue'[d] = queue[d] /\ pc'[d] = pc[d]
    <2>1. pc[c] \in InHand
      BY DEF Validate, HandleAuthEvent, HandlerFails, Ack, AckFails, Failed, SendToDlq,
             SendToDlqFails, InHand
    <2>2. queue[c] # {}
      BY <2>1 DEF IInv, HandIsRight, HandOf
    <2>3. ASSUME NEW d \in Consumer \ {c} PROVE queue'[d] = queue[d] /\ pc'[d] = pc[d]
      BY DEF Validate, HandleAuthEvent, HandlerFails, Ack, AckFails, Failed, SendToDlq,
             SendToDlqFails, Continue, Abandon, IInv, TypeOK
    <2>4. QED
      BY <2>2, <2>3
  <1>4. /\ i \in queue[c] /\ i \in 1 .. last /\ i \in 1 .. Len(stream) /\ i \in 0 .. Len(stream)
        /\ h \in 0 .. Len(stream) /\ i = h + 1 /\ i \in Nat \ {0}
        /\ m \in Nat /\ m \in 0 .. Len(stream) /\ i <= m
        /\ \A x \in queue[c], y \in 1 .. last : x <= y => y \in queue[c]
        /\ queue[c] \ {i} \subseteq pel
        /\ pc[c] \in {"validate", "handle"} => i \in pel /\ UpTo(h)
        /\ pc[c] \in {"ack", "ackDead"} => (Clean(h) => RowAt(i))
        /\ pc[c] \in {"failed", "dlq"} => UpTo(i)
    BY <1>i, <1>h, <1>m, <1>3, BatchIs
  <1>5. ASSUME UNCHANGED <<row, pel>>, dlq \subseteq dlq'
        PROVE  /\ UpTo(m)' /\ (UpTo(h) => UpTo(h)') /\ (UpTo(i) => UpTo(i)')
               /\ (Clean(h)' => Clean(h)) /\ (RowAt(i) => RowAt(i)')
    <2>1. UpTo(m)
      BY <1>m DEF Orderly
    <2>2. QED
      BY <1>2, <1>4, <1>5, <2>1, UpToStays, RowAtStays
  <1>6. ASSUME UpTo(m)', queue'[c] # {} => BatchOf(c)' PROVE Orderly'
    <2>1. UpTo(last)'
      BY <1>m, <1>1, <1>6 DEF UpTo, Clean, RowAt
    <2>2. QED
      BY <1>2, <1>3, <1>6, <2>1, OrderlyAtWork
  <1>7. ASSUME queue' = queue,
               queue[c] \ {i} \subseteq pel',
               pc'[c] \in {"validate", "handle"} => i \in pel' /\ UpTo(h)',
               pc'[c] \in {"ack", "ackDead"} => (Clean(h)' => RowAt(i)'),
               pc'[c] \in {"failed", "dlq"} => UpTo(i)'
        PROVE  BatchOf(c)'
    <2>1. Current(c)' = i
      BY <1>i, <1>7 DEF Current
    <2>2. \A x \in queue'[c], y \in 1 .. last' : x <= y => y \in queue'[c]
      BY <1>1, <1>4, <1>7
    <2>3. QED
      BY <1>h, <1>7, <2>1, <2>2, BatchNext
  <1>8. ASSUME NEW n \in 1 .. MaxRetries, Validate(c, n) PROVE Orderly'
    <2>1. /\ pc[c] = "validate"
          /\ UNCHANGED <<queue, row, pel, dlq>>
      BY <1>8 DEF Validate, redisVars
    <2>2. PICK l \in {"ackDead", "dlq", "handle"} :
            pc'[c] = l /\ (l = "ackDead" => stream[i] = Shutdown)
      BY <1>i, <1>8 DEF Validate, IInv, TypeOK
    <2>3. UpTo(m)' /\ UpTo(h)' /\ (Clean(h)' => Clean(h)) /\ (RowAt(i) => RowAt(i)') /\ i \in pel'
      BY <1>4, <1>5, <2>1
    <2>4. l = "ackDead" => (Clean(h)' => RowAt(i)')
      <3>1. ASSUME l = "ackDead", Clean(h)' PROVE RowAt(i)
        <4>1. RowAt(h)
          BY <1>4, <2>1, <2>3, <3>1 DEF UpTo
        <4>2. stream[i] \notin Event
          BY <2>2, <3>1 DEF Shutdown, Event
        <4>3. RowAt(i - 1)
          BY <1>h, <4>1
        <4>4. QED
          BY <1>4, <4>2, <4>3, RowAtNext
      <3>2. QED
        BY <2>3, <3>1
    <2>5. UpTo(i)'
      <3>1. i \in Int /\ i <= i
        BY <1>4
      <3>2. QED
        BY <2>3, <3>1, PendingUpToNext
    <2>6. BatchOf(c)'
      BY <1>4, <1>7, <2>1, <2>2, <2>3, <2>4, <2>5
    <2>7. QED
      BY <1>6, <2>3, <2>6
  <1>9. CASE HandleAuthEvent(c) \/ HandlerFails(c)
    <2>1. pc[c] = "handle" /\ UNCHANGED <<queue, pel, dlq>>
      BY <1>9 DEF HandleAuthEvent, HandlerFails, redisVars
    <2>2. i \in pel'
      BY <1>4, <2>1
    <2>3. UpTo(m)' /\ UpTo(i)'
      <3>1. i \in Int /\ i <= i /\ m \in Int
        BY <1>4
      <3>2. QED
        BY <1>4, <2>2, <3>1, PendingUpToNext
    <2>4. PICK l \in {"ack", "failed"} : pc'[c] = l /\ (l = "ack" => Apply(stream[i]))
      BY <1>i, <1>9 DEF HandleAuthEvent, HandlerFails, IInv, TypeOK
    <2>5. l = "ack" => RowAt(i)'
      <3>1. ASSUME l = "ack" PROVE RowAt(i)'
        <4>1. stream[i] \in Event
          BY <1>i, <2>1 DEF IInv, HandIsRight, HandOf
        <4>2. row' = IF history[stream[i]] = "deleted" THEN 0 ELSE stream[i]
          BY <2>4, <3>1 DEF Apply, AnonymizeUserPII, UpsertUserIdentitySnapshot
        <4>3. i \in 1 .. i /\ \A j \in i + 1 .. i : FALSE
          BY <1>4
        <4>4. QED
          BY <1>1, <4>1, <4>2, <4>3 DEF RowAt, Left
      <3>2. QED
        BY <3>1
    <2>6. BatchOf(c)'
      BY <1>4, <1>7, <2>1, <2>3, <2>4, <2>5
    <2>7. QED
      BY <1>6, <2>3, <2>6
  <1>10. CASE Ack(c) \/ AckFails(c)
    <2>1. /\ pc[c] \in {"ack", "ackDead"} /\ pel' \in {pel, pel \ {i}}
          /\ UNCHANGED <<last, row, dlq>>
      BY <1>i, <1>10 DEF Ack, AckFails
    <2>2. UpTo(i)' /\ UpTo(last)'
      BY <1>i, <1>2, <1>3, <2>1, AckOrder
    <2>3. UpTo(m)'
      BY <1>m, <1>1, <2>2 DEF UpTo, Clean, RowAt
    <2>4. CASE Continue(c)
      <3>1. queue'[c] # {} => BatchOf(c)'
        BY <1>i, <1>1, <1>3, <2>1, <2>2, <2>4, ContinueBatch
      <3>2. QED
        BY <1>6, <2>3, <3>1
    <2>5. CASE Abandon(c)
      <3>1. queue'[c] = {}
        BY <2>5 DEF Abandon, IInv, TypeOK
      <3>2. QED
        BY <1>6, <2>3, <3>1
    <2>6. CASE pc' = [pc EXCEPT ![c] = "failed"] /\ queue' = queue
      <3>1. pc'[c] = "failed"
        BY <2>6 DEF IInv, TypeOK
      <3>2. queue[c] \ {i} \subseteq pel'
        BY <1>4, <2>1
      <3>3. BatchOf(c)'
        BY <1>7, <2>2, <2>6, <3>1, <3>2
      <3>4. QED
        BY <1>6, <2>3, <3>3
    <2>7. QED
      BY <1>10, <2>4, <2>5, <2>6 DEF Ack, AckFails
  <1>11. CASE Failed(c)
    <2>1. pc[c] = "failed" /\ UNCHANGED <<row, pel, dlq>>
      BY <1>11 DEF Failed, redisVars
    <2>2. UpTo(m)' /\ UpTo(i)'
      BY <1>4, <1>5, <2>1
    <2>3. CASE Continue(c)
      <3>1. queue'[c] # {} => BatchOf(c)'
        BY <1>i, <1>1, <1>3, <2>1, <2>2, <2>3, ContinueBatch
      <3>2. QED
        BY <1>6, <2>2, <3>1
    <2>4. CASE pc' = [pc EXCEPT ![c] = "dlq"] /\ queue' = queue
      <3>1. pc'[c] = "dlq"
        BY <2>4 DEF IInv, TypeOK
      <3>2. queue[c] \ {i} \subseteq pel'
        BY <1>4, <2>1
      <3>3. BatchOf(c)'
        BY <1>7, <2>2, <2>4, <3>1, <3>2
      <3>4. QED
        BY <1>6, <2>2, <3>3
    <2>5. QED
      BY <1>11, <2>3, <2>4 DEF Failed
  <1>12. CASE SendToDlq(c)
    <2>1. /\ pc[c] = "dlq" /\ UNCHANGED <<queue, row, pel>> /\ dlq' = dlq \cup {i}
          /\ pc'[c] = "ackDead"
      BY <1>i, <1>12 DEF SendToDlq, AppendAuthEventToDlq, redisVars, IInv, TypeOK
    <2>2. UpTo(m)' /\ ~ Clean(h)'
      BY <1>5, <2>1 DEF Clean
    <2>3. queue[c] \ {i} \subseteq pel'
      BY <1>4, <2>1
    <2>4. BatchOf(c)'
      BY <1>7, <2>1, <2>2, <2>3
    <2>5. QED
      BY <1>6, <2>2, <2>4
  <1>13. CASE SendToDlqFails(c)
    <2>1. /\ UNCHANGED <<row, pel>> /\ dlq \subseteq dlq' /\ queue'[c] = {}
      BY <1>13 DEF SendToDlqFails, AppendAuthEventToDlq, Abandon, redisVars, IInv, TypeOK
    <2>2. UpTo(m)'
      BY <1>5, <2>1
    <2>3. QED
      BY <1>6, <2>1, <2>2
  <1>14. QED
    BY <1>1, <1>8, <1>9, <1>10, <1>11, <1>12, <1>13

\* A batch that XREADGROUP returns in order follows all that was delivered before.
LEMMA ReadOrder ==
  ASSUME IInv, Orderly, NEW c \in Consumer, Read(c), ~ disorder'
  PROVE  Orderly'
  <1>1. PICK S : S = Fresh
    OBVIOUS
  <1>m. PICK m : m = last
    OBVIOUS
  <1>2. /\ pc[c] = "read" /\ Begin(c, "read", S) /\ pel' = pel \cup S
        /\ disorder' = (disorder \/ (S # {} /\ \E d \in Consumer : queue[d] # {}))
        /\ UNCHANGED <<history, stream, idle, row, applied, dlq, wanted>>
    BY <1>1, Zenon DEF Read, Fresh
  <1>3. IInv' /\ last' \in m .. Len(stream) /\ S = m + 1 .. last'
    BY <1>1, <1>m, ReadStep
  <1>4. ~ disorder /\ (S # {} => \A d \in Consumer : queue[d] = {})
    BY <1>2
  <1>5. Lengthens /\ InOrder'
    <2>1. Lengthens
      BY <1>2, SameLengthens DEF IInv
    <2>2. QED
      BY <1>2, <2>1, InOrderStays DEF Orderly
  <1>6. queue' = [queue EXCEPT ![c] = S]
    BY <1>2 DEF Begin
  <1>7. queue'[c] = S /\ \A d \in Consumer \ {c} : queue'[d] = queue[d] /\ pc'[d] = pc[d]
    BY <1>2, <1>6 DEF Begin, IInv, TypeOK
  <1>8. m \in Nat /\ last' \in Nat /\ m <= last' /\ m \in 0 .. Len(stream)
    BY <1>m, <1>3 DEF IInv, TypeOK
  <1>9. CASE S = {}
    <2>1. last' = last
      <3>1. ~ (m + 1 <= last')
        <4>1. m + 1 <= last' => m + 1 \in m + 1 .. last'
          BY <1>8
        <4>2. QED
          BY <1>3, <1>9, <4>1
      <3>2. QED
        BY <1>m, <1>8, <3>1
    <2>2. \A d \in Consumer : queue'[d] = {} \/ (queue'[d] = queue[d] /\ pc'[d] = pc[d])
      BY <1>7, <1>9
    <2>3. UNCHANGED <<last, row, pel>> /\ dlq \subseteq dlq'
      BY <1>2, <1>9, <2>1
    <2>4. QED
      BY <1>4, <1>5, <2>2, <2>3, OrderlyStays
  <1>10. CASE S # {}
    <2>1. m + 1 <= last'
      <3>1. PICK x \in S : TRUE
        BY <1>10
      <3>2. x \in m + 1 .. last'
        BY <1>3, <3>1
      <3>3. QED
        BY <1>8, <3>2
    <2>2. m + 1 \in S /\ last' \in S /\ S \subseteq Nat
      <3>1. m + 1 \in m + 1 .. last' /\ last' \in m + 1 .. last' /\ m + 1 .. last' \subseteq Nat
        BY <1>8, <2>1
      <3>2. QED
        BY <1>3, <3>1
    <2>3. PICK k : k = m + 1
      OBVIOUS
    <2>4. Current(c)' = k
      <3>1. Min(S) \in S /\ \A y \in S : Min(S) <= y
        BY <2>2, MinIs
      <3>2. PICK z : z = Min(S)
        OBVIOUS
      <3>3. z \in m + 1 .. last' /\ z <= k
        BY <1>3, <2>2, <2>3, <3>1, <3>2
      <3>4. z = k
        BY <1>8, <2>3, <3>3
      <3>5. QED
        BY <1>7, <3>2, <3>4 DEF Current
    <2>5. UpTo(m)'
      <3>1. UpTo(m)
        BY <1>m DEF Orderly
      <3>2. row' = row /\ pel \subseteq pel' /\ dlq \subseteq dlq'
        BY <1>2
      <3>3. QED
        BY <1>5, <1>8, <3>1, <3>2, UpToStays
    <2>6. pc'[c] = "validate"
      BY <1>2, <1>10 DEF Begin, IInv, TypeOK
    <2>7. BatchOf(c)'
      <3>1. \A x \in queue'[c], y \in 1 .. last' : x <= y => y \in queue'[c]
        <4>1. ASSUME NEW x \in m + 1 .. last', NEW y \in 1 .. last', x <= y PROVE y \in m + 1 .. last'
          BY <1>8, <4>1
        <4>2. QED
          BY <1>3, <1>7, <4>1
      <3>2. queue'[c] \ {k} \subseteq pel' /\ k \in pel'
        BY <1>2, <1>7, <2>2, <2>3
      <3>3. m = k - 1
        BY <1>8, <2>3
      <3>4. QED
        BY <2>4, <2>5, <2>6, <3>1, <3>2, <3>3, BatchNext
    <2>8. UpTo(last)'
      <3>1. last' \in pel'
        BY <1>2, <2>2
      <3>2. QED
        BY <1>8, <3>1 DEF UpTo, Clean
    <2>9. ASSUME NEW d \in Consumer, queue'[d] # {} PROVE d = c
      BY <1>4, <1>7, <1>10, <2>9
    <2>10. QED
      BY <1>4, <1>5, <2>7, <2>8, <2>9 DEF Orderly
  <1>11. QED
    BY <1>9, <1>10

\* The other steps that do not disturb the order.
LEMMA OtherOrder ==
  ASSUME IInv, Orderly, ~ disorder',
         \/ \E kind \in {"upsert", "deleted"} : AuthEmit(kind)
         \/ \E x \in Broken : EmitBroken(x)
         \/ AuthReplay
         \/ \E i \in Id, r \in BOOLEAN : Replay(i, r)
         \/ \E i \in Id : IdleElapses(i)
         \/ \E c \in Consumer : Start(c) \/ Stop(c) \/ \E S \in SUBSET Id : Reclaim(c, S)
         \/ UNCHANGED vars
  PROVE  Orderly'
  <1> USE IdentityAssumption
  <1>0. /\ TypeOK /\ Known /\ InOrder /\ history \in Seq({"upsert", "deleted"})
        /\ Len(history) \in Nat /\ Len(history) <= NumEvents
    BY DEF IInv, TypeOK, Orderly
  <1>1. ASSUME NEW x \in Entry, Add(x), x \in Event => x = Len(history), history' = history
        PROVE  Lengthens /\ InOrder'
    <2>1. Lengthens /\ Len(stream') = Len(stream) + 1 /\ stream'[Len(stream) + 1] = x
      BY <1>0, <1>1, AppendLengthens
    <2>2. QED
      BY <1>0, <1>1, <2>1, InOrderStays
  <1>2. ASSUME UNCHANGED <<stream, history>> PROVE Lengthens /\ InOrder'
    <2>1. Lengthens
      BY <1>0, <1>2, SameLengthens
    <2>2. QED
      BY <1>0, <1>2, <2>1, InOrderStays
  <1>3. ASSUME NEW kind \in {"upsert", "deleted"}, AuthEmit(kind) PROVE Orderly'
    <2>1. /\ Len(history) < NumEvents /\ history' = Append(history, kind) /\ Add(Len(history) + 1)
          /\ UNCHANGED <<last, pel, row, dlq, pc, queue>>
      BY <1>3 DEF AuthEmit, redisVars, loopVars
    <2>2. /\ history' \in Seq({"upsert", "deleted"}) /\ Len(history') = Len(history) + 1
          /\ \A k \in 1 .. Len(history) : history'[k] = history[k]
      BY <1>0, <2>1
    <2>3. PICK x : x = Len(history) + 1
      OBVIOUS
    <2>4. x \in Entry /\ Len(history') <= NumEvents /\ x = Len(history')
      BY <1>0, <2>1, <2>2, <2>3 DEF Entry, Event
    <2>5. Lengthens /\ Len(stream') = Len(stream) + 1 /\ stream'[Len(stream) + 1] = x
      <3>1. Add(x)
        BY <2>1, <2>3
      <3>2. Len(history) <= Len(history') /\ x <= Len(history')
        BY <1>0, <2>2, <2>4
      <3>3. QED
        BY <1>0, <2>2, <2>4, <3>1, <3>2, AppendLengthens
    <2>6. InOrder'
      BY <1>0, <2>4, <2>5, InOrderStays
    <2>7. QED
      BY <2>1, <2>5, <2>6, OrderlyStays
  <1>4. ASSUME NEW x \in Broken, EmitBroken(x) PROVE Orderly'
    <2>1. Add(x) /\ UNCHANGED <<history, last, pel, row, dlq, pc, queue>>
      BY <1>4 DEF EmitBroken, redisVars, loopVars
    <2>2. x \in Entry /\ x \notin Event
      BY DEF Entry, Event
    <2>3. QED
      BY <1>1, <2>1, <2>2, OrderlyStays
  <1>5. CASE AuthReplay
    <2>1. /\ stream' = stream \/ (history # <<>> /\ Add(Len(history)))
          /\ UNCHANGED <<history, last, pel, row, dlq, pc, queue>>
      BY <1>5 DEF AuthReplay, redisVars, loopVars
    <2>2. Lengthens /\ InOrder'
      <3>1. CASE stream' = stream
        BY <1>2, <2>1, <3>1
      <3>2. CASE history # <<>> /\ Add(Len(history))
        <4>1. Len(history) \in Entry
          BY <1>0, <3>2 DEF Entry, Event
        <4>2. QED
          BY <1>1, <2>1, <3>2, <4>1
      <3>3. QED
        BY <2>1, <3>1, <3>2
    <2>3. QED
      BY <2>1, <2>2, OrderlyStays
  <1>6. ASSUME NEW i \in Id, NEW r \in BOOLEAN, Replay(i, r) PROVE FALSE
    BY <1>6 DEF Replay
  <1>7. ASSUME NEW i \in Id, IdleElapses(i) PROVE Orderly'
    <2>1. UNCHANGED <<stream, history, last, pel, row, dlq, pc, queue>>
      BY <1>7 DEF IdleElapses, loopVars
    <2>2. QED
      BY <1>2, <2>1, OrderlyStays
  <1>8. ASSUME NEW c \in Consumer, Start(c) PROVE Orderly'
    <2>1. /\ UNCHANGED <<stream, history, last, pel, row, dlq, queue>>
          /\ pc[c] = "down" /\ pc' = [pc EXCEPT ![c] = "reclaim"]
      BY <1>8 DEF Start, redisVars
    <2>2. queue[c] = {} /\ \A d \in Consumer \ {c} : pc'[d] = pc[d]
      BY <2>1 DEF IInv, TypeOK, HandIsRight, HandOf, InHand
    <2>3. \A d \in Consumer : queue'[d] = {} \/ (queue'[d] = queue[d] /\ pc'[d] = pc[d])
      BY <2>1, <2>2
    <2>4. QED
      BY <1>2, <2>1, <2>3, OrderlyStays
  <1>9. ASSUME NEW c \in Consumer, Stop(c) PROVE Orderly'
    <2>1. /\ stream' = stream \/ Add(Shutdown)
          /\ UNCHANGED <<history, last, pel, row, dlq>>
          /\ pc' = [pc EXCEPT ![c] = "down"] /\ queue' = [queue EXCEPT ![c] = {}]
      BY <1>9 DEF Stop, redisVars
    <2>2. \A d \in Consumer : queue'[d] = {} \/ (queue'[d] = queue[d] /\ pc'[d] = pc[d])
      BY <2>1 DEF IInv, TypeOK
    <2>3. Lengthens /\ InOrder'
      <3>1. Shutdown \in Entry /\ Shutdown \notin Event
        BY DEF Entry, Shutdown, Event
      <3>2. QED
        BY <1>1, <1>2, <2>1, <3>1
    <2>4. QED
      BY <2>1, <2>2, <2>3, OrderlyStays
  <1>10. ASSUME NEW c \in Consumer, NEW S \in SUBSET Id, Reclaim(c, S) PROVE Orderly'
    <2>1. /\ S = {} /\ Begin(c, "reclaim", S)
          /\ UNCHANGED <<stream, history, last, pel, row, dlq>>
      BY <1>10 DEF Reclaim
    <2>2. \A d \in Consumer : queue'[d] = {} \/ (queue'[d] = queue[d] /\ pc'[d] = pc[d])
      BY <2>1 DEF Begin, IInv, TypeOK
    <2>3. QED
      BY <1>2, <2>1, <2>2, OrderlyStays
  <1>11. CASE UNCHANGED vars
    <2>1. UNCHANGED <<stream, history, last, pel, row, dlq, pc, queue>>
      BY <1>11 DEF vars, redisVars, loopVars
    <2>2. QED
      BY <1>2, <2>1, OrderlyStays
  <1>12. QED
    BY <1>3, <1>4, <1>5, <1>6, <1>7, <1>8, <1>9, <1>10, <1>11

\* Once the order was left it stays so.
LEMMA DisorderStays ==
  ASSUME IInv, [Next]_vars, disorder
  PROVE  disorder'
  BY NextCases
  DEF AuthEmit, EmitBroken, AuthReplay, Replay, IdleElapses, Start, Stop, Reclaim, Read, Validate,
      HandleAuthEvent, HandlerFails, Ack, AckFails, Failed, SendToDlq, SendToDlqFails, vars

\* Every step keeps to the order, or is one that leaves it.
LEMMA OrderStep == IInv /\ OInv /\ [Next]_vars => OInv'
  <1> SUFFICES ASSUME IInv, OInv, [Next]_vars, ~ disorder' PROVE Orderly'
    BY DEF OInv
  <1>1. Orderly
    BY DisorderStays DEF OInv
  <1>2. QED
    BY <1>1, NextCases, WorkOrder, ReadOrder, OtherOrder

\* The row shows the last thing that happened when all entries were processed in order.
LEMMA OrderConverges == IInv /\ OInv => OrderlyConverges
  <1> SUFFICES ASSUME IInv, OInv, Quiet, ~ disorder PROVE IsCurrent
    BY DEF OrderlyConverges
  <1>1. /\ Orderly /\ Known /\ last = Len(stream) /\ Len(stream) \in Nat /\ Len(history) \in Nat
        /\ history \in Seq({"upsert", "deleted"})
    BY DEF OInv, IInv, TypeOK, Quiet
  <1>2. RowAt(Len(stream))
    BY <1>1 DEF Orderly, UpTo, Clean, Quiet
  <1>3. CASE history = <<>>
    <2>1. \A i \in 1 .. Len(stream) : stream[i] \notin Event
      BY <1>1, <1>3 DEF Known, Event
    <2>2. row = 0
      BY <1>2, <2>1 DEF RowAt
    <2>3. QED
      BY <1>3, <2>2 DEF IsCurrent, Deleted
  <1>4. CASE history # <<>>
    <2>1. PICK n \in 1 .. Len(stream) : stream[n] = Len(history)
      BY <1>1, <1>4 DEF Orderly, InOrder
    <2>2. Len(history) \in Event
      BY <1>1, <1>4 DEF Event, IInv, TypeOK
    <2>3. PICK i \in 1 .. Len(stream) :
            /\ stream[i] \in Event /\ row = Left(stream[i])
            /\ \A j \in i + 1 .. Len(stream) : stream[j] \notin Event
      BY <1>2, <2>1, <2>2 DEF RowAt
    <2>4. stream[i] = Len(history)
      <3>1. stream[i] <= Len(history) /\ stream[i] \in Int
        BY <1>1, <2>3 DEF Known, Event
      <3>2. CASE n = i
        BY <2>1, <3>2
      <3>3. CASE n < i
        <4>1. stream[n] <= stream[i]
          BY <1>1, <2>1, <2>2, <2>3, <3>3 DEF Orderly, InOrder
        <4>2. QED
          BY <1>1, <2>1, <3>1, <4>1
      <3>4. CASE n > i
        <4>1. n \in i + 1 .. Len(stream)
          BY <1>1, <3>4
        <4>2. QED
          BY <2>1, <2>2, <2>3, <4>1
      <3>5. QED
        BY <1>1, <3>2, <3>3, <3>4
    <2>5. QED
      BY <1>4, <2>3, <2>4 DEF IsCurrent, Deleted, Left
  <1>5. QED
    BY <1>3, <1>4

-----------------------------------------------------------------------------
(* Results.                                                                *)

\* Nothing was processed at the start.
LEMMA OrderInit == Init => OInv
  BY DEF Init, OInv, Orderly, InOrder, UpTo, Clean, RowAt

\* Both invariants hold in every reachable state.
LEMMA InvAlways == Spec => [](IInv /\ OInv)
  <1>1. Init => IInv /\ OInv
    BY InvInit, OrderInit
  <1>2. (IInv /\ OInv) /\ [Next]_vars => (IInv /\ OInv)'
    BY InvStep, OrderStep
  <1>3. QED
    BY <1>1, <1>2, PTL DEF Spec

\* The variables of the replica keep their types, whatever the limits.
THEOREM IdentityTypeCorrect == Spec => []TypeOK
  <1>1. IInv => TypeOK
    BY DEF IInv
  <1>2. QED
    BY <1>1, InvAlways, PTL

\* No identity event is lost: what is no longer pending was applied, is in the dead
\* letters or was put back from there, however many processes crash, take over each
\* other's entries and lose answers.
THEOREM IdentityNothingLost == Spec => []NothingLost
  <1>1. IInv => NothingLost
    BY DEF IInv
  <1>2. QED
    BY <1>1, InvAlways, PTL

\* The replica is right once everything is processed, as long as nothing made
\* processing leave the stream's order.
THEOREM IdentityOrderlyConverges == Spec => []OrderlyConverges
  BY InvAlways, OrderConverges, PTL

-----------------------------------------------------------------------------
(* The consumers keep the safety part of the promise of a consumer group.  *)

\* The stream is the same or one entry longer.
LongerAtMost == stream' = stream \/ \E x \in Entry : stream' = Append(stream, x)

\* What is settled stays settled as the stream grows and nothing leaves the dead
\* letters without being put back.
LEMMA EndedGrows ==
  ASSUME TypeOK, LongerAtMost, applied \subseteq applied',
         \A i \in dlq \ dlq' : \E j \in i + 1 .. Len(stream') : stream'[j] = stream[i]
  PROVE  Ended \subseteq Ended'
  <1> SUFFICES ASSUME NEW i \in Ended PROVE i \in Ended'
    OBVIOUS
  <1>1. /\ stream \in Seq(Entry) /\ Len(stream) \in Nat
    BY DEF TypeOK, Entry
  <1>2. /\ Len(stream') \in Nat /\ Len(stream) <= Len(stream')
        /\ \A j \in 1 .. Len(stream) : stream'[j] = stream[j]
    BY <1>1 DEF LongerAtMost
  <1>3. i \in 1 .. Len(stream) /\ Settled(i) /\ i \in 1 .. Len(stream') /\ stream'[i] = stream[i]
    BY <1>1, <1>2 DEF Ended
  <1>4. CASE stream[i] \in applied \cup {Shutdown}
    BY <1>3, <1>4 DEF Settled, Ended
  <1>5. CASE i \in dlq
    BY <1>3, <1>5 DEF Settled, Ended
  <1>6. CASE \E j \in i + 1 .. Len(stream) : stream[j] = stream[i]
    <2>1. PICK j \in i + 1 .. Len(stream) : stream[j] = stream[i]
      BY <1>6
    <2>2. j \in 1 .. Len(stream) /\ j \in i + 1 .. Len(stream')
      BY <1>1, <1>2, <1>3
    <2>3. stream'[j] = stream'[i]
      BY <1>2, <1>3, <2>1, <2>2
    <2>4. QED
      BY <1>3, <2>2, <2>3 DEF Settled, Ended
  <1>7. QED
    BY <1>3, <1>4, <1>5, <1>6 DEF Settled

\* More entries are settled, or nothing has changed for the group.
LEMMA GroupEnds ==
  ASSUME TypeOK', UNCHANGED <<last, pel>>, Ended \subseteq Ended'
  PROVE  [Group!Next]_(Group!vars)
  <1>1. PICK S : S = Ended'
    OBVIOUS
  <1>2. S \in SUBSET Id /\ Ended' = Ended \cup S
    BY <1>1, IdentityAssumption DEF Ended, TypeOK, Id
  <1>3. (1 .. last)' = 1 .. last /\ (1 .. last \ pel)' = 1 .. last \ pel
    OBVIOUS
  <1>4. QED
    BY <1>2, <1>3, Zenon DEF Group!Next, Group!End, Ended

\* Entries that were delivered and are settled are confirmed.
LEMMA GroupConfirms ==
  ASSUME NEW S \in SUBSET Id, S \subseteq 1 .. last, S \subseteq Ended, Ended' = Ended, last' = last,
         (1 .. last \ pel)' = (1 .. last \ pel) \cup S
  PROVE  [Group!Next]_(Group!vars)
  <1>1. (1 .. last)' = 1 .. last /\ S \subseteq (1 .. last) \cap Ended
    OBVIOUS
  <1>2. QED
    BY <1>1, Zenon DEF Group!Next, Group!Confirm, Ended

\* XREADGROUP delivers the next entries, none of them for the second time.
LEMMA ReadRefines ==
  ASSUME IInv, NEW c \in Consumer, Read(c)
  PROVE  [Group!Next]_(Group!vars)
  <1>1. last' \in last .. Len(stream) /\ Fresh = last + 1 .. last'
    BY ReadStep
  <1>2. last \in Nat /\ Len(stream) \in Nat /\ Len(stream) <= NumEntries /\ pel \subseteq 1 .. last
    BY DEF IInv, TypeOK
  <1>3. PICK S : S = last + 1 .. last'
    OBVIOUS
  <1>4. pel' = pel \cup S /\ UNCHANGED <<stream, applied, dlq>>
    BY <1>1, <1>3, Zenon DEF Read, Fresh
  <1>5. Ended' = Ended
    BY <1>4 DEF Ended, Settled
  <1>6. S \in SUBSET Id /\ S \cap (1 .. last) = {} /\ (1 .. last)' = (1 .. last) \cup S
    BY <1>1, <1>2, <1>3, IdentityAssumption DEF Id
  <1>7. (1 .. last \ pel)' = 1 .. last \ pel
    BY <1>4, <1>6
  <1>8. QED
    BY <1>5, <1>6, <1>7, Zenon DEF Group!Next, Group!Give, Ended

\* XACK confirms an entry that was delivered and is settled.
LEMMA AckRefines ==
  ASSUME IInv, NEW c \in Consumer, Ack(c) \/ AckFails(c)
  PROVE  [Group!Next]_(Group!vars)
  <1>i. PICK i : i = Current(c)
    OBVIOUS
  <1>1. /\ pc[c] \in {"ack", "ackDead"} /\ pel' \in {pel, pel \ {i}}
        /\ UNCHANGED <<stream, last, applied, dlq>>
    BY <1>i DEF Ack, AckFails
  <1>2. queue[c] # {} /\ Settled(i)
    BY <1>i, <1>1 DEF IInv, HandIsRight, HandOf, InHand, Settled
  <1>3. i \in 1 .. last /\ i \in 1 .. Len(stream) /\ Len(stream) \in Nat /\ Len(stream) <= NumEntries
        /\ pel \subseteq 1 .. last
    BY <1>i, <1>2, CurrentIs DEF IInv, TypeOK
  <1>4. i \in Id /\ i \in Ended
    BY <1>2, <1>3, IdentityAssumption DEF Ended, Id
  <1>5. Ended' = Ended
    BY <1>1 DEF Ended, Settled
  <1>6. PICK S : S = pel \ pel'
    OBVIOUS
  <1>7. S \subseteq {i} /\ (1 .. last \ pel)' = (1 .. last \ pel) \cup S
    BY <1>1, <1>3, <1>6
  <1>8. S \in SUBSET Id /\ S \subseteq 1 .. last /\ S \subseteq Ended
    BY <1>3, <1>4, <1>7
  <1>9. QED
    BY <1>1, <1>5, <1>7, <1>8, GroupConfirms

\* All other steps leave the pending list alone, and what is settled stays settled.
LEMMA QuietRefines ==
  ASSUME IInv, IInv',
         \/ \E kind \in {"upsert", "deleted"} : AuthEmit(kind)
         \/ \E x \in Broken : EmitBroken(x)
         \/ AuthReplay
         \/ \E i \in Id, r \in BOOLEAN : Replay(i, r)
         \/ \E i \in Id : IdleElapses(i)
         \/ \E c \in Consumer :
              \/ Start(c) \/ Stop(c)
              \/ \E S \in SUBSET Id : Reclaim(c, S)
              \/ \E n \in 1 .. MaxRetries : Validate(c, n)
              \/ HandleAuthEvent(c) \/ HandlerFails(c) \/ Failed(c)
              \/ SendToDlq(c) \/ SendToDlqFails(c)
  PROVE  [Group!Next]_(Group!vars)
  <1>1. UNCHANGED <<last, pel>> /\ applied \subseteq applied'
    BY
    DEF AuthEmit, EmitBroken, AuthReplay, Replay, IdleElapses, Start, Stop, Reclaim,
        Validate,
           HandleAuthEvent, HandlerFails, Apply, Failed, SendToDlq, SendToDlqFails, redisVars
  <1>2. stream' = stream \/ \E x : Add(x)
    BY
    DEF AuthEmit, EmitBroken, AuthReplay, Replay, IdleElapses, Start, Stop, Reclaim,
        Validate,
           HandleAuthEvent, HandlerFails, Failed, SendToDlq, SendToDlqFails
  <1>3. LongerAtMost
    <2>1. ASSUME NEW x, Add(x) PROVE x \in Entry
      <3>1. /\ stream' = Append(stream, x) /\ stream \in Seq(Entry) /\ stream' \in Seq(Entry)
            /\ Len(stream) \in Nat
        BY <2>1 DEF Add, IInv, TypeOK, Entry
      <3>2. Len(stream') = Len(stream) + 1 /\ stream'[Len(stream) + 1] = x
        BY <3>1
      <3>3. QED
        BY <3>1, <3>2
    <2>2. QED
      BY <1>2, <2>1 DEF Add, LongerAtMost
  <1>4. ASSUME NEW k \in dlq \ dlq'
        PROVE  \E j \in k + 1 .. Len(stream') : stream'[j] = stream[k]
    <2>1. ASSUME NEW i \in Id, NEW r \in BOOLEAN, Replay(i, r)
          PROVE  \E j \in k + 1 .. Len(stream') : stream'[j] = stream[k]
      <3>1. k = i /\ stream' = Append(stream, stream[i])
        BY <1>4, <2>1 DEF Replay, Add
      <3>2. stream \in Seq(Entry) /\ Len(stream) \in Nat /\ k \in 1 .. Len(stream)
        BY <1>4 DEF IInv, TypeOK, Entry
      <3>3. Len(stream') = Len(stream) + 1 /\ stream'[Len(stream) + 1] = stream[k]
        BY <3>1, <3>2
      <3>4. Len(stream) + 1 \in k + 1 .. Len(stream')
        BY <3>2, <3>3
      <3>5. QED
        BY <3>3, <3>4
    <2>2. dlq \subseteq dlq' \/ \E i \in Id, r \in BOOLEAN : Replay(i, r)
      BY
      DEF AuthEmit, EmitBroken, AuthReplay, IdleElapses, Start, Stop, Reclaim,
          Validate,
             HandleAuthEvent, HandlerFails, Failed, SendToDlq, SendToDlqFails, AppendAuthEventToDlq
    <2>3. QED
      BY <1>4, <2>1, <2>2
  <1>5. Ended \subseteq Ended'
    BY <1>1, <1>3, <1>4, EndedGrows DEF IInv
  <1>6. QED
    BY <1>1, <1>5, GroupEnds DEF IInv

\* Every step of the replica is a step of the group or a stutter.
LEMMA GroupStep == IInv /\ [Next]_vars => [Group!Next]_(Group!vars)
  <1> SUFFICES ASSUME IInv, [Next]_vars PROVE [Group!Next]_(Group!vars)
    OBVIOUS
  <1>0. IInv'
    BY InvStep
  <1>1. CASE UNCHANGED vars
    <2>1. UNCHANGED <<last, pel>> /\ Ended' = Ended
      BY <1>1 DEF vars, redisVars, Ended, Settled
    <2>2. QED
      BY <1>0, <2>1, GroupEnds DEF IInv
  <1>2. QED
    BY <1>0, <1>1, NextCases, ReadRefines, AckRefines, QuietRefines

\* Before anything is appended nothing is delivered, settled or confirmed.
LEMMA GroupInit == Init => Group!Init
  BY DEF Init, Group!Init, Ended

\* An identity event is delivered as new once only, leaves the pending list only after
\* it was applied, became a dead letter or was put back, and never becomes pending
\* again, whatever consumers crash, steal entries or lose answers.
THEOREM IdentityImplementsGroup == Spec => ImplementsGroupSafety
  <1>1. Spec => []IInv
    BY InvAlways, PTL
  <1>2. QED
    BY <1>1, GroupInit, GroupStep, PTL DEF Spec, ImplementsGroupSafety, Group!Safety
=============================================================================

---------------------------- MODULE BoardProofs ----------------------------
(***************************************************************************)
(* Proofs about the board, for any number of tasks and of requests in      *)
(* flight, any columns, checklists and edits.                              *)
(***************************************************************************)
EXTENDS Board, ExtremaLemmas, TLAPS

(* Sums of weights.  Aggregate adds up the weights of the tasks one by one,*)
(* in the order of CHOOSE; a claim about all sums is shown by looking at   *)
(* the smallest set of tasks it would fail for.                            *)

Choice(s) == CHOOSE x \in s : TRUE

\* f[s] is the sum of the weights of the tasks in s, for every s that is part of T.
Sums(rows, T, f) ==
  f = [s \in SUBSET T |-> IF s = {} THEN 0
                          ELSE Weight(rows[Choice(s)]) + f[s \ {Choice(s)}]]

\* The same, for the sets of at most n tasks.
SmallSets(T, n) == {s \in SUBSET T : Cardinality(s) <= n}

SumsUpTo(rows, T, n, f) ==
  \A s \in SmallSets(T, n) :
    f[s] = IF s = {} THEN 0 ELSE Weight(rows[Choice(s)]) + f[s \ {Choice(s)}]

\* A set of tasks without one of them is smaller.
LEMMA Smaller ==
  ASSUME NEW T, IsFiniteSet(T), NEW s \in SUBSET T
  PROVE  /\ IsFiniteSet(s) /\ Cardinality(s) \in Nat
         /\ s = {} <=> Cardinality(s) = 0
         /\ s # {} => /\ Choice(s) \in s /\ s \ {Choice(s)} \in SUBSET T
                      /\ Cardinality(s \ {Choice(s)}) = Cardinality(s) - 1
  <1>1. IsFiniteSet(s)
    BY FS_Subset
  <1>2. Cardinality(s) \in Nat /\ (s = {} <=> Cardinality(s) = 0)
    BY <1>1, FS_CardinalityType, FS_EmptySet
  <1>3. s # {} => Choice(s) \in s
    BY DEF Choice
  <1>4. s # {} => Cardinality(s \ {Choice(s)}) = Cardinality(s) - 1
    BY <1>1, <1>3, FS_RemoveElement
  <1>5. QED
    BY <1>1, <1>2, <1>3, <1>4

\* There are sums for the sets of at most n tasks, whatever n.
LEMMA SmallSums ==
  ASSUME NEW rows, NEW T, IsFiniteSet(T), NEW k \in Nat
  PROVE  \E f : SumsUpTo(rows, T, k, f)
  <1> DEFINE Failing == {n \in Nat : ~ \E f : SumsUpTo(rows, T, n, f)}
  <1>1. ASSUME Failing # {} PROVE FALSE
    <2>1. Failing \subseteq Nat
      OBVIOUS
    <2>2. PICK n \in Failing : \A m \in Failing : n <= m
      BY <1>1, <2>1, LeastExists
    <2>3. n \in Nat /\ ~ \E f : SumsUpTo(rows, T, n, f)
      BY <2>2
    <2>4. CASE n = 0
      <3>1. SumsUpTo(rows, T, 0, [s \in {{}} |-> 0])
        <4>1. ASSUME NEW s \in SmallSets(T, 0) PROVE s = {}
          <5>1. s \in SUBSET T /\ Cardinality(s) <= 0
            BY DEF SmallSets
          <5>2. Cardinality(s) \in Nat /\ (s = {} <=> Cardinality(s) = 0)
            BY <5>1, Smaller, Zenon
          <5>3. QED
            BY <5>1, <5>2
        <4>2. QED
          BY <4>1 DEF SumsUpTo
      <3>2. QED
        BY <2>3, <2>4, <3>1
    <2>5. CASE n # 0
      <3>1. n - 1 \in Nat /\ ~ (n <= n - 1)
        BY <2>3, <2>5
      <3>2. ~ (n - 1 \in Failing)
        <4> HIDE DEF Failing
        <4>1. QED
          BY <2>2, <3>1
      <3>3. PICK f : SumsUpTo(rows, T, n - 1, f)
        BY <3>1, <3>2
      <3> DEFINE g == [s \in SUBSET T |->
                         IF s \in SmallSets(T, n - 1) THEN f[s]
                         ELSE Weight(rows[Choice(s)]) + f[s \ {Choice(s)}]]
      <3>4. ASSUME NEW s \in SmallSets(T, n)
            PROVE  g[s] = IF s = {} THEN 0 ELSE Weight(rows[Choice(s)]) + g[s \ {Choice(s)}]
        <4>0. s \in SUBSET T /\ Cardinality(s) <= n
          BY DEF SmallSets
        <4>1. CASE s = {}
          <5>0. Cardinality(s) = 0
            BY <4>0, <4>1, Smaller, Zenon
          <5>1. s \in SmallSets(T, n - 1)
            BY <3>1, <4>0, <5>0 DEF SmallSets
          <5>2. QED
            BY <3>3, <4>0, <4>1, <5>1 DEF SumsUpTo
        <4>2. CASE s # {}
          <5>1. PICK u : u = s \ {Choice(s)}
            OBVIOUS
          <5>2. u \in SUBSET T /\ u \in SmallSets(T, n - 1)
            BY <2>3, <4>0, <4>2, <5>1, Smaller DEF SmallSets
          <5>3. g[u] = f[u]
            BY <5>2
          <5>4. g[s] = Weight(rows[Choice(s)]) + f[u]
            BY <3>3, <4>0, <4>2, <5>1 DEF SumsUpTo
          <5>5. QED
            BY <4>2, <5>1, <5>3, <5>4
        <4>3. QED
          BY <4>1, <4>2
      <3>5. SumsUpTo(rows, T, n, g)
        <4> HIDE DEF g
        <4>1. QED
          BY <3>4 DEF SumsUpTo
      <3>6. QED
        BY <2>3, <3>5
    <2>6. QED
      BY <2>4, <2>5
  <1>2. QED
    BY <1>1

\* There is a function of all sums.
LEMMA SumsExist ==
  ASSUME NEW rows, NEW T, IsFiniteSet(T)
  PROVE  \E f : Sums(rows, T, f)
  <1>1. Cardinality(T) \in Nat
    BY FS_CardinalityType
  <1>2. PICK f : SumsUpTo(rows, T, Cardinality(T), f)
    BY <1>1, SmallSums
  <1>3. SmallSets(T, Cardinality(T)) = SUBSET T
    BY FS_Subset DEF SmallSets
  <1> DEFINE g == [s \in SUBSET T |-> f[s]]
  <1>4. \A s \in SUBSET T : s # {} => s \ {Choice(s)} \in SUBSET T
    OBVIOUS
  <1>5. Sums(rows, T, g)
    BY <1>2, <1>3, <1>4 DEF Sums, SumsUpTo
  <1>6. QED
    BY <1>5

\* The sum in Aggregate.
Total(rows, T) == MapThenSumSet(LAMBDA t : Weight(rows[t]), T)

\* The sum in Aggregate is one of these.
LEMMA TotalIsSum ==
  ASSUME NEW rows, NEW T, IsFiniteSet(T)
  PROVE  \E f : Sums(rows, T, f) /\ Total(rows, T) = f[T]
  <1> DEFINE g == CHOOSE f : Sums(rows, T, f)
  <1>1. Sums(rows, T, g)
    BY SumsExist, Zenon
  <1>2. Total(rows, T) = g[T]
    BY Zenon DEF Total, MapThenSumSet, MapThenFoldSet, Sums, Choice
  <1>3. QED
    BY <1>1, <1>2, Zenon

\* The weight of a task is a percentage.
LEMMA WeightIs ==
  ASSUME NEW row \in Row
  PROVE  Weight(row) \in 0 .. 100
  BY BoardAssumption DEF Row, Weight, NoSubtasks

\* A sum of weights is at most a hundred for each task: the smallest set that exceeds
\* it would do so without one of its tasks.
LEMMA SumBound ==
  ASSUME NEW rows \in [Task -> Row], NEW T \in SUBSET Task, NEW f, Sums(rows, T, f)
  PROVE  f[T] \in Int /\ 0 <= f[T] /\ f[T] <= 100 * Cardinality(T)
  <1> DEFINE Bounded(s) == f[s] \in Int /\ 0 <= f[s] /\ f[s] <= 100 * Cardinality(s)
             Failing == {n \in Nat : \E s \in SUBSET T : Cardinality(s) = n /\ ~Bounded(s)}
  <1>0. IsFiniteSet(T)
    BY BoardAssumption, FS_Subset
  <1>1. ASSUME Failing # {} PROVE FALSE
    <2>1. Failing \subseteq Nat
      OBVIOUS
    <2>2. PICK n \in Failing : \A m \in Failing : n <= m
      BY <1>1, <2>1, LeastExists
    <2>3. PICK s \in SUBSET T : Cardinality(s) = n /\ ~Bounded(s)
      BY <2>2
    <2>4. n \in Nat
      BY <2>2
    <2>5. CASE s = {}
      <3>1. f[s] = 0 /\ Cardinality(s) = 0
        BY <2>5, FS_EmptySet DEF Sums
      <3>2. QED
        BY <2>3, <3>1
    <2>6. CASE s # {}
      <3>1. PICK u : u = s \ {Choice(s)}
        OBVIOUS
      <3>2. u \in SUBSET T /\ Cardinality(u) = n - 1 /\ Choice(s) \in T /\ n # 0
        BY <1>0, <2>3, <2>6, <3>1, Smaller
      <3>3. f[s] = Weight(rows[Choice(s)]) + f[u]
        BY <2>6, <3>1 DEF Sums
      <3>4. Weight(rows[Choice(s)]) \in 0 .. 100
        BY <3>2, WeightIs
      <3>5. Bounded(u)
        <4>1. n - 1 \in Nat /\ ~ (n <= n - 1)
          BY <2>4, <3>2
        <4>2. ~ (n - 1 \in Failing)
          <5> HIDE DEF Failing
          <5>1. QED
            BY <2>2, <4>1
        <4>3. QED
          BY <3>2, <4>1, <4>2
      <3>6. f[u] \in Int /\ 0 <= f[u] /\ f[u] <= 100 * (n - 1)
        BY <3>2, <3>5
      <3>7. Bounded(s)
        BY <2>3, <2>4, <3>3, <3>4, <3>6
      <3>8. QED
        BY <2>3, <3>7
    <2>7. QED
      BY <2>5, <2>6
  <1>2. Cardinality(T) \in Nat /\ T \in SUBSET T
    BY <1>0, FS_CardinalityType
  <1>3. QED
    BY <1>1, <1>2

\* Rows of the same weights have the same sums.
LEMMA SumsAgree ==
  ASSUME NEW T, IsFiniteSet(T), NEW a, NEW b, \A t \in T : Weight(a[t]) = Weight(b[t]),
         NEW f, Sums(a, T, f), NEW g, Sums(b, T, g)
  PROVE  f[T] = g[T]
  <1> DEFINE Failing == {n \in Nat : \E s \in SUBSET T : Cardinality(s) = n /\ f[s] # g[s]}
  <1>1. ASSUME Failing # {} PROVE FALSE
    <2>1. Failing \subseteq Nat
      OBVIOUS
    <2>2. PICK n \in Failing : \A m \in Failing : n <= m
      BY <1>1, <2>1, LeastExists
    <2>3. PICK s \in SUBSET T : Cardinality(s) = n /\ f[s] # g[s]
      BY <2>2
    <2>4. n \in Nat
      BY <2>2
    <2>5. CASE s = {}
      BY <2>3, <2>5 DEF Sums
    <2>6. CASE s # {}
      <3>1. PICK u : u = s \ {Choice(s)}
        OBVIOUS
      <3>2. u \in SUBSET T /\ Cardinality(u) = n - 1 /\ Choice(s) \in T /\ n # 0
        BY <2>3, <2>6, <3>1, Smaller
      <3>3. f[s] = Weight(a[Choice(s)]) + f[u]
        BY <2>6, <3>1 DEF Sums
      <3>4. g[s] = Weight(b[Choice(s)]) + g[u]
        BY <2>6, <3>1 DEF Sums
      <3>5. f[u] = g[u]
        <4>1. n - 1 \in Nat /\ ~ (n <= n - 1)
          BY <2>4, <3>2
        <4>2. ~ (n - 1 \in Failing)
          <5> HIDE DEF Failing
          <5>1. QED
            BY <2>2, <4>1
        <4>3. QED
          BY <3>2, <4>1, <4>2
      <3>6. Weight(a[Choice(s)]) = Weight(b[Choice(s)])
        BY <3>2
      <3>7. QED
        BY <2>3, <3>3, <3>4, <3>5, <3>6, Zenon
    <2>7. QED
      BY <2>5, <2>6
  <1>2. Cardinality(T) \in Nat /\ T \in SUBSET T
    BY FS_CardinalityType
  <1>3. QED
    BY <1>1, <1>2

\* The rounded quotient of a number and one that is at least a hundredth of it is a
\* percentage.
LEMMA RoundIs ==
  ASSUME NEW a \in Nat, NEW b \in Nat, b > 0, a <= 100 * b
  PROVE  Round(a, b) \in 0 .. 100
  <1>1. PICK q \in Int : q = (2 * a + b) \div (2 * b)
    BY SMT
  <1>2. 2 * b > 0 /\ 2 * a + b >= 0 /\ 2 * a + b <= 201 * b
    BY SMT
  <1>3. (2 * b) * q <= 2 * a + b /\ 2 * a + b < (2 * b) * q + 2 * b
    BY <1>1, <1>2, SMT
  <1>4. q >= 0
    BY <1>2, <1>3, SMT
  <1>5. q <= 100
    BY <1>2, <1>3, SMT
  <1>6. QED
    BY <1>1, <1>4, <1>5 DEF Round

(* Progress of a task and of the project.                                  *)

\* The share of the subtasks that are done is a percentage.
LEMMA PercentIs ==
  ASSUME NEW s \in Subtasks \cup {NoSubtasks}
  PROVE  s.total \in Nat /\ (s.total > 0 => Percent(s) \in 0 .. 100)
  <1>1. s.total \in Nat /\ s.done \in Nat /\ s.done <= s.total
    BY BoardAssumption DEF NoSubtasks
  <1>2. 100 * s.done \in Nat /\ 100 * s.done <= 100 * s.total
    BY <1>1
  <1>3. QED
    BY <1>1, <1>2, RoundIs DEF Percent

\* The progress of a task is a percentage; with subtasks, it is the share of these.
LEMMA ProgressIs ==
  ASSUME NEW col, NEW s \in Subtasks \cup {NoSubtasks}, NEW n \in 0 .. 100
  PROVE  /\ Progress(col, s, n) \in 0 .. 100
         /\ s.total > 0 => Progress(col, s, n) = Percent(s)
  <1>1. s.total \in Nat /\ (s.total > 0 => Percent(s) \in 0 .. 100)
    BY PercentIs
  <1>2. CASE s.total > 0
    BY <1>1, <1>2 DEF Progress
  <1>3. CASE s.total = 0
    BY <1>3 DEF Progress
  <1>4. QED
    BY <1>1, <1>2, <1>3

\* The tasks there are.
Present(rows) == {t \in Task : rows[t].col # "none"}

\* What the sync computes is a status and a percentage.
LEMMA AggregateIs ==
  ASSUME NEW rows \in [Task -> Row]
  PROVE  Aggregate(rows) \in Summary
  <1> DEFINE total == Total(rows, Present(rows))
  <1>1. Present(rows) \in SUBSET Task
    BY DEF Present
  <1>2. IsFiniteSet(Present(rows)) /\ Cardinality(Present(rows)) \in Nat
    BY <1>1, BoardAssumption, FS_Subset, FS_CardinalityType
  <1>3. PICK f : Sums(rows, Present(rows), f) /\ total = f[Present(rows)]
    BY <1>2, TotalIsSum, Zenon
  <1>4. total \in Nat /\ total <= 100 * Cardinality(Present(rows))
    <2>1. f[Present(rows)] \in Int /\ 0 <= f[Present(rows)]
            /\ f[Present(rows)] <= 100 * Cardinality(Present(rows))
      BY <1>1, <1>3, SumBound, Zenon
    <2> HIDE DEF total
    <2>2. QED
      BY <1>3, <2>1
  <1>5. Present(rows) # {} => Cardinality(Present(rows)) > 0
    BY <1>2, FS_EmptySet
  <1>6. PICK n \in Nat : n = total
    BY <1>4, Zenon
  <1>7. PICK k \in Nat : k = Cardinality(Present(rows))
    BY <1>2, Zenon
  <1>8. Present(rows) # {} => Round(n, k) \in 0 .. 100
    <2> HIDE DEF total
    <2>1. QED
      BY <1>4, <1>5, <1>6, <1>7, RoundIs
  <1>9. Present(rows) # {} => Round(total, Cardinality(Present(rows))) \in 0 .. 100
    BY <1>6, <1>7, <1>8, Zenon
  <1>10. PICK p : p = IF Present(rows) = {} THEN 0
                      ELSE Round(total, Cardinality(Present(rows)))
    OBVIOUS
  <1>11. PICK s \in Status : Aggregate(rows) = [status |-> s, progress |-> p]
    BY <1>10 DEF Aggregate, Status, Present, Total
  <1>12. p \in 0 .. 100
    <2>1. CASE Present(rows) = {}
      BY <1>10, <2>1
    <2>2. CASE Present(rows) # {}
      BY <1>9, <1>10, <2>2, Zenon
    <2>3. QED
      BY <2>1, <2>2
  <1>13. QED
    BY <1>11, <1>12 DEF Summary

\* Rows with the same columns and weights give the same summary.
LEMMA AggregateSame ==
  ASSUME NEW a, NEW b,
         \A t \in Task : a[t].col = b[t].col /\ Weight(a[t]) = Weight(b[t])
  PROVE  Aggregate(a) = Aggregate(b)
  <1>1. Present(a) = Present(b) /\ Present(a) \in SUBSET Task
    BY DEF Present
  <1>2. \A k : {t \in Present(a) : a[t].col = k} = {t \in Present(b) : b[t].col = k}
    BY <1>1
  <1>3. IsFiniteSet(Present(a))
    BY <1>1, BoardAssumption, FS_Subset
  <1>4. PICK f : Sums(a, Present(a), f) /\ Total(a, Present(a)) = f[Present(a)]
    BY <1>3, TotalIsSum, Zenon
  <1>5. PICK g : Sums(b, Present(b), g) /\ Total(b, Present(b)) = g[Present(b)]
    BY <1>1, <1>3, TotalIsSum, Zenon
  <1>6. f[Present(a)] = g[Present(a)]
    BY <1>1, <1>3, <1>4, <1>5, SumsAgree
  <1>7. Total(a, Present(a)) = Total(b, Present(b))
    BY <1>1, <1>4, <1>5, <1>6, Zenon
  <1> DEFINE In(x, k) == {t \in Present(x) : x[t].col = k}
             State(x) == CASE Present(x) = {} -> "todo"
                           [] Present(x) # {} /\ Present(x) = In(x, "done") -> "completed"
                           [] In(x, "client_approval") # {} -> "in_review"
                           [] OTHER -> IF Present(x) = In(x, "pending") THEN "todo"
                                       ELSE "in_progress"
             Share(x) == IF Present(x) = {} THEN 0
                         ELSE Round(Total(x, Present(x)), Cardinality(Present(x)))
  <1>8. ASSUME NEW x PROVE Aggregate(x) = [status |-> State(x), progress |-> Share(x)]
    BY Zenon DEF Aggregate, Present, Total
  <1>9. State(a) = State(b)
    BY <1>1, <1>2, Zenon
  <1>10. Share(a) = Share(b)
    BY <1>1, <1>7, Zenon
  <1> HIDE DEF State, Share
  <1>11. QED
    BY <1>8, <1>9, <1>10, Zenon

(* Rows.                                                                   *)

\* What a row is, field by field.
LEMMA RowIs ==
  ASSUME NEW row \in Row
  PROVE  /\ row.col \in Columns \cup {"none"} /\ row.subs \in Subtasks \cup {NoSubtasks}
         /\ row.progress \in 0 .. 100 /\ row.completed \in BOOLEAN
         /\ row.block \in BlockType \cup {"none"}
  BY DEF Row

\* What UPDATE leaves: the new values of the fields it sets, the old ones of the others.
LEMMA MergeIs ==
  ASSUME NEW row \in Row, NEW new \in Row, NEW fields
  PROVE  /\ Merge(row, new, fields) \in Row
         /\ Merge(row, new, fields).col = (IF "col" \in fields THEN new.col ELSE row.col)
         /\ Merge(row, new, fields).subs = (IF "subs" \in fields THEN new.subs ELSE row.subs)
         /\ Merge(row, new, fields).progress
              = (IF "progress" \in fields THEN new.progress ELSE row.progress)
         /\ Merge(row, new, fields).completed
              = (IF "completed" \in fields THEN new.completed ELSE row.completed)
         /\ Merge(row, new, fields).block = (IF "block" \in fields THEN new.block ELSE row.block)
  BY DEF Merge, Row, Field

-----------------------------------------------------------------------------
(* The invariant.                                                          *)

\* The type of a request.
Requests == [pc : {"idle", "read", "written"}, t : Task \cup {NoId},
             new : Row, fields : SUBSET Field, sync : BOOLEAN, agg : Summary,
             release : Role \cup {"none"}, stale : BOOLEAN, late : BOOLEAN]

\* A row has a block type in the blocked column only, and the progress of its subtasks.
Tidy(row) ==
  /\ row.block # "none" => row.col = "blocked"
  /\ row.subs.total > 0 => row.progress = Percent(row.subs)

\* A request in flight is about a task.
Named(q) == q.pc # "idle" => q.t \in Task

\* The row that a request leaves if nobody writes its task before it does.
Outcome(q, rows) ==
  IF q.pc = "written" THEN q.new ELSE Merge(rows[q.t], q.new, q.fields)

\* What a request decides on the ground of the row it has read.
Decided(q, rows) ==
  /\ Tidy(Outcome(q, rows))
  /\ ~q.sync => /\ Outcome(q, rows).col = rows[q.t].col
                /\ Outcome(q, rows).subs = rows[q.t].subs
  /\ rows[q.t].block = "client_timeout" /\ Outcome(q, rows).block = "none" =>
       q.release \in {"admin", "client"}

\* It holds as long as that row is the current one, and nobody has written the task
\* on the ground of an outdated one.
Fresh(q, rows, R) == q.pc # "idle" /\ ~q.stale /\ q.t \notin R => Decided(q, rows)

\* A sync that nothing has overtaken has seen the tasks as they will be.
Summed(q, rows) ==
  q.pc = "written" /\ q.sync /\ ~q.late => q.agg = Aggregate([rows EXCEPT ![q.t] = q.new])

\* Two transactions never hold the lock of the same task.
OneWriter ==
  \A r, s \in Request :
    req[r].pc = "written" /\ req[s].pc = "written" /\ req[r].t = req[s].t => r = s

TidyRows == \A t \in Task \ raced : Tidy(task[t])

BoardInv ==
  /\ TypeOK
  /\ \A r \in Request : Named(req[r]) /\ Fresh(req[r], task, raced) /\ Summed(req[r], task)
  /\ OneWriter
  /\ TidyRows
  /\ SummaryInStep

\* Types, without what a step looks up.
LEMMA TypeIs ==
  ASSUME TypeOK
  PROVE  /\ task \in [Task -> Row] /\ summary \in Summary /\ req \in [Request -> Requests]
         /\ raced \subseteq Task /\ missed \in BOOLEAN
  BY DEF TypeOK, Requests

\* What a request of this type is, field by field.
LEMMA RequestIs ==
  ASSUME NEW q \in Requests
  PROVE  /\ q.pc \in {"idle", "read", "written"} /\ q.t \in Task \cup {NoId}
         /\ q.new \in Row /\ q.fields \in SUBSET Field /\ q.sync \in BOOLEAN
         /\ q.agg \in Summary /\ q.release \in Role \cup {"none"}
         /\ q.stale \in BOOLEAN /\ q.late \in BOOLEAN
  BY DEF Requests

\* The row that does not exist is a row.
LEMMA NoTaskIs == NoTask \in Row /\ NoTask.col = "none" /\ NoTask.block = "none"
                  /\ NoTask.subs.total = 0 /\ Tidy(NoTask)
  BY DEF NoTask, Row, NoSubtasks, BlockType, Tidy

\* A slot without a request.
LEMMA NoRequestIs == NoRequest \in Requests /\ NoRequest.pc = "idle"
  <1>1. Empty \in Summary
    BY DEF Empty, Summary, Status
  <1>2. QED
    BY <1>1, NoTaskIs DEF NoRequest, Requests

\* A request after a transaction's statements.
LEMMA WrittenIs ==
  ASSUME task \in [Task -> Row], NEW q \in Requests, q.t \in Task, NEW row \in Row
  PROVE  /\ Written(q, row) \in Requests
         /\ Written(q, row).pc = "written" /\ Written(q, row).t = q.t
         /\ Written(q, row).new = row /\ Written(q, row).sync = q.sync
         /\ Written(q, row).release = q.release /\ Written(q, row).stale = q.stale
         /\ Summed(Written(q, row), task)
  <1>1. [task EXCEPT ![q.t] = row] \in [Task -> Row]
    OBVIOUS
  <1>2. PICK a \in Summary : a = IF q.sync THEN Aggregate([task EXCEPT ![q.t] = row]) ELSE Empty
    <2>1. Aggregate([task EXCEPT ![q.t] = row]) \in Summary
      BY <1>1, AggregateIs, Zenon
    <2>2. Empty \in Summary
      BY DEF Empty, Summary, Status
    <2>3. QED
      BY <2>1, <2>2, Zenon
  <1>3. PICK p : p = [q EXCEPT !.pc = "written", !.new = row, !.fields = {}, !.agg = a]
    OBVIOUS
  <1>4. Written(q, row) = p
    BY <1>2, <1>3, Zenon DEF Written
  <1>5. p \in Requests
    BY <1>3 DEF Requests
  <1>6. /\ p.pc = "written" /\ p.t = q.t /\ p.new = row /\ p.sync = q.sync /\ p.agg = a
        /\ p.release = q.release /\ p.stale = q.stale
    BY <1>3 DEF Requests
  <1>7. Summed(p, task)
    BY <1>2, <1>6, Zenon DEF Summed
  <1>8. QED
    BY <1>4, <1>5, <1>6, <1>7, Zenon

\* A request after a commit that writes the tasks in S, of which it has locked none:
\* what it has decided holds, or it counts as stale.
LEMMA OvertakenIs ==
  ASSUME NEW q \in Requests, NEW S, NEW a \in [Task -> Row], NEW b \in [Task -> Row],
         NEW R, NEW R2, R \subseteq R2, \A t \in Task \ S : a[t] = b[t],
         q.pc = "written" => q.t \notin S, Named(q), Fresh(q, a, R)
  PROVE  /\ Overtaken(q, S) \in Requests
         /\ Overtaken(q, S).pc = q.pc /\ Overtaken(q, S).t = q.t
         /\ Named(Overtaken(q, S)) /\ Fresh(Overtaken(q, S), b, R2)
         /\ Summed(Overtaken(q, S), b)
  <1>1. PICK st \in BOOLEAN : st = (q.stale \/ (q.pc = "read" /\ q.t \in S))
    OBVIOUS
  <1>2. PICK la \in BOOLEAN : la = (q.late \/ q.pc = "written")
    OBVIOUS
  <1>3. PICK p : p = [q EXCEPT !.stale = st, !.late = la]
    OBVIOUS
  <1>4. Overtaken(q, S) = p
    BY <1>1, <1>2, <1>3 DEF Overtaken, Requests
  <1>5. p \in Requests
    BY <1>3 DEF Requests
  <1>6. /\ p.pc = q.pc /\ p.t = q.t /\ p.new = q.new /\ p.fields = q.fields
        /\ p.sync = q.sync /\ p.release = q.release /\ p.stale = st /\ p.late = la
    BY <1>3 DEF Requests
  <1>7. Named(p)
    BY <1>6 DEF Named
  <1>8. ASSUME p.pc # "idle", ~p.stale, p.t \notin R2 PROVE Decided(p, b)
    <2>1. q.pc # "idle" /\ ~q.stale /\ q.t \notin R /\ q.t \in Task /\ q.t \notin S
      BY <1>1, <1>6, <1>8, RequestIs DEF Named
    <2>2. Decided(q, a) /\ a[q.t] = b[q.t]
      BY <2>1 DEF Fresh
    <2>3. Outcome(p, b) = Outcome(q, a)
      BY <1>6, <2>2, Zenon DEF Outcome
    <2>4. QED
      BY <1>6, <2>2, <2>3, Zenon DEF Decided
  <1>9. Summed(p, b)
    BY <1>2, <1>6 DEF Summed
  <1>10. QED
    BY <1>4, <1>5, <1>6, <1>7, <1>8, <1>9 DEF Fresh

\* What a step that only changes one request has to show.
LEMMA OneRequest ==
  ASSUME BoardInv, NEW r \in Request, NEW p \in Requests,
         req' = [req EXCEPT ![r] = p], UNCHANGED <<task, summary, raced, missed>>,
         Named(p), Fresh(p, task, raced), Summed(p, task),
         p.pc = "written" => \A s \in Request \ {r} : ~ (req[s].pc = "written" /\ req[s].t = p.t)
  PROVE  BoardInv'
  <1>1. /\ task \in [Task -> Row] /\ summary \in Summary /\ req \in [Request -> Requests]
        /\ raced \subseteq Task /\ missed \in BOOLEAN
    BY TypeIs DEF BoardInv
  <1>2. task' = task /\ summary' = summary /\ raced' = raced /\ missed' = missed
    OBVIOUS
  <1>3. req' \in [Request -> Requests] /\ req'[r] = p /\ \A s \in Request \ {r} : req'[s] = req[s]
    BY <1>1
  <1>4. TypeOK'
    BY <1>1, <1>2, <1>3 DEF TypeOK, Requests
  <1>5. \A s \in Request : Named(req'[s]) /\ Fresh(req'[s], task, raced) /\ Summed(req'[s], task)
    BY <1>3, Zenon DEF BoardInv
  <1>6. OneWriter'
    <2>1. \A s, u \in Request :
            req[s].pc = "written" /\ req[u].pc = "written" /\ req[s].t = req[u].t => s = u
      BY Zenon DEF BoardInv, OneWriter
    <2>2. QED
      BY <1>3, <2>1, Zenon DEF OneWriter
  <1>7. TidyRows' /\ SummaryInStep'
    <2>1. TidyRows'
      BY <1>2 DEF BoardInv, TidyRows
    <2>2. SummaryInStep'
      BY <1>2 DEF BoardInv, SummaryInStep
    <2>3. QED
      BY <2>1, <2>2
  <1>8. QED
    BY <1>2, <1>4, <1>5, <1>6, <1>7, Zenon DEF BoardInv

-----------------------------------------------------------------------------
(* Steps of one request.                                                   *)

\* Nobody else has the lock of a task that is not locked.
LEMMA Unlocked ==
  ASSUME NEW t, ~Locked(t), NEW r
  PROVE  \A s \in Request \ {r} : ~ (req[s].pc = "written" /\ req[s].t = t)
  BY DEF Locked

\* Giving up.
LEMMA AbortStep ==
  ASSUME BoardInv, NEW r \in Request, Abort(r)
  PROVE  BoardInv'
  <1>1. req' = [req EXCEPT ![r] = NoRequest] /\ UNCHANGED <<task, summary, raced, missed>>
    BY DEF Abort
  <1>2. Named(NoRequest) /\ Fresh(NoRequest, task, raced) /\ Summed(NoRequest, task)
    BY NoRequestIs DEF Named, Fresh, Summed
  <1>3. QED
    BY <1>1, <1>2, NoRequestIs, OneRequest

\* The statements of a transaction: they leave the row that the request has decided on.
LEMMA WriteStep ==
  ASSUME BoardInv, NEW r \in Request, Write(r)
  PROVE  BoardInv'
  <1>1. task \in [Task -> Row] /\ req[r] \in Requests
    BY TypeIs DEF BoardInv
  <1>2. PICK q \in Requests : q = req[r]
    BY <1>1
  <1>3. q.pc = "read" /\ ~Locked(q.t)
    BY <1>2, Zenon DEF Write
  <1>4. q.t \in Task /\ Fresh(q, task, raced)
    BY <1>2, <1>3 DEF BoardInv, Named
  <1>5. PICK row : row = Merge(task[q.t], q.new, q.fields)
    OBVIOUS
  <1>6. row \in Row
    BY <1>1, <1>4, <1>5, MergeIs, RequestIs
  <1>7. PICK p : p = Written(q, row)
    OBVIOUS
  <1>8. /\ p \in Requests /\ p.pc = "written" /\ p.t = q.t /\ p.new = row /\ p.sync = q.sync
        /\ p.release = q.release /\ p.stale = q.stale /\ Summed(p, task)
    BY <1>1, <1>4, <1>6, <1>7, WrittenIs
  <1>9. req' = [req EXCEPT ![r] = p] /\ UNCHANGED <<task, summary, raced, missed>>
    BY <1>2, <1>5, <1>7, Zenon DEF Write
  <1>10. Outcome(p, task) = Outcome(q, task)
    BY <1>3, <1>5, <1>8 DEF Outcome
  <1>11. Decided(q, task) => Decided(p, task)
    BY <1>8, <1>10, Zenon DEF Decided
  <1>12. Named(p) /\ Fresh(p, task, raced)
    BY <1>3, <1>4, <1>8, <1>11 DEF Named, Fresh
  <1>13. \A s \in Request \ {r} : ~ (req[s].pc = "written" /\ req[s].t = p.t)
    BY <1>3, <1>8, Unlocked
  <1>14. QED
    BY <1>8, <1>9, <1>12, <1>13, OneRequest

\* A request that reads and writes in one go, a row that is tidy when the task is:
\* createTask and blockTask.
LEMMA DirectStep ==
  ASSUME BoardInv, NEW r \in Request, NEW t \in Task, NEW row \in Row,
         req[r].pc = "idle", ~Locked(t),
         req' = [req EXCEPT ![r] = Written([req[r] EXCEPT !.t = t, !.sync = TRUE], row)],
         UNCHANGED <<task, summary, raced, missed>>,
         Tidy(task[t]) => Tidy(row) /\ (task[t].block = "none" \/ row.block # "none")
  PROVE  BoardInv'
  <1>1. task \in [Task -> Row] /\ req[r] \in Requests
    BY TypeIs DEF BoardInv
  <1>2. PICK yes \in BOOLEAN : yes = TRUE
    OBVIOUS
  <1>3. PICK q : q = [req[r] EXCEPT !.t = t, !.sync = yes]
    OBVIOUS
  <1>4. q \in Requests /\ q.t = t /\ q.sync = yes
    BY <1>1, <1>3 DEF Requests
  <1>5. PICK p : p = Written(q, row)
    OBVIOUS
  <1>6. /\ p \in Requests /\ p.pc = "written" /\ p.t = t /\ p.new = row /\ p.sync = yes
        /\ Summed(p, task)
    BY <1>1, <1>4, <1>5, WrittenIs
  <1>7. req' = [req EXCEPT ![r] = p]
    BY <1>2, <1>3, <1>5, Zenon
  <1>8. t \notin raced => Tidy(task[t])
    BY DEF BoardInv, TidyRows
  <1>9. t \notin raced => Decided(p, task)
    BY <1>2, <1>6, <1>8 DEF Decided, Outcome
  <1>10. Named(p) /\ Fresh(p, task, raced)
    BY <1>6, <1>9 DEF Named, Fresh
  <1>11. \A s \in Request \ {r} : ~ (req[s].pc = "written" /\ req[s].t = p.t)
    BY <1>6, Unlocked
  <1>12. QED
    BY <1>6, <1>7, <1>10, <1>11, OneRequest

\* createTask.
LEMMA CreateStep ==
  ASSUME BoardInv, NEW r \in Request, NEW role \in Role, NEW t \in Task, NEW col \in Columns,
         NEW subs \in Subtasks \cup {NoSubtasks}, NEW n \in Checklist,
         CreateTask(r, role, t, col, subs, n)
  PROVE  BoardInv'
  <1>0. n \in 0 .. 100
    BY BoardAssumption
  <1>1. PICK x : x = Progress(col, subs, n)
    OBVIOUS
  <1>2. x \in 0 .. 100 /\ (subs.total > 0 => x = Percent(subs))
    BY <1>0, <1>1, ProgressIs
  <1>3. PICK c \in BOOLEAN : c = Completed(col, x)
    BY DEF Completed
  <1>4. PICK row : row = [NoTask EXCEPT !.col = col, !.subs = subs, !.progress = x, !.completed = c]
    OBVIOUS
  <1>5. row \in Row /\ row.block = "none" /\ row.subs = subs /\ row.progress = x
    BY <1>2, <1>4 DEF NoTask, Row
  <1>6. Tidy(row)
    BY <1>2, <1>5 DEF Tidy
  <1>7. Tidy(task[t]) => task[t].block = "none"
    BY DEF CreateTask, Exists, Tidy
  <1>8. /\ req[r].pc = "idle" /\ ~Locked(t) /\ UNCHANGED <<task, summary, raced, missed>>
        /\ req' = [req EXCEPT ![r] = Written([req[r] EXCEPT !.t = t, !.sync = TRUE], row)]
    BY <1>1, <1>3, <1>4, Zenon DEF CreateTask
  <1>9. QED
    BY <1>5, <1>6, <1>7, <1>8, DirectStep

\* blockTask.
LEMMA BlockStep ==
  ASSUME BoardInv, NEW r \in Request, NEW role \in Role, NEW t \in Task, BlockTask(r, role, t)
  PROVE  BoardInv'
  <1>1. task[t] \in Row
    BY TypeIs DEF BoardInv
  <1>2. PICK row : row = [task[t] EXCEPT !.col = "blocked", !.block = "internal_impediment"]
    OBVIOUS
  <1>3. /\ row \in Row /\ row.col = "blocked" /\ row.block = "internal_impediment"
        /\ row.subs = task[t].subs /\ row.progress = task[t].progress
    BY <1>1, <1>2, BoardAssumption DEF Row, BlockType
  <1>4. Tidy(task[t]) => Tidy(row)
    BY <1>3 DEF Tidy
  <1>5. /\ req[r].pc = "idle" /\ ~Locked(t) /\ UNCHANGED <<task, summary, raced, missed>>
        /\ req' = [req EXCEPT ![r] = Written([req[r] EXCEPT !.t = t, !.sync = TRUE], row)]
    BY <1>2, Zenon DEF BlockTask
  <1>6. row.block # "none"
    BY <1>3
  <1>7. QED
    BY <1>3, <1>4, <1>5, <1>6, DirectStep

\* What the checks of a request ensure of the row it is about to write, given the
\* one it has read.
Checked(seen, row, sync, release) ==
  Tidy(seen) => /\ Tidy(row)
                /\ ~sync => row.col = seen.col /\ row.subs = seen.subs
                /\ seen.block = "client_timeout" /\ row.block = "none" =>
                     release \in {"admin", "client"}

\* A request that has read the task and checked what it is about to write.
LEMMA ReadStep ==
  ASSUME BoardInv, NEW r \in Request, NEW p \in Requests, p.pc = "read", p.t \in Task,
         req' = [req EXCEPT ![r] = p], UNCHANGED <<task, summary, raced, missed>>,
         Checked(task[p.t], Merge(task[p.t], p.new, p.fields), p.sync, p.release)
  PROVE  BoardInv'
  <1>1. Outcome(p, task) = Merge(task[p.t], p.new, p.fields)
    BY DEF Outcome
  <1>2. p.t \notin raced => Tidy(task[p.t])
    BY DEF BoardInv, TidyRows
  <1>3. p.t \notin raced => Decided(p, task)
    BY <1>1, <1>2 DEF Decided, Checked
  <1>4. Named(p) /\ Fresh(p, task, raced) /\ Summed(p, task) /\ p.pc # "written"
    BY <1>3 DEF Named, Fresh, Summed
  <1>5. QED
    BY <1>4, OneRequest

\* Who may release a timeout.
LEMMA ReleasedBy ==
  ASSUME NEW role, NEW a, CanUnblockTask(role, "client_timeout", a)
  PROVE  role \in {"admin", "client"}
  BY DEF CanUnblockTask

\* unblockTask.
LEMMA UnblockStep ==
  ASSUME BoardInv, NEW r \in Request, NEW role \in Role, NEW a \in BOOLEAN, NEW t \in Task,
         NEW col \in Columns, UnblockTask(r, role, a, t, col)
  PROVE  BoardInv'
  <1>1. task[t] \in Row
    BY TypeIs DEF BoardInv
  <1>2. PICK new : new = [NoTask EXCEPT !.col = col]
    OBVIOUS
  <1>3. new \in Row /\ new.col = col /\ new.block = "none"
    BY <1>2, NoTaskIs DEF NoTask, Row
  <1>4. PICK yes \in BOOLEAN : yes = TRUE
    OBVIOUS
  <1>5. PICK release : release = Releases(role, task[t], {"none"})
    OBVIOUS
  <1>6. /\ release \in Role \cup {"none"}
        /\ task[t].block = "client_timeout" => release = role
    BY <1>5 DEF Releases
  <1>7. PICK fields : fields = {"col", "block"}
    OBVIOUS
  <1>8. fields \in SUBSET Field
    BY <1>7 DEF Field
  <1>9. PICK row : row = Merge(task[t], new, fields)
    OBVIOUS
  <1>10. /\ row.col = col /\ row.block = "none" /\ row.subs = task[t].subs
         /\ row.progress = task[t].progress
    BY <1>1, <1>3, <1>7, <1>9, MergeIs
  <1>11. Tidy(task[t]) => Tidy(row)
    BY <1>10 DEF Tidy
  <1>12. task[t].block = "client_timeout" => release \in {"admin", "client"}
    <2>1. CanUnblockTask(role, task[t].block, a)
      BY DEF UnblockTask
    <2>2. QED
      BY <1>6, <2>1, ReleasedBy
  <1>13. PICK p : p = [NoRequest EXCEPT !.pc = "read", !.t = t, !.release = release,
                                        !.new = new, !.fields = fields, !.sync = yes]
    OBVIOUS
  <1>14. /\ p.pc = "read" /\ p.t = t /\ p.new = new /\ p.fields = fields /\ p.sync = yes
         /\ p.release = release
    BY <1>13 DEF NoRequest
  <1>15. p \in Requests
    <2>1. NoRequest \in Requests
      BY NoRequestIs
    <2>2. QED
      BY <1>3, <1>6, <1>8, <1>13, <2>1 DEF Requests
  <1>16. req' = [req EXCEPT ![r] = p] /\ UNCHANGED <<task, summary, raced, missed>>
    BY <1>2, <1>4, <1>5, <1>7, <1>13, Zenon DEF UnblockTask
  <1>17. Checked(task[t], row, yes, release)
    BY <1>4, <1>11, <1>12 DEF Checked
  <1>18. Checked(task[p.t], Merge(task[p.t], p.new, p.fields), p.sync, p.release)
    BY <1>9, <1>14, <1>17, Zenon
  <1>19. QED
    BY <1>14, <1>15, <1>16, <1>18, ReadStep

\* What an option gives.
LEMMA GivenIs ==
  ASSUME NEW opt, NEW default
  PROVE  IF opt = {} THEN Given(opt, default) = default ELSE Given(opt, default) \in opt
  BY DEF Given

\* What a patch may hold.
LEMMA EditIs ==
  ASSUME NEW patch \in Edits
  PROVE  /\ patch.col \in SUBSET Columns /\ patch.subs \in SUBSET (Subtasks \cup {NoSubtasks})
         /\ patch.checklist \in SUBSET (0 .. 100) /\ patch.type \in SUBSET BlockType
  <1>1. patch \in [col : SUBSET Columns, subs : SUBSET (Subtasks \cup {NoSubtasks}),
                   checklist : SUBSET (0 .. 100), type : SUBSET BlockType]
    BY BoardAssumption, Zenon
  <1>2. QED
    BY <1>1

\* The block type that a patch writes: none when the task leaves the blocked column,
\* one when it enters or stays there.
LEMMA BlockPatchIs ==
  ASSUME NEW from, NEW to, NEW type \in SUBSET BlockType
  PROVE  LET block == BlockPatch(from, to, type) IN
         /\ Given(block, "none") \in BlockType \cup {"none"}
         /\ from = "blocked" /\ to # "blocked" => block = {"none"} /\ Given(block, "none") = "none"
         /\ from # "blocked" /\ to # "blocked" => block = {}
         /\ to = "blocked" /\ block # {} => Given(block, "none") # "none"
  <1>1. Given(type, "internal_impediment") \in BlockType
    BY GivenIs DEF BlockType
  <1>2. CASE from = "blocked" /\ to # "blocked"
    <2>1. BlockPatch(from, to, type) = {"none"}
      BY <1>2 DEF BlockPatch
    <2>2. QED
      BY <1>2, <2>1, GivenIs
  <1>3. CASE from # "blocked" /\ to = "blocked"
    <2>1. BlockPatch(from, to, type) = {Given(type, "internal_impediment")}
      BY <1>3 DEF BlockPatch
    <2>2. PICK b \in BlockType : b = Given(type, "internal_impediment")
      BY <1>1
    <2>3. Given({b}, "none") = b /\ b # "none"
      BY GivenIs DEF BlockType
    <2>4. QED
      BY <1>3, <2>1, <2>2, <2>3
  <1>4. CASE from = "blocked" /\ to = "blocked"
    <2>1. BlockPatch(from, to, type) = type
      BY <1>4 DEF BlockPatch
    <2>2. type # {} => Given(type, "none") \in BlockType
      BY GivenIs
    <2>3. Given({}, "none") = "none"
      BY GivenIs
    <2>4. QED
      BY <1>4, <2>1, <2>2, <2>3 DEF BlockType
  <1>5. CASE from # "blocked" /\ to # "blocked"
    <2>1. BlockPatch(from, to, type) = {}
      BY <1>5 DEF BlockPatch
    <2>2. Given({}, "none") = "none"
      BY GivenIs
    <2>3. QED
      BY <1>5, <2>1, <2>2
  <1>6. QED
    BY <1>2, <1>3, <1>4, <1>5

\* updateTask.
LEMMA UpdateStep ==
  ASSUME BoardInv, NEW r \in Request, NEW role \in Role, NEW a \in BOOLEAN, NEW t \in Task,
         NEW patch \in Edits, UpdateTask(r, role, a, t, patch)
  PROVE  BoardInv'
  <1>1. PICK seen \in Row : seen = task[t]
    BY TypeIs DEF BoardInv
  <1>2. PICK to : to = Given(patch.col, seen.col)
    OBVIOUS
  <1>3. PICK list : list = Given(patch.subs, seen.subs)
    OBVIOUS
  <1>4. PICK n : n = Given(patch.checklist, seen.progress)
    OBVIOUS
  <1>5. /\ to \in Columns \cup {"none"} /\ list \in Subtasks \cup {NoSubtasks} /\ n \in 0 .. 100
        /\ patch.col = {} => to = seen.col
        /\ patch.subs = {} => list = seen.subs
    BY <1>2, <1>3, <1>4, GivenIs, EditIs, RowIs
  <1>6. PICK x : x = Progress(to, list, n)
    OBVIOUS
  <1>7. x \in 0 .. 100 /\ (list.total > 0 => x = Percent(list))
    BY <1>5, <1>6, ProgressIs
  <1>8. PICK c \in BOOLEAN : c = Completed(to, x)
    BY DEF Completed
  <1>9. PICK block : block = BlockPatch(seen.col, to, patch.type)
    OBVIOUS
  <1>10. PICK b : b = Given(block, "none")
    OBVIOUS
  <1>11. /\ b \in BlockType \cup {"none"}
         /\ seen.col = "blocked" /\ to # "blocked" => block = {"none"} /\ b = "none"
         /\ seen.col # "blocked" /\ to # "blocked" => block = {}
         /\ to = "blocked" /\ block # {} => b # "none"
    BY <1>9, <1>10, EditIs, BlockPatchIs
  <1>12. PICK fields : fields = {"progress", "completed"} \cup (IF patch.col # {} THEN {"col"} ELSE {})
                     \cup (IF patch.subs # {} THEN {"subs"} ELSE {})
                     \cup (IF block # {} THEN {"block"} ELSE {})
    OBVIOUS
  <1>13. fields \in SUBSET Field
    BY <1>12 DEF Field
  <1>14. PICK made : made = [col |-> to, subs |-> list, progress |-> x, completed |-> c, block |-> b]
    OBVIOUS
  <1>15. /\ made \in Row /\ made.col = to /\ made.subs = list /\ made.progress = x /\ made.block = b
    BY <1>5, <1>7, <1>11, <1>14 DEF Row
  <1>16. PICK new : new = Merge(NoTask, made, fields)
    OBVIOUS
  <1>17. /\ new \in Row
         /\ "col" \in fields => new.col = to
         /\ "subs" \in fields => new.subs = list
         /\ "progress" \in fields => new.progress = x
         /\ "block" \in fields => new.block = b
    BY <1>15, <1>16, NoTaskIs, MergeIs
  <1>18. PICK row : row = Merge(seen, new, fields)
    OBVIOUS
  <1>19. /\ row.col = to /\ row.subs = list /\ row.progress = x
         /\ row.block = IF block # {} THEN b ELSE seen.block
    BY <1>5, <1>12, <1>17, <1>18, MergeIs
  <1>20. Tidy(seen) => Tidy(row)
    BY <1>7, <1>11, <1>19 DEF Tidy
  <1>21. PICK sync \in BOOLEAN : sync = (patch.col # {} \/ patch.checklist # {} \/ patch.subs # {})
    OBVIOUS
  <1>22. ~sync => row.col = seen.col /\ row.subs = seen.subs
    BY <1>5, <1>19, <1>21
  <1>23. PICK release : release = Releases(role, seen, block)
    OBVIOUS
  <1>24. release \in Role \cup {"none"}
    BY <1>23 DEF Releases
  <1>25. ASSUME Tidy(seen), seen.block = "client_timeout", row.block = "none"
         PROVE  release \in {"admin", "client"}
    <2>1. seen.col = "blocked" /\ to # "blocked" /\ block = {"none"}
      BY <1>11, <1>19, <1>25 DEF Tidy
    <2>2. release = role
      BY <1>23, <1>25, <2>1 DEF Releases
    <2>3. CanUnblockTask(role, seen.block, a)
      BY <1>1, <1>2, <2>1, Zenon DEF UpdateTask
    <2>4. QED
      BY <1>25, <2>2, <2>3, ReleasedBy
  <1>26. PICK p : p = [NoRequest EXCEPT !.pc = "read", !.t = t, !.release = release,
                                        !.new = new, !.fields = fields, !.sync = sync]
    OBVIOUS
  <1>27. /\ p.pc = "read" /\ p.t = t /\ p.new = new /\ p.fields = fields /\ p.sync = sync
         /\ p.release = release
    BY <1>26 DEF NoRequest
  <1>28. p \in Requests
    <2>1. NoRequest \in Requests
      BY NoRequestIs
    <2>2. QED
      BY <1>13, <1>17, <1>24, <1>26, <2>1 DEF Requests
  <1>29. req' = [req EXCEPT ![r] = p] /\ UNCHANGED <<task, summary, raced, missed>>
    BY <1>1, <1>2, <1>3, <1>4, <1>6, <1>8, <1>9, <1>10, <1>12, <1>14, <1>16, <1>21, <1>23, <1>26,
       SMT DEF UpdateTask
  <1>30. Checked(task[t], row, sync, release)
    BY <1>1, <1>20, <1>22, <1>25 DEF Checked
  <1>31. Checked(task[p.t], Merge(task[p.t], p.new, p.fields), p.sync, p.release)
    BY <1>1, <1>18, <1>27, <1>30, Zenon
  <1>32. QED
    BY <1>27, <1>28, <1>29, <1>31, ReadStep

-----------------------------------------------------------------------------
(* Steps that change the tasks or the summary.                             *)

\* What a step has to show that writes the tasks in S, none of them locked by a request
\* that goes on.
LEMMA Overtake ==
  ASSUME BoardInv, NEW S, NEW D \in SUBSET Request, NEW rows \in [Task -> Row], task' = rows,
         \A t \in Task \ S : rows[t] = task[t], raced \subseteq raced', raced' \subseteq Task,
         summary' \in Summary, missed' \in BOOLEAN,
         req' = [x \in Request |-> IF x \in D THEN NoRequest ELSE Overtaken(req[x], S)],
         \A x \in Request \ D : req[x].pc = "written" => req[x].t \notin S,
         TidyRows', SummaryInStep'
  PROVE  BoardInv'
  <1>1. task \in [Task -> Row] /\ req \in [Request -> Requests]
    BY TypeIs DEF BoardInv
  <1>2. PICK R, R2 : R = raced /\ R2 = raced'
    OBVIOUS
  <1>3. PICK old \in [Task -> Row] : old = task
    BY <1>1
  <1>4. ASSUME NEW x \in Request, x \notin D
        PROVE  /\ req'[x] \in Requests /\ req'[x].pc = req[x].pc /\ req'[x].t = req[x].t
               /\ Named(req'[x]) /\ Fresh(req'[x], rows, R2) /\ Summed(req'[x], rows)
    <2>1. PICK q \in Requests : q = req[x]
      BY <1>1
    <2>2. Named(q) /\ Fresh(q, old, R)
      BY <1>2, <1>3, <2>1 DEF BoardInv
    <2>3. q.pc = "written" => q.t \notin S
      BY <1>4, <2>1
    <2>4. R \subseteq R2 /\ \A t \in Task \ S : old[t] = rows[t]
      BY <1>2, <1>3
    <2>5. /\ Overtaken(q, S) \in Requests
          /\ Overtaken(q, S).pc = q.pc /\ Overtaken(q, S).t = q.t
          /\ Named(Overtaken(q, S)) /\ Fresh(Overtaken(q, S), rows, R2)
          /\ Summed(Overtaken(q, S), rows)
      BY <2>2, <2>3, <2>4, OvertakenIs
    <2>6. req'[x] = Overtaken(q, S)
      BY <1>4, <2>1
    <2>7. QED
      BY <2>1, <2>5, <2>6, Zenon
  <1>5. ASSUME NEW x \in Request, x \in D
        PROVE  /\ req'[x] \in Requests /\ req'[x].pc = "idle"
               /\ Named(req'[x]) /\ Fresh(req'[x], rows, R2) /\ Summed(req'[x], rows)
    <2>1. req'[x] = NoRequest
      BY <1>5
    <2>2. QED
      BY <2>1, NoRequestIs DEF Named, Fresh, Summed
  <1>6. req' \in [Request -> Requests]
    <2>1. \A x \in Request : req'[x] \in Requests
      BY <1>4, <1>5, Zenon
    <2>2. req' = [x \in Request |-> req'[x]]
      OBVIOUS
    <2>3. QED
      BY <2>1, <2>2
  <1>7. TypeOK'
    BY <1>6 DEF TypeOK, Requests
  <1>8. \A x \in Request : Named(req'[x]) /\ Fresh(req'[x], task', raced') /\ Summed(req'[x], task')
    BY <1>2, <1>4, <1>5, Zenon
  <1>9. OneWriter'
    <2>1. \A s, u \in Request :
            req[s].pc = "written" /\ req[u].pc = "written" /\ req[s].t = req[u].t => s = u
      BY Zenon DEF BoardInv, OneWriter
    <2>2. \A x \in Request : req'[x].pc = "written" =>
            req[x].pc = "written" /\ req'[x].t = req[x].t
      BY <1>4, <1>5
    <2>3. QED
      BY <2>1, <2>2 DEF OneWriter
  <1>10. QED
    BY <1>7, <1>8, <1>9, Zenon DEF BoardInv

\* A commit: it leaves what the request has decided; when the sync is left out, nothing
\* that the summary depends on has changed.
LEMMA CommitStep ==
  ASSUME BoardInv, NEW r \in Request, Commit(r)
  PROVE  BoardInv'
  <1>1. /\ task \in [Task -> Row] /\ summary \in Summary /\ req \in [Request -> Requests]
        /\ raced \subseteq Task /\ missed \in BOOLEAN
    BY TypeIs DEF BoardInv
  <1>2. PICK q \in Requests : q = req[r]
    BY <1>1
  <1>3. /\ q.pc = "written"
        /\ task' = [task EXCEPT ![q.t] = q.new]
        /\ summary' = IF q.sync THEN q.agg ELSE summary
        /\ raced' = IF q.stale THEN raced \cup {q.t} ELSE raced
        /\ missed' = IF q.sync THEN q.late ELSE missed \/ q.t \in raced'
        /\ req' = [x \in Request |-> IF x = r THEN NoRequest ELSE Overtaken(req[x], {q.t})]
    BY <1>2 DEF Commit
  <1>4. q.t \in Task /\ q.new \in Row /\ q.agg \in Summary /\ q.late \in BOOLEAN
    BY <1>2, <1>3, RequestIs DEF BoardInv, Named
  <1>5. Fresh(q, task, raced) /\ Summed(q, task)
    BY <1>2 DEF BoardInv
  <1>6. PICK rows \in [Task -> Row] : rows = [task EXCEPT ![q.t] = q.new]
    BY <1>1, <1>4
  <1>7. task' = rows /\ rows[q.t] = q.new /\ \A t \in Task \ {q.t} : rows[t] = task[t]
    BY <1>1, <1>3, <1>4, <1>6
  <1>8. raced \subseteq raced' /\ raced' \subseteq Task
    BY <1>1, <1>3, <1>4
  <1>9. summary' \in Summary /\ missed' \in BOOLEAN
    BY <1>1, <1>3, <1>4
  <1>10. q.t \notin raced' => Decided(q, task)
    BY <1>3, <1>5 DEF Fresh
  <1>11. Outcome(q, task) = q.new
    BY <1>3 DEF Outcome
  <1>12. q.t \notin raced' => Tidy(q.new)
    BY <1>10, <1>11 DEF Decided
  <1>13. \A t \in Task : t \notin raced => Tidy(task[t])
    BY DEF BoardInv, TidyRows
  <1>14. TidyRows'
    <2>1. ASSUME NEW t \in Task, t \notin raced' PROVE Tidy(rows[t])
      <3>1. CASE t = q.t
        BY <1>7, <1>12, <2>1, <3>1
      <3>2. CASE t # q.t
        BY <1>7, <1>8, <1>13, <2>1, <3>2
      <3>3. QED
        BY <3>1, <3>2
    <2>2. QED
      BY <1>7, <2>1 DEF TidyRows
  <1>15. ASSUME ~missed' PROVE summary' = Aggregate(rows)
    <2>1. CASE q.sync
      BY <1>3, <1>5, <1>6, <1>15, <2>1 DEF Summed
    <2>2. CASE ~q.sync
      <3>1. ~missed /\ q.t \notin raced' /\ q.t \notin raced /\ summary' = summary
        BY <1>3, <1>8, <1>15, <2>2
      <3>2. summary = Aggregate(task)
        BY <3>1 DEF BoardInv, SummaryInStep
      <3>3. /\ q.new.col = task[q.t].col /\ q.new.subs = task[q.t].subs
            /\ Tidy(q.new) /\ Tidy(task[q.t])
        BY <1>4, <1>10, <1>11, <1>12, <1>13, <2>2, <3>1 DEF Decided
      <3>4. Weight(q.new) = Weight(task[q.t])
        BY <3>3 DEF Weight, Tidy
      <3>5. \A t \in Task : rows[t].col = task[t].col /\ Weight(rows[t]) = Weight(task[t])
        BY <1>7, <3>3, <3>4
      <3>6. PICK old : old = task
        OBVIOUS
      <3>7. Aggregate(rows) = Aggregate(old)
        BY <3>5, <3>6, AggregateSame
      <3>8. QED
        BY <3>1, <3>2, <3>6, <3>7, Zenon
    <2>3. QED
      BY <2>1, <2>2
  <1>16. SummaryInStep'
    BY <1>7, <1>15, Zenon DEF SummaryInStep
  <1>17. PICK D \in SUBSET Request : D = {r}
    OBVIOUS
  <1>18. req' = [x \in Request |-> IF x \in D THEN NoRequest ELSE Overtaken(req[x], {q.t})]
    BY <1>3, <1>17
  <1>19. \A x \in Request \ D : req[x].pc = "written" => req[x].t \notin {q.t}
    BY <1>2, <1>3, <1>17 DEF BoardInv, OneWriter
  <1>20. QED
    BY <1>7, <1>8, <1>9, <1>14, <1>16, <1>18, <1>19, Overtake

\* The statement of the SLA job.
LEMMA SlaStep ==
  ASSUME BoardInv, NEW S \in SUBSET Task, CheckClientApprovalSla(S)
  PROVE  BoardInv'
  <1>1. /\ task \in [Task -> Row] /\ summary \in Summary /\ raced \subseteq Task
    BY TypeIs DEF BoardInv
  <1>2. PICK rows : rows = [t \in Task |-> IF t \in S
                             THEN [task[t] EXCEPT !.col = "blocked", !.block = "client_timeout"]
                             ELSE task[t]]
    OBVIOUS
  <1>3. ASSUME NEW t \in Task, t \in S
        PROVE  rows[t] \in Row /\ (Tidy(task[t]) => Tidy(rows[t]))
    <2>1. PICK row \in Row : row = task[t]
      BY <1>1
    <2>2. rows[t] = [row EXCEPT !.col = "blocked", !.block = "client_timeout"]
      BY <1>2, <1>3, <2>1
    <2>3. rows[t] \in Row
      BY <2>2, BoardAssumption DEF Row, BlockType
    <2>4. rows[t].col = "blocked" /\ rows[t].subs = row.subs /\ rows[t].progress = row.progress
      BY <2>2 DEF Row
    <2>5. QED
      BY <2>1, <2>3, <2>4 DEF Tidy
  <1>4. \A t \in Task \ S : rows[t] = task[t]
    BY <1>2
  <1>5. rows \in [Task -> Row]
    <2>1. \A t \in Task : rows[t] \in Row
      BY <1>1, <1>3, <1>4
    <2>2. rows = [t \in Task |-> rows[t]]
      BY <1>2
    <2>3. QED
      BY <2>1, <2>2
  <1>6. task' = rows /\ missed' = TRUE /\ summary' = summary /\ raced' = raced
    BY <1>2 DEF CheckClientApprovalSla
  <1>7. TidyRows'
    <2>1. \A t \in Task : t \notin raced => Tidy(rows[t])
      BY <1>3, <1>4 DEF BoardInv, TidyRows
    <2>2. QED
      BY <1>6, <2>1 DEF TidyRows
  <1>8. SummaryInStep'
    BY <1>6 DEF SummaryInStep
  <1>9. PICK D \in SUBSET Request : D = {}
    OBVIOUS
  <1>10. req' = [x \in Request |-> IF x \in D THEN NoRequest ELSE Overtaken(req[x], S)]
    BY <1>9 DEF CheckClientApprovalSla
  <1>11. \A x \in Request \ D : req[x].pc = "written" => req[x].t \notin S
    BY DEF CheckClientApprovalSla, Locked
  <1>12. summary' \in Summary /\ missed' \in BOOLEAN /\ raced \subseteq raced' /\ raced' \subseteq Task
    BY <1>1, <1>6
  <1>13. QED
    BY <1>4, <1>5, <1>6, <1>7, <1>8, <1>10, <1>11, <1>12, Overtake

\* The first task of a project without any, made by a change request.
LEMMA MinorStep ==
  ASSUME BoardInv, NEW t \in Task, NEW col \in Columns, CreateMinorChangeRequest(t, col)
  PROVE  BoardInv'
  <1>1. /\ task \in [Task -> Row] /\ summary \in Summary /\ raced \subseteq Task
    BY TypeIs DEF BoardInv
  <1>2. PICK row : row = [NoTask EXCEPT !.col = col]
    OBVIOUS
  <1>3. row \in Row /\ row.block = "none" /\ row.subs = NoSubtasks
    BY <1>2, NoTaskIs DEF NoTask, Row
  <1>4. Tidy(row)
    BY <1>3 DEF Tidy, NoSubtasks
  <1>5. PICK rows \in [Task -> Row] : rows = [task EXCEPT ![t] = row]
    BY <1>1, <1>3
  <1>6. rows[t] = row /\ \A u \in Task \ {t} : rows[u] = task[u]
    BY <1>1, <1>5
  <1>7. task' = rows /\ missed' = TRUE /\ summary' = summary /\ raced' = raced
    BY <1>2, <1>5 DEF CreateMinorChangeRequest
  <1>8. TidyRows'
    <2>1. \A u \in Task : u \notin raced => Tidy(rows[u])
      BY <1>4, <1>6 DEF BoardInv, TidyRows
    <2>2. QED
      BY <1>7, <2>1 DEF TidyRows
  <1>9. SummaryInStep'
    BY <1>7 DEF SummaryInStep
  <1>10. PICK D \in SUBSET Request : D = {}
    OBVIOUS
  <1>11. PICK S : S = {t}
    OBVIOUS
  <1>12. req' = [x \in Request |-> IF x \in D THEN NoRequest ELSE Overtaken(req[x], S)]
    BY <1>10, <1>11 DEF CreateMinorChangeRequest
  <1>13. \A x \in Request \ D : req[x].pc = "written" => req[x].t \notin S
    BY <1>11 DEF CreateMinorChangeRequest, Locked
  <1>14. summary' \in Summary /\ missed' \in BOOLEAN /\ raced \subseteq raced' /\ raced' \subseteq Task
    BY <1>1, <1>7
  <1>15. \A u \in Task \ S : rows[u] = task[u]
    BY <1>6, <1>11
  <1>16. QED
    BY <1>7, <1>8, <1>9, <1>12, <1>13, <1>14, <1>15, Overtake

\* A summary written by hand, and steps that change nothing.
LEMMA OtherStep ==
  ASSUME BoardInv, (\E s \in Manual : UpdateProject(s)) \/ UNCHANGED vars
  PROVE  BoardInv'
  <1>1. /\ task \in [Task -> Row] /\ summary \in Summary /\ req \in [Request -> Requests]
        /\ raced \subseteq Task /\ missed \in BOOLEAN
    BY TypeIs DEF BoardInv
  <1>2. task' = task /\ req' = req /\ raced' = raced
    BY DEF UpdateProject, vars
  <1>3. summary' \in Summary /\ missed' \in BOOLEAN
    BY <1>1, BoardAssumption DEF UpdateProject, vars
  <1>4. SummaryInStep'
    <2>1. CASE \E s \in Manual : UpdateProject(s)
      BY <2>1 DEF UpdateProject, SummaryInStep
    <2>2. CASE UNCHANGED vars
      BY <2>2 DEF vars, BoardInv, SummaryInStep
    <2>3. QED
      BY <2>1, <2>2
  <1>5. TypeOK'
    BY <1>1, <1>2, <1>3 DEF TypeOK, Requests
  <1>6. OneWriter' /\ TidyRows'
    BY <1>2 DEF BoardInv, OneWriter, TidyRows
  <1>7. \A r \in Request :
          Named(req'[r]) /\ Fresh(req'[r], task', raced') /\ Summed(req'[r], task')
    BY <1>2, Zenon DEF BoardInv
  <1>8. QED
    BY <1>4, <1>5, <1>6, <1>7, Zenon DEF BoardInv

\* The invariant holds of an empty board.
LEMMA BoardInit == Init => BoardInv
  <1> SUFFICES ASSUME Init PROVE BoardInv
    OBVIOUS
  <1>1. /\ task = [t \in Task |-> NoTask] /\ summary = Empty
        /\ req = [r \in Request |-> NoRequest] /\ raced = {} /\ missed = FALSE
    BY DEF Init
  <1>2. \A t \in Task : task[t] = NoTask
    BY <1>1
  <1>3. \A r \in Request : req[r] = NoRequest
    BY <1>1
  <1>4. TypeOK
    <2>1. Empty \in Summary
      BY DEF Empty, Summary, Status
    <2>2. task \in [Task -> Row] /\ req \in [Request -> Requests]
      BY <1>1, NoTaskIs, NoRequestIs
    <2>3. QED
      BY <1>1, <2>1, <2>2 DEF TypeOK, Requests
  <1>5. \A r \in Request : Named(req[r]) /\ Fresh(req[r], task, raced) /\ Summed(req[r], task)
    BY <1>3, NoRequestIs DEF Named, Fresh, Summed
  <1>6. OneWriter
    BY <1>3, NoRequestIs DEF OneWriter
  <1>7. TidyRows
    BY <1>2, NoTaskIs DEF TidyRows
  <1>8. SummaryInStep
    <2>1. \A t \in Task : task[t].col = "none"
      BY <1>2, NoTaskIs
    <2>2. Present(task) = {}
      BY <2>1 DEF Present
    <2>3. Aggregate(task) = Empty
      BY <2>2 DEF Aggregate, Present, Empty
    <2>4. QED
      BY <1>1, <2>3 DEF SummaryInStep
  <1>9. QED
    BY <1>4, <1>5, <1>6, <1>7, <1>8 DEF BoardInv

\* Every step preserves the invariant.
LEMMA BoardStep == BoardInv /\ [Next]_vars => BoardInv'
  <1> SUFFICES ASSUME BoardInv, [Next]_vars PROVE BoardInv'
    OBVIOUS
  <1>1. ASSUME NEW r \in Request, NEW role \in Role, NEW t \in Task,
               \E col \in Columns, subs \in Subtasks \cup {NoSubtasks}, n \in Checklist :
                 CreateTask(r, role, t, col, subs, n)
        PROVE  BoardInv'
    BY <1>1, CreateStep
  <1>2. ASSUME NEW r \in Request, NEW role \in Role, NEW t \in Task,
               \E a \in BOOLEAN, patch \in Edits : UpdateTask(r, role, a, t, patch)
        PROVE  BoardInv'
    BY <1>2, UpdateStep
  <1>3. ASSUME NEW r \in Request, NEW role \in Role, NEW t \in Task, BlockTask(r, role, t)
        PROVE  BoardInv'
    BY <1>3, BlockStep
  <1>4. ASSUME NEW r \in Request, NEW role \in Role, NEW t \in Task,
               \E a \in BOOLEAN, col \in Columns : UnblockTask(r, role, a, t, col)
        PROVE  BoardInv'
    BY <1>4, UnblockStep
  <1>5. ASSUME NEW r \in Request, Write(r) \/ Commit(r) \/ Abort(r) PROVE BoardInv'
    BY <1>5, WriteStep, CommitStep, AbortStep
  <1>6. ASSUME \E S \in SUBSET Task : CheckClientApprovalSla(S) PROVE BoardInv'
    BY <1>6, SlaStep
  <1>7. ASSUME \E t \in Task, col \in Columns : CreateMinorChangeRequest(t, col) PROVE BoardInv'
    BY <1>7, MinorStep
  <1>8. ASSUME (\E s \in Manual : UpdateProject(s)) \/ UNCHANGED vars PROVE BoardInv'
    BY <1>8, OtherStep
  <1>9. QED
    BY <1>1, <1>2, <1>3, <1>4, <1>5, <1>6, <1>7, <1>8, Zenon DEF Next

\* The invariant holds always.
LEMMA BoardInvariant == Spec => []BoardInv
  BY BoardInit, BoardStep, PTL DEF Spec

\* Only these steps change rows of tasks.
LEMMA WhoWrites ==
  ASSUME [Next]_vars
  PROVE  \/ task' = task
         \/ \E r \in Request : Commit(r)
         \/ \E S \in SUBSET Task : CheckClientApprovalSla(S)
         \/ \E t \in Task, col \in Columns : CreateMinorChangeRequest(t, col)
  <1>1. \A r, role, t, col, subs, n : CreateTask(r, role, t, col, subs, n) => task' = task
    BY DEF CreateTask
  <1>2. \A r, role, a, t, patch : UpdateTask(r, role, a, t, patch) => task' = task
    BY DEF UpdateTask
  <1>3. \A r, role, t : BlockTask(r, role, t) => task' = task
    BY DEF BlockTask
  <1>4. \A r, role, a, t, col : UnblockTask(r, role, a, t, col) => task' = task
    BY DEF UnblockTask
  <1>5. \A r : Write(r) \/ Abort(r) => task' = task
    BY DEF Write, Abort
  <1>6. (\E s \in Manual : UpdateProject(s)) \/ UNCHANGED vars => task' = task
    BY DEF UpdateProject, vars
  <1>7. QED
    BY <1>1, <1>2, <1>3, <1>4, <1>5, <1>6, Zenon DEF Next

\* The step that takes the timeout off a task is the commit of a request that was
\* allowed to, or that decided on an outdated row.
LEMMA ReleaseStep ==
  ASSUME BoardInv, [Next]_vars, NEW t \in Task,
         task[t].block = "client_timeout", task'[t].block = "none"
  PROVE  \/ t \in raced'
         \/ \E r \in Request : /\ req[r].pc = "written" /\ req[r].t = t
                               /\ req[r].release \in {"admin", "client"}
  <1>1. task \in [Task -> Row] /\ req \in [Request -> Requests]
    BY TypeIs DEF BoardInv
  <1>2. CASE task' = task
    BY <1>2
  <1>3. ASSUME NEW r \in Request, Commit(r)
        PROVE  \/ t \in raced'
               \/ req[r].pc = "written" /\ req[r].t = t /\ req[r].release \in {"admin", "client"}
    <2>1. PICK q \in Requests : q = req[r]
      BY <1>1
    <2>2. /\ q.pc = "written" /\ task' = [task EXCEPT ![q.t] = q.new]
          /\ raced' = IF q.stale THEN raced \cup {q.t} ELSE raced
      BY <1>3, <2>1 DEF Commit
    <2>3. q.t = t /\ q.new.block = "none"
      BY <1>1, <2>2
    <2>4. Fresh(q, task, raced)
      BY <2>1 DEF BoardInv
    <2>5. t \notin raced' => q.release \in {"admin", "client"}
      BY <2>2, <2>3, <2>4 DEF Fresh, Decided, Outcome
    <2>6. QED
      BY <2>1, <2>2, <2>3, <2>5
  <1>4. ASSUME NEW S \in SUBSET Task, CheckClientApprovalSla(S) PROVE FALSE
    <2>1. PICK row \in Row : row = task[t]
      BY <1>1
    <2>2. task'[t] = IF t \in S THEN [row EXCEPT !.col = "blocked", !.block = "client_timeout"]
                     ELSE row
      BY <1>4, <2>1 DEF CheckClientApprovalSla
    <2>3. task'[t].block = "client_timeout"
      BY <2>1, <2>2 DEF Row
    <2>4. QED
      BY <2>3
  <1>5. ASSUME NEW u \in Task, NEW col \in Columns, CreateMinorChangeRequest(u, col)
        PROVE  t \in raced'
    <2>1. task[t].col = "none" /\ raced' = raced
      BY <1>5 DEF CreateMinorChangeRequest, Exists
    <2>2. t \notin raced => Tidy(task[t])
      BY DEF BoardInv, TidyRows
    <2>3. QED
      BY <2>1, <2>2 DEF Tidy
  <1>6. QED
    BY <1>2, <1>3, <1>4, <1>5, WhoWrites

-----------------------------------------------------------------------------
(* Theorems.                                                               *)

\* Every variable keeps its type: whatever tasks there are and however their weights
\* add up, the project's progress and that of each task is a percentage.
THEOREM BoardTypeCorrect == Spec => []TypeOK
  <1>1. BoardInv => TypeOK
    BY DEF BoardInv
  <1>2. QED
    BY <1>1, BoardInvariant, PTL

\* syncProjectStatusAndProgress keeps the summary in step with the tasks, except after
\* the writers that leave it out and after overlapping commits.
THEOREM BoardSummaryInStep == Spec => []SummaryInStep
  <1>1. BoardInv => SummaryInStep
    BY DEF BoardInv
  <1>2. QED
    BY <1>1, BoardInvariant, PTL

\* A task that no request has written on the ground of an outdated row has a block type
\* in the blocked column only.
THEOREM BoardBlockTypeInColumn == Spec => []BlockTypeInColumn
  <1>1. BoardInv => BlockTypeInColumn
    BY DEF BoardInv, TidyRows, Tidy, BlockTypeInColumn
  <1>2. QED
    BY <1>1, BoardInvariant, PTL

\* A timeout of the SLA job is released by a client or an administrator only, unless
\* the request decided on an outdated row.
THEOREM BoardTimeoutReleased == Spec => TimeoutReleased
  <1> DEFINE Allowed ==
        \A t \in Task :
          task[t].block = "client_timeout" /\ task'[t].block = "none" =>
            \/ t \in raced'
            \/ \E r \in Request : /\ req[r].pc = "written" /\ req[r].t = t
                                  /\ req[r].release \in {"admin", "client"}
  <1>1. BoardInv /\ [Next]_vars => [Allowed]_vars
    BY ReleaseStep
  <1>2. QED
    BY <1>1, BoardInvariant, PTL DEF Spec, TimeoutReleased

=============================================================================

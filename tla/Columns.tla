------------------------------ MODULE Columns ------------------------------
(***************************************************************************)
(* The positions of a project's board columns.                             *)
(*                                                                         *)
(*   src/modules/collab/board/board-column.service.ts                      *)
(*   src/modules/collab/board/board-column.repository.ts                   *)
(*                                                                         *)
(* The table has a unique index on (project, position), made by the        *)
(* migration drizzle/0000 and not declared in schema.ts.  The repository   *)
(* makes room by sending the columns in the way to negative positions and  *)
(* bringing them back one place along.  A transaction is the sequence of   *)
(* its statements, and is rolled back as soon as one of them puts two      *)
(* columns on one position.  updateTaskColumn reads the column before its  *)
(* transaction, so the position it moves from may be an old one.           *)
(***************************************************************************)
EXTENDS Integers, FiniteSets, Sequences

CONSTANTS
  Column,          \* ids of project_task_columns
  DefaultColumns,  \* the columns a project is created with, in their order
  Place,           \* positions an admin may ask for (min(0) in the schemas)
  MaxPosition,     \* bound: columns are not pushed further
  Editor           \* requests that may be in flight at once

ASSUME ColumnsAssumption ==
  /\ DefaultColumns \in Seq(Column)
  /\ \A i, j \in DOMAIN DefaultColumns : DefaultColumns[i] = DefaultColumns[j] => i = j
  /\ MaxPosition \in Nat
  /\ Place \subseteq 0..MaxPosition
  /\ Len(DefaultColumns) <= MaxPosition + 1

VARIABLES
  position,        \* of each column in the table
  edit             \* the requests: the column as findTaskColumnById read it

columnsVars == <<position, edit>>

Placed == DOMAIN position
NoEdit == [pc |-> "idle"]

\* createDefaultTaskColumns: the columns of the project's type, at 0, 1, ...
ColumnsInit ==
  /\ position = [c \in {DefaultColumns[i] : i \in DOMAIN DefaultColumns} |->
                   CHOOSE p \in 0..Len(DefaultColumns) - 1 : DefaultColumns[p + 1] = c]
  /\ edit = [e \in Editor |-> NoEdit]

-----------------------------------------------------------------------------
(* Statements.  A table is a function from its columns to their positions. *)

Distinct(p) == \A c, d \in DOMAIN p : p[c] = p[d] => c = d

\* UPDATE ... SET position = -position - k WHERE Hit.
Negate(p, Hit(_), k) == [c \in DOMAIN p |-> IF Hit(p[c]) THEN -p[c] - k ELSE p[c]]

Put(p, c, n) == [d \in DOMAIN p \cup {c} |-> IF d = c THEN n ELSE p[d]]

\* createTaskColumnAtPosition.
CreatedAt(c, n) ==
  LET p1 == Negate(position, LAMBDA x : x >= n /\ x >= 0, 1)
      p2 == Negate(p1, LAMBDA x : x < 0, 0)
  IN  <<p1, p2, Put(p2, c, n)>>

\* moveTaskColumnToPosition, with the position the request read.
\* Faulty variant: a column that went to -2 is not brought back.
MovedToStray(c, from, to) ==
  LET p1 == Put(position, c, -1)
      p2 == IF to > from THEN Negate(p1, LAMBDA x : x > from /\ x <= to, 1)
                         ELSE Negate(p1, LAMBDA x : x >= to /\ x < from, 1)
      p3 == Negate(p2, LAMBDA x : x < -2, IF to > from THEN 2 ELSE 0)
  IN  <<p1, p2, p3, Put(p3, c, to)>>

MovedTo(c, from, to) ==
  LET p1 == Put(position, c, -1)
      p2 == IF to > from THEN Negate(p1, LAMBDA x : x > from /\ x <= to, 1)
                         ELSE Negate(p1, LAMBDA x : x >= to /\ x < from, 1)
      p3 == Negate(p2, LAMBDA x : x < -1, IF to > from THEN 2 ELSE 0)
  IN  <<p1, p2, p3, Put(p3, c, to)>>

Accepted(statements) == \A i \in DOMAIN statements : Distinct(statements[i])
Final(statements) == statements[Cardinality(DOMAIN statements)]

Commit(statements) ==
  /\ Accepted(statements)
  /\ \A c \in DOMAIN Final(statements) : Final(statements)[c] <= MaxPosition
  /\ position' = Final(statements)

-----------------------------------------------------------------------------
(* Requests.                                                               *)

CreateTaskColumn(c, n) ==
  /\ c \notin Placed
  /\ Commit(CreatedAt(c, n))
  /\ UNCHANGED edit

FindTaskColumn(e, c, to) ==
  /\ edit[e] = NoEdit
  /\ c \in Placed
  /\ edit' = [edit EXCEPT ![e] = [pc |-> "move", column |-> c, from |-> position[c], to |-> to]]
  /\ UNCHANGED position

\* Asked to stay where it was read, a column is left where it is.
UpdateTaskColumn(e) ==
  /\ edit[e] # NoEdit
  /\ LET q == edit[e] IN
       IF q.to = q.from THEN UNCHANGED position ELSE Commit(MovedTo(q.column, q.from, q.to))
  /\ edit' = [edit EXCEPT ![e] = NoEdit]

\* The index refuses a statement, or the request fails before its transaction.
EditFails(e) ==
  /\ edit[e] # NoEdit
  /\ edit' = [edit EXCEPT ![e] = NoEdit]
  /\ UNCHANGED position

ColumnsNext ==
  \/ \E c \in Column, n \in Place : CreateTaskColumn(c, n)
  \/ \E e \in Editor, c \in Column, to \in Place : FindTaskColumn(e, c, to)
  \/ \E e \in Editor : UpdateTaskColumn(e) \/ EditFails(e)

ColumnsSpec == ColumnsInit /\ [][ColumnsNext]_columnsVars

-----------------------------------------------------------------------------
(* Properties.                                                             *)

ColumnsTypeOK ==
  /\ Placed \subseteq Column
  /\ position \in [Placed -> Int]
  /\ edit \in [Editor -> {NoEdit} \cup
                 [pc : {"move"}, column : Column, from : 0..MaxPosition, to : Place]]

SameOrder(p, q, S) == \A c, d \in S : p[c] < p[d] => q[c] < q[d]
Dense(p) == {p[c] : c \in DOMAIN p} = 0..Cardinality(DOMAIN p) - 1

\* Whatever an edit did on its way through the negative positions, and however old
\* the position it started from, it moved or added one column: all others keep
\* their order, and nothing is left behind at a negative position.  Among columns
\* without gaps, a move from the current position to one of theirs opens none.
OneColumnMoves ==
  [][/\ \A c \in DOMAIN position' : position'[c] >= 0
     /\ \E c \in Column : SameOrder(position, position', Placed \ {c})
     /\ \A e \in Editor :
          /\ edit[e] # NoEdit /\ edit'[e] = NoEdit
          /\ edit[e].from = position[edit[e].column]
          /\ edit[e].to < Cardinality(Placed) /\ Dense(position)
          => Dense(position')]_columnsVars

=============================================================================

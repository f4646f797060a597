------------------------------- MODULE Board -------------------------------
(***************************************************************************)
(* The tasks of one project's board and the summary (status, progress)     *)
(* kept on the project row.                                                *)
(*                                                                         *)
(*   src/modules/collab/board/board-task.service.ts           create,      *)
(*                                                            update       *)
(*   src/modules/collab/board/board-task-blocking.service.ts  block,       *)
(*                                                            unblock      *)
(*   src/modules/collab/board/board-task-{patches,progress}.ts             *)
(*   src/modules/collab/project/project.repository.ts  the summary         *)
(*   src/jobs/check-approval-sla.ts                    blocks by timeout   *)
(*                                                                         *)
(* A request reads and checks first and opens its transaction afterwards.  *)
(* The transaction (READ COMMITTED) is two steps: its statements, which    *)
(* lock the task and aggregate what is committed by then, and its commit.  *)
(* Titles, comments, assignments, audit and events are left out.           *)
(***************************************************************************)
EXTENDS Integers, FiniteSets, FiniteSetsExt

CONSTANTS
  Task,       \* ids of tasks
  NoId,       \* no task
  Request,    \* requests that may be in flight at once
  Columns,    \* keys of the project's columns
  Subtasks,   \* checklists: [total |-> , done |-> ]
  Checklist,  \* values of checklist_progress when a task is created
  Edits,      \* patches of updateTask: col, subs, checklist, type, each an
              \* option, that is a set with at most one value
  Manual      \* values an administrator writes over the summary

Key == {"pending", "doing", "internal_review", "client_approval", "blocked", "done"}
BlockType == {"internal_impediment", "client_timeout"}
Role == {"admin", "worker", "client"}
Status == {"todo", "in_progress", "in_review", "completed"}
Summary == [status : Status, progress : 0 .. 100]

NoSubtasks == [total |-> 0, done |-> 0]

ASSUME BoardAssumption ==
  /\ NoId \notin Task /\ IsFiniteSet(Task)
  /\ Columns \subseteq Key /\ {"pending", "blocked"} \subseteq Columns
  /\ Subtasks \subseteq {s \in [total : Nat, done : Nat] : s.done <= s.total}
  /\ Checklist \subseteq 0 .. 100
  /\ Edits \subseteq [col : SUBSET Columns, subs : SUBSET (Subtasks \cup {NoSubtasks}),
                      checklist : SUBSET (0 .. 100), type : SUBSET BlockType]
  /\ Manual \subseteq Summary

VARIABLES
  task,     \* committed rows of project_tasks
  summary,  \* status and progress_percent of the project row
  req,      \* the requests
  raced,    \* history: tasks written by a request that had read an older row
  missed    \* history: the last sync, if any, did not see all tasks as they are

vars == <<task, summary, req, raced, missed>>

\* A row that does not exist has no column.
NoTask == [col |-> "none", subs |-> NoSubtasks, progress |-> 0, completed |-> FALSE,
           block |-> "none"]

Row == [col : Columns \cup {"none"}, subs : Subtasks \cup {NoSubtasks}, progress : 0 .. 100,
        completed : BOOLEAN, block : BlockType \cup {"none"}]
Field == {"col", "subs", "progress", "completed", "block"}

Empty == [status |-> "todo", progress |-> 0]

\* new, fields: the values to write, and which of them; once they are written,
\* the whole row; agg: what the sync writes.  History: release, the role that
\* releases a timeout; stale, the row changed after it was read; late, something
\* was committed after the sync had aggregated.
NoRequest == [pc |-> "idle", t |-> NoId, new |-> NoTask, fields |-> {}, sync |-> FALSE,
              agg |-> Empty, release |-> "none", stale |-> FALSE, late |-> FALSE]

Init ==
  /\ task = [t \in Task |-> NoTask]
  /\ summary = Empty
  /\ req = [r \in Request |-> NoRequest]
  /\ raced = {}
  /\ missed = FALSE

Exists(t) == task[t].col # "none"

-----------------------------------------------------------------------------
(* Progress of a task and of the project.                                  *)

\* Math.round and ROUND of a non-negative quotient.
Round(a, b) == (2 * a + b) \div (2 * b)

Percent(s) == Round(100 * s.done, s.total)

\* resolveTaskProgressAndCompletion.
Progress(col, subs, checklist) ==
  CASE subs.total > 0 -> Percent(subs)
    [] subs.total = 0 /\ col = "done" -> 100
    [] subs.total = 0 /\ col # "done" /\ checklist = 100 -> 0
    [] OTHER -> checklist

Refused(col, subs) == col = "done" /\ subs.total > 0 /\ Percent(subs) < 100

Completed(col, progress) == col = "done" /\ progress = 100

Weight(row) ==
  IF row.subs.total > 0 THEN row.progress
  ELSE CASE row.col = "doing" -> 25
         [] row.col = "internal_review" -> 50
         [] row.col = "client_approval" -> 75
         [] row.col = "blocked" -> 10
         [] row.col = "done" -> 100
         [] OTHER -> 0

\* syncProjectStatusAndProgress, on the rows the statement sees.
\* Faulty variant: the sum instead of the average.
AggregateSum(rows) ==
  LET T == {t \in Task : rows[t].col # "none"}
  IN [status |-> "in_progress", progress |-> MapThenSumSet(LAMBDA t : Weight(rows[t]), T)]

Aggregate(rows) ==
  LET T == {t \in Task : rows[t].col # "none"}
      In(k) == {t \in T : rows[t].col = k}
  IN [status |-> CASE T = {} -> "todo"
                   [] T # {} /\ T = In("done") -> "completed"
                   [] In("client_approval") # {} -> "in_review"
                   [] OTHER -> IF T = In("pending") THEN "todo" ELSE "in_progress",
      progress |-> IF T = {} THEN 0
                   ELSE Round(MapThenSumSet(LAMBDA t : Weight(rows[t]), T), Cardinality(T))]

-----------------------------------------------------------------------------
(* Transactions.                                                           *)

Locked(t) == \E q \in Request : req[q].pc = "written" /\ req[q].t = t

Merge(row, new, fields) == [f \in Field |-> IF f \in fields THEN new[f] ELSE row[f]]

\* The statements of q's transaction leave its task with this row.
Written(q, row) ==
  [q EXCEPT !.pc = "written", !.new = row, !.fields = {},
            !.agg = IF q.sync THEN Aggregate([task EXCEPT ![q.t] = row]) ELSE Empty]

\* What others have read of these tasks is outdated, and what they have
\* aggregated does not contain this commit.
Overtaken(q, T) ==
  [q EXCEPT !.stale = @ \/ (q.pc = "read" /\ q.t \in T), !.late = @ \/ q.pc = "written"]

Write(r) ==
  /\ req[r].pc = "read" /\ ~Locked(req[r].t)
  /\ LET q == req[r] IN
       req' = [req EXCEPT ![r] = Written(q, Merge(task[q.t], q.new, q.fields))]
  /\ UNCHANGED <<task, summary, raced, missed>>

Commit(r) ==
  /\ req[r].pc = "written"
  /\ LET q == req[r] IN
       /\ task' = [task EXCEPT ![q.t] = q.new]
       /\ summary' = IF q.sync THEN q.agg ELSE summary
       /\ raced' = IF q.stale THEN raced \cup {q.t} ELSE raced
       /\ missed' = IF q.sync THEN q.late ELSE missed \/ q.t \in raced'
  /\ req' = [x \in Request |-> IF x = r THEN NoRequest ELSE Overtaken(req[x], {req[r].t})]

\* A check inside the transaction, the database or the process fails.
Abort(r) ==
  /\ req[r].pc # "idle"
  /\ req' = [req EXCEPT ![r] = NoRequest]
  /\ UNCHANGED <<task, summary, raced, missed>>

-----------------------------------------------------------------------------
(* Operations of a request.                                                *)

\* Nothing it has read can change: columns are neither deleted nor given
\* another key.
CreateTask(r, role, t, col, subs, checklist) ==
  /\ req[r].pc = "idle" /\ role \in {"admin", "worker"}
  /\ ~Exists(t) /\ ~Locked(t)
  /\ ~Refused(col, subs)
  /\ LET p == Progress(col, subs, checklist)
         row == [NoTask EXCEPT !.col = col, !.subs = subs, !.progress = p,
                               !.completed = Completed(col, p)]
     IN req' = [req EXCEPT ![r] = Written([@ EXCEPT !.t = t, !.sync = TRUE], row)]
  /\ UNCHANGED <<task, summary, raced, missed>>

\* Faulty variant: an assigned worker may release any block.
CanUnblockTaskAnyBlock(role, block, assignee) ==
  role = "admin" \/ (role = "client" /\ block = "client_timeout") \/ (role = "worker" /\ assignee)

CanUnblockTask(role, block, assignee) ==
  \/ role = "admin"
  \/ role = "client" /\ block = "client_timeout"
  \/ role = "worker" /\ block = "internal_impediment" /\ assignee

Given(opt, default) == IF opt = {} THEN default ELSE CHOOSE x \in opt : TRUE

\* History: who is about to release a task the SLA job has blocked.
Releases(role, seen, block) ==
  IF seen.block = "client_timeout" /\ block = {"none"} THEN role ELSE "none"

\* resolveTaskColumnStatePatches: whether block_type is written, and its value.
\* Faulty variant: leaving the blocked column keeps it.
BlockPatchKeeps(from, to, type) ==
  CASE from # "blocked" /\ to = "blocked" -> {Given(type, "internal_impediment")}
    [] from = "blocked" /\ to = "blocked" -> type
    [] OTHER -> {}

BlockPatch(from, to, type) ==
  CASE from = "blocked" /\ to # "blocked" -> {"none"}
    [] from # "blocked" /\ to = "blocked" -> {Given(type, "internal_impediment")}
    [] from = "blocked" /\ to = "blocked" -> type
    [] OTHER -> {}

\* The reads and checks of updateTask.
UpdateTask(r, role, assignee, t, patch) ==
  /\ req[r].pc = "idle" /\ role \in {"admin", "worker"}
  /\ Exists(t)
  /\ LET seen == task[t]
         to == Given(patch.col, seen.col)
         list == Given(patch.subs, seen.subs)
         p == Progress(to, list, Given(patch.checklist, seen.progress))
         block == BlockPatch(seen.col, to, patch.type)
         fields == {"progress", "completed"} \cup (IF patch.col # {} THEN {"col"} ELSE {})
                     \cup (IF patch.subs # {} THEN {"subs"} ELSE {})
                     \cup (IF block # {} THEN {"block"} ELSE {})
         new == [col |-> to, subs |-> list, progress |-> p, completed |-> Completed(to, p),
                 block |-> Given(block, "none")]
     IN /\ ~Refused(to, list)
        /\ seen.col = "blocked" /\ to # "blocked" => CanUnblockTask(role, seen.block, assignee)
        /\ req' = [req EXCEPT ![r] =
             [NoRequest EXCEPT
                !.pc = "read", !.t = t,
                !.release = Releases(role, seen, block),
                !.new = Merge(NoTask, new, fields), !.fields = fields,
                !.sync = patch.col # {} \/ patch.checklist # {} \/ patch.subs # {}]]
  /\ UNCHANGED <<task, summary, raced, missed>>

\* blockTask writes the same whatever it has read.
\* Faulty variant: the summary is not recomputed.
BlockTaskNoSync(r, role, t) ==
  /\ req[r].pc = "idle" /\ role \in {"admin", "worker"}
  /\ Exists(t) /\ ~Locked(t)
  /\ LET row == [task[t] EXCEPT !.col = "blocked", !.block = "internal_impediment"]
     IN req' = [req EXCEPT ![r] = Written([@ EXCEPT !.t = t], row)]
  /\ UNCHANGED <<task, summary, raced, missed>>

BlockTask(r, role, t) ==
  /\ req[r].pc = "idle" /\ role \in {"admin", "worker"}
  /\ Exists(t) /\ ~Locked(t)
  /\ LET row == [task[t] EXCEPT !.col = "blocked", !.block = "internal_impediment"]
     IN req' = [req EXCEPT ![r] = Written([@ EXCEPT !.t = t, !.sync = TRUE], row)]
  /\ UNCHANGED <<task, summary, raced, missed>>

\* Without a target: the doing column, else pending.
UnblockTargets == Columns \ {"blocked"}

\* The reads and checks of unblockTask.  Nobody asks whether the task is in the
\* blocked column, or complete when the target is the final one.
UnblockTask(r, role, assignee, t, col) ==
  /\ req[r].pc = "idle"
  /\ Exists(t)
  /\ CanUnblockTask(role, task[t].block, assignee)
  /\ col \in UnblockTargets
  /\ req' = [req EXCEPT ![r] =
       [NoRequest EXCEPT !.pc = "read", !.t = t, !.release = Releases(role, task[t], {"none"}),
                         !.new = [NoTask EXCEPT !.col = col],
                         !.fields = {"col", "block"}, !.sync = TRUE]]
  /\ UNCHANGED <<task, summary, raced, missed>>

-----------------------------------------------------------------------------
(* Other writers of tasks and summary.                                     *)

\* checkClientApprovalSla: one statement, which skips locked tasks.
CheckClientApprovalSla(S) ==
  /\ S # {} /\ \A t \in S : task[t].col = "client_approval" /\ ~Locked(t)
  /\ task' = [t \in Task |-> IF t \in S
                             THEN [task[t] EXCEPT !.col = "blocked", !.block = "client_timeout"]
                             ELSE task[t]]
  /\ req' = [r \in Request |-> Overtaken(req[r], S)]
  /\ missed' = TRUE
  /\ UNCHANGED <<summary, raced>>

\* createMinorChangeRequest creates a task in the first column, whichever that
\* is, when it names none and the project has none.
CreateMinorChangeRequest(t, col) ==
  /\ \A u \in Task : ~Exists(u)
  /\ ~Locked(t)
  /\ task' = [task EXCEPT ![t] = [NoTask EXCEPT !.col = col]]
  /\ req' = [r \in Request |-> Overtaken(req[r], {t})]
  /\ missed' = TRUE
  /\ UNCHANGED <<summary, raced>>

\* updateProject with a status or a progress of its own.
UpdateProject(s) ==
  /\ summary' = s
  /\ missed' = TRUE
  /\ UNCHANGED <<task, req, raced>>

Next ==
  \/ \E r \in Request :
       \/ \E role \in Role, t \in Task :
            \/ \E col \in Columns, subs \in Subtasks \cup {NoSubtasks}, n \in Checklist :
                 CreateTask(r, role, t, col, subs, n)
            \/ \E a \in BOOLEAN, patch \in Edits : UpdateTask(r, role, a, t, patch)
            \/ BlockTask(r, role, t)
            \/ \E a \in BOOLEAN, col \in Columns : UnblockTask(r, role, a, t, col)
       \/ Write(r)
       \/ Commit(r)
       \/ Abort(r)
  \/ \E S \in SUBSET Task : CheckClientApprovalSla(S)
  \/ \E t \in Task, col \in Columns : CreateMinorChangeRequest(t, col)
  \/ \E s \in Manual : UpdateProject(s)

Spec == Init /\ [][Next]_vars

-----------------------------------------------------------------------------
(* Properties.                                                             *)

\* Every variable has its type; a request about to write knows what.
TypeOK ==
  /\ task \in [Task -> Row]
  /\ summary \in Summary
  /\ req \in [Request -> [pc : {"idle", "read", "written"}, t : Task \cup {NoId},
                          new : Row, fields : SUBSET Field, sync : BOOLEAN, agg : Summary,
                          release : Role \cup {"none"}, stale : BOOLEAN, late : BOOLEAN]]
  /\ raced \subseteq Task
  /\ missed \in BOOLEAN

\* The project's status and progress are those of its tasks, except after the
\* writers that do not recompute them (SLA job, automatic task, an
\* administrator's own value) and after a sync that overlapped another commit;
\* the next sync that sees everything repairs it.
SummaryInStep == ~missed => summary = Aggregate(task)

\* A task that no request has written on the ground of an outdated row has a
\* block type in the blocked column only: whoever moves it out, by updateTask or
\* unblockTask, whatever the SLA job does meanwhile, clears it.
BlockTypeInColumn ==
  \A t \in Task \ raced : task[t].block # "none" => task[t].col = "blocked"

\* The step that releases a task the SLA job has blocked (canUnblockTask) is one
\* of a client or an administrator, unless the request decided on an outdated row.
TimeoutReleased ==
  [][\A t \in Task :
       task[t].block = "client_timeout" /\ task'[t].block = "none" =>
         \/ t \in raced'
         \/ \E r \in Request : /\ req[r].pc = "written" /\ req[r].t = t
                               /\ req[r].release \in {"admin", "client"}]_vars

\* "No puedes mover la tarea a la columna final sin completar todas las
\* subtareas" (board-task-progress.ts).
FinalComplete ==
  \A t \in Task : task[t].col = "done" => task[t].subs.done = task[t].subs.total
=============================================================================

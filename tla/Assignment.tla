----------------------------- MODULE Assignment -----------------------------
(***************************************************************************)
(* The assignees of one task, its visibility to clients, the events its    *)
(* changes and comments emit, and whom they notify.                        *)
(*                                                                         *)
(*   src/modules/collab/board/board-task.service.ts      create, update    *)
(*   src/modules/collab/board/board-task-blocking.service.ts               *)
(*   src/modules/collab/board/board-task-interaction.service.ts  comments  *)
(*   src/modules/collab/board/board-task-events.ts       events            *)
(*   src/modules/collab/notification/activity-notification.handler.ts      *)
(*                                                                         *)
(* A request reads before its transaction, which locks the task first: the *)
(* assignees it compares with, or tells, and for a comment the visibility, *)
(* may be old by then.  Events are delivered in any order and repeatedly;  *)
(* the consumer reads the members when it handles one.  The column a task  *)
(* is in, and so which move an update is and who may make it, is Board's   *)
(* subject: here every move is possible.                                   *)
(***************************************************************************)
EXTENDS Integers, FiniteSets

CONSTANTS
  Staff,       \* people who are administrators or workers of the project
  Guest,       \* people who are clients of the project
  Founder,     \* members from the start
  Writer,      \* requests that may be in flight at once
  TaskPatch,   \* what an update may ask for
  MaxChanges   \* bound: transactions committed

Move == {"stay", "moved", "blocked", "unblocked", "approval"}

\* assignees and visible are options: sets with at most one value.
ASSUME AssignmentAssumption ==
  /\ Staff \cap Guest = {}
  /\ Founder \subseteq Staff \cup Guest
  /\ TaskPatch \subseteq [assignees : SUBSET SUBSET Staff, visible : SUBSET BOOLEAN, move : Move]
  /\ \A p \in TaskPatch : /\ \A S, T \in p.assignees : S = T
                          /\ \A v, w \in p.visible : v = w
  /\ IsFiniteSet(Writer)
  /\ MaxChanges \in Nat

VARIABLES
  team,        \* project_members
  assigned,    \* project_task_assignees of the task
  shown,       \* isClientVisible of the task
  writer,      \* the requests
  changes,     \* transactions committed so far, the first of which creates the task
  emitted,     \* events, told apart by what they say; history: fair, the task was
               \* visible to clients when the event was committed, or the event's
               \* request overlapped another
  notice,      \* project_activity_notifications: recipient, and fair of the event
  tellings,    \* history: times a person was told of the assignment that holds
  crossed      \* history: assignees of an update that overlapped another one

assignmentVars == <<team, assigned, shown, writer, changes, emitted, notice, tellings, crossed>>

NoWriter == [pc |-> "idle"]

AssignmentInit ==
  /\ team = Founder
  /\ assigned = {} /\ shown = FALSE
  /\ writer = [w \in Writer |-> NoWriter]
  /\ changes = 0 /\ emitted = {} /\ notice = {}
  /\ tellings = [a \in Staff |-> 0] /\ crossed = {}

\* assertWorkerOnlyAssignments.
Assignable == team \cap Staff

\* upsertProjectMember; nothing removes a member.
JoinTeam(u) ==
  /\ u \notin team
  /\ team' = team \cup {u}
  /\ UNCHANGED <<assigned, shown, writer, changes, emitted, notice, tellings, crossed>>

-----------------------------------------------------------------------------
(* Events.                                                                 *)

\* to: the recipients the event names, none for all.
TaskEvent(type, u, to, visible, fair) ==
  [type |-> type, actor |-> u, to |-> to, external |-> visible, fair |-> fair]

\* task.assigned, of internal interest.
AssignedEvents(u, S) == {TaskEvent("assigned", u, {a}, FALSE, FALSE) : a \in S \ {u}}

\* task.blocked and task.unblocked name nobody.
ToEveryone(type, u, visible) == TaskEvent(type, u, {}, visible, visible)

\* emitTaskMovementEvents.
MovementEvents(q, to, visible) ==
  IF q.move = "stay" THEN {}
  ELSE {TaskEvent("moved", q.actor, to, visible, visible)}
       \cup {ToEveryone(type, q.actor, visible) : type \in {q.move} \cap {"blocked", "unblocked"}}

\* emitTaskAssignmentEvents: those that were not assigned when the request looked.
\* Faulty variant: all of the list.
NewAssigneesAll(q) == UNION q.assignees

NewAssignees(q) == (UNION q.assignees) \ q.before

\* What the transaction of q emits; S and visible are the values it leaves.
\* (task.created and task.updated notify nobody.)
Emits(q, S, visible) ==
  CASE q.pc = "update" -> MovementEvents(q, S, visible) \cup AssignedEvents(q.actor, NewAssignees(q))
    [] q.pc = "block" -> MovementEvents(q, q.before, visible)
    [] q.pc = "comment" ->
         {TaskEvent("comment", q.actor, S, q.saw, visible \/ q.late)}

-----------------------------------------------------------------------------
(* Requests.                                                               *)

\* Times told, after a transaction by u that leaves S and tells T.
Tellings(u, S, T) ==
  [a \in Staff |->
     IF a \notin S THEN 0
     ELSE (IF a \in assigned THEN tellings[a] ELSE 0)
          + (IF a \in T \/ (a = u /\ a \notin assigned) THEN 1 ELSE 0)]

TaskExists == changes > 0

CreateTask(u, S, visible) ==
  /\ ~TaskExists /\ u \in Assignable /\ S \subseteq Assignable
  /\ changes < MaxChanges /\ changes' = changes + 1
  /\ assigned' = S /\ shown' = visible
  /\ emitted' = AssignedEvents(u, S)
  /\ tellings' = Tellings(u, S, S \ {u})
  /\ UNCHANGED <<team, writer, notice, crossed>>

InFlight == {w \in Writer : writer[w] # NoWriter}

\* What a request reads before its transaction: the assignees if it will compare
\* with them or tell them, the visibility for the event of a comment.
Begin(w, pc, u, patch) ==
  /\ writer[w] = NoWriter /\ TaskExists
  /\ changes + Cardinality(InFlight) < MaxChanges
  /\ writer' = [writer EXCEPT ![w] =
       [pc |-> pc, actor |-> u, assignees |-> patch.assignees, visible |-> patch.visible,
        move |-> patch.move,
        before |-> IF pc = "block" \/ patch.assignees # {} THEN assigned ELSE {},
        saw |-> (pc = "comment" /\ shown), late |-> FALSE]]
  /\ UNCHANGED <<team, assigned, shown, changes, emitted, notice, tellings, crossed>>

UpdateTask(w, u, patch) ==
  /\ u \in Assignable /\ UNION patch.assignees \subseteq Assignable
  /\ Begin(w, "update", u, patch)

\* blockTask and unblockTask, perhaps to client approval.
BlockTask(w, u, move, visible) ==
  /\ u \in team /\ (move = "blocked" => u \in Staff /\ visible = {})
  /\ Begin(w, "block", u, [assignees |-> {}, visible |-> visible, move |-> move])

\* A client comments on a task it can see.
CreateTaskComment(w, u) ==
  /\ u \in team /\ (u \in Guest => shown)
  /\ Begin(w, "comment", u, [assignees |-> {}, visible |-> {}, move |-> "stay"])

\* The option's value, or else the old one.
Or(option, old) == IF option = {} THEN old ELSE CHOOSE x \in option : TRUE

\* upsertTaskAssignees replaces the list.
ListAfter(q) == Or(q.assignees, assigned)

\* Moved to client approval, a task becomes visible.
ShownAfter(q) == IF q.move = "approval" THEN TRUE ELSE Or(q.visible, shown)

\* The transaction: the task's row, its assignees or the comment, and the events.
CommitWrite(w) ==
  LET q == writer[w]
      S == ListAfter(q)
      visible == ShownAfter(q)
      E == Emits(q, S, visible)
  IN  /\ q # NoWriter
      /\ changes' = changes + 1
      /\ assigned' = S /\ shown' = visible
      /\ emitted' = emitted \cup E
      /\ tellings' = Tellings(q.actor, S, UNION {e.to : e \in {f \in E : f.type = "assigned"}})
      /\ crossed' = (IF q.late THEN crossed \cup UNION q.assignees ELSE crossed) \cap S
      /\ writer' = [v \in Writer |->
           CASE v = w -> NoWriter
             [] v \in InFlight \ {w} /\ (S # assigned \/ visible # shown) ->
                  [writer[v] EXCEPT !.late = TRUE]
             [] OTHER -> writer[v]]
      /\ UNCHANGED <<team, notice>>

\* resolveAssigneeEmails knows no address, a check or the database fails.
WriteFails(w) ==
  /\ writer[w] # NoWriter
  /\ writer' = [writer EXCEPT ![w] = NoWriter]
  /\ UNCHANGED <<team, assigned, shown, changes, emitted, notice, tellings, crossed>>

-----------------------------------------------------------------------------
(* The consumer.                                                           *)

\* resolveActivityRecipients: those named, whatever their role, or else everybody,
\* on the internal channel no client.
TaskRecipients(e) ==
  {u \in team \ {e.actor} : IF e.to # {} THEN u \in e.to ELSE e.external \/ u \in Staff}

\* A delivery of e, the first or another one.
NotifyOfTask(e) ==
  /\ notice' = notice \cup (TaskRecipients(e) \X {e.fair})
  /\ UNCHANGED <<team, assigned, shown, writer, changes, emitted, tellings, crossed>>

AssignmentNext ==
  \/ \E u \in Staff \cup Guest : JoinTeam(u)
  \/ \E u \in Staff, S \in SUBSET Staff, visible \in BOOLEAN : CreateTask(u, S, visible)
  \/ \E w \in Writer :
       \/ \E u \in Staff, patch \in TaskPatch : UpdateTask(w, u, patch)
       \/ \E u \in Staff \cup Guest :
            \/ \E visible \in {{}, {TRUE}} :
                 BlockTask(w, u, "unblocked", visible) \/ BlockTask(w, u, "blocked", visible)
            \/ CreateTaskComment(w, u)
       \/ CommitWrite(w) \/ WriteFails(w)
  \/ \E e \in emitted : NotifyOfTask(e)

AssignmentSpec == AssignmentInit /\ [][AssignmentNext]_assignmentVars

-----------------------------------------------------------------------------
(* Properties.                                                             *)

AssignmentTypeOK ==
  /\ team \subseteq Staff \cup Guest
  /\ assigned \subseteq Assignable
  /\ shown \in BOOLEAN
  /\ changes \in 0..MaxChanges
  /\ \A w \in Writer : writer[w] = NoWriter \/ writer[w].before \subseteq Assignable
  /\ \A e \in emitted : e.actor \in team /\ e.to \subseteq Assignable
  /\ notice \subseteq team \X BOOLEAN
  /\ tellings \in [Staff -> 0..MaxChanges]
  /\ crossed \subseteq Staff

\* Who is told of a task.  Every assignee has been told exactly once of the
\* assignment that holds (those who took the task themselves need not be), however
\* often the list was replaced, unless an update that assigned them overlapped
\* another change of the task.  And no client is notified of anything that happened
\* to a task while it was hidden from clients, whoever its assignees were then and
\* whoever joined before the event was handled, except for a comment that was
\* being written while the task was hidden.
RightPeopleTold ==
  /\ \A a \in assigned \ crossed : tellings[a] = 1
  /\ \A n \in notice : n[1] \in Guest => n[2]

=============================================================================

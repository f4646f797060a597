----------------------------- MODULE Workspace -----------------------------
(***************************************************************************)
(* The components of the workspace that share no variable, side by side:   *)
(* the files of a project, the circuit breaker of the media client, board  *)
(* columns, change requests, the chat, assignments and the profile cache.  *)
(* Nothing is gained by interleaving them: a behaviour follows one of      *)
(* them, its part, and leaves the others as they began.                    *)
(***************************************************************************)
EXTENDS Files, CircuitBreaker, Columns, ChangeRequest, Chat, Assignment,
        ProfileCache

VARIABLE part

Part == {"files", "breaker", "columns", "requests", "chat", "tasks", "profiles"}

workspaceVars == <<part, filesVars, breakerVars, columnsVars, requestVars, chatVars,
                   assignmentVars, cacheVars>>

WorkspaceInit ==
  /\ part \in Part
  /\ FilesInit /\ BreakerInit /\ ColumnsInit /\ ChangeRequestInit /\ ChatInit
  /\ AssignmentInit /\ ProfileCacheInit

StepOfFiles ==
  /\ part = "files" /\ FilesNext
  /\ UNCHANGED <<part, breakerVars, columnsVars, requestVars, chatVars,
                 assignmentVars, cacheVars>>

StepOfBreaker ==
  /\ part = "breaker" /\ BreakerNext
  /\ UNCHANGED <<part, filesVars, columnsVars, requestVars, chatVars,
                 assignmentVars, cacheVars>>

StepOfColumns ==
  /\ part = "columns" /\ ColumnsNext
  /\ UNCHANGED <<part, filesVars, breakerVars, requestVars, chatVars,
                 assignmentVars, cacheVars>>

StepOfRequests ==
  /\ part = "requests" /\ ChangeRequestNext
  /\ UNCHANGED <<part, filesVars, breakerVars, columnsVars, chatVars, assignmentVars,
                 cacheVars>>

StepOfChat ==
  /\ part = "chat" /\ ChatNext
  /\ UNCHANGED <<part, filesVars, breakerVars, columnsVars, requestVars, assignmentVars,
                 cacheVars>>

StepOfTasks ==
  /\ part = "tasks" /\ AssignmentNext
  /\ UNCHANGED <<part, filesVars, breakerVars, columnsVars, requestVars, chatVars, cacheVars>>

StepOfProfiles ==
  /\ part = "profiles" /\ ProfileCacheNext
  /\ UNCHANGED <<part, filesVars, breakerVars, columnsVars, requestVars, chatVars,
                 assignmentVars>>

WorkspaceNext ==
  \/ StepOfFiles
  \/ StepOfBreaker
  \/ StepOfColumns
  \/ StepOfRequests
  \/ StepOfChat
  \/ StepOfTasks
  \/ StepOfProfiles

WorkspaceSpec == WorkspaceInit /\ [][WorkspaceNext]_workspaceVars

\* The variables of the part have their types.
WorkspaceTypeOK ==
  CASE part = "files" -> FilesTypeOK
    [] part = "breaker" -> BreakerTypeOK
    [] part = "columns" -> ColumnsTypeOK
    [] part = "requests" -> ChangeRequestTypeOK
    [] part = "chat" -> ChatTypeOK
    [] part = "tasks" -> AssignmentTypeOK
    [] part = "profiles" -> ProfileCacheTypeOK
=============================================================================

---------------------------- MODULE MCWorkspace ----------------------------
(* An instance of the workspace for TLC: two members of every set whose    *)
(* members may meet, three columns and a fourth to come.                   *)
EXTENDS Workspace, TLC

CONSTANTS a1, a2, b1, b2, c1, c2,  \* the members of every symmetric set, in all parts
          col1, col2, col3, col4, worker, client

ColumnsAtFirst == <<col1, col2, col3>>

RoleOfAccount == worker :> "worker" @@ client :> "client"

\* An update asks for one thing, or moves the task and changes its visibility.
Patch(assignees, visible, move) == [assignees |-> assignees, visible |-> visible, move |-> move]

TaskPatches ==
  {Patch({S}, {}, "stay") : S \in SUBSET Staff}
  \cup {Patch({}, {v}, "moved") : v \in BOOLEAN}
  \cup {Patch({}, {}, move) : move \in Move}

Symmetry == Permutations({a1, a2}) \cup Permutations({b1, b2}) \cup Permutations({c1, c2})
=============================================================================

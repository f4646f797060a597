------------------------------ MODULE MCBoard ------------------------------
(* Instances of Board for TLC: a patch changes nothing that matters (a     *)
(* title), or one of column, checklist, progress and block type.           *)
EXTENDS Board, TLC

CONSTANTS t1, t2, r1, r2

const_Tasks == {t1, t2}
const_Requests == {r1, r2}
const_Symmetry == Permutations(const_Tasks) \cup Permutations(const_Requests)
const_Subtasks == {[total |-> 2, done |-> 1]}
const_Manual == {[status |-> "completed", progress |-> 25]}

Title == [col |-> {}, subs |-> {}, checklist |-> {}, type |-> {}]

const_Edits ==
  {Title} \cup {[Title EXCEPT !.col = {k}] : k \in Columns \ {"pending", "blocked"}}
    \cup {[Title EXCEPT !.subs = {s}] : s \in Subtasks}
    \cup {[Title EXCEPT !.type = {"internal_impediment"}]}
=============================================================================

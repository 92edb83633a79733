----------------------------- MODULE MCWorkbench -----------------------------
(* The broker and its panel, with an abandoned handler beside the current    *)
(* one.  Slots and operation identifiers are interchangeable.                *)
EXTENDS Workbench, TLC

\* The text of a diff begins with the unstaged changes, which fill it: of a
\* file changed in the index and in the worktree the staged change is cut off.
MCText(diff) ==
  [f \in DOMAIN diff |-> IF diff[f].work # diff[f].index
                          THEN <<"unstaged", diff[f].index, diff[f].work>>
                          ELSE <<"staged", diff[f].head, diff[f].index>>]
MCTruncated(diff) ==
  \E f \in DOMAIN diff : diff[f].work # diff[f].index /\ diff[f].index # diff[f].head

Symmetry == Permutations(Slots) \cup Permutations(CodexIds) \cup Permutations(BuildIds)
=============================================================================

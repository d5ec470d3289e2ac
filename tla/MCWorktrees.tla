---------------------------- MODULE MCWorktrees -----------------------------
(* Worktrees for TLC: threads, files, comments and sessions are alike.  A   *)
(* comment concerns its session alone: once one is written, no other session *)
(* is there.                                                                *)
EXTENDS Worktrees, TLC

Symmetry == Permutations(Threads) \cup Permutations(Files) \cup Permutations(Comments)
              \cup Permutations(Sessions)

ReviewOfOne ==
    (\E c \in Comments : comment[c] # NoComment)
       => Cardinality({s \in Sessions : state[s] # "none"}) <= 1
=============================================================================

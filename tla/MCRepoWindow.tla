---------------------------- MODULE MCRepoWindow ----------------------------
(* The window on small histories: a change makes one shorter, or empty.    *)
EXTENDS RepoWindow

Threads == 1..2
Histories == [n \in 0..MaxMoves |-> CASE n = 0 -> 2 [] n = 1 -> 1 [] OTHER -> 0]

=============================================================================

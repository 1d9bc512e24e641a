------------------------------ MODULE MCRecipeRun ------------------------------
(* Recipes of the catalogue's blocks, on a repository with two branches and *)
(* work in progress of every kind: staged, in the tree and stashed.         *)
EXTENDS RecipeRun

S(block, branch) == [block |-> block, branch |-> branch, agent |-> FALSE]
A(block)         == [block |-> block, branch |-> NoBranch, agent |-> TRUE]

MCRecipes ==
  { <<S("stash", "-"), S("merge", "topic"), S("pop", "-"), S("commit", "-"), S("push", "-")>>,
    <<S("clean", "-"), S("switch", "topic"), S("ask", "-")>>,
    <<A("commit"), A("squash"), S("check", "-")>>,
    <<S("newBranch", "made"), S("commit", "-"), S("switch", "main"), S("merge", "made"),
      S("delete", "made")>> }

MCStart ==
  [on |-> "main",
   tips |-> [b \in {"main", "topic", "made"} |->
              CASE b = "main"  -> <<{"a"}, {"a", "b"}, {"a", "b", "c"}, {"a", "b", "c", "d"}>>
                [] b = "topic" -> <<{"a"}, {"a", "t"}>>
                [] OTHER -> <<>>],
   index |-> {"a", "b", "c", "d", "staged"}, tree |-> {"a", "b", "c", "d", "staged", "edited"},
   stash |-> <<[id |-> 1, what |-> {"kept"}]>>, merging |-> NoBranch, conflict |-> FALSE,
   made |-> 1]

MCTheirs == "theirs"
MCChanges == {"a", "b", "c", "d", "t", "staged", "edited", "kept", MCTheirs}
=============================================================================

----------------------------- MODULE Destination -----------------------------
(***************************************************************************)
(* What landing promises of the branch tasks are landed on.  The branch is *)
(* added to, or a person moves it back; it is never overwritten by         *)
(* something that lacks what it had.  A task is answered "done" only when  *)
(* the branch has had its commit.                                          *)
(***************************************************************************)
CONSTANT Tasks    \* the commit of a task is known by the task itself

VARIABLES
  on,    \* the commits the branch has
  ever,  \* the commits it has had
  done   \* the tasks that were answered "done"

vars == <<on, ever, done>>

Init == ever = on /\ done = {}

Grow == on \subseteq on' /\ ever' = ever \cup on' /\ UNCHANGED done

Rewind == on' \subseteq on /\ UNCHANGED <<ever, done>>

Answer == \E t \in Tasks \cap ever : done' = done \cup {t} /\ UNCHANGED <<on, ever>>

Next == Grow \/ Rewind \/ Answer

Spec == Init /\ [][Next]_vars
=============================================================================

----------------------------- MODULE OperationLife -----------------------------
(***************************************************************************)
(* What the extension host promises of an operation: it is started once,   *)
(* ends exactly once, and always ends, whatever its worker does.           *)
(*                                                                         *)
(* Source: crates/spagitty-extensions/src/operations.rs, the module's      *)
(* account of itself.                                                      *)
(***************************************************************************)
CONSTANT Requests

VARIABLE life  \* [Requests -> "new", "running" or how it ended]

Endings == {"completed", "cancelled", "failed"}

Init == life = [r \in Requests |-> "new"]

Start(r) == life[r] = "new" /\ life' = [life EXCEPT ![r] = "running"]

End(r) == life[r] = "running" /\ \E e \in Endings : life' = [life EXCEPT ![r] = e]

\* Several end at once when a worker is stopped.
EndSeveral ==
  life' \in [Requests -> {"new", "running"} \cup Endings]
  /\ \A r \in Requests : life'[r] # life[r] => life[r] = "running" /\ life'[r] \in Endings

Next == EndSeveral \/ \E r \in Requests : Start(r) \/ End(r)

Spec == Init /\ [][Next]_life /\ \A r \in Requests : WF_life(End(r))
=============================================================================

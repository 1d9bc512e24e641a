---------------------------- MODULE TaskMachine ----------------------------
(***************************************************************************)
(* The vocabulary of the agent farm: the statuses of a task and of a farm, *)
(* the transitions a task may make, and what each level of autonomy lets   *)
(* the farm do without a person.                                           *)
(*                                                                         *)
(* Source: crates/spagitty-farm/src/model/task.rs and model/farm.rs.       *)
(***************************************************************************)

TaskStatus == {"Draft", "Ready", "Assigned", "Running", "Waiting", "Blocked",
               "Review", "Verification", "Done", "Failed", "Cancelled"}

Terminal == {"Done", "Failed", "Cancelled"}
Active   == {"Assigned", "Running", "Waiting", "Review", "Verification"}
Queued   == {"Ready", "Waiting"}

MachineMoves == [
  Draft        |-> {"Ready", "Blocked"},
  Ready        |-> {"Assigned", "Blocked", "Draft"},
  Assigned     |-> {"Running", "Ready", "Blocked", "Failed"},
  Running      |-> {"Verification", "Review", "Waiting", "Blocked", "Failed"},
  Waiting      |-> {"Ready", "Assigned", "Blocked", "Failed"},
  Blocked      |-> {"Ready", "Draft", "Failed", "Verification"},
  Verification |-> {"Review", "Done", "Failed", "Assigned", "Blocked", "Waiting"},
  Review       |-> {"Done", "Assigned", "Blocked", "Failed", "Waiting", "Verification"},
  Done         |-> {},
  Failed       |-> {},
  Cancelled    |-> {}]

(* Seeded fault: a finished task can still be cancelled.                   *)
CanBecomeAnything(from, to) == to = "Cancelled" \/ to \in MachineMoves[from]

(* Seeded fault: checks that failed lead nowhere.                          *)
CanBecomeUnlessRejected(from, to) ==
  /\ from \notin Terminal
  /\ to = "Cancelled" \/ to \in MachineMoves[from]
  /\ from = "Verification" => to \notin {"Waiting", "Blocked", "Failed"}

(* The machine of a task with a run. *)
CanBecome(from, to) ==
  /\ from \notin Terminal
  /\ to = "Cancelled" \/ to \in MachineMoves[from]

(* The rule for a container, which has no run to follow the machine with. *)
CanSettle(from, to) == from \notin Terminal /\ to \in {"Done", "Blocked"}

-----------------------------------------------------------------------------

FarmStatus == {"Idle", "Planning", "Running", "Reviewing", "Paused",
               "Blocked", "Completed", "Failed", "Cancelled"}

IsLive(farm) == farm \in {"Running", "Reviewing"}

Autonomy == {"Manual", "Assisted", "SemiAuto", "Auto", "Yolo"}

StartsTasks(level) == level # "Manual"
Reviews(level)     == level \in {"SemiAuto", "Auto", "Yolo"}
Merges(level)      == level \in {"Auto", "Yolo"}
Retries(level)     == level = "Yolo"

(* What the farm's status should be, given the statuses of its tasks: the   *)
(* first rule that applies.  A paused, cancelled or planning farm is left   *)
(* as it is.                                                                *)
DerivedStatus(farm, tasks, status) ==
  LET all(s)     == \A t \in tasks : status[t] \in s
      some(s)    == \E t \in tasks : status[t] \in s
  IN IF farm \in {"Paused", "Cancelled", "Planning"}   THEN farm
     ELSE IF tasks = {}                                THEN "Idle"
     ELSE IF all({"Done"})                             THEN "Completed"
     ELSE IF some({"Running"})                         THEN "Running"
     ELSE IF some({"Review", "Verification"})          THEN "Reviewing"
     ELSE IF all(Terminal)
          THEN IF some({"Failed"}) THEN "Failed" ELSE "Completed"
     ELSE IF all(Terminal \cup {"Blocked"})            THEN "Blocked"
     ELSE "Running"
=============================================================================

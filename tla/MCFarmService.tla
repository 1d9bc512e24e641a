--------------------------- MODULE MCFarmService ---------------------------
(***************************************************************************)
(* Small farms for TLC.                                                    *)
(***************************************************************************)
EXTENDS FarmService, TLC

(* Who of the people gives a command makes no difference. *)
PeopleSymmetry   == Permutations(People)

(* One task, on its way from the queue to the destination. *)
OneTask          == {1}
OneDependsOn     == [t \in OneTask |-> {}]
OneParent        == [t \in OneTask |-> 0]
OnePriority      == [t \in OneTask |-> 1]
OneRoute         == [t \in OneTask |-> "claude"]
OneReady         == [t \in OneTask |-> "Ready"]

(* A container, 1, broken down into 2 and 3, which may write the same       *)
(* files; and 4, which waits for the container.                            *)
FourTasks        == 1..4
FourDependsOn    == [t \in FourTasks |-> IF t = 4 THEN {1} ELSE {}]
FourParent       == [t \in FourTasks |-> IF t \in {2, 3} THEN 1 ELSE 0]
FourPriority     == [t \in FourTasks |-> IF t = 2 THEN 2 ELSE 1]
FourOverlap      == {<<2, 3>>, <<3, 2>>}
FourRoute        == [t \in FourTasks |-> "claude"]
FourReady        == [t \in FourTasks |-> "Ready"]
=============================================================================

----------------------------- MODULE TaskGraph -----------------------------
(***************************************************************************)
(* The task graph of a farm and the scheduler's decision over it.  Both    *)
(* are pure functions of the farm in the code, and operators here: a state *)
(* goes in, the set of decisions comes out.                                *)
(*                                                                         *)
(* Source: crates/spagitty-farm/src/orchestrator/dependency.rs and         *)
(* orchestrator/scheduler.rs.                                              *)
(***************************************************************************)
EXTENDS Integers, FiniteSets, TaskMachine

CONSTANTS
  Tasks,        \* the tasks of the farm, numbered: their order is the order of their ids
  NoTask,       \* the parent of a task that was not cut out of another
  DependsOn,    \* [Tasks -> SUBSET Tasks]
  Parent,       \* [Tasks -> Tasks \cup {NoTask}]
  Priority,     \* [Tasks -> Nat], lower runs first
  Overlap,      \* pairs of tasks whose declared paths can name the same file
  Agents,       \* the agents that can be run
  NoAgent,      \* "nobody"
  Route,        \* [Tasks -> Agents \cup {NoAgent}]: what the router picks
  MaxParallel,  \* how many agents the farm runs at once
  MaxAttempts   \* how often a task may be tried

ASSUME TaskGraphAssumption ==
  /\ Tasks \subseteq Nat /\ Tasks # {} /\ IsFiniteSet(Tasks)
  /\ NoTask \notin Tasks /\ NoAgent \notin Agents /\ Agents # {}
  /\ DependsOn \in [Tasks -> SUBSET Tasks]
  /\ Parent \in [Tasks -> Tasks \cup {NoTask}]
  /\ Priority \in [Tasks -> Nat]
  /\ Overlap \subseteq Tasks \X Tasks
  /\ \A t, u \in Tasks : <<t, u>> \in Overlap => <<u, t>> \in Overlap
  /\ Route \in [Tasks -> Agents \cup {NoAgent}]
  /\ MaxParallel \in Nat /\ MaxAttempts \in Nat

-----------------------------------------------------------------------------
(* The graph.                                                              *)

(* Seeded fault: whatever no longer moves counts as done.                  *)
Unfinished(status, t) == {d \in DependsOn[t] : status[d] \in Active \cup Queued}

Unmet(status, t) == {d \in DependsOn[t] : status[d] # "Done"}

Children(t)    == {c \in Tasks : Parent[c] = t}
IsContainer(t) == Children(t) # {}

(* Seeded fault: a child that was given up on counts as done.              *)
ContainerOfFinished(status, t) ==
  IF IsContainer(t) /\ \A c \in Children(t) : status[c] \in Terminal THEN {"Done"} ELSE {}

(* Where its children put a container: a set with the one status, empty    *)
(* while there is still work to do.                                        *)
ContainerStatus(status, t) ==
  IF ~IsContainer(t) THEN {}
  ELSE IF \A c \in Children(t) : status[c] = "Done" THEN {"Done"}
  ELSE IF \E c \in Children(t) : status[c] \in {"Failed", "Cancelled", "Blocked"}
       THEN {"Blocked"} ELSE {}

ReadyTasks(status) ==
  {t \in Tasks : status[t] \in Queued /\ ~IsContainer(t) /\ Unmet(status, t) = {}}

(* The order ready tasks are asked in. *)
Sooner(t, u) == \/ Priority[t] < Priority[u]
                \/ Priority[t] = Priority[u] /\ t < u

Stranded(status) ==
  {t \in Tasks : /\ status[t] \notin Terminal \cup {"Blocked"}
                 /\ \E d \in DependsOn[t] : status[d] \in {"Failed", "Cancelled"}}

(* Seeded fault: only a lower-numbered holder counts.                      *)
ContendedByEarlier(t, holders) == \E h \in holders : h < t /\ <<h, t>> \in Overlap

(* Would t have to wait for one of these lease holders? *)
Contended(t, holders) == \E h \in holders \ {t} : <<h, t>> \in Overlap

-----------------------------------------------------------------------------
(* The scheduler.  A decision names a task, what it should become and, for *)
(* a start, the agent.  `rank` is the order the code lists decisions in:   *)
(* containers, stranded tasks, then the ready queue.                       *)

Decision == [rank : 0..2, task : Tasks, agent : Agents \cup {NoAgent},
             to : {"Done", "Blocked", "Assigned"}]

Earlier(d, e) ==
  \/ d.rank < e.rank
  \/ d.rank = e.rank /\ IF d.rank = 2 THEN Sooner(d.task, e.task) ELSE d.task < e.task

IsFirst(d, decisions) == \A e \in decisions \ {d} : Earlier(d, e)

AgentFor(t, assigned) == IF assigned[t] # NoAgent THEN assigned[t] ELSE Route[t]

(* The tasks of the queue the scheduler starts, in one pass: a task is      *)
(* reached while there is a free slot, and takes its paths for the          *)
(* decisions after it.                                                      *)
Reached(t, free, starts)  == Cardinality({u \in starts : Sooner(u, t)}) < free
Clear(t, leases, starts)  == ~Contended(t, leases \cup {u \in starts : Sooner(u, t)})

Picks(queue, free, leases, attempts, assigned, starts) ==
  starts = {t \in queue : /\ Reached(t, free, starts)
                          /\ AgentFor(t, assigned) # NoAgent
                          /\ Clear(t, leases, starts)
                          /\ attempts[t] < MaxAttempts}

(* The farm's next decisions: a set with one element, since a pass through *)
(* the queue has one outcome.                                              *)
Decide(farm, level, status, attempts, assigned, leases) ==
  LET settled  == {t \in Tasks : \E s \in ContainerStatus(status, t) :
                                    status[t] # s /\ CanSettle(status[t], s)}
      stranded == Stranded(status)
      queue    == IF IsLive(farm) /\ StartsTasks(level)
                  THEN ReadyTasks(status) \ (settled \cup stranded) ELSE {}
      running  == Cardinality({t \in Tasks : status[t] = "Running"})
      free     == IF running < MaxParallel THEN MaxParallel - running ELSE 0
      (* Nobody can do it, or it has had all its tries. *)
      blocked(starts) == {t \in queue : /\ Reached(t, free, starts)
                                        /\ \/ AgentFor(t, assigned) = NoAgent
                                           \/ /\ Clear(t, leases, starts)
                                              /\ attempts[t] >= MaxAttempts}
      block(tasks, rank) == {[rank |-> rank, task |-> t, agent |-> NoAgent,
                              to |-> "Blocked"] : t \in tasks}
      start(tasks)  == {[rank |-> 2, task |-> t, agent |-> AgentFor(t, assigned),
                         to |-> "Assigned"] : t \in tasks}
      settle(tasks) == {[rank |-> 0, task |-> t, agent |-> NoAgent,
                         to |-> CHOOSE s \in ContainerStatus(status, t) : TRUE] : t \in tasks}
  IN {settle(settled) \cup block(stranded, 1) \cup block(blocked(starts), 2)
                      \cup start(starts) :
        starts \in {s \in SUBSET queue : Picks(queue, free, leases, attempts, assigned, s)}}
=============================================================================

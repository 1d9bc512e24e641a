---------------------------- MODULE FarmService ----------------------------
(***************************************************************************)
(* The agent farm: the service that takes a task from the queue, through   *)
(* an agent's run, its checks, its review and its landing, and the         *)
(* commands a person gives it meanwhile.                                   *)
(*                                                                         *)
(* The service is shared by many threads: one per command of the interface *)
(* and one per agent run it waits for.  Its state is behind one mutex and  *)
(* four smaller ones, each taken for a few lines at a time, and the        *)
(* threads interleave between them.  A step of this specification is one   *)
(* such critical section with the local computation around it.             *)
(*                                                                         *)
(* Source: crates/spagitty-farm/src/service.rs; the commands are those of  *)
(* src-tauri/src/farm.rs.                                                  *)
(***************************************************************************)
EXTENDS TaskGraph

CONSTANTS
  People,       \* threads that carry out a command of the interface
  Nobody,       \* no thread: the merge lock is free
  MaxRuns,      \* bound: agent runs in one session of the program
  MaxCommits,   \* bound: commits on a task's branch, its base being the first
  MaxCommands,  \* bound: commands given
  MaxRestarts,  \* bound: restarts of the program
  Commands,     \* the commands this instance gives
  Faults,       \* what may fail outside the program: "branch", "worktree", "spawn"
  Exits,        \* how an agent may end: "ok", "handback", "failed"
  Landings,     \* how an attempt to land may stop: "red", "conflict", "failed"
  Results,      \* what the checks may say: "pass", "fail", "none" (no checks are configured)
  Levels,       \* the levels of autonomy this instance uses
  CheckLists,   \* the versions of the list of checks
  Resolvers,    \* who may resolve a conflict in this instance
  MayMerge,     \* the farm's permission to merge
  InitStatus    \* [Tasks -> TaskStatus]

RunIds  == 1..MaxRuns
Threads == People \cup RunIds       \* the thread waiting for run r is r itself

ASSUME FarmAssumption ==
  /\ MaxRuns \in Nat \ {0} /\ MaxCommits \in Nat \ {0}
  /\ MaxCommands \in Nat /\ MaxRestarts \in Nat
  /\ People \cap RunIds = {} /\ Nobody \notin Threads
  /\ Levels \subseteq Autonomy /\ Levels # {} /\ CheckLists # {}
  /\ Resolvers \subseteq {"ask", "tool", "agent"} /\ Resolvers # {}
  /\ Faults \subseteq {"branch", "worktree", "spawn"}
  /\ Exits \subseteq {"ok", "handback", "failed"}
  /\ Landings \subseteq {"red", "conflict", "failed"}
  /\ Results \subseteq {"pass", "fail", "none"}
  /\ MayMerge \in BOOLEAN
  /\ InitStatus \in [Tasks -> {"Draft", "Ready"}]

VARIABLES
  farm,          \* the farm's status
  autonomy,      \* its level of autonomy
  resolver,      \* who resolves a conflict
  checkList,     \* the version of its list of checks
  status,        \* [Tasks -> TaskStatus]
  attempts,      \* [Tasks -> Nat]
  assigned,      \* [Tasks -> Agents \cup {NoAgent}]
  implementedBy, \* [Tasks -> Agents \cup {NoAgent}]
  leases,        \* the tasks that hold the paths they declared
  verified,      \* [Tasks -> the commit the checks passed on, 0 for none]
  reviewed,      \* [Tasks -> the commit a reviewer approved, 0 for none]
  runs,          \* [RunIds -> agent run], in the order they are remembered
  sessions,      \* the runs nobody waits for yet
  cancellations, \* [Tasks -> the run a stop reaches, 0 for none]
  stops,         \* [Tasks -> is a verification going on, and told to stop?]
  mergeLock,     \* the thread that is landing a task
  head,          \* [Tasks -> Nat]: the newest commit on a task's branch
  tree,          \* [Tasks -> its worktree: is there one, with uncommitted changes?]
  landed,        \* [Tasks -> the commits of its branch its destination has]
  th,            \* [Threads -> what the thread is doing]
  commands, restarts,         \* how many of each there have been
  passed, approvals, cleared  \* history: see the properties

farmVars  == <<farm, autonomy, resolver, checkList>>
taskVars  == <<status, attempts, assigned, implementedBy>>
evidence  == <<verified, reviewed>>
runVars   == <<runs, sessions, cancellations>>
gitVars   == <<head, tree, landed>>
bounds    == <<commands, restarts>>
history   == <<passed, approvals, cleared>>
vars == <<farmVars, taskVars, leases, evidence, runVars, stops, mergeLock,
          gitVars, th, bounds, history>>

-----------------------------------------------------------------------------
(* Types.                                                                  *)

Pcs == {"idle", "tick", "act", "refused", "claim", "assign", "cut", "spawn", "running",
        "register", "enqueue", "watch", "await", "finish", "dropLease", "discredit",
        "giveUp", "verify", "verification", "before", "check", "judge", "reject",
        "block", "requeue", "review", "pick", "conclude", "approve", "merge",
        "evidence", "land", "landed", "remove", "arrived", "merged", "conflict", "ret",
        "report", "retry", "halt", "kill"}

Procs   == {"alive", "killed", "ok", "handback", "failed", "gone"}
Outcome == {"none", "running", "ended"}
Endings == {"none", "ok", "handback", "failed", "cancelled", "pass", "fail"}

Run == [task : Tasks, agent : Agents \cup {NoAgent}, phase : {"Implementation", "Review"},
        outcome : Outcome, proc : Procs, input : Nat]

Thread == [pc : Pcs,
           job : {"none", "watch", "verify", "command"},  \* why the thread exists
           task : Tasks,                       \* the task it is about
           start : Tasks,                      \* the task it is starting an agent for,
           agent : Agents \cup {NoAgent},      \* the agent,
           run : 0..MaxRuns,                   \* its run,
           from : {"tick", "command", "review"}, \* and where it was asked for
           commit : Nat,                       \* the commit it read (0: none is clean)
           ended : Endings,                    \* how the run or the checks ended
           list : CheckLists,                  \* the checks it read
           queue : SUBSET Decision,            \* decisions still to be acted on
           then : {"ret", "watch"},            \* where its tick returns to
           duty : SUBSET {"stop", "approve"},  \* what its return still has to do
           err : BOOLEAN]                      \* whether it returns an error

SomeTask == CHOOSE t \in Tasks : TRUE
SomeList == CHOOSE l \in CheckLists : TRUE

Idle == [pc |-> "idle", job |-> "none", task |-> SomeTask, start |-> SomeTask,
         agent |-> NoAgent, run |-> 0, from |-> "tick", commit |-> 0, ended |-> "none",
         list |-> SomeList, queue |-> {}, then |-> "ret", duty |-> {}, err |-> FALSE]

NoRun == [task |-> SomeTask, agent |-> NoAgent, phase |-> "Implementation",
          outcome |-> "none", proc |-> "gone", input |-> 0]

NoEvidence == [commit |-> 0, list |-> SomeList]
NoReview   == [commit |-> 0, reviewer |-> NoAgent]

TypeOK ==
  /\ farm \in FarmStatus /\ autonomy \in Levels /\ resolver \in Resolvers
  /\ checkList \in CheckLists
  /\ status \in [Tasks -> TaskStatus]
  /\ attempts \in [Tasks -> Nat]
  /\ assigned \in [Tasks -> Agents \cup {NoAgent}]
  /\ implementedBy \in [Tasks -> Agents \cup {NoAgent}]
  /\ leases \subseteq Tasks
  /\ verified \in [Tasks -> [commit : Nat, list : CheckLists]]
  /\ reviewed \in [Tasks -> [commit : Nat, reviewer : Agents \cup {NoAgent}]]
  /\ runs \in [RunIds -> Run]
  /\ \A r \in RunIds : runs[r].outcome # "none" => runs[r].agent \in Agents
  /\ sessions \subseteq RunIds
  /\ cancellations \in [Tasks -> 0..MaxRuns]
  /\ stops \in [Tasks -> {"none", "going", "stopping"}]
  /\ mergeLock \in Threads \cup {Nobody}
  /\ head \in [Tasks -> Nat \ {0}]
  /\ tree \in [Tasks -> {"absent", "clean", "dirty"}]
  /\ landed \in [Tasks -> SUBSET Nat]
  /\ th \in [Threads -> Thread]
  /\ commands \in Nat /\ restarts \in Nat
  /\ passed \subseteq Tasks \X Nat \X CheckLists
  /\ approvals \subseteq Tasks \X Nat \X (Agents \cup {NoAgent})
  /\ cleared \subseteq [task : Tasks, commit : Nat, list : CheckLists,
                        by : Agents \cup {NoAgent}, reviewer : Agents \cup {NoAgent}]

Init ==
  /\ status = InitStatus
  /\ farm = IF \A t \in Tasks : InitStatus[t] = "Draft" THEN "Idle" ELSE "Running"
  /\ autonomy \in Levels /\ resolver \in Resolvers /\ checkList = SomeList
  /\ attempts = [t \in Tasks |-> 0]
  /\ assigned = [t \in Tasks |-> NoAgent]
  /\ implementedBy = [t \in Tasks |-> NoAgent]
  /\ leases = {}
  /\ verified = [t \in Tasks |-> NoEvidence]
  /\ reviewed = [t \in Tasks |-> NoReview]
  /\ runs = [r \in RunIds |-> NoRun]
  /\ sessions = {}
  /\ cancellations = [t \in Tasks |-> 0]
  /\ stops = [t \in Tasks |-> "none"]
  /\ mergeLock = Nobody
  /\ head = [t \in Tasks |-> 1]
  /\ tree = [t \in Tasks |-> "absent"]
  /\ landed = [t \in Tasks |-> {1}]
  /\ th = [x \in Threads |-> Idle]
  /\ commands = 0 /\ restarts = 0
  /\ passed = {} /\ approvals = {} /\ cleared = {}

-----------------------------------------------------------------------------
(* Helpers.                                                                *)

At(x, pc)     == th[x].pc = pc
Becomes(x, v) == th' = [th EXCEPT ![x] = v]

Goto(x, pc) == Becomes(x, [th[x] EXCEPT !.pc = pc])
Return(x)   == Becomes(x, [th[x] EXCEPT !.pc = "ret", !.err = FALSE])
Fail(x)     == Becomes(x, [th[x] EXCEPT !.pc = "ret", !.err = TRUE])
Leave(x)    == Becomes(x, Idle)

(* Go on, when a guard of the code holds; return an error when it does not. *)
GotoOrFail(x, ok, pc) == IF ok THEN Goto(x, pc) ELSE Fail(x)

(* set_status: whether it may, and what it does: the new status, the lease  *)
(* of a task that stops, and the farm's status recomputed.  It leaves       *)
(* everything alone when it is refused, and also when nothing would change, *)
(* not even the task's note (which has no part in this specification).      *)
MayMove(t, to) == status[t] = to \/ CanBecome(status[t], to)

SetStatus(t, to) ==
  \/ /\ MayMove(t, to)
     /\ status' = [status EXCEPT ![t] = to]
     /\ leases' = IF to \in Terminal \cup {"Blocked"} THEN leases \ {t} ELSE leases
     /\ farm' = DerivedStatus(farm, Tasks, status')
  \/ ~CanBecome(status[t], to) /\ UNCHANGED <<status, leases, farm>>

(* Release the lease, then set the status: the second cannot keep the lease. *)
ReleaseAndSet(t, to) ==
  /\ leases' = leases \ {t}
  /\ \/ /\ MayMove(t, to)
        /\ status' = [status EXCEPT ![t] = to]
        /\ farm' = DerivedStatus(farm, Tasks, status')
     \/ ~CanBecome(status[t], to) /\ UNCHANGED <<status, farm>>

Exhausted(t) == attempts[t] >= MaxAttempts

(* evidence::clean_commit: the worktree's commit, when nothing else is in it. *)
CleanCommit(t) == IF tree[t] = "clean" THEN head[t] ELSE 0

RunsOf(t)   == {r \in RunIds : runs[r].outcome # "none" /\ runs[r].task = t}
IsNewest(r) == \A q \in RunsOf(runs[r].task) : q <= r

AwaitingMerge(t) ==
  /\ status[t] = "Review"
  /\ \A r \in RunsOf(t) : runs[r].outcome # "running"

(* Seeded fault: the approval need not be for the commit that lands.       *)
CheckedButNotReviewed(t, commit, implementer) ==
  /\ Merges(autonomy) /\ MayMerge
  /\ verified[t] = [commit |-> commit, list |-> checkList]
  /\ implementer # reviewed[t].reviewer

(* check_merge_evidence, for the implementer read when the merge was asked. *)
CheckMergeEvidence(t, commit, implementer) ==
  /\ Merges(autonomy) /\ MayMerge
  /\ verified[t] = [commit |-> commit, list |-> checkList]
  /\ reviewed[t].commit = commit
  /\ implementer # NoAgent /\ implementer # reviewed[t].reviewer

(* Cancelling a run reaches its process until the wait for it has returned, *)
(* even when the process has just ended by itself.                         *)
Reachable(r) == th[r].pc \in {"idle", "await"}

(* Seeded fault: the kill is written into the run's record.                *)
StopInTheRecord(runSet) ==
  [r \in RunIds |-> IF r \in runSet /\ Reachable(r)
                    THEN [runs[r] EXCEPT !.outcome = "killed"] ELSE runs[r]]

Stop(runSet) == [r \in RunIds |->
                   IF r \in runSet /\ Reachable(r)
                   THEN [runs[r] EXCEPT !.proc = "killed"] ELSE runs[r]]

-----------------------------------------------------------------------------
(* Ticks: ask the scheduler, then act on what it said.                     *)

Tick(x) ==
  /\ At(x, "tick")
  /\ \E decisions \in Decide(farm, autonomy, status, attempts, assigned, leases) :
       Becomes(x, [th[x] EXCEPT !.pc = "act", !.queue = decisions])
  /\ UNCHANGED <<farmVars, taskVars, leases, evidence, runVars, stops, mergeLock,
                 gitVars, bounds, history>>

(* Every decision has been acted on: announce the farm's status and return. *)
TickEnds(x) ==
  /\ At(x, "act") /\ th[x].queue = {}
  /\ farm' = DerivedStatus(farm, Tasks, status)
  /\ Becomes(x, [th[x] EXCEPT !.pc = th[x].then, !.err = FALSE])
  /\ UNCHANGED <<autonomy, resolver, checkList, taskVars, leases, evidence, runVars,
                 stops, mergeLock, gitVars, bounds, history>>

ActBlock(x) ==
  /\ At(x, "act")
  /\ \E d \in th[x].queue :
       /\ IsFirst(d, th[x].queue) /\ d.rank > 0 /\ d.to = "Blocked"
       /\ SetStatus(d.task, "Blocked")
       /\ Becomes(x, [th[x] EXCEPT !.queue = @ \ {d}])
  /\ UNCHANGED <<autonomy, resolver, checkList, attempts, assigned, implementedBy, evidence,
                 runVars, stops, mergeLock, gitVars, bounds, history>>

(* settle: by the container's own rule, and with no farm status of its own. *)
ActSettle(x) ==
  /\ At(x, "act")
  /\ \E d \in th[x].queue :
       /\ IsFirst(d, th[x].queue) /\ d.rank = 0
       /\ status' = IF CanSettle(status[d.task], d.to)
                    THEN [status EXCEPT ![d.task] = d.to] ELSE status
       /\ Becomes(x, [th[x] EXCEPT !.queue = @ \ {d}])
  /\ UNCHANGED <<farmVars, attempts, assigned, implementedBy, leases, evidence, runVars,
                 stops, mergeLock, gitVars, bounds, history>>

ActStart(x) ==
  /\ At(x, "act")
  /\ \E d \in th[x].queue :
       /\ IsFirst(d, th[x].queue) /\ d.to = "Assigned"
       /\ Becomes(x, [th[x] EXCEPT !.pc = "claim", !.queue = @ \ {d}, !.from = "tick",
                                   !.start = d.task, !.agent = d.agent])
  /\ UNCHANGED <<farmVars, taskVars, leases, evidence, runVars, stops, mergeLock,
                 gitVars, bounds, history>>

(* The start failed: block the task and go on with the next decision. *)
ActRefused(x) ==
  /\ At(x, "refused")
  /\ SetStatus(th[x].start, "Blocked")
  /\ Goto(x, "act")
  /\ UNCHANGED <<autonomy, resolver, checkList, attempts, assigned, implementedBy, evidence,
                 runVars, stops, mergeLock, gitVars, bounds, history>>

-----------------------------------------------------------------------------
(* Starting an agent: start_task, then spawn_run, which a review enters by *)
(* itself.  A failure goes back to whoever asked.                          *)

StartEnds(x, err) ==
  IF th[x].from = "tick"
  THEN Becomes(x, [th[x] EXCEPT !.pc = IF err THEN "refused" ELSE "act",
                                !.agent = NoAgent, !.run = 0])
  ELSE Becomes(x, [th[x] EXCEPT !.pc = "ret", !.err = err, !.from = "tick",
                                !.agent = NoAgent, !.run = 0, !.commit = 0])

Claim(x) ==
  LET t == th[x].start IN
  /\ At(x, "claim")
  /\ IF Contended(t, leases)
     THEN StartEnds(x, TRUE) /\ UNCHANGED <<leases, evidence>>
     ELSE /\ leases' = leases \cup {t}
          /\ verified' = [verified EXCEPT ![t] = NoEvidence]
          /\ reviewed' = [reviewed EXCEPT ![t] = NoReview]
          /\ Goto(x, "assign")
  /\ UNCHANGED <<farmVars, taskVars, runVars, stops, mergeLock, gitVars, bounds, history>>

(* No destination (HEAD is detached), or a status the machine cannot leave *)
(* for Assigned: either way the lease stays taken.                         *)
Assign(x) ==
  LET t == th[x].start IN
  /\ At(x, "assign")
  /\ \/ /\ MayMove(t, "Assigned")
        /\ SetStatus(t, "Assigned")
        /\ Goto(x, "cut")
     \/ /\ ~MayMove(t, "Assigned") \/ "branch" \in Faults
        /\ StartEnds(x, TRUE)
        /\ UNCHANGED <<farm, status, leases>>
  /\ UNCHANGED <<autonomy, resolver, checkList, attempts, assigned, implementedBy, evidence,
                 runVars, stops, mergeLock, gitVars, bounds, history>>

(* The worktree is cut, or was there already, and the task edited. *)
Cut(x) ==
  LET t == th[x].start IN
  /\ At(x, "cut")
  /\ \/ /\ assigned' = [assigned EXCEPT ![t] = th[x].agent]
        /\ implementedBy' = [implementedBy EXCEPT ![t] = th[x].agent]
        /\ attempts' = [attempts EXCEPT ![t] = @ + 1]
        /\ tree' = [tree EXCEPT ![t] = IF @ = "absent" THEN "clean" ELSE @]
        /\ Goto(x, "spawn")
        /\ UNCHANGED leases
     \/ /\ "worktree" \in Faults
        /\ leases' = leases \ {t}
        /\ StartEnds(x, TRUE)
        /\ UNCHANGED <<attempts, assigned, implementedBy, tree>>
  /\ UNCHANGED <<farmVars, status, evidence, runVars, stops, mergeLock, head, landed, bounds,
                 history>>

(* The process is started and its run remembered, or it cannot be started  *)
(* (which is also what happens at the bound MaxRuns).                      *)
Spawn(x) ==
  LET t     == th[x].start
      phase == IF th[x].from = "review" THEN "Review" ELSE "Implementation" IN
  /\ At(x, "spawn")
  /\ \/ \E r \in RunIds :
          /\ \A q \in RunIds : runs[q].outcome = "none" <=> q >= r
          /\ runs' = [runs EXCEPT ![r] =
                        [task |-> t, agent |-> th[x].agent, phase |-> phase,
                         outcome |-> "running", proc |-> "alive", input |-> th[x].commit]]
          /\ Becomes(x, [th[x] EXCEPT
                           !.run = r, !.commit = 0,
                           !.pc = IF phase = "Review" THEN "register" ELSE "running"])
     \/ /\ "spawn" \in Faults \/ \A q \in RunIds : runs[q].outcome # "none"
        /\ StartEnds(x, TRUE)
        /\ UNCHANGED runs
  /\ UNCHANGED <<farmVars, taskVars, leases, evidence, sessions, cancellations, stops,
                 mergeLock, gitVars, bounds, history>>

(* The task is Running; a task that cannot be drops the session, which     *)
(* kills the process and leaves the run's record as it is.                 *)
SetRunning(x) ==
  LET t == th[x].start IN
  /\ At(x, "running")
  /\ SetStatus(t, "Running")
  /\ IF MayMove(t, "Running")
     THEN Goto(x, "register") /\ UNCHANGED runs
     ELSE StartEnds(x, TRUE) /\ runs' = Stop({th[x].run})
  /\ UNCHANGED <<autonomy, resolver, checkList, attempts, assigned, implementedBy, evidence,
                 sessions, cancellations, stops, mergeLock, gitVars, bounds, history>>

Register(x) ==
  /\ At(x, "register")
  /\ cancellations' = [cancellations EXCEPT ![th[x].start] = th[x].run]
  /\ Goto(x, "enqueue")
  /\ UNCHANGED <<farmVars, taskVars, leases, evidence, runs, sessions, stops, mergeLock,
                 gitVars, bounds, history>>

Enqueue(x) ==
  /\ At(x, "enqueue")
  /\ sessions' = sessions \cup {th[x].run}
  /\ StartEnds(x, FALSE)
  /\ UNCHANGED <<farmVars, taskVars, leases, evidence, runs, cancellations, stops,
                 mergeLock, gitVars, bounds, history>>

-----------------------------------------------------------------------------
(* Waiting for an agent.                                                   *)

(* Seeded fault: sessions are found by the status of their task.           *)
ClaimedByStatus == {r \in sessions : status[runs[r].task] = "Running"}

Claimed == sessions

(* watch_pending: claim every session nobody waits for, a thread for each. *)
(* Claiming removes it from the map, so no run gets two threads.           *)
WatchPending(x) ==
  /\ At(x, "watch")
  /\ th' = [y \in Threads |->
              IF y \in Claimed
              THEN [Idle EXCEPT !.pc = "await", !.job = "watch",
                                !.task = runs[y].task, !.start = runs[y].task]
              ELSE IF y = x THEN Idle ELSE th[y]]
  /\ sessions' = sessions \ Claimed
  /\ UNCHANGED <<farmVars, taskVars, leases, evidence, runs, cancellations, stops,
                 mergeLock, gitVars, bounds, history>>

(* The process has ended, and the task's status is read. *)
Await(r) ==
  LET t == th[r].task IN
  /\ At(r, "await") /\ r \in RunIds /\ runs[r].proc \in {"killed", "ok", "handback", "failed"}
  /\ Becomes(r, [th[r] EXCEPT !.pc = "finish",
                              !.ended = IF runs[r].proc = "killed" \/ status[t] = "Cancelled"
                                           THEN "cancelled" ELSE runs[r].proc])
  /\ runs' = [runs EXCEPT ![r].proc = "gone"]
  /\ UNCHANGED <<farmVars, taskVars, leases, evidence, sessions, cancellations, stops,
                 mergeLock, gitVars, bounds, history>>

(* Seeded fault: an approval finishes the task.                            *)
FinishByApproval(r, ended) ==
  CASE ended = "cancelled"                                      -> "dropLease"
    [] ended = "ok" /\ runs[r].phase = "Review"                 -> "landed"
    [] ended = "ok" /\ runs[r].phase = "Implementation"         -> "verify"
    [] OTHER                                                    -> "giveUp"

(* finish_run: only the task's newest run decides anything, and only once. *)
FinishTo(r, ended) ==
  CASE ended = "cancelled"                                      -> "dropLease"
    [] ended = "failed" /\ runs[r].phase = "Review"             -> "discredit"
    [] ended \in {"ok", "handback"} /\ runs[r].phase = "Review" -> "conclude"
    [] ended = "ok" /\ runs[r].phase = "Implementation"         -> "verify"
    [] OTHER                                                    -> "giveUp"

DecidesItsTask(r) == IsNewest(r) /\ runs[r].outcome = "running"

Finish(r) ==
  LET ended == th[r].ended IN
  /\ At(r, "finish") /\ r \in RunIds
  /\ IF DecidesItsTask(r)
     THEN /\ runs' = [runs EXCEPT ![r].outcome = "ended"]
          /\ Goto(r, FinishTo(r, ended))
     ELSE Return(r) /\ UNCHANGED runs
  /\ UNCHANGED <<farmVars, taskVars, leases, evidence, sessions, cancellations, stops,
                 mergeLock, gitVars, bounds, history>>

DropLease(r) ==
  /\ At(r, "dropLease")
  /\ leases' = leases \ {th[r].task}
  /\ Return(r)
  /\ UNCHANGED <<farmVars, taskVars, evidence, runVars, stops, mergeLock, gitVars,
                 bounds, history>>

(* A reviewer that failed approved nothing. *)
Discredit(r) ==
  /\ At(r, "discredit")
  /\ reviewed' = [reviewed EXCEPT ![th[r].task] = NoReview]
  /\ Goto(r, "reject")
  /\ UNCHANGED <<farmVars, taskVars, leases, verified, runVars, stops, mergeLock,
                 gitVars, bounds, history>>

(* The implementer failed, or handed the task back as blocked. *)
GiveUp(r) ==
  LET t  == th[r].task
      to == IF th[r].ended = "failed" THEN "Failed" ELSE "Blocked" IN
  /\ At(r, "giveUp")
  /\ ReleaseAndSet(t, to)
  /\ IF MayMove(t, to) THEN Return(r) ELSE Fail(r)
  /\ UNCHANGED <<autonomy, resolver, checkList, attempts, assigned, implementedBy, evidence,
                 runVars, stops, mergeLock, gitVars, bounds, history>>

-----------------------------------------------------------------------------
(* Verification.                                                           *)

(* Seeded fault: the status is asked, which is set after the flag.         *)
VerifyingByStatus(t) == status[t] = "Verification"

Verifying(t) == stops[t] # "none"

(* One at a time per task. *)
Verify(x) ==
  LET t == th[x].task IN
  /\ At(x, "verify")
  /\ IF Verifying(t)
     THEN Fail(x) /\ UNCHANGED stops
     ELSE /\ stops' = [stops EXCEPT ![t] = "going"]
          /\ Becomes(x, [th[x] EXCEPT !.pc = "verification", !.list = checkList,
                                      !.duty = @ \cup {"stop"}])
  /\ UNCHANGED <<farmVars, taskVars, leases, evidence, runVars, mergeLock, gitVars,
                 bounds, history>>

Verification(x) ==
  LET t == th[x].task IN
  /\ At(x, "verification")
  /\ SetStatus(t, "Verification")
  /\ GotoOrFail(x, MayMove(t, "Verification"), "before")
  /\ UNCHANGED <<autonomy, resolver, checkList, attempts, assigned, implementedBy, evidence,
                 runVars, stops, mergeLock, gitVars, bounds, history>>

(* The commit the checks are about to be run on, and what was known of an   *)
(* earlier one forgotten.                                                   *)
Before(x) ==
  LET t == th[x].task IN
  /\ At(x, "before")
  /\ Becomes(x, [th[x] EXCEPT !.pc = "check", !.commit = CleanCommit(t)])
  /\ verified' = [verified EXCEPT ![t] = NoEvidence]
  /\ reviewed' = [reviewed EXCEPT ![t] = NoReview]
  /\ UNCHANGED <<farmVars, taskVars, leases, runVars, stops, mergeLock, gitVars,
                 bounds, history>>

(* The checks run in the worktree as it is now, and cannot pass where there *)
(* is none.  History keeps the commits they really passed on.               *)
Check(x) ==
  LET t == th[x].task IN
  /\ At(x, "check")
  /\ \E result \in Results :
       /\ tree[t] = "absent" => result # "pass"
       /\ Becomes(x, [th[x] EXCEPT !.pc = "judge", !.ended = result])
       /\ passed' = IF result = "pass" /\ tree[t] = "clean"
                    THEN passed \cup {<<t, head[t], th[x].list>>} ELSE passed
  /\ UNCHANGED <<farmVars, taskVars, leases, evidence, runVars, stops, mergeLock,
                 gitVars, bounds, approvals, cleared>>

(* Seeded fault: clean again is taken for unchanged.                       *)
CleanAgain(t, commit) == commit # 0 /\ CleanCommit(t) # 0

(* The commit is still the one that was read before the checks ran. *)
StillAt(t, commit) == commit # 0 /\ CleanCommit(t) = commit

Judge(x) ==
  LET t == th[x].task IN
  /\ At(x, "judge")
  /\ IF stops[t] = "stopping"
     THEN Return(x) /\ UNCHANGED verified
     ELSE /\ verified' = IF th[x].ended = "pass" /\ StillAt(t, th[x].commit)
                         THEN [verified EXCEPT ![t] = [commit |-> th[x].commit,
                                                       list |-> th[x].list]]
                         ELSE verified
          /\ Becomes(x, [th[x] EXCEPT
                           !.pc = IF th[x].ended = "fail" THEN "reject" ELSE "review",
                           !.commit = 0, !.ended = "none", !.list = SomeList])
  /\ UNCHANGED <<farmVars, taskVars, leases, reviewed, runVars, stops, mergeLock,
                 gitVars, bounds, history>>

(* after_rejection: read what decides, give the paths back, then move. *)
Reject(x) ==
  LET t == th[x].task IN
  /\ At(x, "reject")
  /\ leases' = leases \ {t}
  /\ Goto(x, IF Exhausted(t) \/ ~Retries(autonomy) THEN "block" ELSE "requeue")
  /\ UNCHANGED <<farmVars, taskVars, evidence, runVars, stops, mergeLock, gitVars,
                 bounds, history>>

Block(x) ==
  LET t == th[x].task IN
  /\ At(x, "block")
  /\ SetStatus(t, "Blocked")
  /\ IF MayMove(t, "Blocked") THEN Return(x) ELSE Fail(x)
  /\ UNCHANGED <<autonomy, resolver, checkList, attempts, assigned, implementedBy, evidence,
                 runVars, stops, mergeLock, gitVars, bounds, history>>

Requeue(x) ==
  LET t == th[x].task IN
  /\ At(x, "requeue")
  /\ SetStatus(t, "Waiting")
  /\ IF MayMove(t, "Waiting")
     THEN Becomes(x, [th[x] EXCEPT !.pc = "tick", !.then = "ret"]) ELSE Fail(x)
  /\ UNCHANGED <<autonomy, resolver, checkList, attempts, assigned, implementedBy, evidence,
                 runVars, stops, mergeLock, gitVars, bounds, history>>

-----------------------------------------------------------------------------
(* Review.                                                                 *)

Review(x) ==
  LET t == th[x].task IN
  /\ At(x, "review")
  /\ SetStatus(t, "Review")
  /\ GotoOrFail(x, MayMove(t, "Review"), "pick")
  /\ UNCHANGED <<autonomy, resolver, checkList, attempts, assigned, implementedBy, evidence,
                 runVars, stops, mergeLock, gitVars, bounds, history>>

(* reviewer::pick: anybody but the implementer. *)
Reviewers(t) == Agents \ {implementedBy[t]}

(* A farm that does not review, or has nobody to, leaves the task to a      *)
(* person.  The commit under review is read before the reviewer starts.     *)
PickReviewer(x) ==
  LET t == th[x].task IN
  /\ At(x, "pick")
  /\ IF ~Reviews(autonomy) \/ implementedBy[t] = NoAgent \/ Reviewers(t) = {}
     THEN Return(x)
     ELSE \E a \in Reviewers(t) :
            Becomes(x, [th[x] EXCEPT !.pc = "spawn", !.from = "review", !.start = t,
                                     !.agent = a, !.commit = CleanCommit(t)])
  /\ UNCHANGED <<farmVars, taskVars, leases, evidence, runVars, stops, mergeLock,
                 gitVars, bounds, history>>

(* The reviewer has answered: approved, or asked for changes. *)
Conclude(r) ==
  LET t == th[r].task IN
  /\ At(r, "conclude") /\ r \in RunIds
  /\ CASE th[r].ended # "ok" ->
            Goto(r, "reject") /\ UNCHANGED reviewed
       [] th[r].ended = "ok" /\ implementedBy[t] = runs[r].agent ->
            Fail(r) /\ UNCHANGED reviewed
       [] OTHER ->
            /\ reviewed' = IF StillAt(t, runs[r].input)
                           THEN [reviewed EXCEPT ![t] = [commit |-> runs[r].input,
                                                         reviewer |-> runs[r].agent]]
                           ELSE reviewed
            /\ Goto(r, "approve")
  /\ UNCHANGED <<farmVars, taskVars, leases, verified, runVars, stops, mergeLock,
                 gitVars, bounds, history>>

(* approve: land it if the farm may, or leave it to a person. *)
Approve(r) ==
  /\ At(r, "approve")
  /\ IF Merges(autonomy)
     THEN Becomes(r, [th[r] EXCEPT !.pc = "merge", !.duty = @ \cup {"approve"}])
     ELSE Return(r)
  /\ UNCHANGED <<farmVars, taskVars, leases, evidence, runVars, stops, mergeLock,
                 gitVars, bounds, history>>

-----------------------------------------------------------------------------
(* Landing: merge_checked, and mark_merged for a merge a person made.      *)

IsAutomatic(x) == "approve" \in th[x].duty

(* Seeded fault: the guard of the lock outlives the landing.               *)
KeepMergeLock == UNCHANGED mergeLock

DropMergeLock == mergeLock' = Nobody

Merge(x) ==
  LET implementer == implementedBy[th[x].task] IN
  /\ At(x, "merge") /\ mergeLock = Nobody
  /\ IF AwaitingMerge(th[x].task) /\ implementer # NoAgent
     THEN /\ mergeLock' = x
          /\ Becomes(x, [th[x] EXCEPT !.pc = "evidence", !.agent = implementer])
     ELSE Fail(x) /\ UNCHANGED mergeLock
  /\ UNCHANGED <<farmVars, taskVars, leases, evidence, runVars, stops, gitVars,
                 bounds, history>>

(* The worktree must be clean, and a merge nobody asked for must be earned. *)
CheckEvidence(x) ==
  LET t  == th[x].task
      c  == CleanCommit(t)
      by == th[x].agent
      ok == c # 0 /\ (IsAutomatic(x) => CheckMergeEvidence(t, c, by)) IN
  /\ At(x, "evidence")
  /\ Becomes(x, [th[x] EXCEPT !.agent = NoAgent, !.pc = IF ok THEN "land" ELSE "ret",
                              !.commit = IF ok THEN c ELSE 0, !.err = ~ok])
  /\ cleared' = IF ok /\ IsAutomatic(x)
                THEN cleared \cup {[task |-> t, commit |-> c, list |-> checkList, by |-> by,
                                    reviewer |-> reviewed[t].reviewer]}
                ELSE cleared
  /\ IF ok THEN UNCHANGED mergeLock ELSE DropMergeLock
  /\ UNCHANGED <<farmVars, taskVars, leases, evidence, runVars, stops, gitVars,
                 bounds, passed, approvals>>

(* land, as the service sees it: the destination has the commit (it may     *)
(* have had it before), or it stopped and nothing was written.  The step    *)
(* that stops is the look at the destination's tip, where a commit that is  *)
(* there already meets neither a conflict nor a check; what a person merges *)
(* after that look comes after the step.                                    *)
LandOk(x) ==
  LET t == th[x].task IN
  /\ At(x, "land")
  /\ landed' = [landed EXCEPT ![t] = @ \cup {th[x].commit}]
  /\ Goto(x, "landed")
  /\ UNCHANGED <<farmVars, taskVars, leases, evidence, runVars, stops, mergeLock,
                 head, tree, bounds, history>>

LandStops(x) ==
  /\ At(x, "land")
  /\ \E how \in Landings :
       /\ how # "failed" => th[x].commit \notin landed[th[x].task]
       /\ Becomes(x, [th[x] EXCEPT !.commit = 0,
                                   !.pc = CASE how = "red"      -> "reject"
                                            [] how = "conflict" -> "conflict"
                                            [] OTHER            -> "block"])
  /\ DropMergeLock
  /\ UNCHANGED <<farmVars, taskVars, leases, evidence, runVars, stops, gitVars,
                 bounds, history>>

(* mark_merged: refused until the commit really is in the destination. *)
MarkMerged(x) ==
  LET t == th[x].task IN
  /\ At(x, "merged") /\ mergeLock = Nobody
  /\ IF status[t] = "Done" THEN Return(x) /\ UNCHANGED mergeLock
     ELSE IF AwaitingMerge(t) /\ implementedBy[t] # NoAgent
     THEN mergeLock' = x /\ Goto(x, "arrived")
     ELSE Fail(x) /\ UNCHANGED mergeLock
  /\ UNCHANGED <<farmVars, taskVars, leases, evidence, runVars, stops, gitVars,
                 bounds, history>>

(* Seeded fault: a merge is believed, not looked for.                      *)
SaidToBeThere(t) == CleanCommit(t) # 0

InDestination(t) == CleanCommit(t) \in landed[t]

Arrived(x) ==
  LET t == th[x].task IN
  /\ At(x, "arrived")
  /\ IF InDestination(t)
     THEN /\ Becomes(x, [th[x] EXCEPT !.pc = "landed", !.commit = CleanCommit(t)])
          /\ UNCHANGED mergeLock
     ELSE Fail(x) /\ DropMergeLock
  /\ UNCHANGED <<farmVars, taskVars, leases, evidence, runVars, stops, gitVars,
                 bounds, history>>

(* The task is done, and its worktree removed, unless there are changes in  *)
(* it.  Then the lock is given up and the scheduler asked again.            *)
Landed(x) ==
  LET t == th[x].task IN
  /\ At(x, "landed")
  /\ SetStatus(t, "Done")
  /\ IF MayMove(t, "Done")
     THEN Goto(x, "remove") /\ UNCHANGED mergeLock
     ELSE Fail(x) /\ DropMergeLock
  /\ UNCHANGED <<autonomy, resolver, checkList, attempts, assigned, implementedBy, evidence,
                 runVars, stops, gitVars, bounds, history>>

Remove(x) ==
  LET t == th[x].task IN
  /\ At(x, "remove")
  /\ tree' = [tree EXCEPT ![t] = IF @ = "clean" THEN "absent" ELSE @]
  /\ Becomes(x, [th[x] EXCEPT !.pc = "tick", !.then = "ret", !.commit = 0])
  /\ DropMergeLock
  /\ UNCHANGED <<farmVars, taskVars, leases, evidence, runVars, stops, head, landed,
                 bounds, history>>

(* resolve_conflict: a person is asked, also when anything else goes wrong; *)
(* or the destination is merged into the task's branch, cleanly or by a     *)
(* tool, and verified again; or its agent gets the conflict, in the         *)
(* worktree, as its next attempt.                                           *)
AskPerson(x) ==
  /\ At(x, "conflict")
  /\ Goto(x, "block")
  /\ UNCHANGED <<farmVars, taskVars, leases, evidence, runVars, stops, mergeLock,
                 gitVars, bounds, history>>

ResolveByMerge(x) ==
  LET t == th[x].task IN
  /\ At(x, "conflict") /\ resolver # "ask" /\ tree[t] = "clean" /\ head[t] < MaxCommits
  /\ head' = [head EXCEPT ![t] = @ + 1]
  /\ Goto(x, "verify")
  /\ UNCHANGED <<farmVars, taskVars, leases, evidence, runVars, stops, mergeLock,
                 tree, landed, bounds, history>>

ResolveByAgent(x) ==
  LET t == th[x].task IN
  /\ At(x, "conflict") /\ resolver = "agent" /\ tree[t] = "clean" /\ ~Exhausted(t)
  /\ leases' = leases \ {t}
  /\ tree' = [tree EXCEPT ![t] = "dirty"]
  /\ Goto(x, "requeue")
  /\ UNCHANGED <<farmVars, taskVars, evidence, runVars, stops, mergeLock, head, landed,
                 bounds, history>>

-----------------------------------------------------------------------------
(* Returning: what the callers still had to do, innermost first.           *)

(* verify gives its stop flag back. *)
ReturnFromVerify(x) ==
  /\ At(x, "ret") /\ "stop" \in th[x].duty
  /\ stops' = [stops EXCEPT ![th[x].task] = "none"]
  /\ Becomes(x, [th[x] EXCEPT !.duty = @ \ {"stop"}])
  /\ UNCHANGED <<farmVars, taskVars, leases, evidence, runVars, mergeLock, gitVars,
                 bounds, history>>

(* approve: an automatic merge that was refused leaves the task in review. *)
ReturnFromApprove(x) ==
  LET t == th[x].task IN
  /\ At(x, "ret") /\ th[x].duty = {"approve"}
  /\ IF th[x].err
     THEN SetStatus(t, "Review") ELSE UNCHANGED <<farm, status, leases>>
  /\ Becomes(x, [th[x] EXCEPT !.duty = {}, !.err = @ /\ ~MayMove(t, "Review")])
  /\ UNCHANGED <<autonomy, resolver, checkList, attempts, assigned, implementedBy, evidence,
                 runVars, stops, mergeLock, gitVars, bounds, history>>

(* A watcher forgets how to stop the run, reports an error, ticks, watches. *)
ReturnFromRun(r) ==
  LET t == th[r].task IN
  /\ At(r, "ret") /\ th[r].duty = {} /\ th[r].job = "watch"
  /\ cancellations' = IF cancellations[t] = r THEN [cancellations EXCEPT ![t] = 0]
                      ELSE cancellations
  /\ Becomes(r, [th[r] EXCEPT !.pc = IF th[r].err THEN "report" ELSE "tick", !.then = "watch"])
  /\ UNCHANGED <<farmVars, taskVars, leases, evidence, runs, sessions, stops, mergeLock,
                 gitVars, bounds, history>>

(* report_run_error: only for the newest run of a task that goes on. *)
Report(r) ==
  LET t == th[r].task IN
  /\ At(r, "report") /\ r \in RunIds
  /\ IF IsNewest(r) /\ status[t] \notin Terminal
     THEN SetStatus(t, "Blocked") ELSE UNCHANGED <<farm, status, leases>>
  /\ Becomes(r, [th[r] EXCEPT !.pc = "tick", !.err = FALSE])
  /\ UNCHANGED <<autonomy, resolver, checkList, attempts, assigned, implementedBy, evidence,
                 runVars, stops, mergeLock, gitVars, bounds, history>>

(* The thread of a "run the checks" command blocks the task on an error. *)
ReturnFromVerifyCommand(p) ==
  LET t == th[p].task IN
  /\ At(p, "ret") /\ th[p].duty = {} /\ th[p].job = "verify"
  /\ IF th[p].err THEN SetStatus(t, "Blocked") ELSE UNCHANGED <<farm, status, leases>>
  /\ Goto(p, "watch")
  /\ UNCHANGED <<autonomy, resolver, checkList, attempts, assigned, implementedBy, evidence,
                 runVars, stops, mergeLock, gitVars, bounds, history>>

(* Any other command watches when it succeeded, and shows its error when not. *)
ReturnFromCommand(p) ==
  /\ At(p, "ret") /\ th[p].duty = {} /\ th[p].job = "command"
  /\ IF th[p].err THEN Leave(p) ELSE Goto(p, "watch")
  /\ UNCHANGED <<farmVars, taskVars, leases, evidence, runVars, stops, mergeLock,
                 gitVars, bounds, history>>

-----------------------------------------------------------------------------
(* Commands.  A command begins a thread of its own at its first step.      *)

Asked(p, c) ==
  /\ p \in People /\ At(p, "idle") /\ c \in Commands
  /\ commands < MaxCommands /\ commands' = commands + 1 /\ UNCHANGED restarts

Begin(p, pc, t) == Becomes(p, [Idle EXCEPT !.pc = pc, !.job = "command",
                                           !.task = t, !.start = t])
BeginTick(p)    == Becomes(p, [Idle EXCEPT !.pc = "tick", !.job = "command",
                                           !.then = "watch"])

(* The commands that do their work in the steps above, behind no check of  *)
(* their own, and the step each begins with.                               *)
FirstStep == [review |-> "review", merge |-> "merge", merged |-> "merged"]

AskStep(p) ==
  /\ \E c \in DOMAIN FirstStep, t \in Tasks : Asked(p, c) /\ Begin(p, FirstStep[c], t)
  /\ UNCHANGED <<farmVars, taskVars, leases, evidence, runVars, stops, mergeLock,
                 gitVars, history>>

(* The checks are run in a thread of their own, in a worktree there is. *)
AskVerify(p) ==
  /\ Asked(p, "verify")
  /\ \E t \in Tasks :
       /\ implementedBy[t] # NoAgent
       /\ Becomes(p, [Idle EXCEPT !.pc = "verify", !.job = "verify",
                                  !.task = t, !.start = t])
  /\ UNCHANGED <<farmVars, taskVars, leases, evidence, runVars, stops, mergeLock,
                 gitVars, history>>

(* run_task, up to start_task. *)
AskRun(p) ==
  /\ Asked(p, "run")
  /\ \E t \in Tasks, a \in Agents :
       /\ ~IsContainer(t) /\ Unmet(status, t) = {} /\ ~Contended(t, leases)
       /\ Becomes(p, [Idle EXCEPT !.pc = "claim", !.job = "command",
                                  !.task = t, !.start = t, !.agent = a, !.from = "command"])
  /\ UNCHANGED <<farmVars, taskVars, leases, evidence, runVars, stops, mergeLock,
                 gitVars, history>>

AskReady(p) ==
  /\ Asked(p, "ready")
  /\ \E t \in Tasks : MayMove(t, "Ready") /\ SetStatus(t, "Ready")
  /\ BeginTick(p)
  /\ UNCHANGED <<autonomy, resolver, checkList, attempts, assigned, implementedBy, evidence,
                 runVars, stops, mergeLock, gitVars, history>>

(* Refused while a verification, or a run, is still stopping. *)
AskRetry(p) ==
  /\ Asked(p, "retry")
  /\ \E t \in Tasks : ~Verifying(t) /\ cancellations[t] = 0 /\ Begin(p, "retry", t)
  /\ UNCHANGED <<farmVars, taskVars, leases, evidence, runVars, stops, mergeLock,
                 gitVars, history>>

(* Ready, whatever it was, and the farm's status as it was. *)
Retry(p) ==
  /\ At(p, "retry")
  /\ status' = [status EXCEPT ![th[p].task] = "Ready"]
  /\ BeginTick(p)
  /\ UNCHANGED <<farmVars, attempts, assigned, implementedBy, leases, evidence, runVars,
                 stops, mergeLock, gitVars, bounds, history>>

AskCancel(p) ==
  /\ Asked(p, "cancel")
  /\ \E t \in Tasks :
       MayMove(t, "Cancelled") /\ SetStatus(t, "Cancelled") /\ Begin(p, "halt", t)
  /\ UNCHANGED <<autonomy, resolver, checkList, attempts, assigned, implementedBy, evidence,
                 runVars, stops, mergeLock, gitVars, history>>

(* Tell the verification to stop. *)
Halt(p) ==
  LET t == th[p].task IN
  /\ At(p, "halt")
  /\ stops' = [stops EXCEPT ![t] = IF @ = "going" THEN "stopping" ELSE @]
  /\ Goto(p, "kill")
  /\ UNCHANGED <<farmVars, taskVars, leases, evidence, runVars, mergeLock, gitVars,
                 bounds, history>>

(* stop_session: kill the process, and forget it if nobody waits for it. *)
Kill(p) ==
  LET t == th[p].task
      r == cancellations[t] IN
  /\ At(p, "kill")
  /\ runs' = Stop({r})
  /\ sessions' = sessions \ {r}
  /\ cancellations' = IF r \in sessions THEN [cancellations EXCEPT ![t] = 0]
                      ELSE cancellations
  /\ Leave(p)
  /\ UNCHANGED <<farmVars, taskVars, leases, evidence, stops, mergeLock, gitVars,
                 bounds, history>>

AskStart(p) ==
  /\ Asked(p, "start")
  /\ farm' = "Running"
  /\ BeginTick(p)
  /\ UNCHANGED <<autonomy, resolver, checkList, taskVars, leases, evidence, runVars, stops,
                 mergeLock, gitVars, history>>

AskPause(p) ==
  /\ Asked(p, "pause")
  /\ farm' = "Paused"
  /\ UNCHANGED <<autonomy, resolver, checkList, taskVars, leases, evidence, runVars, stops,
                 mergeLock, gitVars, th, history>>

AskAssign(p) ==
  /\ Asked(p, "assign")
  /\ \E t \in Tasks, a \in Agents : assigned' = [assigned EXCEPT ![t] = a]
  /\ UNCHANGED <<farmVars, status, attempts, implementedBy, leases, evidence, runVars, stops,
                 mergeLock, gitVars, th, history>>

AskConfigure(p) ==
  /\ Asked(p, "configure")
  /\ autonomy' \in Levels /\ resolver' \in Resolvers /\ checkList' \in CheckLists
  /\ UNCHANGED <<farm, taskVars, leases, evidence, runVars, stops, mergeLock, gitVars, th,
                 history>>

(* A person merges the task's branch with the Git client itself; telling   *)
(* the farm so is the command "merged".                                    *)
PersonMerges(p) ==
  /\ Asked(p, "merger")
  /\ \E t \in Tasks :
       /\ implementedBy[t] # NoAgent
       /\ landed' = [landed EXCEPT ![t] = @ \cup {head[t]}]
  /\ UNCHANGED <<farmVars, taskVars, leases, evidence, runVars, stops, mergeLock,
                 head, tree, th, history>>

-----------------------------------------------------------------------------
(* Agents: what a process does in its worktree while nobody watches.       *)

Alive(r) == r \in RunIds /\ runs[r].proc = "alive" /\ runs[r].outcome = "running"

Edit(r) ==
  LET t == runs[r].task IN
  /\ Alive(r) /\ tree[t] = "clean" /\ head[t] < MaxCommits
  /\ tree' = [tree EXCEPT ![t] = "dirty"]
  /\ UNCHANGED <<farmVars, taskVars, leases, evidence, runVars, stops, mergeLock,
                 head, landed, th, bounds, history>>

Commit(r) ==
  LET t == runs[r].task IN
  /\ Alive(r) /\ tree[t] = "dirty" /\ head[t] < MaxCommits
  /\ head' = [head EXCEPT ![t] = @ + 1]
  /\ tree' = [tree EXCEPT ![t] = "clean"]
  /\ UNCHANGED <<farmVars, taskVars, leases, evidence, runVars, stops, mergeLock,
                 landed, th, bounds, history>>

(* "ok" is a good ending: the work is done, or the reviewer approved.       *)
(* "handback" is the other answer of a process that ended well: blocked, or *)
(* changes asked for.  History keeps what an approval was given for.        *)
Exit(r, how) ==
  LET t == runs[r].task IN
  /\ Alive(r)
  /\ runs' = [runs EXCEPT ![r].proc = how]
  /\ approvals' = IF how = "ok" /\ runs[r].phase = "Review"
                  THEN approvals \cup {<<t, head[t], runs[r].agent>>} ELSE approvals
  /\ UNCHANGED <<farmVars, taskVars, leases, evidence, sessions, cancellations, stops,
                 mergeLock, gitVars, th, bounds, passed, cleared>>

-----------------------------------------------------------------------------
(* The program stops at any moment and is started again: open, recover.     *)
(* What is on disk is the farm, its tasks and their counters, and what is   *)
(* in git; everything else was in memory, and the agents died with it.      *)
Recovered(s) == IF s = "Running" THEN "Waiting" ELSE s

Restart ==
  LET derived == IF \E t \in Tasks : status[t] = "Running"
                 THEN DerivedStatus(farm, Tasks, status') ELSE farm IN
  /\ restarts < MaxRestarts /\ restarts' = restarts + 1
  /\ status' = [t \in Tasks |-> Recovered(status[t])]
  /\ farm' = IF IsLive(derived) THEN "Paused" ELSE derived
  /\ leases' = {}
  /\ verified' = [t \in Tasks |-> NoEvidence]
  /\ reviewed' = [t \in Tasks |-> NoReview]
  /\ runs' = [r \in RunIds |-> NoRun]
  /\ sessions' = {}
  /\ cancellations' = [t \in Tasks |-> 0]
  /\ stops' = [t \in Tasks |-> "none"]
  /\ mergeLock' = Nobody
  /\ th' = [x \in Threads |-> Idle]
  /\ UNCHANGED <<autonomy, resolver, checkList, attempts, assigned, implementedBy, gitVars,
                 commands, history>>

-----------------------------------------------------------------------------
Scheduling(x) == \/ Tick(x) \/ TickEnds(x) \/ ActBlock(x) \/ ActSettle(x)
                 \/ ActStart(x) \/ ActRefused(x)
Starting(x)   == \/ Claim(x) \/ Assign(x) \/ Cut(x) \/ Spawn(x) \/ SetRunning(x)
                 \/ Register(x) \/ Enqueue(x)
Waiting(x)    == \/ WatchPending(x) \/ Await(x) \/ Finish(x) \/ DropLease(x)
                 \/ Discredit(x) \/ GiveUp(x)
Checking(x)   == \/ Verify(x) \/ Verification(x) \/ Before(x) \/ Check(x) \/ Judge(x)
                 \/ Reject(x) \/ Block(x) \/ Requeue(x)
Reviewing(x)  == Review(x) \/ PickReviewer(x) \/ Conclude(x) \/ Approve(x)
Landing(x)    == \/ Merge(x) \/ CheckEvidence(x) \/ LandOk(x) \/ LandStops(x)
                 \/ MarkMerged(x) \/ Arrived(x) \/ Landed(x) \/ Remove(x)
                 \/ AskPerson(x) \/ ResolveByMerge(x) \/ ResolveByAgent(x)
Returning(x)  == \/ ReturnFromVerify(x) \/ ReturnFromApprove(x) \/ ReturnFromRun(x)
                 \/ Report(x) \/ ReturnFromVerifyCommand(x) \/ ReturnFromCommand(x)

(* What a thread does once it has begun. *)
Step(x) == \/ Scheduling(x) \/ Starting(x) \/ Waiting(x) \/ Checking(x) \/ Reviewing(x)
           \/ Landing(x) \/ Returning(x) \/ Retry(x) \/ Halt(x) \/ Kill(x)

Command(p) == \/ AskStep(p) \/ AskVerify(p) \/ AskRun(p) \/ AskReady(p) \/ AskRetry(p)
              \/ AskCancel(p) \/ AskStart(p) \/ AskPause(p) \/ AskAssign(p)
              \/ AskConfigure(p) \/ PersonMerges(p)

Agent(r) == Edit(r) \/ Commit(r) \/ \E how \in Exits : Exit(r, how)

Next == \/ \E x \in Threads : Step(x)
        \/ \E p \in People : Command(p)
        \/ \E r \in RunIds : Agent(r)
        \/ Restart

Spec == Init /\ [][Next]_vars

(* Threads run.  Nothing makes a person give a command, an agent write or  *)
(* commit anything, or the program restart.                                *)
FairSpec == Spec /\ \A x \in Threads : WF_vars(Step(x))

-----------------------------------------------------------------------------
(* Safety.                                                                 *)

(* Two tasks whose declared paths can name the same file never hold their  *)
(* leases at once, however the threads that start, stop, reject and retry  *)
(* them interleave (Leases::acquire, called by start_task).                *)
LeasesDisjoint == \A t, u \in leases : t # u => <<t, u>> \notin Overlap

(* A recorded verification really passed on that commit, with those        *)
(* checks; a recorded approval was really given to that commit.  Neither   *)
(* survives work done while the checks or the reviewer ran (the reads of   *)
(* clean_commit around them in verify_with_stop and conclude_review).      *)
EvidenceIsTrue ==
  \A t \in Tasks :
    /\ verified[t].commit # 0 => <<t, verified[t].commit, verified[t].list>> \in passed
    /\ reviewed[t].commit # 0 => <<t, reviewed[t].commit, reviewed[t].reviewer>> \in approvals

(* Nothing lands by itself that was not earned: when check_merge_evidence  *)
(* let a commit through, the checks in force had passed on that very       *)
(* commit, and somebody other than the implementer had approved it; and    *)
(* what is landed automatically is a commit let through.                   *)
AutoLandIsEarned ==
  /\ \A c \in cleared : /\ <<c.task, c.commit, c.list>> \in passed
                        /\ <<c.task, c.commit, c.reviewer>> \in approvals
                        /\ c.reviewer # c.by /\ c.by # NoAgent
  /\ \A x \in Threads :
       At(x, "land") /\ IsAutomatic(x) =>
         \E c \in cleared : c.task = th[x].task /\ c.commit = th[x].commit

(* At most one thread verifies a task: two would share a worktree and      *)
(* overwrite each other's evidence (verification_stops).                   *)
OneVerification ==
  \A x, y \in Threads :
    /\ "stop" \in th[x].duty /\ "stop" \in th[y].duty /\ th[x].task = th[y].task
    => x = y

(* No agent is started for a task before everything it depends on is done  *)
(* (Graph::unmet, read by the scheduler and run_task before the start).     *)
(* Of a session in which nobody retries a task that is done.               *)
DependenciesFirst ==
  \A t \in Tasks : attempts[t] > 0 => \A d \in DependsOn[t] : status[d] = "Done"

(* A container is done only when all its children are (settle, decided on  *)
(* an earlier look at the children).  Of the same sessions.                *)
ContainerFollows ==
  \A c \in Tasks : Parent[c] # NoTask /\ status[Parent[c]] = "Done" => status[c] = "Done"

(* A thread that has asked the scheduler and not yet done all it said.      *)
InTick(v) ==
  \/ v.pc \in {"tick", "act", "refused"}
  \/ v.from = "tick" /\ v.pc \in {"claim", "assign", "cut", "spawn", "running", "register",
                                  "enqueue"}

(* It comes to watch_pending whatever happens: the thread of a run or of a  *)
(* verification always does, that of a command unless it may yet fail.      *)
WillWatch(v) ==
  \/ v.pc = "watch"
  \/ v.job \in {"watch", "verify"} /\ v.pc # "await"
  \/ v.job = "command" /\ (InTick(v) \/ (v.pc = "ret" /\ ~v.err))

IsBeingStarted(r) ==
  \E x \in Threads : th[x].pc \in {"running", "register", "enqueue"} /\ th[x].run = r

(* Nothing is held that nobody will give back, on any path out of any       *)
(* function: the merge lock is with a thread that is landing, a stop flag   *)
(* with one that verifies its task, an agent's process is waited for, will  *)
(* be, or is only now being started, the same is so of the run a retry is   *)
(* refused for, and while sessions wait to be watched some thread comes to  *)
(* watch_pending (verification_stops, merge_lock, cancellations, sessions). *)
NothingIsLeaked ==
  /\ mergeLock # Nobody =>
       th[mergeLock].pc \in {"evidence", "land", "landed", "arrived", "remove"}
  /\ \A t \in Tasks : stops[t] # "none" =>
       \E x \in Threads : "stop" \in th[x].duty /\ th[x].task = t
  /\ \A r \in RunIds : Alive(r) => r \in sessions \/ At(r, "await") \/ IsBeingStarted(r)
  /\ \A t \in Tasks : LET r == cancellations[t] IN
       r # 0 => r \in sessions \/ ~At(r, "idle") \/ IsBeingStarted(r)
  /\ sessions # {} => \E x \in Threads : WillWatch(th[x])

-----------------------------------------------------------------------------
(* What a step may never do.                                               *)

(* A task becomes Done by landing and in no other way: the thread that     *)
(* moves it holds the merge lock, and the destination has the commit it    *)
(* landed.  An agent that exits well finishes nothing.                     *)
DoneByLanding ==
  [][\A t \in Tasks : status'[t] = "Done" /\ status[t] # "Done" /\ ~IsContainer(t) =>
       \E x \in Threads : /\ mergeLock = x /\ th[x].task = t
                          /\ th[x].commit \in landed[t] \ {0}]_vars

(* A finished task stays finished, whatever is still running for it, until *)
(* a person retries it (TaskStatus::can_become, retry_task).               *)
TerminalLeavesOnlyByRetry ==
  [][\A t \in Tasks : status[t] \in Terminal /\ status'[t] # status[t] =>
       \E p \in People : At(p, "retry") /\ th[p].task = t]_vars

-----------------------------------------------------------------------------
(* Liveness, under FairSpec.                                               *)

(* A task does not stay in Verification: the checks answer, and whatever   *)
(* they answer, or whoever interferes, moves it on.                        *)
VerificationEnds ==
  \A t \in Tasks : status[t] = "Verification" ~> status[t] # "Verification"

(* Every session that was started gets a thread that waits for it, or is   *)
(* stopped: no command, and no end of another run, forgets to watch.       *)
SessionsAreReaped == \A r \in RunIds : r \in sessions ~> r \notin sessions

(* No thread is stuck: with commands, agents and each other it always gets *)
(* back to where it only waits for a process, or to its end.               *)
ThreadsReturn == \A x \in Threads : ~Reachable(x) ~> Reachable(x)

-----------------------------------------------------------------------------
(* What the documentation says and the code does not do: each is checked,  *)
(* and refuted, by a run of its own.                                       *)

(* There is "no situation where two agents are started because two code     *)
(* paths each thought they were the only one".                             *)
OneAgentPerTask ==
  \A r, q \in RunIds :
    /\ Alive(r) /\ Alive(q) /\ runs[r].task = runs[q].task
    /\ runs[r].phase = "Implementation" /\ runs[q].phase = "Implementation"
    => r = q

(* "The holder will finish": a task that holds a lease can still finish    *)
(* and give it back, or is being started.                                  *)
LeaseHolderFinishes ==
  \A t \in leases : \/ status[t] \notin Terminal \cup {"Blocked"}
                    \/ \E x \in Threads : th[x].start = t /\ ~Reachable(x)

(* "Stop whatever is running for this task": once the command has returned *)
(* nothing of the task runs, or is told to stop.                           *)
CancelStops ==
  \A t \in Tasks : status[t] = "Cancelled" /\ (\A x \in Threads : Reachable(x)) =>
    \A r \in RunIds : Alive(r) => runs[r].task # t

(* "Wait for the task and its review to finish before merging": while a    *)
(* task is landing no run of its own is going on.                          *)
LandsAlone ==
  \A x \in Threads : At(x, "land") =>
    \A r \in RunIds : Alive(r) => runs[r].task # th[x].task
=============================================================================

-------------------------- MODULE FarmServiceTypes --------------------------
(***************************************************************************)
(* That every reachable state of the agent farm is typed, for any farm,    *)
(* any agents, any number of people, runs and commits. The inductive       *)
(* invariant is a little stronger than TypeOK: a thread that is starting   *)
(* an agent has one to start, a thread that has launched one has its run,  *)
(* and the decisions a thread still has to act on are sound.               *)
(***************************************************************************)
EXTENDS FarmService, TLAPS

(* What the scheduler decides is a set of decisions; one that starts a task *)
(* names an agent that can be run, and only a container is settled.        *)
Sound(d) == /\ d.to = "Assigned" => d.agent \in Agents
            /\ d.rank = 0 => IsContainer(d.task)

(* The decisions of a scheduler pass are typed and sound (scheduler::decide).  *)
LEMMA DecideTyped ==
  ASSUME NEW f, NEW level, NEW st, NEW at, NEW ls,
         NEW as \in [Tasks -> Agents \cup {NoAgent}],
         NEW decisions \in Decide(f, level, st, at, as, ls)
  PROVE  decisions \subseteq Decision /\ \A d \in decisions : Sound(d)
<1> USE TaskGraphAssumption
<1> DEFINE settled  == {t \in Tasks : \E s \in ContainerStatus(st, t) :
                                        st[t] # s /\ CanSettle(st[t], s)}
           stranded == Stranded(st)
           queue    == IF IsLive(f) /\ StartsTasks(level)
                       THEN ReadyTasks(st) \ (settled \cup stranded) ELSE {}
           running  == Cardinality({t \in Tasks : st[t] = "Running"})
           free     == IF running < MaxParallel THEN MaxParallel - running ELSE 0
           blocked(starts) == {t \in queue : /\ Reached(t, free, starts)
                                             /\ \/ AgentFor(t, as) = NoAgent
                                                \/ /\ Clear(t, ls, starts)
                                                   /\ at[t] >= MaxAttempts}
           block(tasks, rank) == {[rank |-> rank, task |-> t, agent |-> NoAgent,
                                   to |-> "Blocked"] : t \in tasks}
           start(tasks)  == {[rank |-> 2, task |-> t, agent |-> AgentFor(t, as),
                              to |-> "Assigned"] : t \in tasks}
           settle(tasks) == {[rank |-> 0, task |-> t, agent |-> NoAgent,
                              to |-> CHOOSE s \in ContainerStatus(st, t) : TRUE] : t \in tasks}
<1>1. PICK starts \in SUBSET queue :
        /\ Picks(queue, free, ls, at, as, starts)
        /\ decisions = settle(settled) \cup block(stranded, 1) \cup block(blocked(starts), 2)
                                       \cup start(starts)
  BY DEF Decide
<1>2. settled \subseteq Tasks /\ stranded \subseteq Tasks /\ queue \subseteq Tasks
  BY DEF Stranded, ReadyTasks
<1>3. \A t \in settled : /\ IsContainer(t)
                         /\ (CHOOSE s \in ContainerStatus(st, t) : TRUE) \in {"Done", "Blocked"}
  BY DEF ContainerStatus
<1>4. \A t \in starts : AgentFor(t, as) \in Agents
  BY <1>1, <1>2 DEF Picks, AgentFor
<1> HIDE DEF settled, stranded, queue, free, blocked
<1>5. ASSUME NEW d \in settle(settled) PROVE d \in Decision /\ Sound(d)
  <2>1. PICK t \in settled, s \in {"Done", "Blocked"} :
          d = [rank |-> 0, task |-> t, agent |-> NoAgent, to |-> s]
    BY <1>3
  <2> QED BY <1>2, <1>3, <2>1 DEF Decision, Sound
<1>6. ASSUME NEW d \in block(stranded, 1) PROVE d \in Decision /\ Sound(d)
  BY <1>2 DEF Decision, Sound
<1>7. ASSUME NEW d \in block(blocked(starts), 2) PROVE d \in Decision /\ Sound(d)
  <2>1. blocked(starts) \subseteq Tasks
    BY <1>2 DEF blocked
  <2> QED BY <2>1 DEF Decision, Sound
<1>8. ASSUME NEW d \in start(starts) PROVE d \in Decision /\ Sound(d)
  <2>1. PICK t \in Tasks, a \in Agents :
          d = [rank |-> 2, task |-> t, agent |-> a, to |-> "Assigned"]
    BY <1>1, <1>2, <1>4
  <2> QED BY <2>1 DEF Decision, Sound
<1> HIDE DEF settle, block, start
<1> QED BY <1>1, <1>5, <1>6, <1>7, <1>8

-----------------------------------------------------------------------------
(* A thread that is starting an agent has one to start, and acts on sound    *)
(* decisions.                                                              *)
Starter   == {"claim", "assign", "cut", "spawn"}
Launcher  == {"running", "register", "enqueue"}
Elsewhere == Pcs \ (Starter \cup Launcher)

Worker == {v \in Thread : /\ v.pc \in Starter => v.agent \in Agents
                          /\ v.pc \in Launcher => v.run \in RunIds
                          /\ \A d \in v.queue : Sound(d)}

TypeInv == TypeOK /\ th \in [Threads -> Worker]

RunsTyped == /\ runs \in [RunIds -> Run]
             /\ \A r \in RunIds : runs[r].outcome # "none" => runs[r].agent \in Agents

(* Stopping runs (Stop, or leaving them alone) keeps every run record      *)
(* typed.                                                                  *)
LEMMA StopTyped ==
  ASSUME RunsTyped, NEW R, runs' = Stop(R) \/ runs' = runs PROVE RunsTyped'
<1>1. CASE runs' = Stop(R)
  <2>1. \A r \in RunIds : [runs[r] EXCEPT !.proc = "killed"] \in Run
    <3> SUFFICES ASSUME NEW r \in RunIds PROVE [runs[r] EXCEPT !.proc = "killed"] \in Run
      OBVIOUS
    <3>1. runs[r] \in Run
      BY DEF RunsTyped
    <3> QED BY <3>1 DEF Run, Procs
  <2>2. \A r \in RunIds : /\ runs'[r] \in Run
                          /\ runs'[r].outcome = runs[r].outcome
                          /\ runs'[r].agent = runs[r].agent
    BY <1>1, <2>1 DEF RunsTyped, Run, Stop
  <2>3. runs' = [r \in RunIds |-> runs'[r]]
    BY <1>1 DEF Stop
  <2> QED BY <2>2, <2>3 DEF RunsTyped
<1> QED BY <1>1 DEF RunsTyped

(* The status derived for a farm from its tasks is one of the statuses. *)
LEMMA DerivedTyped ==
  ASSUME NEW f \in FarmStatus, NEW st PROVE DerivedStatus(f, Tasks, st) \in FarmStatus
BY DEF DerivedStatus, FarmStatus

(* set_status leaves a typed status, a set of leases of tasks, and a typed *)
(* farm.                                                                   *)
LEMMA SetStatusTyped ==
  ASSUME TypeOK, NEW t \in Tasks, NEW to \in TaskStatus, SetStatus(t, to)
  PROVE  status' \in [Tasks -> TaskStatus] /\ leases' \subseteq Tasks /\ farm' \in FarmStatus
<1>1. farm \in FarmStatus /\ leases \subseteq Tasks /\ status \in [Tasks -> TaskStatus]
  BY DEF TypeOK
<1>2. CASE MayMove(t, to)
  <2>1. DerivedStatus(farm, Tasks, status') \in FarmStatus
    BY <1>1, DerivedTyped
  <2> QED BY <1>1, <1>2, <2>1 DEF SetStatus
<1>3. CASE ~MayMove(t, to)
  BY <1>1, <1>3 DEF SetStatus
<1> QED BY <1>2, <1>3

(* So does giving the lease back first and setting the status then. *)
LEMMA ReleaseAndSetTyped ==
  ASSUME TypeOK, NEW t \in Tasks, NEW to \in TaskStatus, ReleaseAndSet(t, to)
  PROVE  status' \in [Tasks -> TaskStatus] /\ leases' \subseteq Tasks /\ farm' \in FarmStatus
<1>1. farm \in FarmStatus /\ leases \subseteq Tasks /\ status \in [Tasks -> TaskStatus]
  BY DEF TypeOK
<1>2. DerivedStatus(farm, Tasks, status') \in FarmStatus
  BY <1>1, DerivedTyped
<1> QED BY <1>1, <1>2 DEF ReleaseAndSet

(* A thread that does nothing, and a run that has not been, are typed. *)
LEMMA IdleTyped == Idle \in Worker /\ NoRun \in Run
<1>1. SomeTask \in Tasks /\ SomeList \in CheckLists
  BY TaskGraphAssumption, FarmAssumption DEF SomeTask, SomeList
<1>2. 0 \in 0..MaxRuns
  BY FarmAssumption
<1>3. Idle \in Thread
  BY <1>1, <1>2 DEF Idle, Thread, Pcs, Endings
<1>4. Idle.pc \in Elsewhere /\ Idle.queue = {}
  BY DEF Idle, Starter, Launcher, Elsewhere, Pcs
<1>5. NoRun \in Run
  BY <1>1 DEF NoRun, Run, Procs, Outcome
<1> QED BY <1>3, <1>4, <1>5 DEF Worker, Elsewhere

(* The threads stay typed when one of them becomes a typed one. *)
LEMMA Becoming ==
  ASSUME TypeInv, NEW x \in Threads, NEW v \in Worker, Becomes(x, v)
  PROVE  th' \in [Threads -> Worker]
BY DEF TypeInv, Becomes

(* The threads stay typed when one only goes on to a step it may go on to. *)
LEMMA Going ==
  ASSUME TypeInv, NEW x \in Threads, NEW pc \in Pcs, Goto(x, pc),
         \/ pc \in Elsewhere
         \/ pc \in Starter /\ th[x].pc \in Starter
         \/ pc \in Launcher /\ th[x].pc \in Launcher
  PROVE  th' \in [Threads -> Worker]
<1>1. th[x] \in Worker
  BY DEF TypeInv
<1>2. Starter \cap Launcher = {}
  BY DEF Starter, Launcher
<1>3. [th[x] EXCEPT !.pc = pc] \in Worker
  BY <1>1, <1>2 DEF Worker, Thread, Elsewhere
<1> QED BY <1>3, Becoming DEF Goto

(* The threads stay typed when one of them returns, with an error or       *)
(* without.                                                                *)
LEMMA Stopping ==
  ASSUME TypeInv, NEW x \in Threads, Return(x) \/ Fail(x) \/ Leave(x)
  PROVE  th' \in [Threads -> Worker]
<1>1. th[x] \in Worker
  BY DEF TypeInv
<1>2. "ret" \in Elsewhere
  BY DEF Pcs, Starter, Launcher, Elsewhere
<1>3. \A b \in BOOLEAN : [th[x] EXCEPT !.pc = "ret", !.err = b] \in Worker
  BY <1>1, <1>2 DEF Worker, Thread, Elsewhere
<1> QED BY <1>3, Becoming, IdleTyped DEF Return, Fail, Leave

(* The threads stay typed when a command begins, and when one is over. *)
LEMMA Beginning ==
  ASSUME TypeInv, NEW p \in Threads, NEW t \in Tasks, NEW pc \in Elsewhere,
         Begin(p, pc, t) \/ BeginTick(p)
  PROVE  th' \in [Threads -> Worker]
<1>1. [Idle EXCEPT !.pc = pc, !.job = "command", !.task = t, !.start = t] \in Worker
  BY IdleTyped DEF Worker, Thread, Elsewhere
<1>2. "tick" \in Elsewhere
  BY DEF Pcs, Starter, Launcher, Elsewhere
<1>3. [Idle EXCEPT !.pc = "tick", !.job = "command", !.then = "watch"] \in Worker
  BY IdleTyped, <1>2 DEF Worker, Thread, Elsewhere
<1> QED BY <1>1, <1>3, Becoming DEF Begin, BeginTick

(* The threads stay typed when the start of an agent ends, either way. *)
LEMMA StartEnding ==
  ASSUME TypeInv, NEW x \in Threads, NEW err \in BOOLEAN, StartEnds(x, err)
  PROVE  th' \in [Threads -> Worker]
<1>1. th[x] \in Worker
  BY DEF TypeInv
<1>2. 0 \in 0..MaxRuns
  BY FarmAssumption
<1>3. {"refused", "act", "ret"} \subseteq Elsewhere
  BY DEF Pcs, Starter, Launcher, Elsewhere
<1>4. \A pc \in Elsewhere :
        [th[x] EXCEPT !.pc = pc, !.agent = NoAgent, !.run = 0] \in Worker
  BY <1>1, <1>2 DEF Worker, Thread, Elsewhere
<1>5. \A pc \in Elsewhere :
        [th[x] EXCEPT !.pc = pc, !.err = err, !.from = "tick",
                      !.agent = NoAgent, !.run = 0, !.commit = 0] \in Worker
  BY <1>1, <1>2 DEF Worker, Thread, Elsewhere
<1> QED BY <1>3, <1>4, <1>5, Becoming DEF StartEnds

(* What is known of the fields of every thread. *)
LEMMA AThread ==
  ASSUME TypeInv, NEW x \in Threads
  PROVE  /\ th[x] \in Worker /\ th[x] \in Thread
         /\ th[x].task \in Tasks /\ th[x].start \in Tasks
         /\ \A d \in th[x].queue : d \in Decision /\ Sound(d)
BY DEF TypeInv, Worker, Thread


(* Every worker is a thread of the type invariant. *)
LEMMA WorkersAreThreads == [Threads -> Worker] \subseteq [Threads -> Thread]
BY DEF Worker

(* A tick, and acting on what it decided, keeps the types. *)
LEMMA SchedulingTyped ==
  ASSUME TypeInv, NEW x \in Threads, Scheduling(x)
  PROVE  TypeInv'
<1> USE DEF farmVars, taskVars, evidence, runVars, gitVars, bounds, history
<1> USE WorkersAreThreads
<1>0. TypeOK
  BY DEF TypeInv
<1>1. th[x] \in Worker /\ \A d \in th[x].queue : d \in Decision /\ Sound(d)
  BY AThread
<1>3. {"tick", "act", "refused", "ret", "watch"} \subseteq Elsewhere
  BY DEF Pcs, Starter, Launcher, Elsewhere
<1>4. CASE Tick(x)
  <2>1. PICK decisions \in Decide(farm, autonomy, status, attempts, assigned, leases) :
          Becomes(x, [th[x] EXCEPT !.pc = "act", !.queue = decisions])
    BY <1>4 DEF Tick
  <2>2. decisions \subseteq Decision /\ \A d \in decisions : Sound(d)
    BY <1>0, DecideTyped DEF TypeOK
  <2>3. [th[x] EXCEPT !.pc = "act", !.queue = decisions] \in Worker
    BY <1>1, <1>3, <2>2 DEF Worker, Thread, Elsewhere
  <2>4. th' \in [Threads -> Worker]
    BY <2>1, <2>3, Becoming
  <2> QED BY <1>0, <1>4, <2>4 DEF Tick, TypeInv, TypeOK
<1>5. CASE TickEnds(x)
  <2>1. th[x].then \in Elsewhere
    BY <1>1, <1>3 DEF Worker, Thread, Elsewhere
  <2>2. [th[x] EXCEPT !.pc = th[x].then, !.err = FALSE] \in Worker
    BY <1>1, <2>1 DEF Worker, Thread, Elsewhere
  <2>3. th' \in [Threads -> Worker]
    BY <1>5, <2>2, Becoming DEF TickEnds
  <2>4. farm' \in FarmStatus
    BY <1>0, <1>5, DerivedTyped DEF TickEnds, TypeOK
  <2> QED BY <1>0, <1>5, <2>3, <2>4 DEF TickEnds, TypeInv, TypeOK
<1>6. CASE ActBlock(x)
  <2>1. PICK d \in th[x].queue : /\ SetStatus(d.task, "Blocked")
                                /\ Becomes(x, [th[x] EXCEPT !.queue = @ \ {d}])
    BY <1>6 DEF ActBlock
  <2>2. [th[x] EXCEPT !.queue = @ \ {d}] \in Worker
    BY <1>1 DEF Worker, Thread, Elsewhere
  <2>3. th' \in [Threads -> Worker]
    BY <2>1, <2>2, Becoming
  <2>4. d.task \in Tasks /\ "Blocked" \in TaskStatus
    BY <1>1 DEF Decision, TaskStatus
  <2>5. status' \in [Tasks -> TaskStatus] /\ leases' \subseteq Tasks /\ farm' \in FarmStatus
    BY <1>0, <2>1, <2>4, SetStatusTyped
  <2> QED BY <1>0, <1>6, <2>3, <2>5 DEF ActBlock, TypeInv, TypeOK
<1>7. CASE ActSettle(x)
  <2>1. PICK d \in th[x].queue :
          /\ status' = IF CanSettle(status[d.task], d.to)
                       THEN [status EXCEPT ![d.task] = d.to] ELSE status
          /\ Becomes(x, [th[x] EXCEPT !.queue = @ \ {d}])
    BY <1>7 DEF ActSettle
  <2>2. [th[x] EXCEPT !.queue = @ \ {d}] \in Worker
    BY <1>1 DEF Worker, Thread, Elsewhere
  <2>3. th' \in [Threads -> Worker]
    BY <2>1, <2>2, Becoming
  <2>4. d.to \in TaskStatus
    BY <1>1 DEF Decision, TaskStatus
  <2>5. status' \in [Tasks -> TaskStatus]
    BY <1>0, <2>1, <2>4 DEF TypeOK
  <2> QED BY <1>0, <1>7, <2>3, <2>5 DEF ActSettle, TypeInv, TypeOK
<1>8. CASE ActStart(x)
  <2>1. PICK d \in th[x].queue :
          /\ d.to = "Assigned"
          /\ Becomes(x, [th[x] EXCEPT !.pc = "claim", !.queue = @ \ {d}, !.from = "tick",
                                      !.start = d.task, !.agent = d.agent])
    BY <1>8 DEF ActStart
  <2>2. d.task \in Tasks /\ d.agent \in Agents
    BY <1>1, <2>1 DEF Decision, Sound
  <2>3. "claim" \in Pcs /\ "claim" \notin Launcher
    BY DEF Pcs, Launcher
  <2>4. [th[x] EXCEPT !.pc = "claim", !.queue = @ \ {d}, !.from = "tick",
                      !.start = d.task, !.agent = d.agent] \in Worker
    BY <1>1, <2>2, <2>3 DEF Worker, Thread, Elsewhere
  <2>5. th' \in [Threads -> Worker]
    BY <2>1, <2>4, Becoming
  <2> QED BY <1>0, <1>8, <2>5 DEF ActStart, TypeInv, TypeOK
<1>9. CASE ActRefused(x)
  <2>1. th' \in [Threads -> Worker]
    BY <1>3, <1>9, Going DEF ActRefused, Elsewhere
  <2>2. th[x].start \in Tasks /\ "Blocked" \in TaskStatus
    BY AThread DEF TaskStatus
  <2>3. status' \in [Tasks -> TaskStatus] /\ leases' \subseteq Tasks /\ farm' \in FarmStatus
    BY <1>0, <1>9, <2>2, SetStatusTyped DEF ActRefused
  <2> QED BY <1>0, <1>9, <2>1, <2>3 DEF ActRefused, TypeInv, TypeOK
<1> QED BY <1>4, <1>5, <1>6, <1>7, <1>8, <1>9 DEF Scheduling

(* Every step of start_task and spawn_run keeps the types. *)
LEMMA StartingTyped ==
  ASSUME TypeInv, NEW x \in Threads, Starting(x)
  PROVE  TypeInv'
<1> USE DEF farmVars, taskVars, evidence, runVars, gitVars, bounds, history
<1> USE WorkersAreThreads
<1>0. TypeOK
  BY DEF TypeInv
<1>1. th[x] \in Worker /\ th[x].start \in Tasks
  BY AThread
<1>2. SomeTask \in Tasks /\ SomeList \in CheckLists
  BY TaskGraphAssumption, FarmAssumption DEF SomeTask, SomeList
<1>3. Launcher \subseteq Pcs /\ Launcher = {"running", "register", "enqueue"}
  BY DEF Pcs, Launcher
<1>4. Starter \subseteq Pcs /\ {"assign", "cut", "spawn"} \subseteq Starter
  BY DEF Pcs, Starter
<1>12. Starter \cap Launcher = {}
  BY DEF Starter, Launcher
<1>5. CASE Claim(x)
  <2>1. th[x].pc \in Starter
    BY <1>5 DEF Claim, At, Starter
  <2>2. th' \in [Threads -> Worker]
    BY <1>4, <1>5, <2>1, Going, StartEnding DEF Claim
  <2>3. NoEvidence \in [commit : Nat, list : CheckLists]
    BY <1>2 DEF NoEvidence
  <2>4. NoReview \in [commit : Nat, reviewer : Agents \cup {NoAgent}]
    BY DEF NoReview
  <2>5. CASE Contended(th[x].start, leases)
    BY <1>0, <1>5, <2>2, <2>5 DEF Claim, TypeInv, TypeOK
  <2>6. CASE ~Contended(th[x].start, leases)
    <3>1. /\ leases' = leases \cup {th[x].start}
          /\ verified' = [verified EXCEPT ![th[x].start] = NoEvidence]
          /\ reviewed' = [reviewed EXCEPT ![th[x].start] = NoReview]
      BY <1>5, <2>6 DEF Claim
    <3> QED BY <1>0, <1>1, <1>5, <2>2, <2>3, <2>4, <3>1 DEF Claim, TypeInv, TypeOK
  <2> QED BY <2>5, <2>6
<1>6. CASE Assign(x)
  <2>1. th[x].pc \in Starter
    BY <1>6 DEF Assign, At, Starter
  <2>2. th' \in [Threads -> Worker]
    BY <1>4, <1>6, <2>1, Going, StartEnding DEF Assign
  <2>3. "Assigned" \in TaskStatus
    BY DEF TaskStatus
  <2>4. status' \in [Tasks -> TaskStatus] /\ leases' \subseteq Tasks /\ farm' \in FarmStatus
    <3>1. CASE SetStatus(th[x].start, "Assigned")
      BY <1>0, <1>1, <2>3, <3>1, SetStatusTyped
    <3>2. CASE UNCHANGED <<farm, status, leases>>
      BY <1>0, <3>2 DEF TypeOK
    <3> QED BY <1>6, <3>1, <3>2 DEF Assign
  <2> QED BY <1>0, <1>6, <2>2, <2>4 DEF Assign, TypeInv, TypeOK
<1>7. CASE Cut(x)
  <2>1. th[x].pc \in Starter
    BY <1>7 DEF Cut, At, Starter
  <2>2. th' \in [Threads -> Worker]
    BY <1>4, <1>7, <2>1, Going, StartEnding DEF Cut
  <2>3. th[x].agent \in Agents
    BY <1>1, <2>1 DEF Worker
  <2>4. /\ assigned' \in [Tasks -> Agents \cup {NoAgent}]
        /\ implementedBy' \in [Tasks -> Agents \cup {NoAgent}]
        /\ attempts' \in [Tasks -> Nat] /\ leases' \subseteq Tasks
        /\ tree' \in [Tasks -> {"absent", "clean", "dirty"}]
    <3>1. CASE /\ assigned' = [assigned EXCEPT ![th[x].start] = th[x].agent]
               /\ implementedBy' = [implementedBy EXCEPT ![th[x].start] = th[x].agent]
               /\ attempts' = [attempts EXCEPT ![th[x].start] = @ + 1]
               /\ tree' = [tree EXCEPT ![th[x].start] = IF @ = "absent" THEN "clean" ELSE @]
               /\ UNCHANGED leases
      BY <1>0, <1>1, <2>3, <3>1 DEF TypeOK
    <3>2. CASE /\ leases' = leases \ {th[x].start}
               /\ UNCHANGED <<attempts, assigned, implementedBy, tree>>
      BY <1>0, <3>2 DEF TypeOK
    <3> QED BY <1>7, <3>1, <3>2 DEF Cut
  <2> QED BY <1>0, <1>7, <2>2, <2>4 DEF Cut, TypeInv, TypeOK
<1>8. CASE Spawn(x)
  <2>1. th[x].pc \in Starter
    BY <1>8 DEF Spawn, At, Starter
  <2>2. th[x].agent \in Agents /\ th[x].commit \in Nat
    BY <1>1, <2>1 DEF Worker, Thread, Elsewhere
  <2> DEFINE phase == IF th[x].from = "review" THEN "Review" ELSE "Implementation"
  <2>3. CASE StartEnds(x, TRUE) /\ UNCHANGED runs
    <3>1. th' \in [Threads -> Worker]
      BY <2>3, StartEnding
    <3> QED BY <1>0, <1>8, <2>3, <3>1 DEF Spawn, TypeInv, TypeOK
  <2>4. ASSUME NEW r \in RunIds,
               runs' = [runs EXCEPT ![r] =
                         [task |-> th[x].start, agent |-> th[x].agent, phase |-> phase,
                          outcome |-> "running", proc |-> "alive", input |-> th[x].commit]],
               Becomes(x, [th[x] EXCEPT
                             !.run = r, !.commit = 0,
                             !.pc = IF phase = "Review" THEN "register" ELSE "running"])
        PROVE  TypeInv'
    <3>1. r \in 0..MaxRuns
      BY FarmAssumption DEF RunIds
    <3>2. \A pc \in Launcher :
            [th[x] EXCEPT !.run = r, !.commit = 0, !.pc = pc] \in Worker
      BY <1>1, <1>3, <1>12, <3>1 DEF Worker, Thread
    <3>3. th' \in [Threads -> Worker]
      BY <1>3, <2>4, <3>2, Becoming
    <3>4. [task |-> th[x].start, agent |-> th[x].agent, phase |-> phase,
           outcome |-> "running", proc |-> "alive", input |-> th[x].commit] \in Run
      BY <1>1, <2>2 DEF Run, Outcome, Procs
    <3> QED BY <1>0, <1>8, <2>2, <2>4, <3>3, <3>4 DEF Spawn, TypeInv, TypeOK
  <2> QED BY <1>8, <2>3, <2>4 DEF Spawn
<1>9. CASE SetRunning(x)
  <2>1. th[x].pc \in Launcher
    BY <1>9 DEF SetRunning, At, Launcher
  <2>2. th' \in [Threads -> Worker]
    BY <1>3, <1>9, <1>12, <2>1, Going, StartEnding DEF SetRunning
  <2>3. "Running" \in TaskStatus
    BY DEF TaskStatus
  <2>4. status' \in [Tasks -> TaskStatus] /\ leases' \subseteq Tasks /\ farm' \in FarmStatus
    BY <1>0, <1>1, <1>9, <2>3, SetStatusTyped DEF SetRunning
  <2>5. RunsTyped'
    BY <1>0, <1>9, StopTyped DEF SetRunning, RunsTyped, TypeOK
  <2> QED BY <1>0, <1>9, <2>2, <2>4, <2>5 DEF SetRunning, TypeInv, TypeOK, RunsTyped
<1>10. CASE Register(x)
  <2>1. th[x].pc \in Launcher
    BY <1>10 DEF Register, At, Launcher
  <2>2. th' \in [Threads -> Worker]
    BY <1>3, <1>10, <1>12, <2>1, Going DEF Register
  <2>3. th[x].run \in 0..MaxRuns
    BY <1>1 DEF Worker, Thread
  <2> QED BY <1>0, <1>1, <1>10, <2>2, <2>3 DEF Register, TypeInv, TypeOK
<1>11. CASE Enqueue(x)
  <2>1. th[x].run \in RunIds
    BY <1>1, <1>11 DEF Enqueue, At, Launcher, Worker
  <2>2. th' \in [Threads -> Worker]
    BY <1>11, StartEnding DEF Enqueue
  <2> QED BY <1>0, <1>1, <1>11, <2>1, <2>2 DEF Enqueue, TypeInv, TypeOK
<1> QED BY <1>5, <1>6, <1>7, <1>8, <1>9, <1>10, <1>11 DEF Starting

(* Waiting for a run, and taking in its end (finish_run), keeps the types. *)
LEMMA WaitingTyped ==
  ASSUME TypeInv, NEW x \in Threads, Waiting(x)
  PROVE  TypeInv'
<1> USE DEF farmVars, taskVars, evidence, runVars, gitVars, bounds, history
<1> USE WorkersAreThreads
<1>0. TypeOK
  BY DEF TypeInv
<1>1. th[x] \in Worker /\ th[x] \in Thread /\ th[x].task \in Tasks
  BY AThread
<1>2. {"await", "finish", "ret", "reject"} \subseteq Elsewhere /\ Elsewhere \subseteq Pcs
  BY DEF Pcs, Starter, Launcher, Elsewhere
<1>3. CASE WatchPending(x)
  <2>1. ASSUME NEW y \in Threads PROVE th'[y] \in Worker
    <3>1. CASE y \in Claimed
      <4>1. runs[y].task \in Tasks
        BY <1>0, <3>1 DEF Claimed, TypeOK, Run
      <4>2. [Idle EXCEPT !.pc = "await", !.job = "watch",
                         !.task = runs[y].task, !.start = runs[y].task] \in Worker
        BY <1>2, <4>1, IdleTyped DEF Worker, Thread, Elsewhere
      <4> QED BY <1>3, <3>1, <4>2 DEF WatchPending
    <3>2. CASE y \notin Claimed
      BY <1>3, <3>2, IdleTyped DEF WatchPending, TypeInv
    <3> QED BY <3>1, <3>2
  <2>2. th' \in [Threads -> Worker]
    BY <1>3, <2>1 DEF WatchPending
  <2>3. sessions' \subseteq RunIds
    BY <1>0, <1>3 DEF WatchPending, TypeOK
  <2> QED BY <1>0, <1>3, <2>2, <2>3 DEF WatchPending, TypeInv, TypeOK
<1>4. CASE Await(x)
  <2>1. runs[x] \in Run
    BY <1>0, <1>4 DEF Await, TypeOK
  <2> DEFINE ended == IF runs[x].proc = "killed" \/ status[th[x].task] = "Cancelled"
                      THEN "cancelled" ELSE runs[x].proc
  <2>2. x \in RunIds /\ runs[x].proc \in {"killed", "ok", "handback", "failed"}
    BY <1>4 DEF Await
  <2>3. ended \in Endings
    BY <2>2 DEF Endings
  <2>4. [th[x] EXCEPT !.pc = "finish", !.ended = ended] \in Worker
    BY <1>1, <1>2, <2>3 DEF Worker, Thread, Elsewhere
  <2>5. th' \in [Threads -> Worker]
    BY <1>4, <2>4, Becoming DEF Await
  <2>6. RunsTyped'
    BY <1>0, <1>4, <2>1, <2>2 DEF Await, TypeOK, RunsTyped, Run, Procs
  <2> QED BY <1>0, <1>4, <2>5, <2>6 DEF Await, TypeInv, TypeOK, RunsTyped
<1>5. CASE Finish(x)
  <2>1. x \in RunIds
    BY <1>5 DEF Finish
  <2>2. FinishTo(x, th[x].ended) \in Elsewhere
    BY DEF FinishTo, Pcs, Starter, Launcher, Elsewhere
  <2>3. th' \in [Threads -> Worker]
    BY <1>2, <1>5, <2>2, Going, Stopping DEF Finish
  <2>4. RunsTyped'
    <3>1. CASE runs' = runs
      BY <1>0, <3>1 DEF TypeOK, RunsTyped
    <3>2. CASE DecidesItsTask(x) /\ runs' = [runs EXCEPT ![x].outcome = "ended"]
      <4>1. runs[x] \in Run /\ runs[x].agent \in Agents
        BY <1>0, <2>1, <3>2 DEF DecidesItsTask, TypeOK
      <4>2. /\ [runs[x] EXCEPT !.outcome = "ended"] \in Run
            /\ [runs[x] EXCEPT !.outcome = "ended"].agent \in Agents
        BY <4>1 DEF Run, Outcome
      <4> QED BY <1>0, <2>1, <3>2, <4>2 DEF TypeOK, RunsTyped
    <3> QED BY <1>5, <3>1, <3>2 DEF Finish
  <2> QED BY <1>0, <1>5, <2>3, <2>4 DEF Finish, TypeInv, TypeOK, RunsTyped
<1>6. CASE DropLease(x)
  <2>1. th' \in [Threads -> Worker]
    BY <1>6, Stopping DEF DropLease
  <2> QED BY <1>0, <1>6, <2>1 DEF DropLease, TypeInv, TypeOK
<1>7. CASE Discredit(x)
  <2>1. th' \in [Threads -> Worker]
    BY <1>2, <1>7, Going DEF Discredit
  <2>2. NoReview \in [commit : Nat, reviewer : Agents \cup {NoAgent}]
    BY DEF NoReview
  <2> QED BY <1>0, <1>1, <1>7, <2>1, <2>2 DEF Discredit, TypeInv, TypeOK
<1>8. CASE GiveUp(x)
  <2> DEFINE to == IF th[x].ended = "failed" THEN "Failed" ELSE "Blocked"
  <2>1. th' \in [Threads -> Worker]
    BY <1>8, Stopping DEF GiveUp
  <2>2. to \in TaskStatus
    BY DEF TaskStatus
  <2>3. ReleaseAndSet(th[x].task, to)
    BY <1>8 DEF GiveUp
  <2>4. status' \in [Tasks -> TaskStatus] /\ leases' \subseteq Tasks /\ farm' \in FarmStatus
    BY <1>0, <1>1, <2>2, <2>3, ReleaseAndSetTyped DEF Worker, Thread
  <2> QED BY <1>0, <1>8, <2>1, <2>4 DEF GiveUp, TypeInv, TypeOK
<1> QED BY <1>3, <1>4, <1>5, <1>6, <1>7, <1>8 DEF Waiting

(* Every step of a verification and of a rejection keeps the types. *)
LEMMA CheckingTyped ==
  ASSUME TypeInv, NEW x \in Threads, Checking(x)
  PROVE  TypeInv'
<1> USE DEF farmVars, taskVars, evidence, runVars, gitVars, bounds, history
<1> USE WorkersAreThreads
<1>0. TypeOK
  BY DEF TypeInv
<1>1. th[x] \in Worker /\ th[x] \in Thread /\ th[x].task \in Tasks
  BY AThread
<1>2. /\ {"verification", "before", "check", "judge", "reject", "review", "block",
         "requeue", "tick"} \subseteq Elsewhere
      /\ Elsewhere \subseteq Pcs
  BY DEF Pcs, Starter, Launcher, Elsewhere
<1>3. SomeList \in CheckLists
  BY FarmAssumption DEF SomeList
<1>4. NoEvidence \in [commit : Nat, list : CheckLists]
  BY <1>3 DEF NoEvidence
<1>5. NoReview \in [commit : Nat, reviewer : Agents \cup {NoAgent}]
  BY DEF NoReview
<1>6. CleanCommit(th[x].task) \in Nat
  BY <1>0, <1>1 DEF CleanCommit, TypeOK
<1>7. CASE Verify(x)
  <2>1. [th[x] EXCEPT !.pc = "verification", !.list = checkList,
                      !.duty = @ \cup {"stop"}] \in Worker
    BY <1>0, <1>1, <1>2 DEF Worker, Thread, Elsewhere, TypeOK
  <2>2. th' \in [Threads -> Worker]
    BY <1>7, <2>1, Becoming, Stopping DEF Verify
  <2>3. stops' \in [Tasks -> {"none", "going", "stopping"}]
    BY <1>0, <1>7 DEF Verify, TypeOK
  <2> QED BY <1>0, <1>7, <2>2, <2>3 DEF Verify, TypeInv, TypeOK
<1>8. CASE Verification(x)
  <2>1. th' \in [Threads -> Worker]
    BY <1>2, <1>8, Going, Stopping DEF Verification, GotoOrFail
  <2>2. "Verification" \in TaskStatus
    BY DEF TaskStatus
  <2>3. status' \in [Tasks -> TaskStatus] /\ leases' \subseteq Tasks /\ farm' \in FarmStatus
    BY <1>0, <1>1, <1>8, <2>2, SetStatusTyped DEF Verification
  <2> QED BY <1>0, <1>8, <2>1, <2>3 DEF Verification, TypeInv, TypeOK
<1>9. CASE Before(x)
  <2>1. [th[x] EXCEPT !.pc = "check", !.commit = CleanCommit(th[x].task)] \in Worker
    BY <1>1, <1>2, <1>6 DEF Worker, Thread, Elsewhere
  <2>2. th' \in [Threads -> Worker]
    BY <1>9, <2>1, Becoming DEF Before
  <2> QED BY <1>0, <1>1, <1>4, <1>5, <1>9, <2>2 DEF Before, TypeInv, TypeOK
<1>10. CASE Check(x)
  <2>1. PICK result \in Results :
          /\ Becomes(x, [th[x] EXCEPT !.pc = "judge", !.ended = result])
          /\ passed' = IF result = "pass" /\ tree[th[x].task] = "clean"
                       THEN passed \cup {<<th[x].task, head[th[x].task], th[x].list>>} ELSE passed
    BY <1>10 DEF Check
  <2>2. result \in Endings
    BY FarmAssumption DEF Endings
  <2>3. [th[x] EXCEPT !.pc = "judge", !.ended = result] \in Worker
    BY <1>1, <1>2, <2>2 DEF Worker, Thread, Elsewhere
  <2>4. th' \in [Threads -> Worker]
    BY <2>1, <2>3, Becoming
  <2>5. head[th[x].task] \in Nat /\ th[x].list \in CheckLists
    BY <1>0, <1>1 DEF TypeOK, Thread
  <2>6. passed' \subseteq Tasks \X Nat \X CheckLists
    BY <1>0, <1>1, <2>1, <2>5 DEF TypeOK
  <2> QED BY <1>0, <1>10, <2>4, <2>6 DEF Check, TypeInv, TypeOK
<1>11. CASE Judge(x)
  <2>1. \A pc \in Elsewhere : [th[x] EXCEPT !.pc = pc, !.commit = 0, !.ended = "none",
                                           !.list = SomeList] \in Worker
    BY <1>1, <1>3 DEF Worker, Thread, Elsewhere, Endings
  <2>2. th' \in [Threads -> Worker]
    BY <1>2, <1>11, <2>1, Becoming, Stopping DEF Judge
  <2>3. [commit |-> th[x].commit, list |-> th[x].list] \in [commit : Nat, list : CheckLists]
    BY <1>1 DEF Thread
  <2>4. verified' \in [Tasks -> [commit : Nat, list : CheckLists]]
    BY <1>0, <1>1, <1>11, <2>3 DEF Judge, TypeOK
  <2> QED BY <1>0, <1>11, <2>2, <2>4 DEF Judge, TypeInv, TypeOK
<1>12. CASE Reject(x)
  <2>1. th' \in [Threads -> Worker]
    BY <1>2, <1>12, Going DEF Reject
  <2> QED BY <1>0, <1>12, <2>1 DEF Reject, TypeInv, TypeOK
<1>13. CASE Block(x)
  <2>1. th' \in [Threads -> Worker]
    BY <1>13, Stopping DEF Block
  <2>2. "Blocked" \in TaskStatus
    BY DEF TaskStatus
  <2>3. status' \in [Tasks -> TaskStatus] /\ leases' \subseteq Tasks /\ farm' \in FarmStatus
    BY <1>0, <1>1, <1>13, <2>2, SetStatusTyped DEF Block
  <2> QED BY <1>0, <1>13, <2>1, <2>3 DEF Block, TypeInv, TypeOK
<1>14. CASE Requeue(x)
  <2>1. [th[x] EXCEPT !.pc = "tick", !.then = "ret"] \in Worker
    BY <1>1, <1>2 DEF Worker, Thread, Elsewhere
  <2>2. th' \in [Threads -> Worker]
    BY <1>14, <2>1, Becoming, Stopping DEF Requeue
  <2>3. "Waiting" \in TaskStatus
    BY DEF TaskStatus
  <2>4. status' \in [Tasks -> TaskStatus] /\ leases' \subseteq Tasks /\ farm' \in FarmStatus
    BY <1>0, <1>1, <1>14, <2>3, SetStatusTyped DEF Requeue
  <2> QED BY <1>0, <1>14, <2>2, <2>4 DEF Requeue, TypeInv, TypeOK
<1> QED BY <1>7, <1>8, <1>9, <1>10, <1>11, <1>12, <1>13, <1>14 DEF Checking

(* Asking for a review, and taking in its answer, keeps the types. *)
LEMMA ReviewingTyped ==
  ASSUME TypeInv, NEW x \in Threads, Reviewing(x)
  PROVE  TypeInv'
<1> USE DEF farmVars, taskVars, evidence, runVars, gitVars, bounds, history
<1> USE WorkersAreThreads
<1>0. TypeOK
  BY DEF TypeInv
<1>1. th[x] \in Worker /\ th[x] \in Thread /\ th[x].task \in Tasks
  BY AThread
<1>2. {"pick", "reject", "approve", "merge"} \subseteq Elsewhere /\ Elsewhere \subseteq Pcs
  BY DEF Pcs, Starter, Launcher, Elsewhere
<1>3. CASE Review(x)
  <2>1. th' \in [Threads -> Worker]
    BY <1>2, <1>3, Going, Stopping DEF Review, GotoOrFail
  <2>2. "Review" \in TaskStatus
    BY DEF TaskStatus
  <2>3. status' \in [Tasks -> TaskStatus] /\ leases' \subseteq Tasks /\ farm' \in FarmStatus
    BY <1>0, <1>1, <1>3, <2>2, SetStatusTyped DEF Review
  <2> QED BY <1>0, <1>3, <2>1, <2>3 DEF Review, TypeInv, TypeOK
<1>4. CASE PickReviewer(x)
  <2>1. CleanCommit(th[x].task) \in Nat
    BY <1>0, <1>1 DEF CleanCommit, TypeOK
  <2>2. "spawn" \in Pcs /\ "spawn" \notin Launcher
    BY DEF Pcs, Launcher
  <2>3. \A a \in Reviewers(th[x].task) :
          [th[x] EXCEPT !.pc = "spawn", !.from = "review", !.start = th[x].task,
                        !.agent = a, !.commit = CleanCommit(th[x].task)] \in Worker
    BY <1>1, <2>1, <2>2 DEF Worker, Thread, Reviewers
  <2>4. th' \in [Threads -> Worker]
    BY <1>4, <2>3, Becoming, Stopping DEF PickReviewer
  <2> QED BY <1>0, <1>4, <2>4 DEF PickReviewer, TypeInv, TypeOK
<1>5. CASE Conclude(x)
  <2>1. th' \in [Threads -> Worker]
    BY <1>2, <1>5, Going, Stopping DEF Conclude
  <2>2. x \in RunIds
    BY <1>5 DEF Conclude
  <2>3. [commit |-> runs[x].input, reviewer |-> runs[x].agent]
          \in [commit : Nat, reviewer : Agents \cup {NoAgent}]
    BY <1>0, <2>2 DEF TypeOK, Run
  <2>4. reviewed' \in [Tasks -> [commit : Nat, reviewer : Agents \cup {NoAgent}]]
    <3>1. \/ UNCHANGED reviewed
          \/ reviewed' = [reviewed EXCEPT ![th[x].task] = [commit |-> runs[x].input,
                                                          reviewer |-> runs[x].agent]]
      BY <1>5 DEF Conclude
    <3>2. reviewed \in [Tasks -> [commit : Nat, reviewer : Agents \cup {NoAgent}]]
      BY <1>0 DEF TypeOK
    <3> QED BY <2>3, <3>1, <3>2
  <2> QED BY <1>0, <1>5, <2>1, <2>4 DEF Conclude, TypeInv, TypeOK
<1>6. CASE Approve(x)
  <2>1. [th[x] EXCEPT !.pc = "merge", !.duty = @ \cup {"approve"}] \in Worker
    BY <1>1, <1>2 DEF Worker, Thread, Elsewhere
  <2>2. th' \in [Threads -> Worker]
    BY <1>6, <2>1, Becoming, Stopping DEF Approve
  <2> QED BY <1>0, <1>6, <2>2 DEF Approve, TypeInv, TypeOK
<1> QED BY <1>3, <1>4, <1>5, <1>6 DEF Reviewing

(* Every step of merge_checked, mark_merged and resolve_conflict keeps the *)
(* types.                                                                  *)
LEMMA LandingTyped ==
  ASSUME TypeInv, NEW x \in Threads, Landing(x)
  PROVE  TypeInv'
<1> USE DEF farmVars, taskVars, evidence, runVars, gitVars, bounds, history, DropMergeLock
<1> USE WorkersAreThreads
<1>0. TypeOK
  BY DEF TypeInv
<1>1. th[x] \in Worker /\ th[x] \in Thread /\ th[x].task \in Tasks
  BY AThread
<1>2. /\ {"evidence", "land", "ret", "landed", "reject", "conflict", "block", "arrived",
         "remove", "tick", "verify", "requeue"} \subseteq Elsewhere
      /\ Elsewhere \subseteq Pcs
  BY DEF Pcs, Starter, Launcher, Elsewhere
<1>3. CleanCommit(th[x].task) \in Nat
  BY <1>0, <1>1 DEF CleanCommit, TypeOK
<1>4. CASE Merge(x)
  <2>1. [th[x] EXCEPT !.pc = "evidence", !.agent = implementedBy[th[x].task]] \in Worker
    BY <1>0, <1>1, <1>2 DEF Worker, Thread, Elsewhere, TypeOK
  <2>2. th' \in [Threads -> Worker]
    BY <1>4, <2>1, Becoming, Stopping DEF Merge
  <2> QED BY <1>0, <1>4, <2>2 DEF Merge, TypeInv, TypeOK
<1>5. CASE CheckEvidence(x)
  <2> DEFINE c  == CleanCommit(th[x].task)
             ok == c # 0 /\ (IsAutomatic(x) => CheckMergeEvidence(th[x].task, c, th[x].agent))
             pass == [task |-> th[x].task, commit |-> c, list |-> checkList, by |-> th[x].agent,
                      reviewer |-> reviewed[th[x].task].reviewer]
  <2>1. ASSUME NEW o \in BOOLEAN
        PROVE  [th[x] EXCEPT !.agent = NoAgent, !.pc = IF o THEN "land" ELSE "ret",
                             !.commit = IF o THEN c ELSE 0, !.err = ~o] \in Worker
    BY <1>1, <1>2, <1>3 DEF Worker, Thread, Elsewhere
  <2>2. ok \in BOOLEAN
    BY DEF CheckMergeEvidence
  <2>3. th' \in [Threads -> Worker]
    BY <1>5, <2>1, <2>2, Becoming DEF CheckEvidence
  <2>4. pass \in [task : Tasks, commit : Nat, list : CheckLists,
                  by : Agents \cup {NoAgent}, reviewer : Agents \cup {NoAgent}]
    BY <1>0, <1>1, <1>3 DEF TypeOK, Thread
  <2>5. cleared' = cleared \/ cleared' = cleared \cup {pass}
    BY <1>5 DEF CheckEvidence
  <2>6. mergeLock' \in Threads \cup {Nobody}
    BY <1>0, <1>5 DEF CheckEvidence, TypeOK
  <2> HIDE DEF pass
  <2>7. cleared' \subseteq [task : Tasks, commit : Nat, list : CheckLists,
                  by : Agents \cup {NoAgent}, reviewer : Agents \cup {NoAgent}]
    BY <1>0, <2>4, <2>5 DEF TypeOK
  <2> QED BY <1>0, <1>5, <2>3, <2>6, <2>7 DEF CheckEvidence, TypeInv, TypeOK
<1>6. CASE LandOk(x)
  <2>1. th' \in [Threads -> Worker]
    BY <1>2, <1>6, Going DEF LandOk
  <2>2. landed' \in [Tasks -> SUBSET Nat]
    BY <1>0, <1>1, <1>6 DEF LandOk, TypeOK, Thread
  <2> QED BY <1>0, <1>6, <2>1, <2>2 DEF LandOk, TypeInv, TypeOK
<1>7. CASE LandStops(x)
  <2>1. \A pc \in Elsewhere : [th[x] EXCEPT !.commit = 0, !.pc = pc] \in Worker
    BY <1>1 DEF Worker, Thread, Elsewhere
  <2>2. PICK pc \in {"reject", "conflict", "block"} :
          Becomes(x, [th[x] EXCEPT !.commit = 0, !.pc = pc])
    BY <1>7 DEF LandStops
  <2>3. th' \in [Threads -> Worker]
    BY <1>2, <2>1, <2>2, Becoming
  <2> QED BY <1>0, <1>7, <2>3 DEF LandStops, TypeInv, TypeOK
<1>8. CASE MarkMerged(x)
  <2>1. th' \in [Threads -> Worker]
    BY <1>2, <1>8, Going, Stopping DEF MarkMerged
  <2> QED BY <1>0, <1>8, <2>1 DEF MarkMerged, TypeInv, TypeOK
<1>9. CASE Arrived(x)
  <2>1. [th[x] EXCEPT !.pc = "landed", !.commit = CleanCommit(th[x].task)] \in Worker
    BY <1>1, <1>2, <1>3 DEF Worker, Thread, Elsewhere
  <2>2. th' \in [Threads -> Worker]
    BY <1>9, <2>1, Becoming, Stopping DEF Arrived
  <2> QED BY <1>0, <1>9, <2>2 DEF Arrived, TypeInv, TypeOK
<1>10. CASE Landed(x)
  <2>1. th' \in [Threads -> Worker]
    BY <1>2, <1>10, Going, Stopping DEF Landed
  <2>2. "Done" \in TaskStatus
    BY DEF TaskStatus
  <2>3. status' \in [Tasks -> TaskStatus] /\ leases' \subseteq Tasks /\ farm' \in FarmStatus
    BY <1>0, <1>1, <1>10, <2>2, SetStatusTyped DEF Landed
  <2> QED BY <1>0, <1>10, <2>1, <2>3 DEF Landed, TypeInv, TypeOK
<1>11. CASE Remove(x)
  <2>1. [th[x] EXCEPT !.pc = "tick", !.then = "ret", !.commit = 0] \in Worker
    BY <1>1, <1>2 DEF Worker, Thread, Elsewhere
  <2>2. th' \in [Threads -> Worker]
    BY <1>11, <2>1, Becoming DEF Remove
  <2> QED BY <1>0, <1>1, <1>11, <2>2 DEF Remove, TypeInv, TypeOK
<1>12. CASE AskPerson(x)
  <2>1. th' \in [Threads -> Worker]
    BY <1>2, <1>12, Going DEF AskPerson
  <2> QED BY <1>0, <1>12, <2>1 DEF AskPerson, TypeInv, TypeOK
<1>13. CASE ResolveByMerge(x)
  <2>1. th' \in [Threads -> Worker]
    BY <1>2, <1>13, Going DEF ResolveByMerge
  <2> QED BY <1>0, <1>1, <1>13, <2>1 DEF ResolveByMerge, TypeInv, TypeOK
<1>14. CASE ResolveByAgent(x)
  <2>1. th' \in [Threads -> Worker]
    BY <1>2, <1>14, Going DEF ResolveByAgent
  <2> QED BY <1>0, <1>1, <1>14, <2>1 DEF ResolveByAgent, TypeInv, TypeOK
<1> QED BY <1>4, <1>5, <1>6, <1>7, <1>8, <1>9, <1>10, <1>11, <1>12, <1>13, <1>14 DEF Landing

(* What callers do when the steps return keeps the types. *)
LEMMA ReturningTyped ==
  ASSUME TypeInv, NEW x \in Threads, Returning(x)
  PROVE  TypeInv'
<1> USE DEF farmVars, taskVars, evidence, runVars, gitVars, bounds, history
<1> USE WorkersAreThreads
<1>0. TypeOK
  BY DEF TypeInv
<1>1. th[x] \in Worker /\ th[x] \in Thread /\ th[x].task \in Tasks
  BY AThread
<1>2. {"report", "tick", "watch"} \subseteq Elsewhere /\ Elsewhere \subseteq Pcs
  BY DEF Pcs, Starter, Launcher, Elsewhere
<1>3. {"Review", "Blocked"} \subseteq TaskStatus
  BY DEF TaskStatus
<1>4. ASSUME NEW to \in {"Review", "Blocked"},
             SetStatus(th[x].task, to) \/ UNCHANGED <<farm, status, leases>>
      PROVE  status' \in [Tasks -> TaskStatus] /\ leases' \subseteq Tasks /\ farm' \in FarmStatus
  <2>1. CASE SetStatus(th[x].task, to)
    BY <1>0, <1>1, <1>3, <2>1, SetStatusTyped
  <2>2. CASE UNCHANGED <<farm, status, leases>>
    BY <1>0, <2>2 DEF TypeOK
  <2> QED BY <1>4, <2>1, <2>2
<1>5. CASE ReturnFromVerify(x)
  <2>1. [th[x] EXCEPT !.duty = @ \ {"stop"}] \in Worker
    BY <1>1 DEF Worker, Thread
  <2>2. th' \in [Threads -> Worker]
    BY <1>5, <2>1, Becoming DEF ReturnFromVerify
  <2> QED BY <1>0, <1>1, <1>5, <2>2 DEF ReturnFromVerify, TypeInv, TypeOK
<1>6. CASE ReturnFromApprove(x)
  <2>1. [th[x] EXCEPT !.duty = {}, !.err = @ /\ ~MayMove(th[x].task, "Review")] \in Worker
    BY <1>1 DEF Worker, Thread
  <2>2. th' \in [Threads -> Worker]
    BY <1>6, <2>1, Becoming DEF ReturnFromApprove
  <2>3. status' \in [Tasks -> TaskStatus] /\ leases' \subseteq Tasks /\ farm' \in FarmStatus
    BY <1>4, <1>6 DEF ReturnFromApprove
  <2> QED BY <1>0, <1>6, <2>2, <2>3 DEF ReturnFromApprove, TypeInv, TypeOK
<1>7. CASE ReturnFromRun(x)
  <2>1. \A pc \in Elsewhere : [th[x] EXCEPT !.pc = pc, !.then = "watch"] \in Worker
    BY <1>1 DEF Worker, Thread, Elsewhere
  <2>2. th' \in [Threads -> Worker]
    BY <1>2, <1>7, <2>1, Becoming DEF ReturnFromRun
  <2>3. cancellations' \in [Tasks -> 0..MaxRuns]
    <3>1. 0 \in 0..MaxRuns
      BY FarmAssumption
    <3> QED BY <1>0, <1>1, <1>7, <3>1 DEF ReturnFromRun, TypeOK
  <2> QED BY <1>0, <1>7, <2>2, <2>3 DEF ReturnFromRun, TypeInv, TypeOK
<1>8. CASE Report(x)
  <2>1. [th[x] EXCEPT !.pc = "tick", !.err = FALSE] \in Worker
    BY <1>1, <1>2 DEF Worker, Thread, Elsewhere
  <2>2. th' \in [Threads -> Worker]
    BY <1>8, <2>1, Becoming DEF Report
  <2>3. status' \in [Tasks -> TaskStatus] /\ leases' \subseteq Tasks /\ farm' \in FarmStatus
    BY <1>4, <1>8 DEF Report
  <2> QED BY <1>0, <1>8, <2>2, <2>3 DEF Report, TypeInv, TypeOK
<1>9. CASE ReturnFromVerifyCommand(x)
  <2>1. th' \in [Threads -> Worker]
    BY <1>2, <1>9, Going DEF ReturnFromVerifyCommand
  <2>2. status' \in [Tasks -> TaskStatus] /\ leases' \subseteq Tasks /\ farm' \in FarmStatus
    BY <1>4, <1>9 DEF ReturnFromVerifyCommand
  <2> QED BY <1>0, <1>9, <2>1, <2>2 DEF ReturnFromVerifyCommand, TypeInv, TypeOK
<1>10. CASE ReturnFromCommand(x)
  <2>1. th' \in [Threads -> Worker]
    BY <1>2, <1>10, Going, Stopping DEF ReturnFromCommand
  <2> QED BY <1>0, <1>10, <2>1 DEF ReturnFromCommand, TypeInv, TypeOK
<1> QED BY <1>5, <1>6, <1>7, <1>8, <1>9, <1>10 DEF Returning

(* Every command of a person, and every step only commands take, keeps the *)
(* types.                                                                  *)
LEMMA CommandTyped ==
  ASSUME TypeInv, NEW p \in Threads, Command(p) \/ Retry(p) \/ Halt(p) \/ Kill(p)
  PROVE  TypeInv'
<1> USE DEF farmVars, taskVars, evidence, runVars, gitVars, bounds, history
<1> USE WorkersAreThreads
<1>0. TypeOK
  BY DEF TypeInv
<1>1. th[p] \in Worker /\ th[p] \in Thread /\ th[p].task \in Tasks
  BY AThread
<1>2. /\ {"review", "merge", "merged", "verify", "retry", "halt", "kill"} \subseteq Elsewhere
      /\ Elsewhere \subseteq Pcs
  BY DEF Pcs, Starter, Launcher, Elsewhere
<1>3. {"Ready", "Cancelled"} \subseteq TaskStatus /\ {"Running", "Paused"} \subseteq FarmStatus
  BY DEF TaskStatus, FarmStatus
<1>4. (\E c \in Commands : Asked(p, c)) => commands' \in Nat /\ restarts' \in Nat
  BY <1>0 DEF Asked, TypeOK
<1>5. CASE AskStep(p)
  <2>1. PICK c \in DOMAIN FirstStep, t \in Tasks : Asked(p, c) /\ Begin(p, FirstStep[c], t)
    BY <1>5 DEF AskStep
  <2>2. FirstStep[c] \in Elsewhere
    BY <1>2 DEF FirstStep
  <2>3. th' \in [Threads -> Worker]
    BY <2>1, <2>2, Beginning
  <2>4. commands' \in Nat /\ restarts' \in Nat
    BY <1>4, <2>1 DEF Asked
  <2> QED BY <1>0, <1>5, <2>3, <2>4 DEF AskStep, TypeInv, TypeOK
<1>6. CASE AskVerify(p)
  <2>1. PICK t \in Tasks :
          Becomes(p, [Idle EXCEPT !.pc = "verify", !.job = "verify", !.task = t, !.start = t])
    BY <1>6 DEF AskVerify
  <2>2. [Idle EXCEPT !.pc = "verify", !.job = "verify", !.task = t, !.start = t] \in Worker
    BY <1>2, IdleTyped DEF Worker, Thread, Elsewhere
  <2>3. th' \in [Threads -> Worker]
    BY <2>1, <2>2, Becoming
  <2>4. commands' \in Nat /\ restarts' \in Nat
    BY <1>4, <1>6 DEF AskVerify, Asked
  <2> QED BY <1>0, <1>6, <2>3, <2>4 DEF AskVerify, TypeInv, TypeOK
<1>7. CASE AskRun(p)
  <2>1. PICK t \in Tasks, a \in Agents :
          Becomes(p, [Idle EXCEPT !.pc = "claim", !.job = "command", !.task = t, !.start = t,
                                  !.agent = a, !.from = "command"])
    BY <1>7 DEF AskRun
  <2>2. "claim" \in Pcs /\ "claim" \notin Launcher
    BY DEF Pcs, Launcher
  <2>3. [Idle EXCEPT !.pc = "claim", !.job = "command", !.task = t, !.start = t,
                     !.agent = a, !.from = "command"] \in Worker
    BY <2>2, IdleTyped DEF Worker, Thread
  <2>4. th' \in [Threads -> Worker]
    BY <2>1, <2>3, Becoming
  <2>5. commands' \in Nat /\ restarts' \in Nat
    BY <1>4, <1>7 DEF AskRun, Asked
  <2> QED BY <1>0, <1>7, <2>4, <2>5 DEF AskRun, TypeInv, TypeOK
<1>8. CASE AskReady(p)
  <2>1. th' \in [Threads -> Worker]
    BY <1>2, <1>8, Beginning, TaskGraphAssumption DEF AskReady
  <2>2. status' \in [Tasks -> TaskStatus] /\ leases' \subseteq Tasks /\ farm' \in FarmStatus
    BY <1>0, <1>3, <1>8, SetStatusTyped DEF AskReady
  <2>3. commands' \in Nat /\ restarts' \in Nat
    BY <1>4, <1>8 DEF AskReady, Asked
  <2> QED BY <1>0, <1>8, <2>1, <2>2, <2>3 DEF AskReady, TypeInv, TypeOK
<1>9. CASE AskRetry(p)
  <2>1. th' \in [Threads -> Worker]
    BY <1>2, <1>9, Beginning DEF AskRetry
  <2>2. commands' \in Nat /\ restarts' \in Nat
    BY <1>4, <1>9 DEF AskRetry, Asked
  <2> QED BY <1>0, <1>9, <2>1, <2>2 DEF AskRetry, TypeInv, TypeOK
<1>10. CASE Retry(p)
  <2>1. th' \in [Threads -> Worker]
    BY <1>1, <1>2, <1>10, Beginning DEF Retry
  <2> QED BY <1>0, <1>1, <1>3, <1>10, <2>1 DEF Retry, TypeInv, TypeOK
<1>11. CASE AskCancel(p)
  <2>1. th' \in [Threads -> Worker]
    BY <1>2, <1>11, Beginning DEF AskCancel
  <2>2. status' \in [Tasks -> TaskStatus] /\ leases' \subseteq Tasks /\ farm' \in FarmStatus
    BY <1>0, <1>3, <1>11, SetStatusTyped DEF AskCancel
  <2>3. commands' \in Nat /\ restarts' \in Nat
    BY <1>4, <1>11 DEF AskCancel, Asked
  <2> QED BY <1>0, <1>11, <2>1, <2>2, <2>3 DEF AskCancel, TypeInv, TypeOK
<1>12. CASE Halt(p)
  <2>1. th' \in [Threads -> Worker]
    BY <1>2, <1>12, Going DEF Halt
  <2> QED BY <1>0, <1>1, <1>12, <2>1 DEF Halt, TypeInv, TypeOK
<1>13. CASE Kill(p)
  <2>1. th' \in [Threads -> Worker]
    BY <1>13, Stopping DEF Kill
  <2>2. RunsTyped'
    BY <1>0, <1>13, StopTyped DEF Kill, RunsTyped, TypeOK
  <2>3. cancellations' \in [Tasks -> 0..MaxRuns] /\ sessions' \subseteq RunIds
    <3>1. 0 \in 0..MaxRuns
      BY FarmAssumption
    <3> QED BY <1>0, <1>1, <1>13, <3>1 DEF Kill, TypeOK
  <2> QED BY <1>0, <1>13, <2>1, <2>2, <2>3 DEF Kill, TypeInv, TypeOK, RunsTyped
<1>14. CASE AskStart(p)
  <2>1. th' \in [Threads -> Worker]
    BY <1>2, <1>14, Beginning, TaskGraphAssumption DEF AskStart
  <2>2. commands' \in Nat /\ restarts' \in Nat
    BY <1>4, <1>14 DEF AskStart, Asked
  <2> QED BY <1>0, <1>3, <1>14, <2>1, <2>2 DEF AskStart, TypeInv, TypeOK
<1>15. CASE AskPause(p) \/ AskAssign(p) \/ AskConfigure(p)
  <2>1. th' \in [Threads -> Worker]
    BY <1>15 DEF AskPause, AskAssign, AskConfigure, TypeInv
  <2>2. commands' \in Nat /\ restarts' \in Nat
    BY <1>4, <1>15 DEF AskPause, AskAssign, AskConfigure, Asked
  <2>3. CASE AskPause(p)
    BY <1>0, <1>3, <2>1, <2>2, <2>3 DEF AskPause, TypeInv, TypeOK
  <2>4. CASE AskAssign(p)
    BY <1>0, <2>1, <2>2, <2>4 DEF AskAssign, TypeInv, TypeOK
  <2>5. CASE AskConfigure(p)
    BY <1>0, <2>1, <2>2, <2>5 DEF AskConfigure, TypeInv, TypeOK
  <2> QED BY <1>15, <2>3, <2>4, <2>5
<1>16. CASE PersonMerges(p)
  <2>1. th' \in [Threads -> Worker]
    BY <1>16 DEF PersonMerges, TypeInv
  <2>2. commands' \in Nat /\ restarts' \in Nat
    BY <1>4, <1>16 DEF PersonMerges, Asked
  <2>3. landed' \in [Tasks -> SUBSET Nat]
    BY <1>0, <1>16 DEF PersonMerges, TypeOK
  <2> QED BY <1>0, <1>16, <2>1, <2>2, <2>3 DEF PersonMerges, TypeInv, TypeOK
<1> QED BY <1>5, <1>6, <1>7, <1>8, <1>9, <1>10, <1>11, <1>12, <1>13, <1>14, <1>15, <1>16
        DEF Command

(* What an agent does in its worktree, and its end, keeps the types. *)
LEMMA AgentTyped ==
  ASSUME TypeInv, NEW r \in RunIds, Agent(r)
  PROVE  TypeInv'
<1> USE DEF farmVars, taskVars, evidence, runVars, gitVars, bounds, history
<1>0. TypeOK /\ RunsTyped /\ runs[r] \in Run
  BY DEF TypeInv, TypeOK, RunsTyped
<1>1. runs[r].task \in Tasks /\ runs[r].agent \in Agents \cup {NoAgent}
  BY <1>0 DEF Run
<1>2. head[runs[r].task] \in Nat
  BY <1>0, <1>1 DEF TypeOK
<1>3. CASE Edit(r)
  BY <1>0, <1>1, <1>3 DEF Edit, TypeInv, TypeOK
<1>4. CASE Commit(r)
  BY <1>0, <1>1, <1>2, <1>4 DEF Commit, TypeInv, TypeOK
<1>5. ASSUME NEW how \in Exits, Exit(r, how) PROVE TypeInv'
  <2>1. how \in Procs
    BY FarmAssumption DEF Procs
  <2>2. [runs[r] EXCEPT !.proc = how] \in Run
    BY <1>0, <2>1 DEF Run
  <2>3. RunsTyped'
    BY <1>0, <1>5, <2>2 DEF Exit, RunsTyped, Run
  <2>4. approvals' \subseteq Tasks \X Nat \X (Agents \cup {NoAgent})
    BY <1>0, <1>1, <1>2, <1>5 DEF Exit, TypeOK
  <2>5. th' \in [Threads -> Worker]
    BY <1>5 DEF Exit, TypeInv
  <2> QED BY <1>0, <1>5, <2>3, <2>4, <2>5 DEF Exit, TypeInv, TypeOK, RunsTyped
<1> QED BY <1>3, <1>4, <1>5 DEF Agent

(* Opening the farm again and recovering it keeps the types. *)
LEMMA RestartTyped == ASSUME TypeInv, Restart PROVE TypeInv'
<1> USE DEF farmVars, taskVars, evidence, runVars, gitVars, bounds, history
<1> USE WorkersAreThreads, IdleTyped
<1>0. TypeOK
  BY DEF TypeInv
<1>1. SomeList \in CheckLists /\ 0 \in 0..MaxRuns
  BY FarmAssumption DEF SomeList
<1>2. NoEvidence \in [commit : Nat, list : CheckLists]
  BY <1>1 DEF NoEvidence
<1>3. NoReview \in [commit : Nat, reviewer : Agents \cup {NoAgent}]
  BY DEF NoReview
<1>4. "Waiting" \in TaskStatus /\ "Paused" \in FarmStatus
  BY DEF TaskStatus, FarmStatus
<1>5. status' \in [Tasks -> TaskStatus]
  BY <1>0, <1>4 DEF Restart, Recovered, TypeOK
<1>6. farm' \in FarmStatus
  BY <1>0, <1>4, DerivedTyped DEF Restart, TypeOK
<1>7. th' \in [Threads -> Worker]
  BY DEF Restart
<1>8. RunsTyped'
  BY DEF Restart, RunsTyped, NoRun
<1>9. restarts' \in Nat
  BY <1>0 DEF Restart, TypeOK
<1> QED BY <1>0, <1>1, <1>2, <1>3, <1>5, <1>6, <1>7, <1>8, <1>9
        DEF Restart, TypeInv, TypeOK, RunsTyped

(* The farm as it was created is typed. *)
LEMMA InitTyped == Init => TypeInv
<1> SUFFICES ASSUME Init PROVE TypeInv
  OBVIOUS
<1> USE WorkersAreThreads, IdleTyped
<1>1. SomeList \in CheckLists /\ 0 \in 0..MaxRuns
  BY FarmAssumption DEF SomeList
<1>2. NoEvidence \in [commit : Nat, list : CheckLists]
  BY <1>1 DEF NoEvidence
<1>3. NoReview \in [commit : Nat, reviewer : Agents \cup {NoAgent}]
  BY DEF NoReview
<1>4. status \in [Tasks -> TaskStatus] /\ farm \in FarmStatus
  BY FarmAssumption DEF Init, TaskStatus, FarmStatus
<1>5. runs \in [RunIds -> Run] /\ \A r \in RunIds : runs[r].outcome = "none"
  BY DEF Init, NoRun
<1>6. th \in [Threads -> Worker]
  BY DEF Init
<1> QED BY <1>1, <1>2, <1>3, <1>4, <1>5, <1>6 DEF Init, TypeInv, TypeOK

(* Every step keeps the types. *)
LEMMA StepTyped == TypeInv /\ [Next]_vars => TypeInv'
<1> SUFFICES ASSUME TypeInv, [Next]_vars PROVE TypeInv'
  OBVIOUS
<1>1. CASE UNCHANGED vars
  BY <1>1 DEF vars, farmVars, taskVars, evidence, runVars, gitVars, bounds, history,
              TypeInv, TypeOK
<1>2. ASSUME NEW x \in Threads, Step(x) PROVE TypeInv'
  BY <1>2, SchedulingTyped, StartingTyped, WaitingTyped, CheckingTyped, ReviewingTyped,
     LandingTyped, ReturningTyped, CommandTyped DEF Step
<1>3. ASSUME NEW p \in People, Command(p) PROVE TypeInv'
  BY <1>3, CommandTyped DEF Threads
<1>4. ASSUME NEW r \in RunIds, Agent(r) PROVE TypeInv'
  BY <1>4, AgentTyped
<1>5. CASE Restart
  BY <1>5, RestartTyped
<1> QED BY <1>1, <1>2, <1>3, <1>4, <1>5 DEF Next

(* Every reachable state is typed: no counter, commit, run or thread of the*)
(* service ever leaves its domain, and a run that has been remembered      *)
(* always has an agent.                                                    *)
THEOREM TypeCorrect == Spec => []TypeOK
<1>1. Spec => []TypeInv
  BY InitTyped, StepTyped, PTL DEF Spec
<1>2. TypeInv => TypeOK
  BY DEF TypeInv
<1> QED BY <1>1, <1>2, PTL
=============================================================================

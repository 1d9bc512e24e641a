------------------------ MODULE FarmServiceEvidence -------------------------
(***************************************************************************)
(* That the evidence the farm relies on is true, and that nothing lands by *)
(* itself without it, proved for any farm, any agents, any number of       *)
(* people, runs and commits.  The inductive invariant says what is true of *)
(* a commit between the moment a thread reads it and the moment it relies  *)
(* on it: what moves meanwhile only moves the branch on.                   *)
(***************************************************************************)
EXTENDS FarmServiceProofs

-----------------------------------------------------------------------------
(* Evidence. *)

(* A branch only gains commits, its worktree is clean again only by one    *)
(* more, and what the checks and the reviewers have said stays said.       *)
Grows ==
  /\ \A t \in Tasks : /\ head'[t] \in Nat /\ head'[t] >= head[t]
                      /\ tree[t] = "dirty" /\ tree'[t] # "dirty" => head'[t] > head[t]
  /\ passed \subseteq passed' /\ approvals \subseteq approvals'

(* Every step lets the branches and the history only grow (evidence is     *)
(* about commits; Git never takes one back from a task's branch).          *)
LEMMA StepGrows ==
  ASSUME TypeInv, [Next]_vars
  PROVE  Grows
<1> USE DEF gitVars, history, Grows
<1> DEFINE Same == UNCHANGED <<head, tree, passed, approvals>>
<1>0. /\ head \in [Tasks -> Nat \ {0}] /\ tree \in [Tasks -> {"absent", "clean", "dirty"}]
      /\ \A x \in Threads : th[x].task \in Tasks /\ th[x].start \in Tasks
      /\ \A r \in RunIds : runs[r].task \in Tasks
  BY AThread DEF TypeInv, TypeOK, Run
<1>1. ASSUME Same PROVE Grows
  BY <1>0, <1>1
<1>2. CASE UNCHANGED vars
  BY <1>1, <1>2 DEF vars
<1>3. ASSUME NEW x \in Threads, Scheduling(x) PROVE Grows
  BY <1>1, <1>3 DEF Scheduling, Tick, TickEnds, ActBlock, ActSettle, ActStart, ActRefused
<1>4. ASSUME NEW x \in Threads, Starting(x) PROVE Grows
  <2>1. CASE Cut(x)
    <3>1. \/ tree' = tree
          \/ tree' = [tree EXCEPT ![th[x].start] = IF @ = "absent" THEN "clean" ELSE @]
      BY <2>1 DEF Cut
    <3>2. UNCHANGED <<head, passed, approvals>>
      BY <2>1 DEF Cut
    <3> QED BY <1>0, <3>1, <3>2
  <2>2. CASE ~Cut(x)
    BY <1>1, <1>4, <2>2 DEF Starting, Claim, Assign, Spawn, SetRunning, Register, Enqueue
  <2> QED BY <2>1, <2>2
<1>5. ASSUME NEW x \in Threads, Waiting(x) PROVE Grows
  BY <1>1, <1>5 DEF Waiting, WatchPending, Await, Finish, DropLease, Discredit, GiveUp
<1>6. ASSUME NEW x \in Threads, Checking(x) PROVE Grows
  <2>1. CASE Check(x)
    BY <1>0, <2>1 DEF Check
  <2>2. CASE ~Check(x)
    BY <1>1, <1>6, <2>2 DEF Checking, Verify, Verification, Before, Judge, Reject, Block, Requeue
  <2> QED BY <2>1, <2>2
<1>7. ASSUME NEW x \in Threads, Reviewing(x) PROVE Grows
  BY <1>1, <1>7 DEF Reviewing, Review, PickReviewer, Conclude, Approve
<1>8. ASSUME NEW x \in Threads, Landing(x) PROVE Grows
  <2>1. CASE Remove(x) \/ ResolveByMerge(x) \/ ResolveByAgent(x)
    BY <1>0, <2>1 DEF Remove, ResolveByMerge, ResolveByAgent
  <2>2. CASE ~(Remove(x) \/ ResolveByMerge(x) \/ ResolveByAgent(x))
    BY <1>1, <1>8, <2>2 DEF Landing, Merge, CheckEvidence, LandOk, LandStops, MarkMerged,
       Arrived, Landed, AskPerson
  <2> QED BY <2>1, <2>2
<1>9. ASSUME NEW x \in Threads, Returning(x) PROVE Grows
  BY <1>1, <1>9 DEF Returning, ReturnFromVerify, ReturnFromApprove, ReturnFromRun, Report,
     ReturnFromVerifyCommand, ReturnFromCommand
<1>10. ASSUME NEW x \in Threads, Retry(x) \/ Halt(x) \/ Kill(x) PROVE Grows
  BY <1>1, <1>10 DEF Retry, Halt, Kill
<1>11. ASSUME NEW p \in People, Command(p) PROVE Grows
  BY <1>1, <1>11 DEF Command, AskStep, AskVerify, AskRun, AskReady, AskRetry, AskCancel,
     AskStart, AskPause, AskAssign, AskConfigure, PersonMerges
<1>12. ASSUME NEW r \in RunIds, Agent(r) PROVE Grows
  <2>1. CASE Edit(r) \/ Commit(r)
    BY <1>0, <2>1 DEF Edit, Commit
  <2>2. CASE \E how \in Exits : Exit(r, how)
    BY <1>0, <2>2 DEF Exit
  <2> QED BY <1>12, <2>1, <2>2 DEF Agent
<1>13. CASE Restart
  BY <1>1, <1>13 DEF Restart
<1> QED BY <1>2, <1>3, <1>4, <1>5, <1>6, <1>7, <1>8, <1>9, <1>10, <1>11, <1>12, <1>13
        DEF Next, Step

(* Where a thread is about to rely on a commit it read, or on a run.       *)
Relying == {"claim", "assign", "cut", "spawn", "running", "register", "enqueue",
            "check", "judge", "await", "finish", "conclude"}

(* The commit a thread read before the checks is not newer than the branch; *)
(* and checks that passed while the branch did not move passed on it.  A   *)
(* reviewer is started for such a commit too.                              *)
ReadTrue(x) ==
  LET v == th[x] IN
  /\ v.pc \in {"check", "judge"} => v.commit <= head[v.task]
  /\ v.pc = "judge" /\ v.ended = "pass" /\ v.commit = head[v.task] /\ tree[v.task] # "dirty"
       => <<v.task, v.commit, v.list>> \in passed
  /\ v.pc \in {"claim", "assign", "cut"} => v.from # "review"
  /\ v.pc = "spawn" /\ v.from = "review" => v.commit <= head[v.start]
  /\ v.pc \in Launcher => runs[v.run].outcome # "none"

(* A reviewer's input is not newer than the branch, and when the branch    *)
(* has not moved since, its approval was given for that input.             *)
Approves(r) ==
  runs[r].phase = "Review" /\ head[runs[r].task] = runs[r].input =>
    <<runs[r].task, runs[r].input, runs[r].agent>> \in approvals

RunTrue(r) ==
  /\ runs[r].outcome # "none" /\ runs[r].phase = "Review"
       => runs[r].input <= head[runs[r].task]
  /\ runs[r].outcome # "none" /\ runs[r].proc = "ok" => Approves(r)
  /\ r \in sessions => runs[r].outcome # "none"

(* The thread that waits for a run is about the run's task, and has its    *)
(* answer right.                                                           *)
WaitTrue(r) ==
  /\ th[r].pc \in {"await", "finish", "conclude"} =>
       th[r].task = runs[r].task /\ runs[r].outcome # "none"
  /\ th[r].pc = "conclude" => runs[r].phase = "Review"
  /\ th[r].pc \in {"finish", "conclude"} /\ th[r].ended = "ok" => Approves(r)

EvidenceInv == /\ EvidenceIsTrue
               /\ \A x \in Threads : ReadTrue(x)
               /\ \A r \in RunIds : RunTrue(r) /\ WaitTrue(r)

-----------------------------------------------------------------------------
(* A run that has been stays remembered, with what it was started for.     *)
RunsKept ==
  \A r \in RunIds : runs[r].outcome # "none" =>
    /\ runs'[r].task = runs[r].task /\ runs'[r].agent = runs[r].agent
    /\ runs'[r].phase = runs[r].phase /\ runs'[r].input = runs[r].input
    /\ runs'[r].outcome # "none"

(* A run that does not begin, is not handed over, and does not end well.   *)
Uneventful(r) == /\ runs'[r].outcome # "none" => runs[r].outcome # "none"
                 /\ runs'[r].proc = "ok" => runs[r].proc = "ok"
                 /\ r \in sessions' => r \in sessions

(* A thread that stays where it is, or goes where nothing is relied on.    *)
Rests(y) == th'[y] = th[y] \/ th'[y].pc \notin Relying

(* Evidence that is kept, or given up. *)
EvidenceKept ==
  \A t \in Tasks : /\ verified'[t] \in {verified[t], NoEvidence}
                   /\ reviewed'[t] \in {reviewed[t], NoReview}

(* What a thread that rests read stays true. *)
LEMMA ReadStays ==
  ASSUME TypeInv, Grows, RunsKept, NEW y \in Threads, ReadTrue(y), Rests(y)
  PROVE  ReadTrue(y)'
<1>1. CASE th'[y].pc \notin Relying
  BY <1>1 DEF Relying, Launcher, ReadTrue
<1>2. CASE th'[y] = th[y]
  <2>1. /\ th[y] \in Worker /\ th[y].task \in Tasks /\ th[y].start \in Tasks
        /\ th[y].commit \in Nat
    BY AThread DEF Thread
  <2>2. \A t \in Tasks : head[t] \in Nat /\ head'[t] \in Nat /\ head'[t] >= head[t]
    BY DEF Grows, TypeInv, TypeOK
  <2>3. th[y].pc \in {"check", "judge"} => th[y].commit <= head'[th[y].task]
    BY <2>1, <2>2 DEF ReadTrue
  <2>4. ASSUME th[y].pc = "judge", th[y].ended = "pass", th[y].commit = head'[th[y].task],
               tree'[th[y].task] # "dirty"
        PROVE  <<th[y].task, th[y].commit, th[y].list>> \in passed'
    <3>1. head[th[y].task] = th[y].commit
      BY <2>1, <2>2, <2>4 DEF ReadTrue
    <3>2. tree[th[y].task] # "dirty"
      BY <2>1, <2>2, <2>4, <3>1 DEF Grows
    <3> QED BY <2>4, <3>1, <3>2 DEF ReadTrue, Grows
  <2>5. th[y].pc = "spawn" /\ th[y].from = "review" => th[y].commit <= head'[th[y].start]
    BY <2>1, <2>2 DEF ReadTrue
  <2>6. th[y].pc \in Launcher => runs'[th[y].run].outcome # "none"
    BY <2>1 DEF ReadTrue, RunsKept, Worker
  <2> QED BY <1>2, <2>3, <2>4, <2>5, <2>6 DEF ReadTrue
<1> QED BY <1>1, <1>2 DEF Rests

(* A reviewer's answer stays right while its branch only grows. *)
LEMMA ApprovalStays ==
  ASSUME TypeInv, Grows, RunsKept, NEW r \in RunIds, RunTrue(r), Approves(r),
         runs[r].outcome # "none"
  PROVE  Approves(r)'
<1>1. runs[r].task \in Tasks /\ runs[r].input \in Nat
  BY DEF TypeInv, TypeOK, Run
<1>2. head[runs[r].task] \in Nat /\ head'[runs[r].task] \in Nat
      /\ head'[runs[r].task] >= head[runs[r].task]
  BY <1>1 DEF Grows, TypeInv, TypeOK
<1> QED BY <1>1, <1>2 DEF Approves, RunTrue, RunsKept, Grows

(* So does what is known of the run. *)
LEMMA RunStays ==
  ASSUME TypeInv, Grows, RunsKept, NEW r \in RunIds, RunTrue(r), Uneventful(r)
  PROVE  RunTrue(r)'
<1>1. runs[r].task \in Tasks /\ runs[r].input \in Nat
  BY DEF TypeInv, TypeOK, Run
<1>2. head[runs[r].task] \in Nat /\ head'[runs[r].task] \in Nat
      /\ head'[runs[r].task] >= head[runs[r].task]
  BY <1>1 DEF Grows, TypeInv, TypeOK
<1>3. runs'[r].outcome # "none" /\ runs'[r].phase = "Review"
        => runs'[r].input <= head'[runs'[r].task]
  BY <1>1, <1>2 DEF RunTrue, RunsKept, Uneventful
<1>4. runs'[r].outcome # "none" /\ runs'[r].proc = "ok" => Approves(r)'
  BY ApprovalStays DEF RunTrue, Uneventful
<1>5. r \in sessions' => runs'[r].outcome # "none"
  BY DEF RunTrue, RunsKept, Uneventful
<1> QED BY <1>3, <1>4, <1>5 DEF RunTrue

(* And what the thread that waits for it knows. *)
LEMMA WaitStays ==
  ASSUME TypeInv, Grows, RunsKept, NEW r \in RunIds, RunTrue(r), WaitTrue(r), Rests(r)
  PROVE  WaitTrue(r)'
<1>1. CASE th'[r].pc \notin Relying
  BY <1>1 DEF Relying, WaitTrue
<1>2. CASE th'[r] = th[r]
  <2>1. th[r].pc \in {"finish", "conclude"} /\ th[r].ended = "ok" => Approves(r)'
    BY ApprovalStays DEF WaitTrue
  <2> QED BY <1>2, <2>1 DEF WaitTrue, RunsKept
<1> QED BY <1>1, <1>2 DEF Rests

(* Evidence that is only kept or given up stays true. *)
LEMMA EvidenceStays ==
  ASSUME EvidenceIsTrue, EvidenceKept, Grows PROVE EvidenceIsTrue'
<1> SUFFICES ASSUME NEW t \in Tasks
             PROVE /\ verified'[t].commit # 0
                        => <<t, verified'[t].commit, verified'[t].list>> \in passed'
                   /\ reviewed'[t].commit # 0
                        => <<t, reviewed'[t].commit, reviewed'[t].reviewer>> \in approvals'
  BY DEF EvidenceIsTrue
<1>1. NoEvidence.commit = 0 /\ NoReview.commit = 0
  BY DEF NoEvidence, NoReview
<1>2. verified'[t] = verified[t] \/ verified'[t] = NoEvidence
  BY DEF EvidenceKept
<1>3. reviewed'[t] = reviewed[t] \/ reviewed'[t] = NoReview
  BY DEF EvidenceKept
<1>4. passed \subseteq passed' /\ approvals \subseteq approvals'
  BY DEF Grows
<1> QED BY <1>1, <1>2, <1>3, <1>4 DEF EvidenceIsTrue

(* A step of a thread that relies on nothing new, and adds no evidence,    *)
(* keeps the invariant.                                                    *)
LEMMA RestKeeps ==
  ASSUME TypeInv, EvidenceInv, Grows, RunsKept, EvidenceKept,
         \A r \in RunIds : Uneventful(r), \A y \in Threads : Rests(y)
  PROVE  EvidenceInv'
<1>1. \A y \in Threads : ReadTrue(y)'
  BY ReadStays DEF EvidenceInv
<1>2. \A r \in RunIds : RunTrue(r)' /\ WaitTrue(r)'
  BY RunStays, WaitStays DEF EvidenceInv, Threads
<1> QED BY <1>1, <1>2, EvidenceStays DEF EvidenceInv

(* So does a step after which what its thread relies on is true. *)
LEMMA MoveKeeps ==
  ASSUME TypeInv, EvidenceInv, Grows, RunsKept, EvidenceIsTrue',
         \A r \in RunIds : Uneventful(r) \/ RunTrue(r)',
         NEW x \in Threads, NEW v, Becomes(x, v), ReadTrue(x)',
         x \in RunIds => WaitTrue(x)'
  PROVE  EvidenceInv'
<1>0. \A y \in Threads \ {x} : Rests(y)
  BY Others DEF Rests
<1>1. \A y \in Threads : ReadTrue(y)'
  BY <1>0, ReadStays DEF EvidenceInv
<1>2. \A r \in RunIds : RunTrue(r)' /\ WaitTrue(r)'
  BY <1>0, RunStays, WaitStays DEF EvidenceInv, Threads
<1> QED BY <1>1, <1>2 DEF EvidenceInv

(* Stopping runs ends none of them well. *)
LEMMA StopKept ==
  ASSUME TypeInv, NEW R, runs' = Stop(R) \/ runs' = runs, sessions' \subseteq sessions
  PROVE  RunsKept /\ \A r \in RunIds : Uneventful(r)
<1>1. CASE runs' = Stop(R)
  <2> SUFFICES ASSUME NEW r \in RunIds
               PROVE /\ runs'[r].task = runs[r].task /\ runs'[r].agent = runs[r].agent
                     /\ runs'[r].phase = runs[r].phase /\ runs'[r].input = runs[r].input
                     /\ runs'[r].outcome = runs[r].outcome
                     /\ runs'[r].proc = "ok" => runs[r].proc = "ok"
    BY DEF RunsKept, Uneventful
  <2>1. runs[r] \in Run
    BY DEF TypeInv, TypeOK
  <2>2. runs'[r] = runs[r] \/ runs'[r] = [runs[r] EXCEPT !.proc = "killed"]
    BY <1>1 DEF Stop
  <2> QED BY <2>1, <2>2 DEF Run
<1> QED BY <1>1 DEF RunsKept, Uneventful

(* A step to where nothing is relied on lets every thread rest. *)
LEMMA RestBecomes ==
  ASSUME TypeInv, NEW x \in Threads, NEW v, Becomes(x, v), v.pc \notin Relying
  PROVE  \A y \in Threads : Rests(y)
BY Others DEF Rests

(* Scheduling relies on nothing, but for the claim it goes on to make. *)
LEMMA EvidenceScheduling ==
  ASSUME TypeInv, EvidenceInv, Grows, NEW x \in Threads, Scheduling(x)
  PROVE  EvidenceInv'
<1> USE DEF evidence, runVars
<1>0. th[x] \in Thread
  BY AThread
<1>1. RunsKept /\ EvidenceKept /\ \A r \in RunIds : Uneventful(r)
  BY DEF Scheduling, Tick, TickEnds, ActBlock, ActSettle, ActStart, ActRefused, RunsKept,
     Uneventful, EvidenceKept
<1>2. CASE ActStart(x)
  <2>1. PICK d \in th[x].queue :
          Becomes(x, [th[x] EXCEPT !.pc = "claim", !.queue = @ \ {d}, !.from = "tick",
                                   !.start = d.task, !.agent = d.agent])
    BY <1>2 DEF ActStart
  <2> DEFINE v == [th[x] EXCEPT !.pc = "claim", !.queue = @ \ {d}, !.from = "tick",
                                !.start = d.task, !.agent = d.agent]
  <2>2. v.pc = "claim" /\ v.from = "tick"
    BY <1>0 DEF Thread
  <2>3. Becomes(x, v)
    BY <2>1
  <2> HIDE DEF v
  <2>4. th'[x].pc = "claim" /\ th'[x].from = "tick"
    BY <2>2, <2>3, Others
  <2>5. ReadTrue(x)' /\ (x \in RunIds => WaitTrue(x)')
    BY <2>4 DEF ReadTrue, WaitTrue, Launcher
  <2> QED BY <1>1, <2>3, <2>5, MoveKeeps, EvidenceStays DEF EvidenceInv
<1>3. CASE ~ActStart(x)
  <2>1. CASE TickEnds(x)
    BY <1>0, <1>1, <2>1, RestBecomes, RestKeeps DEF TickEnds, Thread, Relying
  <2>2. CASE ActBlock(x) \/ ActSettle(x)
    BY <1>0, <1>1, <2>2, RestBecomes, RestKeeps DEF ActBlock, ActSettle, At, Thread, Relying
  <2>3. CASE Tick(x) \/ ActRefused(x)
    BY <1>0, <1>1, <2>3, RestBecomes, RestKeeps DEF Tick, ActRefused, Goto, Thread, Relying
  <2> QED BY <1>3, <2>1, <2>2, <2>3 DEF Scheduling
<1> QED BY <1>2, <1>3

(* Starting an agent gives up the evidence there was, and starts a reviewer *)
(* for a commit the branch has (start_task, spawn_run).                    *)
LEMMA EvidenceStarting ==
  ASSUME TypeInv, EvidenceInv, Grows, NEW x \in Threads, Starting(x)
  PROVE  EvidenceInv'
<1> USE DEF evidence, runVars
<1>0. th[x] \in Thread /\ ReadTrue(x)
  BY AThread DEF EvidenceInv
<1>1. EvidenceKept
  BY DEF Starting, Claim, Assign, Cut, Spawn, SetRunning, Register, Enqueue, EvidenceKept,
     TypeInv, TypeOK
<1>2. ASSUME NEW err, StartEnds(x, err) PROVE \A y \in Threads : Rests(y)
  BY <1>0, <1>2, RestBecomes DEF StartEnds, Thread, Relying
<1>3. CASE Claim(x) \/ Assign(x) \/ Cut(x)
  <2>1. RunsKept /\ \A r \in RunIds : Uneventful(r)
    BY <1>3 DEF Claim, Assign, Cut, RunsKept, Uneventful
  <2>2. CASE \E err \in BOOLEAN : StartEnds(x, err)
    BY <1>1, <1>2, <2>1, <2>2, RestKeeps
  <2>3. CASE \E pc \in {"assign", "cut", "spawn"} : Goto(x, pc)
    <3>1. PICK pc \in {"assign", "cut", "spawn"} : Goto(x, pc)
      BY <2>3
    <3>2. th'[x].pc = pc /\ th'[x].from = th[x].from
      BY <1>0, <3>1, Others DEF Goto, Thread
    <3>3. th[x].from # "review"
      BY <1>0, <1>3 DEF Claim, Assign, Cut, At, ReadTrue
    <3>4. ReadTrue(x)' /\ (x \in RunIds => WaitTrue(x)')
      BY <3>2, <3>3 DEF ReadTrue, WaitTrue, Launcher
    <3> QED BY <1>1, <2>1, <3>1, <3>4, MoveKeeps, EvidenceStays DEF EvidenceInv, Goto
  <2> QED BY <1>3, <2>2, <2>3 DEF Claim, Assign, Cut
<1>4. CASE Spawn(x)
  <2>1. CASE UNCHANGED runs /\ StartEnds(x, TRUE)
    BY <1>1, <1>2, <1>4, <2>1, RestKeeps DEF Spawn, RunsKept, Uneventful
  <2>2. CASE ~(UNCHANGED runs /\ StartEnds(x, TRUE))
    <3> DEFINE t == th[x].start
               phase == IF th[x].from = "review" THEN "Review" ELSE "Implementation"
               pc == IF phase = "Review" THEN "register" ELSE "running"
               run == [task |-> t, agent |-> th[x].agent, phase |-> phase,
                       outcome |-> "running", proc |-> "alive", input |-> th[x].commit]
    <3>1. PICK r \in RunIds :
            /\ \A q \in RunIds : runs[q].outcome = "none" <=> q >= r
            /\ runs' = [runs EXCEPT ![r] = run]
            /\ Becomes(x, [th[x] EXCEPT !.run = r, !.commit = 0, !.pc = pc])
      BY <1>4, <2>2 DEF Spawn
    <3> DEFINE v == [th[x] EXCEPT !.run = r, !.commit = 0, !.pc = pc]
    <3>2. v.pc = pc /\ v.run = r
      BY <1>0 DEF Thread
    <3>3. Becomes(x, v)
      BY <3>1
    <3>4. runs[r].outcome = "none"
      BY <3>1, FarmAssumption DEF RunIds
    <3>5. runs'[r] = run /\ \A q \in RunIds \ {r} : runs'[q] = runs[q]
      BY <3>1 DEF TypeInv, TypeOK
    <3>6. RunTrue(r)'
      <4>1. /\ run.outcome = "running" /\ run.proc = "alive"
            /\ run.phase = "Review" => th[x].from = "review"
            /\ run.task = th[x].start /\ run.input = th[x].commit
        OBVIOUS
      <4>2. head' = head /\ (th[x].from = "review" => th[x].commit <= head[th[x].start])
        BY <1>0, <1>4 DEF Spawn, At, ReadTrue, gitVars
      <4> HIDE DEF run
      <4> QED BY <3>5, <4>1, <4>2 DEF RunTrue
    <3>7. RunsKept
      BY <3>4, <3>5 DEF RunsKept
    <3>8. \A q \in RunIds \ {r} : Uneventful(q)
      BY <1>4, <3>5 DEF Spawn, Uneventful
    <3>9. pc \in {"register", "running"}
      OBVIOUS
    <3> HIDE DEF v, pc
    <3>10. ReadTrue(x)' /\ (x \in RunIds => WaitTrue(x)')
      BY <3>2, <3>3, <3>5, <3>9, Others DEF ReadTrue, WaitTrue
    <3> QED BY <1>1, <3>3, <3>6, <3>7, <3>8, <3>10, MoveKeeps, EvidenceStays DEF EvidenceInv
  <2> QED BY <2>1, <2>2
<1>5. CASE SetRunning(x)
  <2>1. RunsKept /\ \A r \in RunIds : Uneventful(r)
    BY <1>5, StopKept DEF SetRunning
  <2>2. CASE StartEnds(x, TRUE)
    BY <1>1, <1>2, <2>1, <2>2, RestKeeps
  <2>3. CASE Goto(x, "register")
    <3>1. th'[x].pc = "register" /\ th'[x].run = th[x].run
      BY <1>0, <2>3, Others DEF Goto, Thread
    <3>2. runs'[th[x].run].outcome # "none"
      BY <1>0, <1>5, <2>1, AThread DEF SetRunning, At, ReadTrue, Launcher, RunsKept, Worker
    <3>3. ReadTrue(x)' /\ (x \in RunIds => WaitTrue(x)')
      BY <3>1, <3>2 DEF ReadTrue, WaitTrue
    <3> QED BY <1>1, <2>1, <2>3, <3>3, MoveKeeps, EvidenceStays DEF EvidenceInv, Goto
  <2> QED BY <1>5, <2>2, <2>3 DEF SetRunning
<1>6. CASE Register(x)
  <2>1. th'[x].pc = "enqueue" /\ th'[x].run = th[x].run
    BY <1>0, <1>6, Others DEF Register, Goto, Thread
  <2>2. RunsKept /\ (\A r \in RunIds : Uneventful(r)) /\ UNCHANGED runs
    BY <1>6 DEF Register, RunsKept, Uneventful
  <2>3. ReadTrue(x)' /\ (x \in RunIds => WaitTrue(x)')
    BY <1>0, <1>6, <2>1, <2>2 DEF Register, At, ReadTrue, WaitTrue, Launcher
  <2> QED BY <1>1, <1>6, <2>2, <2>3, MoveKeeps, EvidenceStays DEF EvidenceInv, Register, Goto
<1>7. CASE Enqueue(x)
  <2>1. runs[th[x].run].outcome # "none"
    BY <1>0, <1>7 DEF Enqueue, At, ReadTrue, Launcher
  <2>2. UNCHANGED runs /\ RunsKept /\ \A r \in RunIds \ {th[x].run} : Uneventful(r)
    BY <1>7 DEF Enqueue, RunsKept, Uneventful
  <2>3. \A r \in RunIds : r = th[x].run => RunTrue(r)'
    <3>1. ASSUME NEW r \in RunIds, r = th[x].run PROVE RunTrue(r)'
      <4>1. runs'[r].proc = "ok" => Approves(r)'
        BY <2>1, <2>2, <3>1, ApprovalStays DEF EvidenceInv, RunTrue
      <4>2. runs'[r].phase = "Review" => runs'[r].input <= head'[runs'[r].task]
        BY <1>7, <2>1, <2>2, <3>1 DEF EvidenceInv, RunTrue, Enqueue, gitVars
      <4> QED BY <2>1, <2>2, <3>1, <4>1, <4>2 DEF RunTrue
    <3> QED BY <3>1
  <2>4. th'[x].pc \notin Relying
    <3>1. PICK v : /\ Becomes(x, v) /\ v.pc \in {"act", "ret"}
      <4>1. CASE th[x].from = "tick"
        <5> DEFINE v == [th[x] EXCEPT !.pc = "act", !.agent = NoAgent, !.run = 0]
        <5>1. Becomes(x, v) /\ v.pc = "act"
          BY <1>0, <1>7, <4>1 DEF Enqueue, StartEnds, Thread
        <5> QED BY <5>1
      <4>2. CASE th[x].from # "tick"
        <5> DEFINE v == [th[x] EXCEPT !.pc = "ret", !.err = FALSE, !.from = "tick",
                                      !.agent = NoAgent, !.run = 0, !.commit = 0]
        <5>1. Becomes(x, v) /\ v.pc = "ret"
          BY <1>0, <1>7, <4>2 DEF Enqueue, StartEnds, Thread
        <5> QED BY <5>1
      <4> QED BY <4>1, <4>2
    <3> QED BY <3>1, Others DEF Relying
  <2>5. ReadTrue(x)' /\ (x \in RunIds => WaitTrue(x)')
    BY <2>4 DEF ReadTrue, WaitTrue, Relying, Launcher
  <2> QED BY <1>1, <1>7, <2>2, <2>3, <2>5, MoveKeeps, EvidenceStays
          DEF EvidenceInv, Enqueue, StartEnds
<1> QED BY <1>3, <1>4, <1>5, <1>6, <1>7 DEF Starting

(* The thread that waits for a run has the run's own answer, and keeps it   *)
(* until it concludes (watch_pending, finish_run).                         *)
LEMMA EvidenceWaiting ==
  ASSUME TypeInv, EvidenceInv, Grows, NEW x \in Threads, Waiting(x)
  PROVE  EvidenceInv'
<1> USE DEF evidence, runVars
<1>0. th[x] \in Thread
  BY AThread
<1>1. EvidenceKept
  BY DEF Waiting, WatchPending, Await, Finish, DropLease, Discredit, GiveUp, EvidenceKept,
     TypeInv, TypeOK
<1>2. CASE WatchPending(x)
  <2>1. RunsKept /\ \A r \in RunIds : Uneventful(r)
    BY <1>2 DEF WatchPending, RunsKept, Uneventful
  <2>2. ASSUME NEW y \in Threads \ sessions PROVE Rests(y)
    BY <1>2, <2>2 DEF WatchPending, Claimed, Rests, Idle, Relying
  <2>3. ASSUME NEW y \in sessions
        PROVE th'[y].pc = "await" /\ th'[y].task = runs[y].task
    BY <1>2, <2>3 DEF WatchPending, Claimed, Idle, TypeInv, TypeOK, Threads
  <2>4. \A y \in Threads : ReadTrue(y)'
    <3>1. ASSUME NEW y \in sessions PROVE ReadTrue(y)'
      BY <2>3 DEF ReadTrue, Launcher
    <3>2. ASSUME NEW y \in Threads \ sessions PROVE ReadTrue(y)'
      BY <2>1, <2>2, ReadStays DEF EvidenceInv
    <3> QED BY <3>1, <3>2
  <2>5. \A r \in RunIds : RunTrue(r)'
    BY <2>1, RunStays DEF EvidenceInv
  <2>6. \A r \in RunIds : WaitTrue(r)'
    <3>1. ASSUME NEW r \in RunIds, r \in sessions PROVE WaitTrue(r)'
      BY <1>2, <2>3, <3>1 DEF WaitTrue, EvidenceInv, RunTrue, WatchPending
    <3>2. ASSUME NEW r \in RunIds, r \notin sessions PROVE WaitTrue(r)'
      BY <2>1, <2>2, <3>2, WaitStays DEF EvidenceInv, Threads
    <3> QED BY <3>1, <3>2
  <2> QED BY <1>1, <2>4, <2>5, <2>6, EvidenceStays DEF EvidenceInv
<1>3. CASE Await(x)
  <2> DEFINE ended == IF runs[x].proc = "killed" \/ status[th[x].task] = "Cancelled"
                      THEN "cancelled" ELSE runs[x].proc
             v == [th[x] EXCEPT !.pc = "finish", !.ended = ended]
  <2>0. x \in RunIds /\ runs[x] \in Run /\ RunTrue(x) /\ WaitTrue(x)
    BY <1>3 DEF Await, EvidenceInv, TypeInv, TypeOK
  <2>1. Becomes(x, v)
    BY <1>3 DEF Await
  <2>2. v.pc = "finish" /\ v.ended = ended /\ v.task = th[x].task
    BY <1>0 DEF Thread
  <2>3. /\ runs' = [runs EXCEPT ![x].proc = "gone"]
        /\ \A r \in RunIds : /\ runs'[r].task = runs[r].task /\ runs'[r].agent = runs[r].agent
                             /\ runs'[r].phase = runs[r].phase /\ runs'[r].input = runs[r].input
                             /\ runs'[r].outcome = runs[r].outcome
                             /\ runs'[r].proc = "ok" => runs[r].proc = "ok"
    <3>1. runs' = [runs EXCEPT ![x].proc = "gone"] /\ \A r \in RunIds : runs[r] \in Run
      BY <1>3 DEF Await, TypeInv, TypeOK
    <3>2. runs'[x] = [runs[x] EXCEPT !.proc = "gone"] /\ \A r \in RunIds \ {x} : runs'[r] = runs[r]
      BY <3>1, <2>0 DEF TypeInv, TypeOK
    <3> QED BY <2>0, <3>1, <3>2 DEF Run
  <2>4. RunsKept /\ \A r \in RunIds : Uneventful(r)
    BY <1>3, <2>3 DEF Await, RunsKept, Uneventful
  <2>5. th[x].task = runs[x].task /\ runs[x].outcome # "none"
    BY <1>3, <2>0 DEF Await, At, WaitTrue
  <2>6. ended = "ok" => Approves(x)'
    BY <2>0, <2>4, <2>5, ApprovalStays DEF RunTrue
  <2> HIDE DEF v, ended
  <2>7. th'[x].pc = "finish" /\ th'[x].task = th[x].task /\ th'[x].ended = ended
    BY <2>1, <2>2, Others
  <2>8. WaitTrue(x)' /\ ReadTrue(x)'
    BY <2>0, <2>3, <2>5, <2>6, <2>7 DEF WaitTrue, ReadTrue, Launcher
  <2> QED BY <1>1, <2>1, <2>4, <2>8, MoveKeeps, EvidenceStays DEF EvidenceInv
<1>4. CASE Finish(x)
  <2>0. x \in RunIds /\ RunTrue(x) /\ WaitTrue(x)
    BY <1>4 DEF Finish, EvidenceInv
  <2>1. th[x].task = runs[x].task /\ runs[x].outcome # "none"
    BY <1>4, <2>0 DEF Finish, At, WaitTrue
  <2>2. \A r \in RunIds : /\ runs'[r].task = runs[r].task /\ runs'[r].agent = runs[r].agent
                          /\ runs'[r].phase = runs[r].phase /\ runs'[r].input = runs[r].input
                          /\ runs[r].outcome # "none" <=> runs'[r].outcome # "none"
                          /\ runs'[r].proc = runs[r].proc
    <3>1. CASE UNCHANGED runs
      BY <3>1
    <3>2. CASE runs' = [runs EXCEPT ![x].outcome = "ended"]
      <4>1. runs'[x] = [runs[x] EXCEPT !.outcome = "ended"]
            /\ \A r \in RunIds \ {x} : runs'[r] = runs[r]
        BY <2>0, <3>2 DEF TypeInv, TypeOK
      <4>2. runs[x] \in Run
        BY <2>0 DEF TypeInv, TypeOK
      <4> QED BY <2>0, <2>1, <4>1, <4>2 DEF Run
    <3> QED BY <1>4, <3>1, <3>2 DEF Finish
  <2>3. RunsKept /\ \A r \in RunIds : Uneventful(r)
    BY <1>4, <2>2 DEF Finish, RunsKept, Uneventful
  <2>4. CASE Return(x)
    BY <1>0, <1>1, <2>3, <2>4, RestBecomes, RestKeeps DEF Return, Thread, Relying
  <2>5. CASE Goto(x, FinishTo(x, th[x].ended))
    <3> DEFINE pc == FinishTo(x, th[x].ended)
    <3>1. /\ pc \in {"dropLease", "discredit", "conclude", "verify", "giveUp"}
          /\ pc = "conclude" => runs[x].phase = "Review"
      BY DEF FinishTo
    <3> HIDE DEF pc
    <3>2. th'[x].pc = pc /\ th'[x].task = th[x].task /\ th'[x].ended = th[x].ended
      BY <1>0, <2>5, Others DEF Goto, Thread, pc
    <3>3. th[x].ended = "ok" => Approves(x)'
      BY <1>4, <2>0, <2>1, <2>3, ApprovalStays DEF Finish, At, WaitTrue
    <3>4. WaitTrue(x)' /\ ReadTrue(x)'
      BY <2>0, <2>1, <2>2, <3>1, <3>2, <3>3 DEF WaitTrue, ReadTrue, Launcher
    <3> QED BY <1>1, <2>3, <2>5, <3>4, MoveKeeps, EvidenceStays DEF EvidenceInv, Goto
  <2> QED BY <1>4, <2>4, <2>5 DEF Finish
<1>5. CASE DropLease(x) \/ Discredit(x) \/ GiveUp(x)
  <2>1. RunsKept /\ \A r \in RunIds : Uneventful(r)
    BY <1>5 DEF DropLease, Discredit, GiveUp, RunsKept, Uneventful
  <2>2. \A y \in Threads : Rests(y)
    BY <1>0, <1>5, RestBecomes DEF DropLease, Discredit, GiveUp, Goto, Return, Fail, Thread,
       Relying
  <2> QED BY <1>1, <2>1, <2>2, RestKeeps
<1> QED BY <1>2, <1>3, <1>4, <1>5 DEF Waiting

(* A verification records the commit it read before the checks, and only   *)
(* when the branch is still there (verify_with_stop).                      *)
LEMMA EvidenceChecking ==
  ASSUME TypeInv, EvidenceInv, Grows, NEW x \in Threads, Checking(x)
  PROVE  EvidenceInv'
<1> USE DEF evidence, runVars
<1>0. th[x] \in Thread /\ th[x].task \in Tasks /\ ReadTrue(x)
  BY AThread DEF EvidenceInv
<1>1. RunsKept /\ \A r \in RunIds : Uneventful(r)
  BY DEF Checking, Verify, Verification, Before, Check, Judge, Reject, Block, Requeue, RunsKept,
     Uneventful
<1>2. CASE Before(x)
  <2> DEFINE v == [th[x] EXCEPT !.pc = "check", !.commit = CleanCommit(th[x].task)]
  <2>1. v.pc = "check" /\ v.commit = CleanCommit(th[x].task) /\ v.task = th[x].task
    BY <1>0 DEF Thread
  <2>2. Becomes(x, v)
    BY <1>2 DEF Before
  <2>3. head' = head /\ head[th[x].task] \in Nat
    BY <1>0, <1>2 DEF Before, gitVars, TypeInv, TypeOK
  <2>4. EvidenceKept
    BY <1>0, <1>2 DEF Before, EvidenceKept, TypeInv, TypeOK
  <2> HIDE DEF v
  <2>5. /\ th'[x].pc = "check" /\ th'[x].commit = CleanCommit(th[x].task)
        /\ th'[x].task = th[x].task
    BY <2>1, <2>2, Others
  <2>6. ReadTrue(x)' /\ (x \in RunIds => WaitTrue(x)')
    BY <1>0, <2>3, <2>5 DEF ReadTrue, WaitTrue, Launcher, CleanCommit
  <2> QED BY <1>1, <2>2, <2>4, <2>6, MoveKeeps, EvidenceStays DEF EvidenceInv
<1>3. CASE Check(x)
  <2>1. PICK result \in Results :
          /\ tree[th[x].task] = "absent" => result # "pass"
          /\ Becomes(x, [th[x] EXCEPT !.pc = "judge", !.ended = result])
          /\ passed' = IF result = "pass" /\ tree[th[x].task] = "clean"
                       THEN passed \cup {<<th[x].task, head[th[x].task], th[x].list>>} ELSE passed
    BY <1>3 DEF Check
  <2> DEFINE v == [th[x] EXCEPT !.pc = "judge", !.ended = result]
  <2>2. /\ v.pc = "judge" /\ v.ended = result /\ v.commit = th[x].commit
        /\ v.task = th[x].task /\ v.list = th[x].list
    BY <1>0 DEF Thread
  <2>3. Becomes(x, v)
    BY <2>1
  <2> HIDE DEF v
  <2>4. /\ th'[x].pc = "judge" /\ th'[x].ended = result /\ th'[x].commit = th[x].commit
        /\ th'[x].task = th[x].task /\ th'[x].list = th[x].list
    BY <2>2, <2>3, Others
  <2>5. head' = head /\ tree' = tree /\ tree[th[x].task] \in {"absent", "clean", "dirty"}
    BY <1>0, <1>3 DEF Check, gitVars, TypeInv, TypeOK
  <2>6. th[x].commit <= head[th[x].task]
    BY <1>0, <1>3 DEF Check, At, ReadTrue
  <2>7. ReadTrue(x)' /\ (x \in RunIds => WaitTrue(x)')
    BY <2>1, <2>4, <2>5, <2>6 DEF ReadTrue, WaitTrue, Launcher
  <2>8. EvidenceKept
    BY <1>3 DEF Check, EvidenceKept
  <2> QED BY <1>1, <2>3, <2>7, <2>8, MoveKeeps, EvidenceStays DEF EvidenceInv
<1>4. CASE Judge(x)
  <2>1. \A y \in Threads : Rests(y)
    BY <1>0, <1>4, RestBecomes DEF Judge, Return, Thread, Relying
  <2>2. CASE verified' = verified
    <3>1. EvidenceKept
      BY <1>4, <2>2 DEF Judge, EvidenceKept
    <3> QED BY <1>1, <2>1, <3>1, RestKeeps
  <2>3. CASE verified' # verified
    <3>1. /\ th[x].ended = "pass" /\ StillAt(th[x].task, th[x].commit)
          /\ verified' = [verified EXCEPT ![th[x].task] = [commit |-> th[x].commit,
                                                           list |-> th[x].list]]
      BY <1>4, <2>3 DEF Judge
    <3>2. th[x].commit = head[th[x].task] /\ tree[th[x].task] # "dirty"
      BY <3>1 DEF StillAt, CleanCommit
    <3>3. <<th[x].task, th[x].commit, th[x].list>> \in passed
      BY <1>0, <1>4, <3>1, <3>2 DEF Judge, At, ReadTrue
    <3>4. EvidenceIsTrue'
      <4>1. /\ verified'[th[x].task].commit = th[x].commit
            /\ verified'[th[x].task].list = th[x].list
            /\ \A t \in Tasks \ {th[x].task} : verified'[t] = verified[t]
        BY <1>0, <3>1 DEF TypeInv, TypeOK
      <4>2. reviewed' = reviewed /\ passed' = passed /\ approvals' = approvals
        BY <1>4 DEF Judge, history
      <4> QED BY <3>3, <4>1, <4>2 DEF EvidenceInv, EvidenceIsTrue
    <3>5. \A y \in Threads : ReadTrue(y)'
      BY <1>1, <2>1, ReadStays DEF EvidenceInv
    <3>6. \A r \in RunIds : RunTrue(r)' /\ WaitTrue(r)'
      BY <1>1, <2>1, RunStays, WaitStays DEF EvidenceInv, Threads
    <3> QED BY <3>4, <3>5, <3>6 DEF EvidenceInv
  <2> QED BY <2>2, <2>3
<1>5. CASE Verify(x) \/ Verification(x) \/ Reject(x) \/ Block(x) \/ Requeue(x)
  <2>1. \A y \in Threads : Rests(y)
    <3>1. CASE Verify(x) \/ Verification(x)
      BY <1>0, <3>1, RestBecomes DEF Verify, Verification, GotoOrFail, Goto, Fail, Thread,
         Relying
    <3>2. CASE Reject(x) \/ Block(x) \/ Requeue(x)
      BY <1>0, <3>2, RestBecomes DEF Reject, Block, Requeue, Goto, Return, Fail, Thread, Relying
    <3> QED BY <1>5, <3>1, <3>2
  <2>2. EvidenceKept
    BY <1>5 DEF Verify, Verification, Reject, Block, Requeue, EvidenceKept
  <2> QED BY <1>1, <2>1, <2>2, RestKeeps
<1> QED BY <1>2, <1>3, <1>4, <1>5 DEF Checking

(* A review is asked for the commit the branch is at, and an approval is    *)
(* recorded only while the branch is still there (conclude_review).        *)
LEMMA EvidenceReviewing ==
  ASSUME TypeInv, EvidenceInv, Grows, NEW x \in Threads, Reviewing(x)
  PROVE  EvidenceInv'
<1> USE DEF evidence, runVars
<1>0. th[x] \in Thread /\ th[x].task \in Tasks
  BY AThread
<1>1. RunsKept /\ \A r \in RunIds : Uneventful(r)
  BY DEF Reviewing, Review, PickReviewer, Conclude, Approve, RunsKept, Uneventful
<1>2. CASE Review(x) \/ Approve(x)
  <2>1. \A y \in Threads : Rests(y)
    BY <1>0, <1>2, RestBecomes DEF Review, Approve, GotoOrFail, Goto, Return, Fail, Thread,
       Relying
  <2>2. EvidenceKept
    BY <1>2 DEF Review, Approve, EvidenceKept
  <2> QED BY <1>1, <2>1, <2>2, RestKeeps
<1>3. CASE PickReviewer(x)
  <2>1. EvidenceKept
    BY <1>3 DEF PickReviewer, EvidenceKept
  <2>2. CASE Return(x)
    BY <1>0, <1>1, <2>1, <2>2, RestBecomes, RestKeeps DEF Return, Thread, Relying
  <2>3. CASE ~Return(x)
    <3> DEFINE t == th[x].task
    <3>1. PICK a \in Reviewers(t) :
            Becomes(x, [th[x] EXCEPT !.pc = "spawn", !.from = "review", !.start = t,
                                     !.agent = a, !.commit = CleanCommit(t)])
      BY <1>3, <2>3 DEF PickReviewer
    <3> DEFINE v == [th[x] EXCEPT !.pc = "spawn", !.from = "review", !.start = t,
                                  !.agent = a, !.commit = CleanCommit(t)]
    <3>2. v.pc = "spawn" /\ v.start = t /\ v.commit = CleanCommit(t)
      BY <1>0 DEF Thread
    <3>3. Becomes(x, v)
      BY <3>1
    <3> HIDE DEF v
    <3>4. th'[x].pc = "spawn" /\ th'[x].start = t /\ th'[x].commit = CleanCommit(t)
      BY <3>2, <3>3, Others
    <3>5. head' = head /\ head[t] \in Nat
      BY <1>0, <1>3 DEF PickReviewer, gitVars, TypeInv, TypeOK
    <3>6. ReadTrue(x)' /\ (x \in RunIds => WaitTrue(x)')
      BY <3>4, <3>5 DEF ReadTrue, WaitTrue, Launcher, CleanCommit
    <3> QED BY <1>1, <2>1, <3>3, <3>6, MoveKeeps, EvidenceStays DEF EvidenceInv
  <2> QED BY <2>2, <2>3
<1>4. CASE Conclude(x)
  <2>1. \A y \in Threads : Rests(y)
    BY <1>0, <1>4, RestBecomes DEF Conclude, Goto, Fail, Thread, Relying
  <2>2. CASE reviewed' = reviewed
    <3>1. EvidenceKept
      BY <1>4, <2>2 DEF Conclude, EvidenceKept
    <3> QED BY <1>1, <2>1, <3>1, RestKeeps
  <2>3. CASE reviewed' # reviewed
    <3>1. /\ th[x].ended = "ok" /\ StillAt(th[x].task, runs[x].input)
          /\ reviewed' = [reviewed EXCEPT ![th[x].task] = [commit |-> runs[x].input,
                                                           reviewer |-> runs[x].agent]]
      BY <1>4, <2>3 DEF Conclude
    <3>2. /\ x \in RunIds /\ Approves(x) /\ th[x].task = runs[x].task
          /\ runs[x].phase = "Review"
      BY <1>4, <3>1 DEF Conclude, At, EvidenceInv, WaitTrue
    <3>3. runs[x].input = head[runs[x].task]
      BY <3>1, <3>2 DEF StillAt, CleanCommit
    <3>4. <<th[x].task, runs[x].input, runs[x].agent>> \in approvals
      BY <3>2, <3>3 DEF Approves
    <3>5. EvidenceIsTrue'
      <4>1. /\ reviewed'[th[x].task].commit = runs[x].input
            /\ reviewed'[th[x].task].reviewer = runs[x].agent
            /\ \A t \in Tasks \ {th[x].task} : reviewed'[t] = reviewed[t]
        BY <1>0, <3>1 DEF TypeInv, TypeOK
      <4>2. verified' = verified /\ passed' = passed /\ approvals' = approvals
        BY <1>4 DEF Conclude, history
      <4> QED BY <3>4, <4>1, <4>2 DEF EvidenceInv, EvidenceIsTrue
    <3>6. \A y \in Threads : ReadTrue(y)'
      BY <1>1, <2>1, ReadStays DEF EvidenceInv
    <3>7. \A r \in RunIds : RunTrue(r)' /\ WaitTrue(r)'
      BY <1>1, <2>1, RunStays, WaitStays DEF EvidenceInv, Threads
    <3> QED BY <3>5, <3>6, <3>7 DEF EvidenceInv
  <2> QED BY <2>2, <2>3
<1> QED BY <1>2, <1>3, <1>4 DEF Reviewing

(* Landing, returning and commands rely on nothing new: a conflict that is *)
(* resolved has its checks run again from the start.                       *)
LEMMA EvidenceElsewhere ==
  ASSUME TypeInv, EvidenceInv, Grows, NEW x \in Threads,
         Landing(x) \/ Returning(x) \/ Retry(x) \/ Halt(x) \/ Kill(x)
  PROVE  EvidenceInv'
<1> USE DEF evidence, runVars
<1>0. th[x] \in Thread
  BY AThread
<1>1. CASE Landing(x)
  <2>1. EvidenceKept /\ RunsKept /\ \A r \in RunIds : Uneventful(r)
    BY <1>1 DEF Landing, Merge, CheckEvidence, LandOk, LandStops, MarkMerged, Arrived, Landed,
       Remove, AskPerson, ResolveByMerge, ResolveByAgent, EvidenceKept, RunsKept, Uneventful
  <2>2. \A y \in Threads : Rests(y)
    <3>1. CASE Merge(x) \/ LandOk(x) \/ LandStops(x) \/ CheckEvidence(x)
      BY <1>0, <3>1, RestBecomes DEF Merge, LandOk, LandStops, CheckEvidence, Goto, Fail, Thread,
         Relying
    <3>2. CASE MarkMerged(x) \/ Landed(x) \/ Remove(x)
      BY <1>0, <3>2, RestBecomes DEF MarkMerged, Landed, Remove, Return, Fail, Goto, Thread,
         Relying
    <3>3. CASE Arrived(x)
      BY <1>0, <3>3, RestBecomes DEF Arrived, Fail, Thread, Relying
    <3>4. CASE AskPerson(x) \/ ResolveByMerge(x) \/ ResolveByAgent(x)
      BY <1>0, <3>4, RestBecomes DEF AskPerson, ResolveByMerge, ResolveByAgent, Goto, Thread,
         Relying
    <3> QED BY <1>1, <3>1, <3>2, <3>3, <3>4 DEF Landing
  <2> QED BY <2>1, <2>2, RestKeeps
<1>2. CASE Returning(x)
  <2>1. EvidenceKept /\ RunsKept /\ \A r \in RunIds : Uneventful(r)
    BY <1>2 DEF Returning, ReturnFromVerify, ReturnFromApprove, ReturnFromRun, Report,
       ReturnFromVerifyCommand, ReturnFromCommand, EvidenceKept, RunsKept, Uneventful
  <2>2. \A y \in Threads : Rests(y)
    <3>1. CASE ReturnFromVerify(x)
      BY <1>0, <3>1, RestBecomes DEF ReturnFromVerify, At, Thread, Relying
    <3>2. CASE ReturnFromApprove(x)
      <4> DEFINE v == [th[x] EXCEPT !.duty = {}, !.err = @ /\ ~MayMove(th[x].task, "Review")]
      <4>1. v.pc = "ret"
        BY <1>0, <3>2 DEF ReturnFromApprove, At, Thread
      <4> QED BY <3>2, <4>1, RestBecomes DEF ReturnFromApprove, Relying
    <3>3. CASE ReturnFromRun(x) \/ Report(x)
      BY <1>0, <3>3, RestBecomes DEF ReturnFromRun, Report, Thread, Relying
    <3>4. CASE ReturnFromVerifyCommand(x) \/ ReturnFromCommand(x)
      BY <1>0, <3>4, RestBecomes DEF ReturnFromVerifyCommand, ReturnFromCommand, Goto, Leave,
         Idle, Thread, Relying
    <3> QED BY <1>2, <3>1, <3>2, <3>3, <3>4 DEF Returning
  <2> QED BY <2>1, <2>2, RestKeeps
<1>3. CASE Retry(x) \/ Halt(x) \/ Kill(x)
  <2>1. RunsKept /\ \A r \in RunIds : Uneventful(r)
    <3>1. CASE Kill(x)
      BY <3>1, StopKept DEF Kill
    <3>2. CASE Retry(x) \/ Halt(x)
      BY <3>2 DEF Retry, Halt, RunsKept, Uneventful
    <3> QED BY <1>3, <3>1, <3>2
  <2>2. EvidenceKept
    BY <1>3 DEF Retry, Halt, Kill, EvidenceKept
  <2>3. \A y \in Threads : Rests(y)
    BY <1>0, <1>3, RestBecomes DEF Retry, Halt, Kill, BeginTick, Goto, Leave, Idle, Thread,
       Relying
  <2> QED BY <2>1, <2>2, <2>3, RestKeeps
<1> QED BY <1>1, <1>2, <1>3

(* A command begins with no reviewer to start. *)
LEMMA EvidenceCommand ==
  ASSUME TypeInv, EvidenceInv, Grows, NEW p \in People, Command(p)
  PROVE  EvidenceInv'
<1> USE DEF evidence, runVars
<1>0. p \in Threads
  BY DEF Threads
<1>1. EvidenceKept /\ RunsKept /\ \A r \in RunIds : Uneventful(r)
  BY DEF Command, AskStep, AskVerify, AskRun, AskReady, AskRetry, AskCancel, AskStart, AskPause,
     AskAssign, AskConfigure, PersonMerges, EvidenceKept, RunsKept, Uneventful
<1>2. CASE AskRun(p)
  <2>1. PICK t \in Tasks, a \in Agents :
          Becomes(p, [Idle EXCEPT !.pc = "claim", !.job = "command",
                                  !.task = t, !.start = t, !.agent = a, !.from = "command"])
    BY <1>2 DEF AskRun
  <2> DEFINE v == [Idle EXCEPT !.pc = "claim", !.job = "command",
                               !.task = t, !.start = t, !.agent = a, !.from = "command"]
  <2>2. v.pc = "claim" /\ v.from = "command" /\ Becomes(p, v)
    BY <2>1 DEF Idle
  <2> HIDE DEF v
  <2>3. th'[p].pc = "claim" /\ th'[p].from = "command"
    BY <1>0, <2>2, Others
  <2>4. ReadTrue(p)' /\ (p \in RunIds => WaitTrue(p)')
    BY <2>3 DEF ReadTrue, WaitTrue, Launcher
  <2> QED BY <1>0, <1>1, <2>2, <2>4, MoveKeeps, EvidenceStays DEF EvidenceInv
<1>3. CASE ~AskRun(p)
  <2>1. CASE AskStep(p)
    <3>1. PICK c \in DOMAIN FirstStep, t \in Tasks : Begin(p, FirstStep[c], t)
      BY <2>1 DEF AskStep
    <3>2. FirstStep[c] \in {"review", "merge", "merged"}
      BY DEF FirstStep
    <3> QED BY <1>0, <1>1, <3>1, <3>2, RestBecomes, RestKeeps DEF Begin, Idle, Relying
  <2>2. CASE AskVerify(p) \/ AskReady(p) \/ AskRetry(p) \/ AskCancel(p) \/ AskStart(p)
    BY <1>0, <1>1, <2>2, RestBecomes, RestKeeps DEF AskVerify, AskReady, AskRetry, AskCancel,
       AskStart, Begin, BeginTick, Idle, Relying
  <2>3. CASE AskPause(p) \/ AskAssign(p) \/ AskConfigure(p) \/ PersonMerges(p)
    BY <1>1, <2>3, RestKeeps DEF AskPause, AskAssign, AskConfigure, PersonMerges, Rests
  <2> QED BY <1>3, <2>1, <2>2, <2>3 DEF Command
<1> QED BY <1>2, <1>3

(* A reviewer that ends well has approved the commit its branch is at. *)
LEMMA EvidenceAgent ==
  ASSUME TypeInv, EvidenceInv, Grows, NEW r \in RunIds, Agent(r)
  PROVE  EvidenceInv'
<1> USE DEF evidence, runVars
<1>0. (\A y \in Threads : Rests(y)) /\ EvidenceKept
  BY DEF Agent, Edit, Commit, Exit, Rests, EvidenceKept
<1>1. CASE Edit(r) \/ Commit(r)
  <2>1. RunsKept /\ \A q \in RunIds : Uneventful(q)
    BY <1>1 DEF Edit, Commit, RunsKept, Uneventful
  <2> QED BY <1>0, <2>1, RestKeeps
<1>2. ASSUME NEW how \in Exits, Exit(r, how) PROVE EvidenceInv'
  <2>1. /\ runs'[r] = [runs[r] EXCEPT !.proc = how]
        /\ \A q \in RunIds \ {r} : runs'[q] = runs[q]
    BY <1>2 DEF Exit, TypeInv, TypeOK
  <2>2. runs[r] \in Run /\ runs[r].task \in Tasks
    BY DEF TypeInv, TypeOK, Run
  <2>3. /\ runs'[r].task = runs[r].task /\ runs'[r].agent = runs[r].agent
        /\ runs'[r].phase = runs[r].phase /\ runs'[r].input = runs[r].input
        /\ runs'[r].outcome = runs[r].outcome /\ runs'[r].proc = how
    BY <2>1, <2>2 DEF Run
  <2>4. RunsKept /\ \A q \in RunIds \ {r} : Uneventful(q)
    BY <1>2, <2>1, <2>3 DEF Exit, RunsKept, Uneventful
  <2>5. head' = head /\ sessions' = sessions
    BY <1>2 DEF Exit, gitVars
  <2>6. how = "ok" /\ runs[r].phase = "Review"
          => <<runs[r].task, head[runs[r].task], runs[r].agent>> \in approvals'
    BY <1>2 DEF Exit
  <2>7. RunTrue(r)'
    <3>1. runs'[r].proc = "ok" => Approves(r)'
      BY <2>3, <2>5, <2>6 DEF Approves
    <3>2. RunTrue(r)
      BY DEF EvidenceInv
    <3> QED BY <2>3, <2>5, <3>1, <3>2 DEF RunTrue
  <2>8. \A q \in RunIds : RunTrue(q)' /\ WaitTrue(q)'
    BY <1>0, <2>4, <2>7, RunStays, WaitStays DEF EvidenceInv, Threads
  <2>9. \A y \in Threads : ReadTrue(y)'
    BY <1>0, <2>4, ReadStays DEF EvidenceInv
  <2> QED BY <1>0, <2>8, <2>9, EvidenceStays DEF EvidenceInv
<1> QED BY <1>1, <1>2 DEF Agent

(* Every step keeps the evidence true. *)
LEMMA EvidenceStep ==
  ASSUME TypeInv, EvidenceInv, [Next]_vars
  PROVE  EvidenceInv'
<1>0. Grows
  BY StepGrows
<1>1. CASE UNCHANGED vars
  BY <1>0, <1>1, RestKeeps DEF vars, evidence, runVars, RunsKept, Uneventful, EvidenceKept, Rests
<1>2. CASE Restart
  <2>1. \A x \in Threads : th'[x].pc = "idle"
    BY <1>2 DEF Restart, Idle
  <2>2. \A r \in RunIds : runs'[r].outcome = "none" /\ runs'[r].proc = "gone"
    BY <1>2 DEF Restart, NoRun
  <2>3. \A y \in Threads : ReadTrue(y)'
    BY <2>1 DEF ReadTrue, Launcher
  <2>4. \A r \in RunIds : RunTrue(r)' /\ WaitTrue(r)'
    BY <1>2, <2>1, <2>2 DEF Restart, RunTrue, WaitTrue, Threads
  <2>5. EvidenceIsTrue'
    BY <1>2 DEF Restart, EvidenceIsTrue, NoEvidence, NoReview
  <2> QED BY <2>3, <2>4, <2>5 DEF EvidenceInv
<1> QED BY <1>0, <1>1, <1>2, EvidenceScheduling, EvidenceStarting, EvidenceWaiting,
        EvidenceChecking, EvidenceReviewing, EvidenceElsewhere, EvidenceCommand, EvidenceAgent
        DEF Next, Step

(* There is no evidence when the farm is created. *)
LEMMA InitEvidence == Init => EvidenceInv
<1> SUFFICES ASSUME Init PROVE EvidenceInv
  OBVIOUS
<1>1. EvidenceIsTrue
  BY DEF Init, EvidenceIsTrue, NoEvidence, NoReview
<1>2. \A x \in Threads : ReadTrue(x)
  BY DEF Init, Idle, ReadTrue, Launcher
<1>3. \A r \in RunIds : RunTrue(r) /\ WaitTrue(r)
  BY DEF Init, NoRun, Idle, RunTrue, WaitTrue, Threads
<1> QED BY <1>1, <1>2, <1>3 DEF EvidenceInv

(* A recorded verification really passed on its commit, and a recorded     *)
(* approval was really given to its commit: none is recorded for work that *)
(* changed while the checks or the reviewer ran, however the threads       *)
(* interleave (verify_with_stop, conclude_review).                         *)
THEOREM EvidenceStaysTrue == Spec => []EvidenceIsTrue
<1>1. TypeInv /\ EvidenceInv /\ [Next]_vars => EvidenceInv'
  BY EvidenceStep
<1>2. EvidenceInv => EvidenceIsTrue
  BY DEF EvidenceInv
<1> QED BY <1>1, <1>2, InitEvidence, InitTyped, StepTyped, PTL DEF Spec

-----------------------------------------------------------------------------
(* What lands by itself. *)

(* A merge that was let through will have been earned, after a step. *)
Earned(c) == /\ <<c.task, c.commit, c.list>> \in passed'
             /\ <<c.task, c.commit, c.reviewer>> \in approvals'
             /\ c.reviewer # c.by /\ c.by # NoAgent

(* What a thread is landing by itself was let through. *)
LetThrough(x) == At(x, "land") /\ IsAutomatic(x) =>
                   \E c \in cleared : c.task = th[x].task /\ c.commit = th[x].commit

(* Every step keeps what lands by itself earned: the evidence the look at   *)
(* it relied on was true, and what was said of a commit stays said.        *)
LEMMA AutoLandStep ==
  ASSUME TypeInv, EvidenceInv, AutoLandIsEarned, [Next]_vars
  PROVE  AutoLandIsEarned'
<1>0. Grows /\ \A x \in Threads : th[x] \in Thread /\ th[x].task \in Tasks
  BY StepGrows, AThread
<1>1. \A c \in cleared : Earned(c)
  BY <1>0 DEF AutoLandIsEarned, Earned, Grows
<1>2. ASSUME UNCHANGED cleared, NEW x \in Threads, \A y \in Threads \ {x} : LetThrough(y)',
             th'[x].pc # "land"
      PROVE  AutoLandIsEarned'
  BY <1>1, <1>2 DEF AutoLandIsEarned, Earned, LetThrough, At
<1>3. ASSUME NEW x \in Threads, NEW v, Becomes(x, v), v.pc # "land", UNCHANGED cleared
      PROVE  AutoLandIsEarned'
  <2>1. th'[x].pc # "land" /\ \A y \in Threads \ {x} : th'[y] = th[y]
    BY <1>3, Others
  <2> QED BY <1>2, <1>3, <2>1 DEF AutoLandIsEarned, LetThrough, At, IsAutomatic
<1>4. ASSUME NEW x \in Threads, CheckEvidence(x) PROVE AutoLandIsEarned'
  <2> DEFINE t  == th[x].task
             c  == CleanCommit(t)
             by == th[x].agent
             ok == c # 0 /\ (IsAutomatic(x) => CheckMergeEvidence(t, c, by))
             e  == [task |-> t, commit |-> c, list |-> checkList, by |-> by,
                    reviewer |-> reviewed[t].reviewer]
             v  == [th[x] EXCEPT !.agent = NoAgent, !.pc = IF ok THEN "land" ELSE "ret",
                                 !.commit = IF ok THEN c ELSE 0, !.err = ~ok]
  <2>1. Becomes(x, v) /\ cleared' = IF ok /\ IsAutomatic(x) THEN cleared \cup {e} ELSE cleared
    BY <1>4 DEF CheckEvidence
  <2>2. /\ v.pc = (IF ok THEN "land" ELSE "ret") /\ v.commit = (IF ok THEN c ELSE 0)
        /\ v.task = t /\ v.duty = th[x].duty
    BY <1>0 DEF Thread
  <2>3. ok /\ IsAutomatic(x) => Earned(e)
    <3> SUFFICES ASSUME ok, IsAutomatic(x) PROVE Earned(e)
      OBVIOUS
    <3>1. /\ c # 0 /\ verified[t] = [commit |-> c, list |-> checkList]
          /\ reviewed[t].commit = c /\ by # NoAgent /\ by # reviewed[t].reviewer
      BY DEF CheckMergeEvidence
    <3>2. verified[t].commit = c /\ verified[t].list = checkList
      BY <3>1
    <3>3. /\ <<t, c, checkList>> \in passed
          /\ <<t, c, reviewed[t].reviewer>> \in approvals
      BY <1>0, <3>1, <3>2 DEF EvidenceInv, EvidenceIsTrue
    <3>4. passed \subseteq passed' /\ approvals \subseteq approvals'
      BY <1>0 DEF Grows
    <3>5. <<t, c, checkList>> \in passed' /\ <<t, c, reviewed[t].reviewer>> \in approvals'
      BY <3>3, <3>4
    <3> HIDE DEF t, c, by, ok
    <3>6. /\ e.task = t /\ e.commit = c /\ e.list = checkList /\ e.by = by
          /\ e.reviewer = reviewed[t].reviewer
      OBVIOUS
    <3> QED BY <3>1, <3>5, <3>6 DEF Earned
  <2> HIDE DEF v, e, ok
  <2>4. th'[x] = v /\ \A y \in Threads \ {x} : th'[y] = th[y]
    BY <2>1, Others
  <2>5. LetThrough(x)'
    <3> SUFFICES ASSUME th'[x].pc = "land", "approve" \in th'[x].duty
                 PROVE  \E d \in cleared' : d.task = th'[x].task /\ d.commit = th'[x].commit
      BY DEF LetThrough, At, IsAutomatic
    <3>1. ok /\ IsAutomatic(x)
      BY <2>2, <2>4 DEF IsAutomatic
    <3>2. e.task = th'[x].task /\ e.commit = th'[x].commit
      BY <2>2, <2>4, <3>1 DEF e
    <3> QED BY <2>1, <3>1, <3>2
  <2>6. \A y \in Threads \ {x} : LetThrough(y)'
    BY <2>1, <2>4 DEF AutoLandIsEarned, LetThrough, At, IsAutomatic
  <2>7. \A d \in cleared' : Earned(d)
    BY <1>1, <2>1, <2>3
  <2> QED BY <2>5, <2>6, <2>7 DEF AutoLandIsEarned, Earned, LetThrough
<1>5. ASSUME NEW x \in Threads, Takes(x), ~CheckEvidence(x) PROVE AutoLandIsEarned'
  <2> USE DEF history
  <2>1. CASE Tick(x) \/ ActStart(x)
    BY <1>0, <1>3, <2>1 DEF Tick, ActStart, Thread
  <2>2. CASE Claim(x) \/ Assign(x) \/ Cut(x)
    BY <1>0, <1>3, <2>2 DEF Claim, Assign, Cut, StartEnds, Goto, Thread
  <2>3. CASE Merge(x) \/ LandOk(x)
    BY <1>0, <1>3, <2>3 DEF Merge, LandOk, Fail, Goto, Thread
  <2>4. CASE MarkMerged(x) \/ Landed(x)
    BY <1>0, <1>3, <2>4 DEF MarkMerged, Landed, Return, Fail, Goto, Thread
  <2>5. CASE Arrived(x)
    BY <1>0, <1>3, <2>5 DEF Arrived, Fail, Thread
  <2> QED BY <1>5, <2>1, <2>2, <2>3, <2>4, <2>5 DEF Takes
<1>6. ASSUME NEW p \in People, AskRun(p) \/ AskRetry(p) PROVE AutoLandIsEarned'
  <2>0. p \in Threads
    BY DEF Threads
  <2> QED BY <1>3, <1>6, <2>0 DEF AskRun, AskRetry, Begin, Idle, history
<1>7. CASE (\A x \in Threads : ~Takes(x)) /\ \A p \in People : ~AskRun(p) /\ ~AskRetry(p)
  <2>1. (\A y \in Threads : Calm(y)) /\ UNCHANGED cleared
    BY <1>7, OthersAreCalm
  <2> QED BY <1>1, <2>1 DEF AutoLandIsEarned, Earned, Calm, Locked, At, IsAutomatic
<1> QED BY <1>4, <1>5, <1>6, <1>7

(* Nothing lands by itself that was not earned: its checks, as they are in *)
(* force, had passed on that commit, and another than its implementer had  *)
(* approved it (check_merge_evidence, merge_checked).                      *)
THEOREM LandingsAreEarned == Spec => []AutoLandIsEarned
<1>1. Init => AutoLandIsEarned
  BY DEF Init, Idle, AutoLandIsEarned, At
<1>2. TypeInv /\ EvidenceInv /\ [Next]_vars => EvidenceInv'
  BY EvidenceStep
<1>3. TypeInv /\ EvidenceInv /\ AutoLandIsEarned /\ [Next]_vars => AutoLandIsEarned'
  BY AutoLandStep
<1> QED BY <1>1, <1>2, <1>3, InitEvidence, InitTyped, StepTyped, PTL DEF Spec
=============================================================================

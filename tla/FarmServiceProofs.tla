------------------------- MODULE FarmServiceProofs --------------------------
(***************************************************************************)
(* What the agent farm never does, proved for any farm, any agents, any    *)
(* number of people, runs and commits; and, where nobody retries a task,   *)
(* in what order work is started and done.                                 *)
(***************************************************************************)
EXTENDS FarmServiceTypes, FiniteSetTheorems, WellFoundedInduction

(* Leases. *)

(* Only the claim of a starting agent takes a lease; every other step       *)
(* keeps the leases or gives some back (Leases::acquire and release).       *)
LEMMA OnlyClaimTakesLeases ==
  ASSUME [Next]_vars, \A x \in Threads : ~Claim(x)
  PROVE  leases' \subseteq leases
<1>1. CASE UNCHANGED vars
  BY <1>1 DEF vars
<1>2. ASSUME NEW x \in Threads, Scheduling(x) PROVE leases' \subseteq leases
  BY <1>2 DEF Scheduling, Tick, TickEnds, ActBlock, ActSettle, ActStart, ActRefused, SetStatus
<1>3. ASSUME NEW x \in Threads, Starting(x) PROVE leases' \subseteq leases
  BY <1>3 DEF Starting, Assign, Cut, Spawn, SetRunning, Register, Enqueue, SetStatus
<1>4. ASSUME NEW x \in Threads, Waiting(x) PROVE leases' \subseteq leases
  BY <1>4 DEF Waiting, WatchPending, Await, Finish, DropLease, Discredit, GiveUp, ReleaseAndSet
<1>5. ASSUME NEW x \in Threads, Checking(x) PROVE leases' \subseteq leases
  BY <1>5 DEF Checking, Verify, Verification, Before, Check, Judge, Reject, Block, Requeue,
              SetStatus
<1>6. ASSUME NEW x \in Threads, Reviewing(x) PROVE leases' \subseteq leases
  BY <1>6 DEF Reviewing, Review, PickReviewer, Conclude, Approve, SetStatus
<1>7. ASSUME NEW x \in Threads, Landing(x) PROVE leases' \subseteq leases
  BY <1>7 DEF Landing, Merge, CheckEvidence, LandOk, LandStops, MarkMerged, Arrived, Landed,
              Remove, AskPerson, ResolveByMerge, ResolveByAgent, SetStatus
<1>8. ASSUME NEW x \in Threads, Returning(x) PROVE leases' \subseteq leases
  BY <1>8 DEF Returning, ReturnFromVerify, ReturnFromApprove, ReturnFromRun, Report,
              ReturnFromVerifyCommand, ReturnFromCommand, SetStatus
<1>9. ASSUME NEW p \in Threads, Retry(p) \/ Halt(p) \/ Kill(p) PROVE leases' \subseteq leases
  BY <1>9 DEF Retry, Halt, Kill
<1>10. ASSUME NEW p \in People, Command(p) PROVE leases' \subseteq leases
  BY <1>10 DEF Command, AskStep, AskVerify, AskRun, AskReady, AskRetry, AskCancel, AskStart,
               AskPause, AskAssign, AskConfigure, PersonMerges, SetStatus
<1>11. ASSUME NEW r \in RunIds, Agent(r) PROVE leases' \subseteq leases
  BY <1>11 DEF Agent, Edit, Commit, Exit
<1>12. CASE Restart
  BY <1>12 DEF Restart
<1> QED
  BY <1>1, <1>2, <1>3, <1>4, <1>5, <1>6, <1>7, <1>8, <1>9, <1>10, <1>11, <1>12 DEF Next, Step

(* Two tasks that can write the same file never hold their leases at once. *)
THEOREM LeasesStayDisjoint == Spec => []LeasesDisjoint
<1>1. Init => LeasesDisjoint
  BY DEF Init, LeasesDisjoint
<1>2. LeasesDisjoint /\ [Next]_vars => LeasesDisjoint'
  <2> SUFFICES ASSUME LeasesDisjoint, [Next]_vars PROVE LeasesDisjoint'
    OBVIOUS
  <2>1. CASE \A x \in Threads : ~Claim(x)
    BY <2>1, OnlyClaimTakesLeases DEF LeasesDisjoint
  <2>2. ASSUME NEW x \in Threads, Claim(x) PROVE LeasesDisjoint'
    <3>1. CASE Contended(th[x].start, leases)
      BY <2>2, <3>1 DEF Claim, LeasesDisjoint
    <3>2. CASE ~Contended(th[x].start, leases)
      <4>1. leases' = leases \cup {th[x].start}
        BY <2>2, <3>2 DEF Claim
      <4>2. \A h \in leases \ {th[x].start} : <<h, th[x].start>> \notin Overlap
        BY <3>2 DEF Contended
      (* Overlap is symmetric, so a conflict would be seen from either side. *)
      <4>3. \A h \in leases \ {th[x].start} : <<th[x].start, h>> \notin Overlap
        BY <4>2, TaskGraphAssumption
      <4> QED BY <4>1, <4>2, <4>3 DEF LeasesDisjoint
    <3> QED BY <3>1, <3>2
  <2> QED BY <2>1, <2>2
<1> QED BY <1>1, <1>2, PTL DEF Spec

-----------------------------------------------------------------------------
(* Verifications. *)

(* Only the thread that takes a step changes. *)
LEMMA Others ==
  ASSUME TypeInv, NEW x \in Threads, NEW v, Becomes(x, v)
  PROVE  th'[x] = v /\ \A y \in Threads \ {x} : th'[y] = th[y]
BY DEF TypeInv, Becomes

(* A thread that has a stop flag to give back verifies a task whose flag is set. *)
StopHeld == \A x \in Threads : "stop" \in th[x].duty => stops[th[x].task] # "none"

(* A thread takes on no stop flag, and one it has is still for the same task. *)
Kept(y) == "stop" \in th'[y].duty => "stop" \in th[y].duty /\ th'[y].task = th[y].task

(* When a thread takes a step that takes on no stop flag and does not      *)
(* change the task it holds one for, every thread keeps the flags it has.  *)
LEMMA DutyBecomes ==
  ASSUME TypeInv, NEW x \in Threads, NEW v, Becomes(x, v),
         "stop" \in v.duty => "stop" \in th[x].duty /\ v.task = th[x].task
  PROVE  \A y \in Threads : Kept(y)
BY Others DEF Kept

(* So it is when a thread only goes on, returns, or ends a start.          *)
LEMMA DutyGoes ==
  ASSUME TypeInv, NEW x \in Threads
  PROVE  /\ \A pc : Goto(x, pc) => \A y \in Threads : Kept(y)
         /\ Return(x) \/ Fail(x) => \A y \in Threads : Kept(y)
         /\ \A err : StartEnds(x, err) => \A y \in Threads : Kept(y)
<1>0. th[x] \in Thread
  BY AThread
<1>1. ASSUME NEW pc, Goto(x, pc) PROVE \A y \in Threads : Kept(y)
  BY <1>0, <1>1, DutyBecomes DEF Goto, Thread
<1>2. CASE Return(x) \/ Fail(x)
  BY <1>0, <1>2, DutyBecomes DEF Return, Fail, Thread
<1>3. ASSUME NEW err, StartEnds(x, err) PROVE \A y \in Threads : Kept(y)
  BY <1>0, <1>3, DutyBecomes DEF StartEnds, Thread
<1> QED BY <1>1, <1>2, <1>3

(* Only Verify takes a stop flag and only ReturnFromVerify gives one back, *)
(* and the flag a thread holds is for the same task until then (verify,    *)
(* verify_with_stop).                                                      *)
LEMMA DutyKept ==
  ASSUME TypeInv, [Next]_vars, \A x \in Threads : ~Verify(x) /\ ~ReturnFromVerify(x), ~Restart
  PROVE  /\ \A y \in Threads : Kept(y)
         /\ \A t \in Tasks : stops[t] # "none" => stops'[t] # "none"
<1> DEFINE Held == \A t \in Tasks : stops[t] # "none" => stops'[t] # "none"
           AllKept == \A y \in Threads : Kept(y)
<1>0. \A x \in Threads : {"duty", "task"} \subseteq DOMAIN th[x]
  BY AThread DEF Thread
<1>1. CASE UNCHANGED vars
  BY <1>1 DEF vars, Kept
<1>2. ASSUME NEW x \in Threads, Scheduling(x) PROVE AllKept /\ Held
  BY <1>0, <1>2, DutyBecomes, DutyGoes
     DEF Scheduling, Tick, TickEnds, ActBlock, ActSettle, ActStart, ActRefused
<1>3. ASSUME NEW x \in Threads, Starting(x) PROVE AllKept /\ Held
  BY <1>0, <1>3, DutyBecomes, DutyGoes
     DEF Starting, Claim, Assign, Cut, Spawn, SetRunning, Register, Enqueue
<1>4. ASSUME NEW x \in Threads, Waiting(x) PROVE AllKept /\ Held
  <2>1. CASE WatchPending(x)
    <3>1. ASSUME NEW y \in Threads PROVE Kept(y)
      BY <2>1 DEF WatchPending, Idle, Kept
    <3> QED BY <2>1, <3>1 DEF WatchPending
  <2>2. CASE ~WatchPending(x)
    BY <1>0, <1>4, <2>2, DutyBecomes, DutyGoes
       DEF Waiting, Await, Finish, DropLease, Discredit, GiveUp
  <2> QED BY <2>1, <2>2
<1>5. ASSUME NEW x \in Threads, Checking(x) PROVE AllKept /\ Held
  BY <1>0, <1>5, DutyBecomes, DutyGoes
     DEF Checking, Verification, Before, Check, Judge, Reject, Block, Requeue, GotoOrFail
<1>6. ASSUME NEW x \in Threads, Reviewing(x) PROVE AllKept /\ Held
  BY <1>0, <1>6, DutyBecomes, DutyGoes
     DEF Reviewing, Review, PickReviewer, Conclude, Approve, GotoOrFail
<1>7. ASSUME NEW x \in Threads, Landing(x) PROVE AllKept /\ Held
  <2>1. CASE Merge(x) \/ CheckEvidence(x) \/ LandOk(x) \/ LandStops(x)
    BY <1>0, <2>1, DutyBecomes, DutyGoes
       DEF Merge, CheckEvidence, LandOk, LandStops
  <2>2. CASE MarkMerged(x) \/ Arrived(x) \/ Landed(x) \/ Remove(x)
    BY <1>0, <2>2, DutyBecomes, DutyGoes
       DEF MarkMerged, Arrived, Landed, Remove
  <2>3. CASE AskPerson(x) \/ ResolveByMerge(x) \/ ResolveByAgent(x)
    BY <1>0, <2>3, DutyBecomes, DutyGoes
       DEF AskPerson, ResolveByMerge, ResolveByAgent
  <2> QED BY <1>7, <2>1, <2>2, <2>3 DEF Landing
<1>8. ASSUME NEW x \in Threads, Returning(x) PROVE AllKept /\ Held
  <2>1. CASE ReturnFromApprove(x) \/ ReturnFromRun(x) \/ Report(x)
    BY <1>0, <2>1, DutyBecomes DEF ReturnFromApprove, ReturnFromRun, Report
  <2>2. CASE ReturnFromVerifyCommand(x) \/ ReturnFromCommand(x)
    BY <1>0, <2>2, DutyBecomes, DutyGoes
       DEF ReturnFromVerifyCommand, ReturnFromCommand, Leave, Idle
  <2> QED BY <1>8, <2>1, <2>2 DEF Returning
<1>9. ASSUME NEW x \in Threads, Retry(x) \/ Halt(x) \/ Kill(x) PROVE AllKept /\ Held
  <2>1. AllKept
    BY <1>0, <1>9, DutyBecomes, DutyGoes
       DEF Retry, Halt, Kill, BeginTick, Leave, Idle
  <2>2. CASE Halt(x)
    <3>1. stops \in [Tasks -> {"none", "going", "stopping"}]
      BY DEF TypeInv, TypeOK
    <3> QED BY <2>1, <2>2, <3>1 DEF Halt
  <2>3. CASE Retry(x) \/ Kill(x)
    BY <2>1, <2>3 DEF Retry, Kill
  <2> QED BY <1>9, <2>2, <2>3
<1>10. ASSUME NEW x \in People, Command(x) PROVE AllKept /\ Held
  <2>1. x \in Threads
    BY DEF Threads
  <2>2. CASE AskPause(x) \/ AskAssign(x) \/ AskConfigure(x) \/ PersonMerges(x)
    BY <2>2 DEF AskPause, AskAssign, AskConfigure, PersonMerges, Kept
  <2>3. CASE ~(AskPause(x) \/ AskAssign(x) \/ AskConfigure(x) \/ PersonMerges(x))
    BY <1>10, <2>1, <2>3, DutyBecomes DEF Command, AskStep, AskVerify, AskRun, AskReady,
       AskRetry, AskCancel, AskStart, Begin, BeginTick, Idle
  <2> QED BY <2>2, <2>3
<1>11. ASSUME NEW r \in RunIds, Agent(r) PROVE AllKept /\ Held
  BY <1>11 DEF Agent, Edit, Commit, Exit, Kept
<1> QED BY <1>1, <1>2, <1>3, <1>4, <1>5, <1>6, <1>7, <1>8, <1>9, <1>10, <1>11
        DEF Next, Step

(* A step lets no second thread verify a task that is being verified (the  *)
(* entry of verification_stops is tested and made under one lock).         *)
LEMMA OneVerificationStep ==
  ASSUME TypeInv, [Next]_vars, StopHeld, OneVerification
  PROVE  StopHeld' /\ OneVerification'
<1>0. \A x \in Threads : th[x] \in Thread
  BY AThread
<1>1. CASE Restart
  BY <1>1 DEF Restart, Idle, StopHeld, OneVerification
<1>2. ASSUME NEW x \in Threads, Verify(x) PROVE StopHeld' /\ OneVerification'
  <2>1. CASE Verifying(th[x].task)
    <3>1. \A y \in Threads : Kept(y)
      BY <1>0, <1>2, <2>1, DutyBecomes DEF Verify, Fail, Thread
    <3>2. stops' = stops
      BY <1>2, <2>1 DEF Verify
    <3> QED BY <3>1, <3>2 DEF Kept, StopHeld, OneVerification
  <2>2. CASE ~Verifying(th[x].task)
    <3>1. \A y \in Threads \ {x} : th'[y] = th[y]
      BY <1>2, <2>2, Others DEF Verify
    <3>2. th'[x].task = th[x].task
      <4> DEFINE v == [th[x] EXCEPT !.pc = "verification", !.list = checkList,
                                    !.duty = @ \cup {"stop"}]
      <4>1. Becomes(x, v)
        BY <1>2, <2>2 DEF Verify
      <4>2. v.task = th[x].task
        BY <1>0 DEF Thread
      <4> HIDE DEF v
      <4> QED BY <4>1, <4>2, Others
    <3>3. th[x].task \in Tasks /\ stops' = [stops EXCEPT ![th[x].task] = "going"]
      BY <1>0, <1>2, <2>2 DEF Verify, Thread
    <3>4. stops \in [Tasks -> {"none", "going", "stopping"}]
      BY DEF TypeInv, TypeOK
    <3>5. \A y \in Threads : "stop" \in th[y].duty => th[y].task # th[x].task
      BY <2>2 DEF Verifying, StopHeld
    <3>6. \A y \in Threads : th[y].task \in Tasks
      BY <1>0 DEF Thread
    <3>7. StopHeld'
      BY <3>1, <3>2, <3>3, <3>4, <3>6 DEF StopHeld
    <3>8. OneVerification'
      BY <3>1, <3>2, <3>5 DEF OneVerification
    <3> QED BY <3>7, <3>8
  <2> QED BY <2>1, <2>2
<1>3. ASSUME NEW x \in Threads, ReturnFromVerify(x) PROVE StopHeld' /\ OneVerification'
  <2>1. \A y \in Threads \ {x} : th'[y] = th[y]
    BY <1>3, Others DEF ReturnFromVerify
  <2>2. "stop" \in th[x].duty /\ "stop" \notin th'[x].duty
    BY <1>0, <1>3, Others DEF ReturnFromVerify, Thread
  <2>3. \A t \in Tasks \ {th[x].task} : stops'[t] = stops[t]
    BY <1>3 DEF ReturnFromVerify, TypeInv, TypeOK
  <2>4. \A y \in Threads : th[y].task \in Tasks
    BY <1>0 DEF Thread
  <2> QED BY <2>1, <2>2, <2>3, <2>4 DEF StopHeld, OneVerification
<1>4. CASE ~Restart /\ \A x \in Threads : ~Verify(x) /\ ~ReturnFromVerify(x)
  <2>1. \A y \in Threads : th'[y].task \in Tasks
    BY StepTyped DEF TypeInv, TypeOK, Thread
  <2> QED BY <1>0, <1>4, <2>1, DutyKept DEF Kept, StopHeld, OneVerification, Thread
<1> QED BY <1>1, <1>2, <1>3, <1>4

(* No task is ever verified by two threads at once, whoever asks: the runs *)
(* that end, the conflicts that are resolved and the people that press the *)
(* button (verify, verification_stops).                                    *)
THEOREM VerificationsAreOne == Spec => []OneVerification
<1>1. Init => StopHeld /\ OneVerification
  BY DEF Init, Idle, StopHeld, OneVerification
<1>2. TypeInv /\ StopHeld /\ OneVerification /\ [Next]_vars => StopHeld' /\ OneVerification'
  BY OneVerificationStep
<1> QED BY <1>1, <1>2, InitTyped, StepTyped, PTL DEF Spec

-----------------------------------------------------------------------------
(* Finished tasks, and landing. *)

(* A thread has yet to act on the decision that a container is done.       *)
Settles(t) == \E x \in Threads : \E d \in th[x].queue :
                d.task = t /\ d.rank = 0 /\ d.to = "Done"

(* A move the machine allows, that makes nothing done but such a container. *)
Moves(t) == \/ status'[t] = status[t]
            \/ status[t] \notin Terminal /\ (status'[t] = "Done" => Settles(t))

(* Only containers are settled. *)
LEMMA SettlesContainers ==
  ASSUME TypeInv, NEW t \in Tasks, Settles(t) PROVE IsContainer(t)
BY AThread DEF Settles, Sound

(* What set_status may change: the status of its own task, to what was     *)
(* asked for, and only when that task is not finished                      *)
(* (TaskStatus::can_become).                                               *)
LEMMA SetStatusMoves ==
  ASSUME TypeInv, NEW t \in Tasks, NEW to,
         SetStatus(t, to) \/ ReleaseAndSet(t, to) \/ UNCHANGED <<farm, status, leases>>
  PROVE  /\ \A u \in Tasks \ {t} : status'[u] = status[u]
         /\ status'[t] # status[t] => status'[t] = to /\ status[t] \notin Terminal
BY DEF SetStatus, ReleaseAndSet, MayMove, CanBecome, TypeInv, TypeOK

(* Every step but Landed and Retry leaves finished tasks finished, and     *)
(* makes nothing done but a container.                                     *)
LEMMA OrdinaryMoves ==
  ASSUME TypeInv, [Next]_vars, \A x \in Threads : ~Landed(x) /\ ~Retry(x)
  PROVE  \A t \in Tasks : Moves(t)
<1> DEFINE AllMove == \A t \in Tasks : Moves(t)
<1> USE DEF farmVars, taskVars
<1>0. \A x \in Threads : th[x].task \in Tasks /\ th[x].start \in Tasks
  BY AThread
<1>1. ASSUME NEW t \in Tasks, NEW to, to # "Done",
             SetStatus(t, to) \/ ReleaseAndSet(t, to) \/ UNCHANGED <<farm, status, leases>>
      PROVE  AllMove
  BY <1>1, SetStatusMoves DEF Moves
<1>2. ASSUME status' = status PROVE AllMove
  BY <1>2 DEF Moves
<1>3. CASE UNCHANGED vars
  BY <1>2, <1>3 DEF vars
<1>4. ASSUME NEW x \in Threads, Scheduling(x) PROVE AllMove
  <2>1. CASE ActSettle(x)
    <3>1. PICK d \in th[x].queue :
            /\ d.rank = 0
            /\ status' = IF CanSettle(status[d.task], d.to)
                         THEN [status EXCEPT ![d.task] = d.to] ELSE status
      BY <2>1 DEF ActSettle
    <3>2. d.task \in Tasks /\ (d.to = "Done" => Settles(d.task))
      BY <3>1, AThread DEF Decision, Settles
    <3> QED BY <3>1, <3>2 DEF Moves, CanSettle, TypeInv, TypeOK
  <2>2. CASE ActBlock(x)
    <3>1. PICK d \in th[x].queue : SetStatus(d.task, "Blocked")
      BY <2>2 DEF ActBlock
    <3>2. d.task \in Tasks
      BY AThread DEF Decision
    <3> QED BY <1>1, <3>1, <3>2
  <2>3. CASE ~ActSettle(x) /\ ~ActBlock(x)
    BY <1>0, <1>1, <1>2, <1>4, <2>3 DEF Scheduling, Tick, TickEnds, ActStart, ActRefused
  <2> QED BY <2>1, <2>2, <2>3
<1>5. ASSUME NEW x \in Threads, Starting(x) PROVE AllMove
  BY <1>0, <1>1, <1>2, <1>5 DEF Starting, Claim, Assign, Cut, Spawn, SetRunning, Register,
     Enqueue
<1>6. ASSUME NEW x \in Threads, Waiting(x) PROVE AllMove
  BY <1>0, <1>1, <1>2, <1>6 DEF Waiting, WatchPending, Await, Finish, DropLease, Discredit,
     GiveUp
<1>7. ASSUME NEW x \in Threads, Checking(x) PROVE AllMove
  BY <1>0, <1>1, <1>2, <1>7 DEF Checking, Verify, Verification, Before, Check, Judge, Reject,
     Block, Requeue
<1>8. ASSUME NEW x \in Threads, Reviewing(x) PROVE AllMove
  BY <1>0, <1>1, <1>2, <1>8 DEF Reviewing, Review, PickReviewer, Conclude, Approve
<1>9. ASSUME NEW x \in Threads, Landing(x), ~Landed(x) PROVE AllMove
  BY <1>0, <1>1, <1>2, <1>9 DEF Landing, Merge, CheckEvidence, LandOk, LandStops, MarkMerged,
     Arrived, Remove, AskPerson, ResolveByMerge, ResolveByAgent
<1>10. ASSUME NEW x \in Threads, Returning(x) PROVE AllMove
  BY <1>0, <1>1, <1>2, <1>10 DEF Returning, ReturnFromVerify, ReturnFromApprove, ReturnFromRun,
     Report, ReturnFromVerifyCommand, ReturnFromCommand
<1>11. ASSUME NEW x \in Threads, Halt(x) \/ Kill(x) PROVE AllMove
  BY <1>2, <1>11 DEF Halt, Kill
<1>12. ASSUME NEW p \in People, Command(p) PROVE AllMove
  BY <1>1, <1>2, <1>12 DEF Command, AskStep, AskVerify, AskRun, AskReady, AskRetry, AskCancel,
     AskStart, AskPause, AskAssign, AskConfigure, PersonMerges
<1>13. ASSUME NEW r \in RunIds, Agent(r) PROVE AllMove
  BY <1>2, <1>13 DEF Agent, Edit, Commit, Exit
<1>14. CASE Restart
  BY <1>14 DEF Restart, Recovered, Terminal, Moves
<1> QED BY <1>3, <1>4, <1>5, <1>6, <1>7, <1>8, <1>9, <1>10, <1>11, <1>12, <1>13, <1>14
        DEF Next, Step

-----------------------------------------------------------------------------
Locked == {"evidence", "land", "landed", "arrived", "remove"}

(* Who lands holds the lock; what has been landed is a real commit, in the  *)
(* destination.                                                            *)
LandingInv ==
  /\ \A x \in Threads : th[x].pc \in Locked => mergeLock = x
  /\ \A x \in Threads : At(x, "land") => th[x].commit # 0
  /\ \A x \in Threads : At(x, "landed") => th[x].commit \in landed[th[x].task] \ {0}
  /\ \A t \in Tasks : 0 \notin landed[t]
  /\ \A x \in Threads : At(x, "retry") => x \in People

(* A thread that does not go on to land, or to retry. *)
Aside(y) == th'[y] = th[y] \/ th'[y].pc \notin Locked \cup {"retry"}

(* A step that takes a thread neither to landing nor to a retry takes no   *)
(* other there either.                                                     *)
LEMMA AsideBecomes ==
  ASSUME TypeInv, NEW x \in Threads, NEW v, Becomes(x, v), v.pc \notin Locked \cup {"retry"}
  PROVE  \A y \in Threads : Aside(y)
BY Others DEF Aside

(* A thread that returns, or ends a start, is such a thread.               *)
LEMMA AsideGoes ==
  ASSUME TypeInv, NEW x \in Threads
  PROVE  /\ \A pc : pc \notin Locked \cup {"retry"} /\ Goto(x, pc) => \A y \in Threads : Aside(y)
         /\ Return(x) \/ Fail(x) => \A y \in Threads : Aside(y)
         /\ \A err : StartEnds(x, err) => \A y \in Threads : Aside(y)
<1>0. th[x] \in Thread
  BY AThread
<1>1. ASSUME NEW pc, pc \notin Locked \cup {"retry"}, Goto(x, pc) PROVE \A y \in Threads : Aside(y)
  BY <1>0, <1>1, AsideBecomes DEF Goto, Thread
<1>2. CASE Return(x) \/ Fail(x)
  BY <1>0, <1>2, AsideBecomes DEF Return, Fail, Thread, Locked
<1>3. ASSUME NEW err, StartEnds(x, err) PROVE \A y \in Threads : Aside(y)
  BY <1>0, <1>3, AsideBecomes DEF StartEnds, Thread, Locked
<1> QED BY <1>1, <1>2, <1>3

(* Such a step keeps the landing invariant when it leaves the lock and the *)
(* destinations alone.                                                     *)
LEMMA AsideKeeps ==
  ASSUME LandingInv, \A y \in Threads : Aside(y), UNCHANGED mergeLock, UNCHANGED landed
  PROVE  LandingInv'
BY DEF Aside, LandingInv, At, Locked

(* The landing invariant survives the merge lock being taken when it was   *)
(* free.                                                                   *)
LEMMA LockTaken ==
  ASSUME TypeInv, LandingInv, NEW x \in Threads, NEW v, Becomes(x, v),
         v.pc \in {"evidence", "arrived"},
         mergeLock = Nobody, mergeLock' = x, UNCHANGED landed
  PROVE  LandingInv'
<1>1. \A y \in Threads : th[y].pc \notin Locked
  BY FarmAssumption DEF LandingInv
<1> QED BY <1>1, Others DEF LandingInv, At, Locked

(* The landing invariant survives the merge lock being given up by its     *)
(* holder.                                                                 *)
LEMMA LockDropped ==
  ASSUME TypeInv, LandingInv, NEW x \in Threads, NEW v, Becomes(x, v), th[x].pc \in Locked,
         v.pc \notin Locked \cup {"retry"}, mergeLock' = Nobody, UNCHANGED landed
  PROVE  LandingInv'
BY Others DEF LandingInv, At, Locked

(* Every step keeps the landing invariant. *)
LEMMA LandingStep ==
  ASSUME TypeInv, LandingInv, [Next]_vars
  PROVE  LandingInv'
<1> USE DEF gitVars
<1>0. \A x \in Threads : th[x] \in Thread
  BY AThread
<1>d. \A x \in Threads : {"pc"} \subseteq DOMAIN th[x] /\ th[x].then \in {"ret", "watch"}
  BY AThread DEF Thread
<1>3. CASE UNCHANGED vars
  BY <1>3, AsideKeeps DEF vars, Aside
<1>4. ASSUME NEW x \in Threads, Scheduling(x) PROVE LandingInv'
  <2>1. \A y \in Threads : Aside(y)
    <3>1. CASE TickEnds(x)
      BY <1>d, <3>1, AsideBecomes DEF TickEnds, Locked
    <3>2. CASE ActBlock(x) \/ ActSettle(x)
      BY <1>d, <3>2, AsideBecomes DEF ActBlock, ActSettle, At, Locked
    <3>3. CASE Tick(x) \/ ActStart(x) \/ ActRefused(x)
      BY <1>d, <3>3, AsideBecomes, AsideGoes
         DEF Tick, ActStart, ActRefused, Locked
    <3> QED BY <1>4, <3>1, <3>2, <3>3 DEF Scheduling
  <2> QED BY <1>4, <2>1, AsideKeeps DEF Scheduling, Tick, TickEnds, ActBlock, ActSettle,
      ActStart,
       ActRefused
<1>5. ASSUME NEW x \in Threads, Starting(x) PROVE LandingInv'
  <2>1. \A y \in Threads : Aside(y)
    <3>1. CASE Claim(x) \/ Assign(x) \/ Cut(x)
      BY <1>d, <3>1, AsideBecomes, AsideGoes
         DEF Claim, Assign, Cut, Locked
    <3>2. CASE Spawn(x)
      BY <1>d, <3>2, AsideBecomes, AsideGoes
         DEF Spawn, Locked
    <3>3. CASE SetRunning(x)
      BY <1>d, <3>3, AsideBecomes, AsideGoes
         DEF SetRunning, Locked
    <3>4. CASE Register(x) \/ Enqueue(x)
      BY <1>d, <3>4, AsideBecomes, AsideGoes
         DEF Register, Enqueue, Locked
    <3> QED BY <1>5, <3>1, <3>2, <3>3, <3>4 DEF Starting
  <2> QED BY <1>5, <2>1, AsideKeeps DEF Starting, Claim, Assign, Cut, Spawn, SetRunning,
       Register, Enqueue
<1>6. ASSUME NEW x \in Threads, Waiting(x) PROVE LandingInv'
  <2>1. CASE WatchPending(x)
    <3>1. \A y \in Threads : Aside(y)
      BY <2>1 DEF WatchPending, Aside, Locked, Idle
    <3> QED BY <2>1, <3>1, AsideKeeps DEF WatchPending
  <2>2. CASE ~WatchPending(x)
    <3>1. \A y \in Threads : Aside(y)
      BY <1>d, <1>6, <2>2, AsideBecomes, AsideGoes
         DEF Waiting, Await, Finish, FinishTo, DropLease, Discredit, GiveUp, Locked
    <3> QED BY <1>6, <2>2, <3>1, AsideKeeps DEF Waiting, Await, Finish, DropLease, Discredit,
        GiveUp
  <2> QED BY <2>1, <2>2
<1>7. ASSUME NEW x \in Threads, Checking(x) PROVE LandingInv'
  <2>1. \A y \in Threads : Aside(y)
    <3>1. CASE Verify(x) \/ Verification(x) \/ Before(x)
      BY <1>d, <3>1, AsideBecomes, AsideGoes
         DEF Verify, Verification, Before, GotoOrFail, Locked
    <3>2. CASE Check(x) \/ Judge(x)
      BY <1>d, <3>2, AsideBecomes, AsideGoes
         DEF Check, Judge, Locked
    <3>3. CASE Reject(x) \/ Block(x) \/ Requeue(x)
      BY <1>d, <3>3, AsideBecomes, AsideGoes
         DEF Reject, Block, Requeue, Locked
    <3> QED BY <1>7, <3>1, <3>2, <3>3 DEF Checking
  <2> QED BY <1>7, <2>1, AsideKeeps DEF Checking, Verify, Verification, Before, Check, Judge,
       Reject, Block, Requeue
<1>8. ASSUME NEW x \in Threads, Reviewing(x) PROVE LandingInv'
  <2>1. \A y \in Threads : Aside(y)
    BY <1>d, <1>8, AsideBecomes, AsideGoes
       DEF Reviewing, Review, PickReviewer, Conclude, Approve, GotoOrFail, Locked
  <2> QED BY <1>8, <2>1, AsideKeeps DEF Reviewing, Review, PickReviewer, Conclude, Approve
<1>9. ASSUME NEW x \in Threads, Landing(x) PROVE LandingInv'
  <2>0. Nobody \notin Threads /\ th[x].task \in Tasks /\ th[x].pc # "retry"
    BY <1>9, FarmAssumption, AThread DEF Landing, Merge, CheckEvidence, LandOk, LandStops,
       MarkMerged,
       Arrived, Landed, Remove, AskPerson, ResolveByMerge, ResolveByAgent, At
  <2>1. CASE Merge(x)
    <3>1. CASE mergeLock' = x /\ Becomes(x, [th[x] EXCEPT !.pc = "evidence",
                                                        !.agent = implementedBy[th[x].task]])
      BY <1>0, <2>0, <2>1, <3>1, LockTaken DEF Merge, Thread
    <3>2. CASE Fail(x) /\ UNCHANGED mergeLock
      BY <1>d, <2>1, <3>2, AsideBecomes, AsideGoes, AsideKeeps
         DEF Merge, Locked
    <3> QED BY <2>1, <3>1, <3>2 DEF Merge
  <2>2. CASE MarkMerged(x)
    <3>1. CASE mergeLock' = x /\ Goto(x, "arrived")
      BY <1>0, <2>0, <2>2, <3>1, LockTaken DEF MarkMerged, Goto, Thread
    <3>2. CASE (Return(x) \/ Fail(x)) /\ UNCHANGED mergeLock
      BY <1>d, <2>2, <3>2, AsideBecomes, AsideGoes, AsideKeeps
         DEF MarkMerged, Locked
    <3> QED BY <2>2, <3>1, <3>2 DEF MarkMerged
  <2>3. CASE CheckEvidence(x)
    <3> DEFINE ok == th'[x].pc = "land"
    <3>1. /\ \A y \in Threads \ {x} : th'[y] = th[y]
          /\ IF ok THEN th'[x].commit # 0 /\ UNCHANGED mergeLock
             ELSE th'[x].pc = "ret" /\ mergeLock' = Nobody
      <4>1. PICK b \in BOOLEAN :
              /\ b => CleanCommit(th[x].task) # 0
              /\ IF b THEN UNCHANGED mergeLock ELSE DropMergeLock
              /\ Becomes(x, [th[x] EXCEPT !.agent = NoAgent, !.pc = IF b THEN "land" ELSE "ret",
                                          !.commit = IF b THEN CleanCommit(th[x].task) ELSE 0,
                                          !.err = ~b])
        BY <2>3 DEF CheckEvidence
      <4> DEFINE v == [th[x] EXCEPT !.agent = NoAgent, !.pc = IF b THEN "land" ELSE "ret",
                                    !.commit = IF b THEN CleanCommit(th[x].task) ELSE 0,
                                    !.err = ~b]
      <4>2. /\ v.pc = IF b THEN "land" ELSE "ret"
            /\ v.commit = IF b THEN CleanCommit(th[x].task) ELSE 0
        BY <1>0 DEF Thread
      <4>3. th'[x] = v /\ \A y \in Threads \ {x} : th'[y] = th[y]
        BY <4>1, Others
      <4> HIDE DEF v
      <4> QED BY <4>1, <4>2, <4>3 DEF DropMergeLock
    <3> QED BY <2>0, <2>3, <3>1 DEF CheckEvidence, LandingInv, At, Locked
  <2>4. CASE LandOk(x)
    <3>1. /\ \A y \in Threads \ {x} : th'[y] = th[y]
          /\ th'[x].pc = "landed" /\ th'[x].commit = th[x].commit /\ th'[x].task = th[x].task
      BY <1>0, <2>4, Others DEF LandOk, Goto, Thread
    <3>2. th[x].commit # 0 /\ mergeLock = x /\ UNCHANGED mergeLock
      BY <2>4 DEF LandOk, LandingInv, At, Locked
    <3>3. /\ landed'[th[x].task] = landed[th[x].task] \cup {th[x].commit}
          /\ \A t \in Tasks \ {th[x].task} : landed'[t] = landed[t]
      BY <2>0, <2>4 DEF LandOk, TypeInv, TypeOK
    <3> QED BY <2>0, <3>1, <3>2, <3>3 DEF LandingInv, At, Locked
  <2>5. CASE Arrived(x)
    <3>1. CASE InDestination(th[x].task)
      <4>1. /\ \A y \in Threads \ {x} : th'[y] = th[y]
            /\ th'[x].pc = "landed" /\ th'[x].task = th[x].task
            /\ th'[x].commit = CleanCommit(th[x].task) /\ UNCHANGED mergeLock
        <5>1. Becomes(x, [th[x] EXCEPT !.pc = "landed", !.commit = CleanCommit(th[x].task)])
          BY <2>5, <3>1 DEF Arrived
        <5> DEFINE v == [th[x] EXCEPT !.pc = "landed", !.commit = CleanCommit(th[x].task)]
        <5>2. v.pc = "landed" /\ v.task = th[x].task /\ v.commit = CleanCommit(th[x].task)
          BY <1>0 DEF Thread
        <5> QED BY <2>5, <3>1, <5>1, <5>2, Others DEF Arrived
      <4> QED BY <2>0, <2>5, <3>1, <4>1 DEF Arrived, InDestination, LandingInv, At, Locked
    <3>2. CASE ~InDestination(th[x].task)
      BY <1>0, <2>0, <2>5, <3>2, LockDropped DEF Arrived, Fail, DropMergeLock, Thread, At,
         Locked
    <3> QED BY <3>1, <3>2
  <2>6. CASE Landed(x)
    <3>1. CASE Goto(x, "remove") /\ UNCHANGED mergeLock
      <4>1. /\ \A y \in Threads \ {x} : th'[y] = th[y]
            /\ th'[x].pc = "remove"
        BY <1>0, <2>6, <3>1, Others DEF Goto, Thread
      <4> QED BY <2>0, <2>6, <3>1, <4>1 DEF Landed, LandingInv, At, Locked
    <3>2. CASE Fail(x) /\ DropMergeLock
      BY <1>0, <2>0, <2>6, <3>2, LockDropped DEF Landed, Fail, DropMergeLock, Thread, At, Locked
    <3> QED BY <2>6, <3>1, <3>2 DEF Landed
  <2>7. CASE Remove(x) \/ LandStops(x)
    <3>1. \A y \in Threads \ {x} : th'[y] = th[y]
      BY <2>7, Others DEF Remove, LandStops
    <3>2. th'[x].pc \notin Locked \cup {"retry"}
      <4>1. CASE Remove(x)
        <5> DEFINE v == [th[x] EXCEPT !.pc = "tick", !.then = "ret", !.commit = 0]
        <5>1. v.pc = "tick"
          BY <1>0 DEF Thread
        <5> QED BY <4>1, <5>1, Others DEF Remove, Locked
      <4>2. CASE LandStops(x)
        <5>1. PICK pc \in {"reject", "conflict", "block"} :
                Becomes(x, [th[x] EXCEPT !.commit = 0, !.pc = pc])
          BY <4>2 DEF LandStops
        <5> DEFINE v == [th[x] EXCEPT !.commit = 0, !.pc = pc]
        <5>2. v.pc = pc
          BY <1>0 DEF Thread
        <5> QED BY <5>1, <5>2, Others DEF Locked
      <4> QED BY <2>7, <4>1, <4>2
    <3> QED BY <2>0, <2>7, <3>1, <3>2 DEF Remove, LandStops, DropMergeLock, LandingInv, At,
        Locked
  <2>8. CASE AskPerson(x) \/ ResolveByMerge(x) \/ ResolveByAgent(x)
    BY <1>d, <2>8, AsideBecomes, AsideGoes, AsideKeeps
       DEF AskPerson, ResolveByMerge, ResolveByAgent, Locked
  <2> QED BY <1>9, <2>1, <2>2, <2>3, <2>4, <2>5, <2>6, <2>7, <2>8 DEF Landing
<1>10. ASSUME NEW x \in Threads, Returning(x) PROVE LandingInv'
  <2>1. \A y \in Threads : Aside(y)
    <3>1. CASE ReturnFromVerify(x)
      BY <1>d, <3>1, AsideBecomes DEF ReturnFromVerify, At, Locked
    <3>4. CASE ReturnFromApprove(x)
      <4> DEFINE v == [th[x] EXCEPT !.duty = {}, !.err = @ /\ ~MayMove(th[x].task, "Review")]
      <4>1. v.pc = "ret"
        BY <1>0, <3>4 DEF ReturnFromApprove, At, Thread
      <4> QED BY <3>4, <4>1, AsideBecomes DEF ReturnFromApprove, Locked
    <3>2. CASE ReturnFromRun(x) \/ Report(x)
      BY <1>d, <3>2, AsideBecomes DEF ReturnFromRun, Report, Locked
    <3>3. CASE ReturnFromVerifyCommand(x) \/ ReturnFromCommand(x)
      BY <1>d, <3>3, AsideBecomes, AsideGoes
         DEF ReturnFromVerifyCommand, ReturnFromCommand, Leave, Idle, Locked
    <3> QED BY <1>10, <3>1, <3>2, <3>3, <3>4 DEF Returning
  <2> QED BY <1>10, <2>1, AsideKeeps DEF Returning, ReturnFromVerify, ReturnFromApprove,
       ReturnFromRun, Report, ReturnFromVerifyCommand, ReturnFromCommand
<1>11. ASSUME NEW x \in Threads, Retry(x) \/ Halt(x) \/ Kill(x) PROVE LandingInv'
  <2>1. \A y \in Threads : Aside(y)
    BY <1>d, <1>11, AsideBecomes, AsideGoes
       DEF Retry, Halt, Kill, BeginTick, Leave, Idle, Locked
  <2> QED BY <1>11, <2>1, AsideKeeps DEF Retry, Halt, Kill
<1>12. ASSUME NEW p \in People, Command(p) PROVE LandingInv'
  <2>0. p \in Threads
    BY DEF Threads
  <2>1. CASE AskRetry(p)
    <3>1. /\ \A y \in Threads \ {p} : th'[y] = th[y]
          /\ th'[p].pc = "retry"
      BY <1>0, <2>0, <2>1, Others DEF AskRetry, Begin, Idle, Becomes, TypeInv
    <3> QED BY <2>0, <2>1, <3>1 DEF AskRetry, LandingInv, At, Locked
  <2>2. CASE PersonMerges(p)
    BY <2>2 DEF PersonMerges, LandingInv, At, TypeInv, TypeOK
  <2>3. CASE AskPause(p) \/ AskAssign(p) \/ AskConfigure(p)
    BY <2>3, AsideKeeps DEF Aside, AskPause, AskAssign, AskConfigure
  <2>4. CASE ~AskRetry(p) /\ ~PersonMerges(p) /\ ~(AskPause(p) \/ AskAssign(p) \/ AskConfigure(p))
    <3>1. \A y \in Threads : Aside(y)
      <4>1. CASE AskStep(p)
        <5>1. PICK c \in {"review", "merge", "merged"}, t \in Tasks : Begin(p, FirstStep[c], t)
          BY <4>1 DEF AskStep, FirstStep
        <5>2. FirstStep[c] \in {"review", "merge", "merged"}
          BY DEF FirstStep
        <5> QED BY <2>0, <5>1, <5>2, AsideBecomes DEF Begin, Idle, Locked
      <4>2. CASE AskVerify(p) \/ AskRun(p) \/ AskReady(p) \/ AskCancel(p) \/ AskStart(p)
        BY <2>0, <4>2, AsideBecomes DEF AskVerify, AskRun, AskReady, AskCancel, AskStart, Begin,
           BeginTick, Idle, Locked
      <4> QED BY <1>12, <2>4, <4>1, <4>2 DEF Command
    <3> QED BY <1>12, <2>4, <3>1, AsideKeeps DEF Command, AskStep, AskVerify, AskRun, AskReady,
         AskCancel, AskStart
  <2> QED BY <2>1, <2>2, <2>3, <2>4
<1>13. ASSUME NEW r \in RunIds, Agent(r) PROVE LandingInv'
  BY <1>13, AsideKeeps DEF Aside, Agent, Edit, Commit, Exit
<1>14. CASE Restart
  <2>1. \A y \in Threads : th'[y].pc = "idle"
    BY <1>14 DEF Restart, Idle
  <2> QED BY <1>14, <2>1 DEF Restart, LandingInv, At, Locked
<1> QED BY <1>3, <1>4, <1>5, <1>6, <1>7, <1>8, <1>9, <1>10, <1>11, <1>12, <1>13, <1>14
        DEF Next, Step

(* Nobody is landing when the farm is created. *)
LEMMA InitLanding == Init => LandingInv
BY DEF Init, Idle, LandingInv, At, Locked, TypeInv, TypeOK

(* A finished task stays finished until a person retries it, whatever is   *)
(* still running for it: no late end of a run, check, review or merge      *)
(* revives it (TaskStatus::can_become, retry_task).                        *)
THEOREM TerminalStays == Spec => TerminalLeavesOnlyByRetry
<1> DEFINE A == \A t \in Tasks : status[t] \in Terminal /\ status'[t] # status[t] =>
                 \E p \in People : At(p, "retry") /\ th[p].task = t
<1>1. TypeInv /\ LandingInv /\ [Next]_vars => A
  <2> SUFFICES ASSUME TypeInv, LandingInv, [Next]_vars PROVE A
    OBVIOUS
  <2>1. ASSUME NEW x \in Threads, Landed(x) PROVE A
    <3>1. th[x].task \in Tasks
      BY AThread
    <3> QED BY <2>1, <3>1, SetStatusMoves DEF Landed
  <2>2. ASSUME NEW x \in Threads, Retry(x) PROVE A
    <3>1. x \in People /\ th[x].task \in Tasks
      BY <2>2, AThread DEF Retry, LandingInv
    <3> QED BY <2>2, <3>1 DEF Retry, TypeInv, TypeOK
  <2>3. CASE \A x \in Threads : ~Landed(x) /\ ~Retry(x)
    BY <2>3, OrdinaryMoves DEF Moves
  <2> QED BY <2>1, <2>2, <2>3
<1>2. Spec => [](TypeInv /\ LandingInv)
  BY InitTyped, InitLanding, StepTyped, LandingStep, PTL DEF Spec
<1> QED BY <1>1, <1>2, PTL DEF Spec, TerminalLeavesOnlyByRetry

(* A task becomes Done only in the hands of the thread that holds the merge*)
(* lock, after its destination has the commit that was landed              *)
(* (merge_checked, mark_merged).                                           *)
THEOREM DoneIsLanded == Spec => DoneByLanding
<1> DEFINE A == \A t \in Tasks : status'[t] = "Done" /\ status[t] # "Done" /\ ~IsContainer(t) =>
                 \E x \in Threads : /\ mergeLock = x /\ th[x].task = t
                                    /\ th[x].commit \in landed[t] \ {0}
<1>1. TypeInv /\ LandingInv /\ [Next]_vars => A
  <2> SUFFICES ASSUME TypeInv, LandingInv, [Next]_vars PROVE A
    OBVIOUS
  <2>1. ASSUME NEW x \in Threads, Landed(x) PROVE A
    <3>1. /\ th[x].task \in Tasks /\ mergeLock = x
          /\ th[x].commit \in landed[th[x].task] \ {0}
      BY <2>1, AThread DEF Landed, LandingInv, At, Locked
    <3> QED BY <2>1, <3>1, SetStatusMoves DEF Landed
  <2>2. ASSUME NEW x \in Threads, Retry(x) PROVE A
    <3>1. th[x].task \in Tasks
      BY AThread
    <3> QED BY <2>2, <3>1 DEF Retry, TypeInv, TypeOK
  <2>3. CASE \A x \in Threads : ~Landed(x) /\ ~Retry(x)
    BY <2>3, OrdinaryMoves, SettlesContainers DEF Moves
  <2> QED BY <2>1, <2>2, <2>3
<1>2. Spec => [](TypeInv /\ LandingInv)
  BY InitTyped, InitLanding, StepTyped, LandingStep, PTL DEF Spec
<1> QED BY <1>1, <1>2, PTL DEF Spec, DoneByLanding

-----------------------------------------------------------------------------
(* What a thread takes on. *)

(* Where a thread starts an agent it was told to start. *)
Starts == {"claim", "assign", "cut"}

(* A thread that takes nothing on: it neither starts an agent nor lands,    *)
(* and has no decision it had not.                                         *)
Calm(y) == \/ th'[y] = th[y]
           \/ /\ th'[y].pc \notin Starts \cup Locked \cup {"retry"}
              /\ th'[y].queue \subseteq th[y].queue

(* A thread that goes on with none of this leaves every thread calm. *)
LEMMA CalmBecomes ==
  ASSUME TypeInv, NEW x \in Threads, NEW v, Becomes(x, v),
         v.pc \notin Starts \cup Locked \cup {"retry"}, v.queue \subseteq th[x].queue
  PROVE  \A y \in Threads : Calm(y)
BY Others DEF Calm

(* A thread that returns, or ends a start, is such a thread.               *)
LEMMA CalmGoes ==
  ASSUME TypeInv, NEW x \in Threads
  PROVE  /\ \A pc : pc \notin Starts \cup Locked \cup {"retry"} /\ Goto(x, pc) => \A y \in Threads : Calm(y)
         /\ Return(x) \/ Fail(x) => \A y \in Threads : Calm(y)
         /\ \A err : StartEnds(x, err) => \A y \in Threads : Calm(y)
<1>0. th[x] \in Thread
  BY AThread
<1>1. ASSUME NEW pc, pc \notin Starts \cup Locked \cup {"retry"}, Goto(x, pc) PROVE \A y \in Threads : Calm(y)
  BY <1>0, <1>1, CalmBecomes DEF Goto, Thread
<1>2. CASE Return(x) \/ Fail(x)
  BY <1>0, <1>2, CalmBecomes DEF Return, Fail, Thread, Starts, Locked
<1>3. ASSUME NEW err, StartEnds(x, err) PROVE \A y \in Threads : Calm(y)
  BY <1>0, <1>3, CalmBecomes DEF StartEnds, Thread, Starts, Locked
<1> QED BY <1>1, <1>2, <1>3

(* Steps in which a thread takes something on. *)
Takes(x) == \/ Tick(x) \/ ActStart(x) \/ Claim(x) \/ Assign(x) \/ Cut(x) \/ Merge(x)
            \/ CheckEvidence(x) \/ LandOk(x) \/ MarkMerged(x) \/ Arrived(x) \/ Landed(x)

(* In every other step the threads stay calm, no attempt is counted and no *)
(* merge is cleared.                                                       *)
LEMMA OthersAreCalm ==
  ASSUME TypeInv, [Next]_vars, \A x \in Threads : ~Takes(x),
         \A p \in People : ~AskRun(p) /\ ~AskRetry(p)
  PROVE  (\A y \in Threads : Calm(y)) /\ UNCHANGED <<attempts, implementedBy, cleared>>
<1> DEFINE Quiet == (\A y \in Threads : Calm(y)) /\ UNCHANGED <<attempts, implementedBy, cleared>>
<1> USE DEF taskVars, history
<1>0. \A x \in Threads : {"pc", "queue"} \subseteq DOMAIN th[x] /\ th[x].then \in {"ret", "watch"}
  BY AThread DEF Thread
<1>1. CASE UNCHANGED vars
  BY <1>1 DEF vars, Calm
<1>2. ASSUME NEW x \in Threads, Scheduling(x) PROVE Quiet
  <2>1. CASE TickEnds(x)
    BY <1>0, <2>1, CalmBecomes DEF TickEnds, Starts, Locked
  <2>2. CASE ActBlock(x) \/ ActSettle(x)
    BY <1>0, <2>2, CalmBecomes DEF ActBlock, ActSettle, At, Starts, Locked
  <2>3. CASE ActRefused(x)
    BY <1>0, <2>3, CalmBecomes, CalmGoes
       DEF ActRefused, Starts, Locked
  <2> QED BY <1>2, <2>1, <2>2, <2>3 DEF Scheduling, Takes
<1>3. ASSUME NEW x \in Threads, Starting(x) PROVE Quiet
  <2>1. CASE Spawn(x)
    BY <1>0, <2>1, CalmBecomes, CalmGoes
       DEF Spawn, Starts, Locked
  <2>2. CASE SetRunning(x)
    BY <1>0, <2>2, CalmBecomes, CalmGoes
       DEF SetRunning, Starts, Locked
  <2>3. CASE Register(x) \/ Enqueue(x)
    BY <1>0, <2>3, CalmBecomes, CalmGoes
       DEF Register, Enqueue, Starts, Locked
  <2> QED BY <1>3, <2>1, <2>2, <2>3 DEF Starting, Takes
<1>4. ASSUME NEW x \in Threads, Waiting(x) PROVE Quiet
  <2>1. CASE WatchPending(x)
    <3>1. \A y \in Threads : Calm(y)
      BY <2>1 DEF WatchPending, Calm, Starts, Locked, Idle
    <3> QED BY <2>1, <3>1 DEF WatchPending
  <2>2. CASE Await(x) \/ DropLease(x) \/ Discredit(x) \/ GiveUp(x)
    BY <1>0, <2>2, CalmBecomes, CalmGoes
       DEF Await, DropLease, Discredit, GiveUp, Starts, Locked
  <2>3. CASE Finish(x)
    BY <1>0, <2>3, CalmBecomes, CalmGoes
       DEF Finish, FinishTo, Starts, Locked
  <2> QED BY <1>4, <2>1, <2>2, <2>3 DEF Waiting
<1>5. ASSUME NEW x \in Threads, Checking(x) PROVE Quiet
  <2>1. CASE Verify(x) \/ Verification(x) \/ Before(x)
    BY <1>0, <2>1, CalmBecomes, CalmGoes
       DEF Verify, Verification, Before, GotoOrFail, Starts, Locked
  <2>2. CASE Check(x) \/ Judge(x)
    BY <1>0, <2>2, CalmBecomes, CalmGoes
       DEF Check, Judge, Starts, Locked
  <2>3. CASE Reject(x) \/ Block(x) \/ Requeue(x)
    BY <1>0, <2>3, CalmBecomes, CalmGoes
       DEF Reject, Block, Requeue, Starts, Locked
  <2> QED BY <1>5, <2>1, <2>2, <2>3 DEF Checking
<1>6. ASSUME NEW x \in Threads, Reviewing(x) PROVE Quiet
  BY <1>0, <1>6, CalmBecomes, CalmGoes
     DEF Reviewing, Review, PickReviewer, Conclude, Approve, GotoOrFail, Starts, Locked
<1>7. ASSUME NEW x \in Threads, Landing(x) PROVE Quiet
  <2>1. CASE LandStops(x) \/ Remove(x)
    BY <1>0, <2>1, CalmBecomes DEF LandStops, Remove, Starts, Locked
  <2>2. CASE AskPerson(x) \/ ResolveByMerge(x) \/ ResolveByAgent(x)
    BY <1>0, <2>2, CalmBecomes, CalmGoes
       DEF AskPerson, ResolveByMerge, ResolveByAgent, Starts, Locked
  <2> QED BY <1>7, <2>1, <2>2 DEF Landing, Takes
<1>8. ASSUME NEW x \in Threads, Returning(x) PROVE Quiet
  <2>1. CASE ReturnFromVerify(x)
    BY <1>0, <2>1, CalmBecomes DEF ReturnFromVerify, At, Starts, Locked
  <2>2. CASE ReturnFromApprove(x)
    <3> DEFINE v == [th[x] EXCEPT !.duty = {}, !.err = @ /\ ~MayMove(th[x].task, "Review")]
    <3>1. v.pc = "ret" /\ v.queue = th[x].queue
      BY <1>0, <2>2 DEF ReturnFromApprove, At
    <3> QED BY <2>2, <3>1, CalmBecomes DEF ReturnFromApprove, Starts, Locked
  <2>3. CASE ReturnFromRun(x) \/ Report(x)
    BY <1>0, <2>3, CalmBecomes DEF ReturnFromRun, Report, Starts, Locked
  <2>4. CASE ReturnFromVerifyCommand(x) \/ ReturnFromCommand(x)
    BY <1>0, <2>4, CalmBecomes, CalmGoes
       DEF ReturnFromVerifyCommand, ReturnFromCommand, Leave, Idle, Starts, Locked
  <2> QED BY <1>8, <2>1, <2>2, <2>3, <2>4 DEF Returning
<1>9. ASSUME NEW x \in Threads, Retry(x) \/ Halt(x) \/ Kill(x) PROVE Quiet
  BY <1>0, <1>9, CalmBecomes, CalmGoes
     DEF Retry, Halt, Kill, BeginTick, Leave, Idle, Starts, Locked
<1>10. ASSUME NEW p \in People, Command(p) PROVE Quiet
  <2>0. p \in Threads
    BY DEF Threads
  <2>1. CASE AskStep(p)
    <3>1. PICK c \in DOMAIN FirstStep, t \in Tasks : Begin(p, FirstStep[c], t)
      BY <2>1 DEF AskStep
    <3>2. FirstStep[c] \in {"review", "merge", "merged"}
      BY DEF FirstStep
    <3>3. \A y \in Threads : Calm(y)
      BY <2>0, <3>1, <3>2, CalmBecomes DEF Begin, Idle, Starts, Locked
    <3> QED BY <2>1, <3>3 DEF AskStep
  <2>2. CASE AskVerify(p) \/ AskReady(p) \/ AskCancel(p) \/ AskStart(p)
    BY <2>0, <2>2, CalmBecomes DEF AskVerify, AskReady, AskCancel, AskStart, Begin, BeginTick,
       Idle, Starts, Locked
  <2>3. CASE AskPause(p) \/ AskAssign(p) \/ AskConfigure(p) \/ PersonMerges(p)
    BY <2>3 DEF AskPause, AskAssign, AskConfigure, PersonMerges, Calm
  <2> QED BY <1>10, <2>1, <2>2, <2>3 DEF Command
<1>11. ASSUME NEW r \in RunIds, Agent(r) PROVE Quiet
  BY <1>11 DEF Agent, Edit, Commit, Exit, Calm
<1>12. CASE Restart
  BY <1>12 DEF Restart, Idle, Calm, Starts, Locked
<1> QED BY <1>1, <1>2, <1>3, <1>4, <1>5, <1>6, <1>7, <1>8, <1>9, <1>10, <1>11, <1>12
        DEF Next, Step

-----------------------------------------------------------------------------
(* What is started, and what follows what, while nobody retries a task. *)

(* A task an agent may be started for, and a container whose children are   *)
(* all done.                                                               *)
Startable(t) == ~IsContainer(t) /\ Unmet(status, t) = {}
Followed(t)  == \A c \in Children(t) : status[c] = "Done"

(* A decision that may still be acted on. *)
Timely(d) == /\ d.to = "Assigned" => Startable(d.task)
             /\ d.rank = 0 /\ d.to = "Done" => Followed(d.task)

(* What a thread has taken on is still in order. *)
InOrder(x) ==
  /\ th[x].pc # "retry"
  /\ th[x].pc \in Starts => Startable(th[x].start)
  /\ \A d \in th[x].queue : Timely(d)
  /\ th[x].pc \in Locked => implementedBy[th[x].task] # NoAgent

(* Only what was startable has been tried, and only what followed is done. *)
TaskInOrder(t) ==
  /\ attempts[t] > 0 \/ implementedBy[t] # NoAgent => Startable(t)
  /\ status[t] = "Done" => Followed(t)

OrderInv == (\A x \in Threads : InOrder(x)) /\ (\A t \in Tasks : TaskInOrder(t))

(* What the scheduler decides is timely when it decides it (decide).       *)
LEMMA DecideTimely ==
  ASSUME NEW f, NEW level, NEW at, NEW ls,
         NEW as \in [Tasks -> Agents \cup {NoAgent}],
         NEW decisions \in Decide(f, level, status, at, as, ls), NEW d \in decisions
  PROVE  Timely(d)
<1> USE TaskGraphAssumption
<1> DEFINE settled  == {t \in Tasks : \E s \in ContainerStatus(status, t) :
                                        status[t] # s /\ CanSettle(status[t], s)}
           stranded == Stranded(status)
           queue    == IF IsLive(f) /\ StartsTasks(level)
                       THEN ReadyTasks(status) \ (settled \cup stranded) ELSE {}
           running  == Cardinality({t \in Tasks : status[t] = "Running"})
           free     == IF running < MaxParallel THEN MaxParallel - running ELSE 0
           blocked(starts) == {t \in queue : /\ Reached(t, free, starts)
                                             /\ \/ AgentFor(t, as) = NoAgent
                                                \/ /\ Clear(t, ls, starts)
                                                   /\ at[t] >= MaxAttempts}
           block(tasks, rank) == {[rank |-> rank, task |-> t, agent |-> NoAgent,
                                   to |-> "Blocked"] : t \in tasks}
           start(tasks)  == {[rank |-> 2, task |-> t, agent |-> AgentFor(t, as),
                              to |-> "Assigned"] : t \in tasks}
           settle(tasks) == {[rank |-> 0, task |-> t, agent |-> NoAgent,
                              to |-> CHOOSE s \in ContainerStatus(status, t) : TRUE] : t \in tasks}
<1>1. PICK starts \in SUBSET queue :
        decisions = settle(settled) \cup block(stranded, 1) \cup block(blocked(starts), 2)
                                    \cup start(starts)
  BY DEF Decide
<1>2. \A t \in queue : Startable(t)
  BY DEF ReadyTasks, Startable
<1>3. ASSUME NEW t \in settled
      PROVE  LET to == CHOOSE s \in ContainerStatus(status, t) : TRUE
             IN  to \in {"Done", "Blocked"} /\ (to = "Done" => Followed(t))
  <2>1. \A s \in ContainerStatus(status, t) :
          s \in {"Done", "Blocked"} /\ (s = "Done" => Followed(t))
    BY DEF ContainerStatus, Followed
  <2> QED BY <2>1
<1> HIDE DEF settled, stranded, queue, free, blocked
<1>4. CASE d \in settle(settled)
  <2>1. PICK t \in settled, s \in {"Done", "Blocked"} :
          /\ d = [rank |-> 0, task |-> t, agent |-> NoAgent, to |-> s]
          /\ s = "Done" => Followed(t)
    BY <1>3, <1>4
  <2> QED BY <2>1 DEF Timely
<1>5. CASE d \in block(stranded, 1) \/ d \in block(blocked(starts), 2)
  BY <1>5 DEF Timely
<1>6. CASE d \in start(starts)
  <2>1. PICK t \in starts : d = [rank |-> 2, task |-> t, agent |-> AgentFor(t, as),
                                 to |-> "Assigned"]
    BY <1>6
  <2>2. d.rank = 2 /\ d.task = t /\ Startable(t)
    BY <1>2, <2>1
  <2> QED BY <2>2 DEF Timely
<1> HIDE DEF settle, block, start
<1> QED BY <1>1, <1>4, <1>5, <1>6

(* A task that is done stays done while nobody is at the point of retrying *)
(* one, so what may be started may be started later too.                   *)
LEMMA DoneStays ==
  ASSUME TypeInv, [Next]_vars, \A x \in Threads : th[x].pc # "retry"
  PROVE  /\ \A t \in Tasks : status[t] = "Done" => status'[t] = "Done"
         /\ \A t \in Tasks : (Startable(t) => Startable(t)') /\ (Followed(t) => Followed(t)')
         /\ \A x \in Threads : \A d \in th[x].queue : Timely(d) => Timely(d)'
<1>1. \A t \in Tasks : status[t] = "Done" => status'[t] = "Done"
  <2>1. ASSUME NEW x \in Threads, Landed(x)
        PROVE  \A t \in Tasks : status[t] = "Done" => status'[t] = "Done"
    <3>1. th[x].task \in Tasks
      BY AThread
    <3> QED BY <2>1, <3>1, SetStatusMoves DEF Landed, Terminal
  <2>2. ASSUME \A x \in Threads : ~Landed(x)
        PROVE  \A t \in Tasks : status[t] = "Done" => status'[t] = "Done"
    <3>1. \A x \in Threads : ~Retry(x)
      BY DEF Retry, At
    <3> QED BY <2>2, <3>1, OrdinaryMoves DEF Moves, Terminal
  <2> QED BY <2>1, <2>2
<1>2. \A t \in Tasks : DependsOn[t] \subseteq Tasks /\ Children(t) \subseteq Tasks
  BY TaskGraphAssumption DEF Children
<1>3. \A t \in Tasks : (Startable(t) => Startable(t)') /\ (Followed(t) => Followed(t)')
  BY <1>1, <1>2 DEF Startable, Followed, Unmet
<1>4. \A x \in Threads : \A d \in th[x].queue : d.task \in Tasks
  BY AThread DEF Decision
<1> QED BY <1>1, <1>3, <1>4 DEF Timely

(* A container becomes done only by a decision to settle it, and any other *)
(* task only by landing.                                                   *)
LEMMA NewlyDone ==
  ASSUME TypeInv, OrderInv, [Next]_vars, NEW t \in Tasks, status'[t] = "Done"
  PROVE  Followed(t)'
<1>0. \A x \in Threads : th[x].pc # "retry"
  BY DEF OrderInv, InOrder
<1>1. CASE status[t] = "Done"
  BY <1>0, <1>1, DoneStays DEF OrderInv, TaskInOrder
<1>2. ASSUME status[t] # "Done", NEW x \in Threads, Landed(x) PROVE Followed(t)'
  <2>1. t = th[x].task
    BY <1>2, AThread, SetStatusMoves DEF Landed
  <2>2. ~IsContainer(t)
    BY <1>2, <2>1 DEF Landed, At, Locked, OrderInv, InOrder, TaskInOrder, Startable
  <2> QED BY <2>2 DEF IsContainer, Followed
<1>3. CASE status[t] # "Done" /\ \A x \in Threads : ~Landed(x)
  <2>1. \A x \in Threads : ~Retry(x)
    BY <1>0 DEF Retry, At
  <2>2. Settles(t)
    BY <1>3, <2>1, OrdinaryMoves DEF Moves
  <2>3. Followed(t)
    BY <2>2 DEF Settles, OrderInv, InOrder, Timely
  <2> QED BY <1>0, <2>3, DoneStays
<1> QED BY <1>1, <1>2, <1>3

(* A calm thread keeps what it has taken on in order. *)
LEMMA CalmInOrder ==
  ASSUME TypeInv, OrderInv, [Next]_vars, NEW y \in Threads, Calm(y),
         implementedBy[th[y].task] # NoAgent => implementedBy'[th[y].task] # NoAgent
  PROVE  InOrder(y)'
<1>0. /\ InOrder(y) /\ th[y].start \in Tasks
      /\ \A x \in Threads : th[x].pc # "retry"
  BY AThread DEF OrderInv, InOrder
<1>1. \A d \in th[y].queue : Timely(d)'
  BY <1>0, DoneStays DEF InOrder
<1>2. CASE th'[y] = th[y]
  BY <1>0, <1>1, <1>2, DoneStays DEF InOrder
<1>3. CASE th'[y].pc \notin Starts \cup Locked \cup {"retry"} /\ th'[y].queue \subseteq th[y].queue
  BY <1>1, <1>3 DEF InOrder
<1> QED BY <1>2, <1>3 DEF Calm

(* A task stays in order when it is not tried, or may be started. *)
LEMMA TaskStaysInOrder ==
  ASSUME TypeInv, OrderInv, [Next]_vars, NEW t \in Tasks,
         \/ attempts'[t] = attempts[t] /\ implementedBy'[t] = implementedBy[t]
         \/ Startable(t)
  PROVE  TaskInOrder(t)'
<1>1. \A x \in Threads : th[x].pc # "retry"
  BY DEF OrderInv, InOrder
<1>2. attempts[t] > 0 \/ implementedBy[t] # NoAgent => Startable(t)'
  BY <1>1, DoneStays DEF OrderInv, TaskInOrder
<1>3. attempts'[t] > 0 \/ implementedBy'[t] # NoAgent => Startable(t)'
  BY <1>1, <1>2, DoneStays
<1>4. status'[t] = "Done" => Followed(t)'
  BY NewlyDone
<1> QED BY <1>3, <1>4 DEF TaskInOrder

(* A step that counts no attempt keeps the order when its thread does.     *)
LEMMA OrderBecomes ==
  ASSUME TypeInv, OrderInv, [Next]_vars, NEW x \in Threads, NEW v, Becomes(x, v),
         UNCHANGED <<attempts, implementedBy>>, InOrder(x)'
  PROVE  OrderInv'
<1>1. \A y \in Threads \ {x} : Calm(y)
  BY Others DEF Calm
<1> QED BY <1>1, CalmInOrder, TaskStaysInOrder DEF OrderInv

(* What the fields of a thread must be for it to be in order, after a step.*)
LEMMA InOrderThen ==
  ASSUME TypeInv, OrderInv, [Next]_vars, NEW x \in Threads, NEW v, Becomes(x, v),
         v.pc # "retry", v.pc \in Starts => Startable(v.start)',
         \A d \in v.queue : d \in th[x].queue \/ Timely(d)',
         v.pc \in Locked => implementedBy'[v.task] # NoAgent
  PROVE  InOrder(x)'
<1>1. \A d \in th[x].queue : Timely(d)'
  BY DoneStays DEF OrderInv, InOrder
<1> QED BY <1>1, Others DEF InOrder

(* A thread that goes on, or returns, is about the same tasks as before.   *)
LEMMA GoesOn ==
  ASSUME TypeInv, NEW x \in Threads
  PROVE  /\ \A pc : Goto(x, pc) =>
              \E v : /\ Becomes(x, v) /\ v.pc = pc /\ v.queue = th[x].queue
                     /\ v.task = th[x].task /\ v.start = th[x].start
         /\ Return(x) \/ Fail(x) =>
              \E v : /\ Becomes(x, v) /\ v.pc = "ret" /\ v.queue = th[x].queue
                     /\ v.task = th[x].task /\ v.start = th[x].start
<1>0. th[x] \in Thread
  BY AThread
<1>1. ASSUME NEW pc, Goto(x, pc)
      PROVE  \E v : /\ Becomes(x, v) /\ v.pc = pc /\ v.queue = th[x].queue
                    /\ v.task = th[x].task /\ v.start = th[x].start
  <2> DEFINE v == [th[x] EXCEPT !.pc = pc]
  <2>1. /\ v.pc = pc /\ v.queue = th[x].queue
        /\ v.task = th[x].task /\ v.start = th[x].start
    BY <1>0 DEF Thread
  <2>2. Becomes(x, v)
    BY <1>1 DEF Goto
  <2> HIDE DEF v
  <2> QED BY <2>1, <2>2
<1>2. ASSUME Return(x) \/ Fail(x)
      PROVE  \E v : /\ Becomes(x, v) /\ v.pc = "ret" /\ v.queue = th[x].queue
                    /\ v.task = th[x].task /\ v.start = th[x].start
  <2> DEFINE v(b) == [th[x] EXCEPT !.pc = "ret", !.err = b]
  <2>1. \A b : /\ v(b).pc = "ret" /\ v(b).queue = th[x].queue
               /\ v(b).task = th[x].task /\ v(b).start = th[x].start
    BY <1>0 DEF Thread
  <2>2. Becomes(x, v(TRUE)) \/ Becomes(x, v(FALSE))
    BY <1>2 DEF Return, Fail
  <2> HIDE DEF v
  <2> QED BY <2>1, <2>2
<1> QED BY <1>1, <1>2

(* A start that is over leaves the decisions there were.                   *)
LEMMA StartOver ==
  ASSUME TypeInv, NEW x \in Threads, NEW err, StartEnds(x, err)
  PROVE  \E v : /\ Becomes(x, v) /\ v.pc \in {"refused", "act", "ret"}
                /\ v.queue = th[x].queue
<1>0. th[x] \in Thread
  BY AThread
<1>1. CASE th[x].from = "tick"
  <2> DEFINE v == [th[x] EXCEPT !.pc = IF err THEN "refused" ELSE "act",
                                !.agent = NoAgent, !.run = 0]
  <2>1. v.pc \in {"refused", "act"} /\ v.queue = th[x].queue
    BY <1>0 DEF Thread
  <2>2. Becomes(x, v)
    BY <1>1 DEF StartEnds
  <2> HIDE DEF v
  <2> QED BY <2>1, <2>2
<1>2. CASE th[x].from # "tick"
  <2> DEFINE v == [th[x] EXCEPT !.pc = "ret", !.err = err, !.from = "tick",
                                !.agent = NoAgent, !.run = 0, !.commit = 0]
  <2>1. v.pc = "ret" /\ v.queue = th[x].queue
    BY <1>0 DEF Thread
  <2>2. Becomes(x, v)
    BY <1>2 DEF StartEnds
  <2> HIDE DEF v
  <2> QED BY <2>1, <2>2
<1> QED BY <1>1, <1>2

(* Every step keeps the order, while nobody can ask for a retry. *)
LEMMA OrderStep ==
  ASSUME "retry" \notin Commands, TypeInv, OrderInv, [Next]_vars
  PROVE  OrderInv'
<1> USE DEF taskVars
<1>0. \A x \in Threads : /\ th[x] \in Thread /\ th[x].task \in Tasks /\ th[x].start \in Tasks
                         /\ InOrder(x)
  BY AThread DEF OrderInv
<1>1. Starts \cap Locked = {} /\ "retry" \notin Starts \cup Locked
  BY DEF Starts, Locked
<1>2. \A t \in Tasks : Startable(t) => Startable(t)'
  BY <1>0, DoneStays DEF InOrder
<1>3. ASSUME NEW x \in Threads, Tick(x) PROVE OrderInv'
  <2>1. PICK decisions \in Decide(farm, autonomy, status, attempts, assigned, leases) :
          Becomes(x, [th[x] EXCEPT !.pc = "act", !.queue = decisions])
    BY <1>3 DEF Tick
  <2> DEFINE v == [th[x] EXCEPT !.pc = "act", !.queue = decisions]
  <2>2. v.pc = "act" /\ v.queue = decisions /\ Becomes(x, v)
    BY <1>0, <2>1 DEF Thread
  <2>3. \A d \in decisions : Timely(d)
    BY DecideTimely DEF TypeInv, TypeOK
  <2>4. \A d \in decisions : Timely(d)'
    <3>1. decisions \subseteq Decision
      BY DecideTyped DEF TypeInv, TypeOK
    <3>2. status' = status
      BY <1>3 DEF Tick
    <3> QED BY <2>3, <3>1, <3>2 DEF Timely, Startable, Followed, Unmet
  <2> HIDE DEF v
  <2>5. InOrder(x)'
    BY <2>2, <2>4, InOrderThen DEF Starts, Locked
  <2> QED BY <1>3, <2>2, <2>5, OrderBecomes DEF Tick
<1>4. ASSUME NEW x \in Threads, ActStart(x) PROVE OrderInv'
  <2>1. PICK d \in th[x].queue :
          /\ d.to = "Assigned"
          /\ Becomes(x, [th[x] EXCEPT !.pc = "claim", !.queue = @ \ {d}, !.from = "tick",
                                      !.start = d.task, !.agent = d.agent])
    BY <1>4 DEF ActStart
  <2> DEFINE v == [th[x] EXCEPT !.pc = "claim", !.queue = @ \ {d}, !.from = "tick",
                                !.start = d.task, !.agent = d.agent]
  <2>2. v.pc = "claim" /\ v.queue = th[x].queue \ {d} /\ v.start = d.task /\ Becomes(x, v)
    BY <1>0, <2>1 DEF Thread
  <2>3. d.task \in Tasks /\ Startable(d.task)
    BY <1>0, <2>1, AThread DEF InOrder, Timely, Decision
  <2> HIDE DEF v
  <2>4. InOrder(x)'
    BY <1>2, <2>2, <2>3, InOrderThen DEF Starts, Locked
  <2> QED BY <1>4, <2>2, <2>4, OrderBecomes DEF ActStart
<1>5. ASSUME NEW x \in Threads, Claim(x) \/ Assign(x) PROVE OrderInv'
  <2>0. PICK t \in Tasks : t = th[x].start
    BY <1>0
  <2>1. Startable(t)'
    BY <1>0, <1>2, <1>5, <2>0 DEF Claim, Assign, At, Starts, InOrder
  <2>2. PICK v : /\ Becomes(x, v) /\ v.pc \in {"assign", "cut", "refused", "act", "ret"}
                 /\ v.queue = th[x].queue
                 /\ v.pc \in Starts => v.start = t
    <3>1. CASE StartEnds(x, TRUE)
      BY <3>1, StartOver DEF Starts
    <3>2. CASE Goto(x, "assign") \/ Goto(x, "cut")
      BY <2>0, <3>2, GoesOn
    <3> QED BY <1>5, <3>1, <3>2 DEF Claim, Assign
  <2>3. InOrder(x)'
    BY <2>1, <2>2, InOrderThen DEF Starts, Locked
  <2> QED BY <1>5, <2>2, <2>3, OrderBecomes DEF Claim, Assign
<1>6. ASSUME NEW x \in Threads, Cut(x) PROVE OrderInv'
  <2>0. Startable(th[x].start)
    BY <1>0, <1>6 DEF Cut, At, Starts, InOrder
  <2>1. PICK v : /\ Becomes(x, v) /\ v.pc \in {"spawn", "refused", "act", "ret"}
                 /\ v.queue = th[x].queue
    <3>1. Goto(x, "spawn") \/ StartEnds(x, TRUE)
      BY <1>6 DEF Cut
    <3>2. CASE Goto(x, "spawn")
      BY <3>2, GoesOn
    <3>3. CASE StartEnds(x, TRUE)
      BY <3>3, StartOver
    <3> QED BY <3>1, <3>2, <3>3
  <2>2. InOrder(x)'
    BY <2>1, InOrderThen DEF Starts, Locked
  <2>3. \A t \in Tasks \ {th[x].start} : /\ attempts'[t] = attempts[t]
                                         /\ implementedBy'[t] = implementedBy[t]
    BY <1>6 DEF Cut, TypeInv, TypeOK
  <2>4. \A t \in Tasks : TaskInOrder(t)'
    BY <2>0, <2>3, TaskStaysInOrder
  <2>5. \A t \in Tasks : implementedBy[t] # NoAgent => implementedBy'[t] # NoAgent
    <3>1. th[x].agent \in Agents
      BY <1>6, AThread DEF Cut, At, Worker, Starter
    <3>2. implementedBy' \in {implementedBy, [implementedBy EXCEPT ![th[x].start] = th[x].agent]}
      BY <1>6 DEF Cut
    <3>3. th[x].agent # NoAgent /\ implementedBy = [t \in Tasks |-> implementedBy[t]]
      BY <3>1, TaskGraphAssumption DEF TypeInv, TypeOK
    <3> QED BY <3>2, <3>3
  <2>6. \A y \in Threads \ {x} : Calm(y)
    BY <2>1, Others DEF Calm
  <2> QED BY <1>0, <2>2, <2>4, <2>5, <2>6, CalmInOrder DEF OrderInv
<1>7. ASSUME NEW x \in Threads,
             Merge(x) \/ CheckEvidence(x) \/ LandOk(x) \/ MarkMerged(x) \/ Arrived(x) \/ Landed(x)
      PROVE  OrderInv'
  <2>0. UNCHANGED <<attempts, implementedBy>>
    BY <1>7 DEF Merge, CheckEvidence, LandOk, MarkMerged, Arrived, Landed
  <2>1. PICK v : /\ Becomes(x, v) /\ v.queue = th[x].queue /\ v.task = th[x].task
                 /\ v.pc \in Locked \cup {"ret"}
                 /\ v.pc \in Locked => implementedBy[th[x].task] # NoAgent
    <3>1. CASE Merge(x)
      <4>1. CASE Fail(x)
        BY <4>1, GoesOn DEF Locked
      <4>2. CASE ~Fail(x)
        <5> DEFINE v == [th[x] EXCEPT !.pc = "evidence", !.agent = implementedBy[th[x].task]]
        <5>1. Becomes(x, v) /\ implementedBy[th[x].task] # NoAgent
          BY <3>1, <4>2 DEF Merge
        <5>2. v.pc = "evidence" /\ v.queue = th[x].queue /\ v.task = th[x].task
          BY <1>0 DEF Thread
        <5> HIDE DEF v
        <5> QED BY <5>1, <5>2 DEF Locked
      <4> QED BY <4>1, <4>2
    <3>2. CASE CheckEvidence(x)
      <4>1. PICK ok, c :
              Becomes(x, [th[x] EXCEPT !.agent = NoAgent, !.pc = IF ok THEN "land" ELSE "ret",
                                       !.commit = IF ok THEN c ELSE 0, !.err = ~ok])
        BY <3>2 DEF CheckEvidence
      <4> DEFINE v == [th[x] EXCEPT !.agent = NoAgent, !.pc = IF ok THEN "land" ELSE "ret",
                                    !.commit = IF ok THEN c ELSE 0, !.err = ~ok]
      <4>2. /\ v.pc \in {"land", "ret"}
            /\ v.queue = th[x].queue /\ v.task = th[x].task
        BY <1>0 DEF Thread
      <4>3. implementedBy[th[x].task] # NoAgent
        BY <1>0, <3>2 DEF CheckEvidence, At, InOrder, Locked
      <4>4. Becomes(x, v)
        BY <4>1
      <4> HIDE DEF v
      <4> QED BY <4>2, <4>3, <4>4 DEF Locked
    <3>3. CASE LandOk(x) \/ Landed(x)
      BY <1>0, <3>3, GoesOn DEF LandOk, Landed, At, InOrder, Locked
    <3>4. CASE MarkMerged(x)
      BY <3>4, GoesOn DEF MarkMerged, Locked
    <3>5. CASE Arrived(x)
      BY <1>0, <3>5 DEF Arrived, Fail, At, InOrder, Thread, Locked
    <3> QED BY <1>7, <3>1, <3>2, <3>3, <3>4, <3>5
  <2>2. InOrder(x)'
    BY <1>1, <2>0, <2>1, InOrderThen DEF Starts, Locked
  <2> QED BY <2>0, <2>1, <2>2, OrderBecomes
<1>8. ASSUME NEW p \in People, AskRun(p) PROVE OrderInv'
  <2>0. p \in Threads
    BY DEF Threads
  <2>1. PICK t \in Tasks, a \in Agents :
          /\ ~IsContainer(t) /\ Unmet(status, t) = {}
          /\ Becomes(p, [Idle EXCEPT !.pc = "claim", !.job = "command",
                                     !.task = t, !.start = t, !.agent = a, !.from = "command"])
    BY <1>8 DEF AskRun
  <2> DEFINE v == [Idle EXCEPT !.pc = "claim", !.job = "command",
                               !.task = t, !.start = t, !.agent = a, !.from = "command"]
  <2>2. v.pc = "claim" /\ v.start = t /\ v.queue = {} /\ Becomes(p, v)
    BY <2>1 DEF Idle
  <2>3. Startable(t)'
    BY <1>2, <2>1 DEF Startable
  <2> HIDE DEF v
  <2>4. InOrder(p)'
    BY <2>0, <2>2, <2>3, InOrderThen DEF Starts, Locked
  <2> QED BY <1>8, <2>0, <2>2, <2>4, OrderBecomes DEF AskRun
<1>9. CASE (\A x \in Threads : ~Takes(x)) /\ \A p \in People : ~AskRun(p)
  <2>1. \A p \in People : ~AskRetry(p)
    BY DEF AskRetry, Asked
  <2>2. (\A y \in Threads : Calm(y)) /\ UNCHANGED <<attempts, implementedBy>>
    BY <1>9, <2>1, OthersAreCalm
  <2> QED BY <2>2, CalmInOrder, TaskStaysInOrder DEF OrderInv
<1> QED BY <1>3, <1>4, <1>5, <1>6, <1>7, <1>8, <1>9 DEF Takes

(* Nothing has been tried or done when the farm is created. *)
LEMMA InitOrder == Init => OrderInv
<1> SUFFICES ASSUME Init PROVE OrderInv
  OBVIOUS
<1>1. \A x \in Threads : InOrder(x)
  BY DEF Init, Idle, InOrder, Starts, Locked
<1>2. \A t \in Tasks : status[t] # "Done"
  BY FarmAssumption DEF Init
<1>3. \A t \in Tasks : attempts[t] = 0 /\ implementedBy[t] = NoAgent
  BY DEF Init
<1> QED BY <1>1, <1>2, <1>3 DEF OrderInv, TaskInOrder

(* Where nobody retries a task, no agent is ever started for one that      *)
(* depends on unfinished work, although the scheduler decided on an        *)
(* earlier look at the graph (Graph::unmet, start_task).                   *)
THEOREM DependenciesComeFirst ==
  ASSUME "retry" \notin Commands
  PROVE  Spec => []DependenciesFirst
<1>1. TypeInv /\ OrderInv /\ [Next]_vars => OrderInv'
  BY OrderStep
<1>2. OrderInv => DependenciesFirst
  BY DEF OrderInv, TaskInOrder, Startable, Unmet, DependenciesFirst
<1> QED BY <1>1, <1>2, InitOrder, InitTyped, StepTyped, PTL DEF Spec

(* There too a container is done only when all its children are (settle,   *)
(* Graph::container_status).                                               *)
THEOREM ContainersFollow ==
  ASSUME "retry" \notin Commands
  PROVE  Spec => []ContainerFollows
<1>1. TypeInv /\ OrderInv /\ [Next]_vars => OrderInv'
  BY OrderStep
<1>2. OrderInv => ContainerFollows
  BY TaskGraphAssumption DEF OrderInv, TaskInOrder, Followed, Children, ContainerFollows
<1> QED BY <1>1, <1>2, InitOrder, InitTyped, StepTyped, PTL DEF Spec

-----------------------------------------------------------------------------
(* The scheduler. *)

(* The order the queue is asked in is a strict total order (Graph::ready).  *)
LEMMA SoonerOrders ==
  /\ \A t \in Tasks : ~Sooner(t, t)
  /\ \A t, u \in Tasks : Sooner(t, u) => ~Sooner(u, t)
  /\ \A t, u \in Tasks : t # u => Sooner(t, u) \/ Sooner(u, t)
  /\ \A t, u, v \in Tasks : Sooner(t, u) /\ Sooner(u, v) => Sooner(t, v)
<1>1. \A t \in Tasks : t \in Nat /\ Priority[t] \in Nat
  BY TaskGraphAssumption
<1> QED BY <1>1 DEF Sooner

(* Some numbers have a least one.                                          *)
LEMMA Least ==
  ASSUME NEW D \in SUBSET Nat, D # {}
  PROVE  \E x \in D : \A y \in D : x <= y
<1> DEFINE R == OpToRel(<, Nat)
<1>1. IsWellFoundedOn(R, Nat)
  BY NatLessThanWellFounded
<1>2. \A x, y \in Nat : (<<y, x>> \in R) <=> y < x
  BY DEF OpToRel
<1> HIDE DEF R
<1>3. PICK x \in D : \A y \in D : ~(<<y, x>> \in R)
  BY <1>1, WFMin, Zenon
<1>4. ASSUME NEW y \in D PROVE x <= y
  <2>1. x \in Nat /\ y \in Nat
    OBVIOUS
  <2>2. ~(y < x)
    BY <1>2, <1>3, <2>1
  <2> QED BY <2>1, <2>2
<1> QED BY <1>4

(* Tasks have one that comes before the others,                            *)
LEMMA Foremost ==
  ASSUME NEW S \in SUBSET Tasks, S # {}
  PROVE  \E t \in S : \A u \in S : u # t => Sooner(t, u)
<1> DEFINE P == {Priority[t] : t \in S}
<1>0. \A t \in Tasks : t \in Nat /\ Priority[t] \in Nat
  BY TaskGraphAssumption
<1>1. P \in SUBSET Nat /\ P # {}
  BY <1>0
<1> HIDE DEF P
<1>2. PICK p \in P : \A q \in P : p <= q
  BY <1>1, Least
<1> DEFINE F == {t \in S : Priority[t] = p}
<1>3. F \in SUBSET Nat /\ F # {}
  BY <1>0, <1>2 DEF P
<1>4. PICK t \in F : \A u \in F : t <= u
  <2> HIDE DEF F
  <2> QED BY <1>3, Least
<1>5. ASSUME NEW u \in S, u # t PROVE Sooner(t, u)
  <2>1. /\ t \in Nat /\ u \in Nat /\ Priority[u] \in Nat /\ Priority[t] = p /\ p \in Nat
        /\ p <= Priority[u]
    BY <1>0, <1>1, <1>2 DEF P
  <2>2. CASE Priority[u] = p
    BY <1>4, <1>5, <2>1, <2>2 DEF Sooner
  <2>3. CASE Priority[u] # p
    BY <2>1, <2>3 DEF Sooner
  <2> QED BY <2>2, <2>3
<1> QED BY <1>5

(* and one that comes after them.                                          *)
LEMMA Hindmost ==
  ASSUME NEW S \in SUBSET Tasks, S # {}
  PROVE  \E t \in S : \A u \in S : u # t => Sooner(u, t)
<1> DEFINE After(t) == {u \in S : Sooner(t, u)}
           C == {Cardinality(After(t)) : t \in S}
<1>0. IsFiniteSet(S)
  BY TaskGraphAssumption, FS_Subset
<1>1. \A t \in S : IsFiniteSet(After(t)) /\ Cardinality(After(t)) \in Nat
  <2>1. \A t : After(t) \in SUBSET S
    OBVIOUS
  <2> HIDE DEF After
  <2> QED BY <1>0, <2>1, FS_Subset, FS_CardinalityType
<1>2. C \in SUBSET Nat /\ C # {}
  <2> HIDE DEF After
  <2> QED BY <1>1
<1>3. PICK c \in C : \A d \in C : c <= d
  <2> HIDE DEF C
  <2> QED BY <1>2, Least
<1>4. PICK t \in S : c = Cardinality(After(t))
  <2> HIDE DEF After
  <2> QED BY <1>3
<1>5. ASSUME NEW u \in S, u # t PROVE Sooner(u, t)
  <2> SUFFICES ASSUME ~Sooner(u, t) PROVE FALSE
    OBVIOUS
  <2>1. Sooner(t, u)
    BY <1>5, SoonerOrders
  <2>2. After(u) \in SUBSET After(t) /\ u \in After(t) /\ u \notin After(u)
    BY <2>1, SoonerOrders
  <2>3. Cardinality(After(t)) <= Cardinality(After(u))
    <3> HIDE DEF After
    <3> QED BY <1>3, <1>4
  <2> HIDE DEF After
  <2>4. /\ Cardinality(After(u)) <= Cardinality(After(t))
        /\ Cardinality(After(t)) = Cardinality(After(u)) => After(t) = After(u)
    BY <1>1, <2>2, FS_Subset
  <2>5. After(t) = After(u)
    BY <1>1, <2>3, <2>4
  <2> QED BY <2>2, <2>5
<1> QED BY <1>5

(* A task is started by a pass for what comes before it in the queue alone. *)
LEMMA PickedFor ==
  ASSUME NEW free, NEW ls, NEW at, NEW as, NEW t, NEW r, NEW s,
         {u \in r : Sooner(u, t)} = {u \in s : Sooner(u, t)}
  PROVE  (Reached(t, free, r) <=> Reached(t, free, s)) /\ (Clear(t, ls, r) <=> Clear(t, ls, s))
<1> QED BY DEF Reached, Clear

(* Two passes through a queue start the same tasks: at the first one that   *)
(* only one of them starts, they have started the same before it.          *)
LEMMA PicksAgree ==
  ASSUME NEW queue \in SUBSET Tasks, NEW free, NEW ls, NEW at, NEW as,
         NEW r, Picks(queue, free, ls, at, as, r),
         NEW s, Picks(queue, free, ls, at, as, s)
  PROVE  r = s
<1> DEFINE D == (r \ s) \cup (s \ r)
<1>1. r \in SUBSET Tasks /\ s \in SUBSET Tasks
  BY DEF Picks
<1> SUFFICES ASSUME D # {} PROVE FALSE
  OBVIOUS
<1>2. PICK d \in D : \A u \in D : u # d => Sooner(d, u)
  <2>1. D \in SUBSET Tasks
    BY <1>1
  <2> HIDE DEF D
  <2> QED BY <2>1, Foremost
<1>3. {u \in r : Sooner(u, d)} = {u \in s : Sooner(u, d)}
  <2>1. ASSUME NEW u \in D PROVE ~Sooner(u, d)
    BY <1>1, <1>2, <2>1, SoonerOrders
  <2> QED BY <2>1
<1>4. (Reached(d, free, r) <=> Reached(d, free, s)) /\ (Clear(d, ls, r) <=> Clear(d, ls, s))
  BY <1>3, PickedFor
<1>5. d \in r <=> d \in s
  BY <1>2, <1>4 DEF Picks
<1> QED BY <1>5

(* And there is one: the last task of the queue is started or not after a   *)
(* pass through the others, and changes nothing of that.                   *)
LEMMA PicksGoOn ==
  ASSUME NEW queue \in SUBSET Tasks, NEW free, NEW ls, NEW at, NEW as,
         NEW m \in queue, \A u \in queue : u # m => Sooner(u, m),
         NEW r, Picks(queue \ {m}, free, ls, at, as, r)
  PROVE  \E s : Picks(queue, free, ls, at, as, s)
<1> DEFINE Goes(t, q) == /\ Reached(t, free, q) /\ AgentFor(t, as) # NoAgent
                         /\ Clear(t, ls, q) /\ at[t] < MaxAttempts
           s == r \cup {t \in {m} : Goes(t, r)}
<1>1. r \subseteq queue \ {m}
  BY DEF Picks
<1>2. ASSUME NEW t \in queue PROVE Goes(t, s) <=> Goes(t, r)
  <2>1. ~Sooner(m, t)
    BY <1>2, SoonerOrders
  <2>2. {u \in s : Sooner(u, t)} = {u \in r : Sooner(u, t)}
    <3> HIDE DEF Goes
    <3> QED BY <2>1
  <2> HIDE DEF s
  <2> QED BY <2>2, PickedFor
<1>3. \A t : t \in r <=> t \in queue \ {m} /\ Goes(t, r)
  BY DEF Picks
<1> HIDE DEF Goes
<1>4. \A t : t \in s <=> t \in queue /\ Goes(t, s)
  <2>1. \A t : t \in s <=> t \in queue /\ Goes(t, r)
    BY <1>3
  <2> HIDE DEF s
  <2> QED BY <1>2, <2>1
<1>5. s = {t \in queue : Goes(t, s)}
  <2> HIDE DEF s
  <2> QED BY <1>4
<1>6. Picks(queue, free, ls, at, as, s)
  <2> HIDE DEF s
  <2> QED BY <1>5 DEF Picks, Goes
<1> QED BY <1>6

LEMMA PicksExist ==
  ASSUME NEW queue \in SUBSET Tasks, NEW free, NEW ls, NEW at, NEW as
  PROVE  \E s : Picks(queue, free, ls, at, as, s)
<1> DEFINE Passes(q) == \E s : Picks(q, free, ls, at, as, s)
           N == {n \in Nat : \E q \in SUBSET queue : Cardinality(q) = n /\ ~Passes(q)}
<1>0. \A q \in SUBSET queue : IsFiniteSet(q) /\ Cardinality(q) \in Nat
  <2>1. IsFiniteSet(queue)
    BY TaskGraphAssumption, FS_Subset
  <2> QED BY <2>1, FS_Subset, FS_CardinalityType
<1> SUFFICES ASSUME ~Passes(queue) PROVE FALSE
  OBVIOUS
<1>1. N \in SUBSET Nat /\ N # {}
  <2> HIDE DEF Passes
  <2> QED BY <1>0
<1>2. PICK n \in N : \A k \in N : n <= k
  <2> HIDE DEF N
  <2> QED BY <1>1, Least
<1>3. PICK q \in SUBSET queue : Cardinality(q) = n /\ ~Passes(q)
  <2> HIDE DEF Passes
  <2> QED BY <1>2
<1>4. q # {}
  <2>1. Picks({}, free, ls, at, as, {})
    BY DEF Picks
  <2> QED BY <1>3, <2>1
<1>5. PICK m \in q : \A u \in q : u # m => Sooner(u, m)
  BY <1>4, Hindmost
<1>6. q \ {m} \in SUBSET queue /\ Cardinality(q \ {m}) = n - 1 /\ n - 1 \in Nat
  <2>1. Cardinality(q \ {m}) = Cardinality(q) - 1
    BY <1>0, FS_RemoveElement
  <2>2. q \ {m} \in SUBSET queue
    OBVIOUS
  <2> QED BY <1>0, <1>3, <2>1, <2>2
<1>7. Passes(q \ {m})
  <2>1. n \in Nat /\ ~(n <= n - 1)
    BY <1>1, <1>2
  <2>2. n - 1 \notin N
    <3> HIDE DEF N
    <3> QED BY <1>2, <2>1
  <2> HIDE DEF Passes
  <2> QED BY <1>6, <2>2
<1>8. Passes(q)
  BY <1>5, <1>7, PicksGoOn
<1> QED BY <1>3, <1>8

(* What a pass decides, by what it starts.                                 *)
Settled(st) == {t \in Tasks : \E s \in ContainerStatus(st, t) : st[t] # s /\ CanSettle(st[t], s)}

Queue(f, level, st) ==
  IF IsLive(f) /\ StartsTasks(level)
  THEN ReadyTasks(st) \ (Settled(st) \cup Stranded(st)) ELSE {}

Running(st) == Cardinality({t \in Tasks : st[t] = "Running"})

Free(st) == IF Running(st) < MaxParallel THEN MaxParallel - Running(st) ELSE 0

(* The tasks a pass starts.                                                *)
Started(decisions) == {d.task : d \in {e \in decisions : e.to = "Assigned"}}

(* It starts what it picked, and nothing else.                             *)
LEMMA StartsThePicks ==
  ASSUME NEW f, NEW level, NEW st, NEW at, NEW as, NEW ls,
         NEW decisions \in Decide(f, level, st, at, as, ls)
  PROVE  Picks(Queue(f, level, st), Free(st), ls, at, as, Started(decisions))
<1> DEFINE queue == Queue(f, level, st)
           free  == Free(st)
           blocked(starts) == {t \in queue : /\ Reached(t, free, starts)
                                             /\ \/ AgentFor(t, as) = NoAgent
                                                \/ /\ Clear(t, ls, starts)
                                                   /\ at[t] >= MaxAttempts}
           block(tasks, rank) == {[rank |-> rank, task |-> t, agent |-> NoAgent,
                                   to |-> "Blocked"] : t \in tasks}
           start(tasks)  == {[rank |-> 2, task |-> t, agent |-> AgentFor(t, as),
                              to |-> "Assigned"] : t \in tasks}
           settle(tasks) == {[rank |-> 0, task |-> t, agent |-> NoAgent,
                              to |-> CHOOSE s \in ContainerStatus(st, t) : TRUE] : t \in tasks}
<1>1. PICK starts \in SUBSET queue :
        /\ Picks(queue, free, ls, at, as, starts)
        /\ decisions = settle(Settled(st)) \cup block(Stranded(st), 1)
                         \cup block(blocked(starts), 2) \cup start(starts)
  BY DEF Decide, Queue, Free, Running, Settled
<1>2. \A d \in settle(Settled(st)) : d.to # "Assigned"
  BY DEF Settled, ContainerStatus
<1>3. /\ \A d \in block(Stranded(st), 1) : d.to # "Assigned"
      /\ \A d \in block(blocked(starts), 2) : d.to # "Assigned"
  <2> HIDE DEF blocked, queue, free
  <2> QED OBVIOUS
<1>4. ASSUME NEW d \in start(starts) PROVE d.to = "Assigned" /\ d.task \in starts
  <2>1. PICK t \in starts : d = [rank |-> 2, task |-> t, agent |-> AgentFor(t, as),
                                 to |-> "Assigned"]
    OBVIOUS
  <2> QED BY <2>1
<1>5. ASSUME NEW t \in starts PROVE \E d \in start(starts) : d.task = t
  <2> DEFINE d == [rank |-> 2, task |-> t, agent |-> AgentFor(t, as), to |-> "Assigned"]
  <2>1. d \in start(starts) /\ d.task = t
    OBVIOUS
  <2> QED BY <2>1
<1> HIDE DEF settle, block, start, blocked, queue, free
<1>6. Started(decisions) = starts
  BY <1>1, <1>2, <1>3, <1>4, <1>5 DEF Started
<1> QED BY <1>1, <1>6 DEF queue, free

(* A pass of the scheduler has one outcome, for any farm and any leases:    *)
(* that it takes the ready tasks in order, each with its paths out of the   *)
(* way of those after it, says which are started (scheduler::decide).      *)
THEOREM PassIsOne ==
  ASSUME NEW f, NEW level, NEW st, NEW at, NEW as, NEW ls
  PROVE  \E decisions : Decide(f, level, st, at, as, ls) = {decisions}
<1> DEFINE queue == Queue(f, level, st)
           free  == Free(st)
<1>1. queue \in SUBSET Tasks
  BY DEF Queue, ReadyTasks
<1>2. \E s : Picks(queue, free, ls, at, as, s)
  <2> HIDE DEF queue, free
  <2> QED BY <1>1, PicksExist
<1>3. PICK s : Picks(queue, free, ls, at, as, s)
  BY <1>2
<1>4. s \in SUBSET queue
  <2> HIDE DEF queue, free
  <2> QED BY <1>3 DEF Picks
<1>5. {r \in SUBSET queue : Picks(queue, free, ls, at, as, r)} = {s}
  <2> HIDE DEF queue, free
  <2> QED BY <1>1, <1>3, <1>4, PicksAgree
<1> DEFINE blocked(starts) == {t \in queue : /\ Reached(t, free, starts)
                                             /\ \/ AgentFor(t, as) = NoAgent
                                                \/ /\ Clear(t, ls, starts)
                                                   /\ at[t] >= MaxAttempts}
           block(tasks, rank) == {[rank |-> rank, task |-> t, agent |-> NoAgent,
                                   to |-> "Blocked"] : t \in tasks}
           start(tasks)  == {[rank |-> 2, task |-> t, agent |-> AgentFor(t, as),
                              to |-> "Assigned"] : t \in tasks}
           settle(tasks) == {[rank |-> 0, task |-> t, agent |-> NoAgent,
                              to |-> CHOOSE x \in ContainerStatus(st, t) : TRUE] : t \in tasks}
           outcome(starts) == settle(Settled(st)) \cup block(Stranded(st), 1)
                                \cup block(blocked(starts), 2) \cup start(starts)
<1>6. Decide(f, level, st, at, as, ls) =
        {outcome(starts) : starts \in {r \in SUBSET queue : Picks(queue, free, ls, at, as, r)}}
  BY DEF Decide, Queue, Free, Running, Settled
<1> HIDE DEF outcome, queue, free
<1>7. Decide(f, level, st, at, as, ls) = {outcome(s)}
  BY <1>5, <1>6
<1> QED BY <1>7

(* The tasks one pass starts do not touch the same files as each other or   *)
(* as anything that holds a lease, and with those that run they are within  *)
(* the number the farm runs at once (scheduler::decide, and its copy of the *)
(* leases and its count of free slots).                                    *)
THEOREM PassFits ==
  ASSUME NEW f, NEW level, NEW st, NEW at, NEW as, NEW ls,
         NEW decisions \in Decide(f, level, st, at, as, ls)
  PROVE  LET starts == Started(decisions) IN
         /\ \A t, u \in starts : t # u => <<t, u>> \notin Overlap
         /\ \A t \in starts : ~Contended(t, ls)
         /\ starts # {} => Cardinality(starts) + Running(st) <= MaxParallel
<1> DEFINE queue  == Queue(f, level, st)
           free   == Free(st)
           starts == Started(decisions)
<1>1. Picks(queue, free, ls, at, as, starts) /\ queue \in SUBSET Tasks
  BY StartsThePicks DEF Queue, ReadyTasks
<1>2. Running(st) \in Nat /\ MaxParallel \in Nat
  <2>1. {t \in Tasks : st[t] = "Running"} \in SUBSET Tasks
    OBVIOUS
  <2> QED BY <2>1, TaskGraphAssumption, FS_Subset, FS_CardinalityType DEF Running
<1> HIDE DEF queue, starts
<1>3. starts \in SUBSET Tasks
      /\ \A t \in starts : Reached(t, free, starts) /\ Clear(t, ls, starts)
  BY <1>1 DEF Picks
<1>4. ASSUME NEW t \in starts, NEW u \in starts, t # u PROVE <<t, u>> \notin Overlap
  <2>1. Sooner(t, u) \/ Sooner(u, t)
    BY <1>3, <1>4, SoonerOrders
  <2>2. <<t, u>> \notin Overlap \/ <<u, t>> \notin Overlap
    BY <1>3, <1>4, <2>1 DEF Clear, Contended
  <2> QED BY <1>3, <2>2, TaskGraphAssumption
<1>5. ASSUME NEW t \in starts PROVE ~Contended(t, ls)
  BY <1>3 DEF Clear, Contended
<1>6. ASSUME starts # {} PROVE Cardinality(starts) + Running(st) <= MaxParallel
  <2>1. PICK t \in starts : \A u \in starts : u # t => Sooner(u, t)
    BY <1>3, <1>6, Hindmost
  <2>2. {u \in starts : Sooner(u, t)} = starts \ {t}
    BY <1>3, <2>1, SoonerOrders
  <2>3. IsFiniteSet(starts)
    BY <1>3, TaskGraphAssumption, FS_Subset
  <2>4. Cardinality(starts) \in Nat /\ Cardinality(starts \ {t}) = Cardinality(starts) - 1
    BY <2>1, <2>3, FS_CardinalityType, FS_RemoveElement
  <2>5. Cardinality(starts) - 1 < free
    BY <1>3, <2>1, <2>2, <2>4 DEF Reached
  <2>6. CASE Running(st) < MaxParallel
    <3>1. free = MaxParallel - Running(st)
      BY <2>6 DEF Free
    <3> HIDE DEF free
    <3> QED BY <1>2, <2>4, <2>5, <3>1
  <2>7. CASE ~(Running(st) < MaxParallel)
    <3>1. free = 0
      BY <2>7 DEF Free
    <3>2. Cardinality(starts) # 0
      BY <1>6, <2>3, FS_EmptySet
    <3> HIDE DEF free
    <3> QED BY <2>4, <2>5, <3>1, <3>2
  <2> QED BY <2>6, <2>7
<1> QED BY <1>4, <1>5, <1>6 DEF starts

-----------------------------------------------------------------------------
(* What is held.                                                           *)

(* A thread has a job while it has anything to do, and only the thread of a *)
(* run waits for one; it holds nothing when it is done, has just begun, or  *)
(* has returned and asks the scheduler on its way to watch.                 *)
Shape(x, v) ==
  /\ v.pc = "idle" <=> v.job = "none"
  /\ IF x \in RunIds THEN v.job \in {"none", "watch"} ELSE v.job # "watch"
  /\ v.pc \in {"retry", "halt", "kill"} => v.job = "command"
  /\ v.pc \in {"idle", "watch", "report", "retry", "halt", "kill"} => v.duty = {}
  /\ v.then = "watch" => v.duty = {} /\ (InTick(v) \/ v.pc \in {"report", "watch"})
  /\ x \in RunIds /\ v.pc = "watch" => v.then = "watch"

Shaped == \A x \in Threads : Shape(x, th[x])

(* What every step of a thread x that was v and becomes w does.             *)
Proceeds(x, v, w) ==
  /\ Shape(x, w)
  /\ WillWatch(v) => WillWatch(w)
  /\ "stop" \in v.duty => w.task = v.task /\ ("stop" \in w.duty \/ stops'[v.task] = "none")
  /\ x \in RunIds => /\ w.pc # "idle" /\ w.task = v.task
                     /\ v.then = "ret" => w.then = "ret" \/ cancellations'[v.task] # x
  /\ w.pc # "await"
  /\ w.pc \in Launcher => v.pc \in Launcher \cup {"spawn"}

Goes(x) == Proceeds(x, th[x], th'[x]) /\ \A y \in Threads \ {x} : th'[y] = th[y]

(* The steps of a tick, of the start of an agent, and those at which a      *)
(* thread is at none of its ends.                                          *)
Round == {"tick", "act", "refused"}
Ends  == {"idle", "watch", "report", "retry", "halt", "kill", "await", "ret"}
Work  == Pcs \ (Round \cup Starter \cup Launcher \cup Ends)

(* From its work a thread goes to other work, to return, or to a start.     *)
LEMMA WorkProceeds ==
  ASSUME NEW x, NEW v \in Thread, NEW w \in Thread, Shape(x, v), v.pc \in Work \cup {"await"},
         w.pc \in Work \cup Round \cup Starter \cup {"ret"},
         w.job = v.job, w.task = v.task, v.duty \subseteq w.duty, w.then \in {v.then, "ret"}
  PROVE  Proceeds(x, v, w)
<1>1. /\ v.pc \notin {"idle", "watch", "report", "retry", "halt", "kill", "ret"}
      /\ v.pc \notin Round \cup Starter \cup Launcher
  BY DEF Work, Round, Ends, Starter, Launcher
<1>2. ~InTick(v) /\ v.then # "watch" /\ v.job # "none"
  BY <1>1 DEF Shape, InTick, Round, Starter, Launcher
<1>3. /\ w.pc \notin {"idle", "watch", "report", "retry", "halt", "kill", "await"}
      /\ w.pc \notin Launcher
  BY DEF Work, Round, Ends, Starter, Launcher
<1>4. w.then = "ret"
  BY <1>2 DEF Thread
<1>5. Shape(x, w)
  BY <1>2, <1>3, <1>4 DEF Shape
<1>6. WillWatch(v) => WillWatch(w)
  BY <1>1, <1>2, <1>3 DEF WillWatch
<1> QED BY <1>2, <1>3, <1>4, <1>5, <1>6 DEF Proceeds, Shape

(* In a start it goes on with the start.                                    *)
LEMMA StartProceeds ==
  ASSUME NEW x, NEW v \in Thread, NEW w \in Thread, Shape(x, v),
         v.pc \in Starter \cup Launcher, w.pc \in Starter \cup Launcher,
         w.pc \in Launcher => v.pc \in Launcher \cup {"spawn"},
         w.job = v.job, w.task = v.task, w.duty = v.duty, w.then = v.then, w.from = v.from
  PROVE  Proceeds(x, v, w)
<1>1. v.pc \notin Ends /\ w.pc \notin Ends /\ InTick(v) = InTick(w)
  BY DEF Ends, Starter, Launcher, InTick
<1>2. v.job # "none" /\ (v.then = "watch" => v.duty = {} /\ InTick(v))
  BY <1>1 DEF Shape, Ends
<1>3. Shape(x, w)
  BY <1>1, <1>2 DEF Shape, Ends
<1>4. WillWatch(v) => WillWatch(w)
  BY <1>1 DEF WillWatch, Ends
<1> QED BY <1>1, <1>2, <1>3, <1>4 DEF Proceeds, Ends

(* A start ends where it was asked for.                                    *)
LEMMA StartEndProceeds ==
  ASSUME TypeInv, NEW x \in Threads, Shape(x, th[x]), th[x].pc \in Starter \cup Launcher,
         NEW err \in BOOLEAN, StartEnds(x, err)
  PROVE  Goes(x) /\ th'[x].pc \notin Launcher
<1> DEFINE v == th[x]  w == th'[x]
<1>0. v \in Thread /\ v.pc \notin Ends /\ v.then \in {"ret", "watch"}
  BY AThread DEF Ends, Starter, Launcher, Thread
<1>1. \A y \in Threads \ {x} : th'[y] = th[y]
  BY Others DEF StartEnds
<1>2. CASE v.from = "tick"
  <2>1. /\ w.pc \in {"refused", "act"} /\ w.job = v.job /\ w.task = v.task /\ w.duty = v.duty
        /\ w.then = v.then
    <3> DEFINE u == [v EXCEPT !.pc = IF err THEN "refused" ELSE "act", !.agent = NoAgent,
                              !.run = 0]
    <3>1. /\ u.pc \in {"refused", "act"} /\ u.job = v.job /\ u.task = v.task /\ u.duty = v.duty
          /\ u.then = v.then
      BY <1>0 DEF Thread
    <3>2. w = u
      BY <1>2, Others DEF StartEnds
    <3> QED BY <3>1, <3>2
  <2>2. InTick(v) /\ InTick(w)
    BY <1>2, <2>1 DEF InTick, Starter, Launcher
  <2> HIDE DEF v, w
  <2>3. Proceeds(x, v, w)
    BY <1>0, <2>1, <2>2 DEF Proceeds, Shape, WillWatch, Ends, Launcher, v
  <2> QED BY <1>1, <2>1, <2>3 DEF v, w, Goes, Launcher
<1>3. CASE v.from # "tick"
  <2>1. /\ w.pc = "ret" /\ w.job = v.job /\ w.task = v.task /\ w.duty = v.duty
        /\ w.then = v.then
    <3> DEFINE u == [v EXCEPT !.pc = "ret", !.err = err, !.from = "tick", !.agent = NoAgent,
                              !.run = 0, !.commit = 0]
    <3>1. /\ u.pc = "ret" /\ u.job = v.job /\ u.task = v.task /\ u.duty = v.duty
          /\ u.then = v.then
      BY <1>0 DEF Thread
    <3>2. w = u
      BY <1>3, Others DEF StartEnds
    <3> QED BY <3>1, <3>2
  <2>2. ~InTick(v)
    BY <1>0, <1>3 DEF InTick, Starter, Launcher
  <2>3. v.then = "ret"
    BY <1>0, <2>2 DEF Shape, Ends
  <2>4. v.job # "none" /\ ~(v.pc = "ret")
    BY <1>0 DEF Shape, Ends
  <2> HIDE DEF v, w
  <2>5. Proceeds(x, v, w)
    BY <1>0, <2>1, <2>2, <2>3, <2>4 DEF Proceeds, Shape, WillWatch, Ends, Launcher, v
  <2> QED BY <1>1, <2>1, <2>5 DEF v, w, Goes, Launcher
<1> QED BY <1>2, <1>3

(* In a tick it goes on with the tick, or with a start the tick decided on. *)
LEMMA RoundProceeds ==
  ASSUME NEW x, NEW v \in Thread, NEW w \in Thread, Shape(x, v),
         v.pc \in Round, InTick(w), w.pc \notin Launcher,
         w.job = v.job, w.task = v.task, w.duty = v.duty, w.then = v.then
  PROVE  Proceeds(x, v, w)
<1>1. v.pc \notin Ends /\ w.pc \notin Ends /\ InTick(v)
  BY DEF Ends, Round, InTick
<1>2. v.job # "none"
  BY <1>1 DEF Shape, Ends
<1>3. Shape(x, w)
  BY <1>1, <1>2 DEF Shape, Ends
<1>4. WillWatch(v) => WillWatch(w)
  BY <1>1 DEF WillWatch, Ends
<1> QED BY <1>1, <1>2, <1>3, <1>4 DEF Proceeds, Ends

LEMMA NextThread == ASSUME TypeInv', NEW x \in Threads PROVE th'[x] \in Thread
BY DEF TypeInv, Worker

LEMMA GoesWork ==
  ASSUME TypeInv, TypeInv', Shaped, NEW x \in Threads, NEW w, Becomes(x, w),
         th[x].pc \in Work \cup {"await"}, w.pc \in Work \cup Round \cup Starter \cup {"ret"},
         w.job = th[x].job, w.task = th[x].task, th[x].duty \subseteq w.duty,
         w.then \in {th[x].then, "ret"}
  PROVE  Goes(x)
<1>1. th[x] \in Thread /\ th'[x] \in Thread
  BY AThread, NextThread
<1>2. th'[x] = w /\ \A y \in Threads \ {x} : th'[y] = th[y]
  BY Others
<1> QED BY <1>1, <1>2, WorkProceeds DEF Goes, Shaped

LEMMA GoesOnOrReturns ==
  ASSUME TypeInv, TypeInv', Shaped, NEW x \in Threads, th[x].pc \in Work \cup {"await"}
  PROVE  /\ \A pc \in Work : Goto(x, pc) => Goes(x)
         /\ Return(x) \/ Fail(x) => Goes(x)
<1>0. th[x] \in Thread
  BY AThread
<1>1. ASSUME NEW pc \in Work, Goto(x, pc) PROVE Goes(x)
  <2> DEFINE w == [th[x] EXCEPT !.pc = pc]
  <2>1. w.pc = pc /\ w.job = th[x].job /\ w.task = th[x].task /\ w.duty = th[x].duty
        /\ w.then = th[x].then
    BY <1>0 DEF Thread
  <2>2. Becomes(x, w)
    BY <1>1 DEF Goto
  <2> HIDE DEF w
  <2> QED BY <2>1, <2>2, GoesWork
<1>2. ASSUME NEW err, Becomes(x, [th[x] EXCEPT !.pc = "ret", !.err = err]) PROVE Goes(x)
  <2> DEFINE w == [th[x] EXCEPT !.pc = "ret", !.err = err]
  <2>1. w.pc = "ret" /\ w.job = th[x].job /\ w.task = th[x].task /\ w.duty = th[x].duty
        /\ w.then = th[x].then
    BY <1>0 DEF Thread
  <2>2. Becomes(x, w)
    BY <1>2
  <2> HIDE DEF w
  <2> QED BY <2>1, <2>2, GoesWork
<1> QED BY <1>1, <1>2 DEF Return, Fail

LEMMA GoesScheduling ==
  ASSUME TypeInv, TypeInv', Shaped, NEW x \in Threads, Scheduling(x)
  PROVE  Goes(x)
<1> DEFINE v == th[x]  w == th'[x]
<1>0. v \in Thread /\ w \in Thread /\ Shape(x, v)
  BY AThread, NextThread DEF Shaped
<1>1. v.pc \in Round /\ v.then \in {"ret", "watch"} /\ v.job # "await"
  BY <1>0 DEF Scheduling, Tick, TickEnds, ActBlock, ActSettle, ActStart, ActRefused, At, Round,
      Thread
<1>2. \A y \in Threads \ {x} : th'[y] = th[y]
  BY Others DEF Scheduling, Tick, TickEnds, ActBlock, ActSettle, ActStart, ActRefused, Goto
<1>3. CASE TickEnds(x)
  <2> DEFINE u == [v EXCEPT !.pc = v.then, !.err = FALSE]
  <2>1. /\ u.pc = v.then /\ u.err = FALSE /\ u.job = v.job /\ u.task = v.task
        /\ u.duty = v.duty /\ u.then = v.then
    BY <1>0 DEF Thread
  <2>2. w = u
    BY <1>3, Others DEF TickEnds
  <2>3. /\ w.pc = v.then /\ ~w.err /\ w.job = v.job /\ w.task = v.task
        /\ w.duty = v.duty /\ w.then = v.then
    BY <2>1, <2>2
  <2>4. v.job # "none" /\ (v.then = "watch" => v.duty = {})
    BY <1>0, <1>1 DEF Shape, Round
  <2> HIDE DEF v, w
  <2>5. Shape(x, w)
    BY <1>0, <1>1, <2>3, <2>4 DEF Shape
  <2>6. WillWatch(w)
    BY <1>0, <1>1, <2>3, <2>4 DEF WillWatch, Thread
  <2>7. Proceeds(x, v, w)
    BY <1>1, <2>3, <2>5, <2>6 DEF Proceeds, Launcher
  <2> QED BY <1>2, <2>7 DEF Goes, v, w
<1>4. CASE Tick(x) \/ ActBlock(x) \/ ActSettle(x) \/ ActStart(x) \/ ActRefused(x)
  <2>1. /\ w.pc \in Round \/ (w.pc \in Starter /\ w.from = "tick")
        /\ w.job = v.job /\ w.task = v.task /\ w.duty = v.duty /\ w.then = v.then
    <3>1. CASE Tick(x)
      <4>1. PICK q : Becomes(x, [v EXCEPT !.pc = "act", !.queue = q])
        BY <3>1 DEF Tick
      <4>2. w = [v EXCEPT !.pc = "act", !.queue = q]
        BY <4>1, Others
      <4> QED BY <1>0, <4>2 DEF Thread, Round
    <3>2. CASE ActBlock(x) \/ ActSettle(x)
      <4>1. PICK d : Becomes(x, [v EXCEPT !.queue = @ \ {d}])
        BY <3>2 DEF ActBlock, ActSettle
      <4>2. w = [v EXCEPT !.queue = @ \ {d}]
        BY <4>1, Others
      <4> QED BY <1>0, <1>1, <4>2 DEF Thread
    <3>3. CASE ActStart(x)
      <4>1. PICK d : Becomes(x, [v EXCEPT !.pc = "claim", !.queue = @ \ {d}, !.from = "tick",
                                          !.start = d.task, !.agent = d.agent])
        BY <3>3 DEF ActStart
      <4>2. w = [v EXCEPT !.pc = "claim", !.queue = @ \ {d}, !.from = "tick",
                          !.start = d.task, !.agent = d.agent]
        BY <4>1, Others
      <4> QED BY <1>0, <4>2 DEF Thread, Starter
    <3>4. CASE ActRefused(x)
      <4>1. w = [v EXCEPT !.pc = "act"]
        BY <3>4, Others DEF ActRefused, Goto
      <4> QED BY <1>0, <4>1 DEF Thread, Round
    <3> QED BY <1>4, <3>1, <3>2, <3>3, <3>4
  <2>2. InTick(w) /\ w.pc \notin Launcher
    BY <2>1 DEF InTick, Round, Starter, Launcher
  <2> HIDE DEF v, w
  <2>3. Proceeds(x, v, w)
    BY <1>0, <1>1, <2>1, <2>2, RoundProceeds
  <2> QED BY <1>2, <2>3 DEF Goes, v, w
<1> QED BY <1>3, <1>4 DEF Scheduling

LEMMA GoesStarting ==
  ASSUME TypeInv, TypeInv', Shaped, NEW x \in Threads, Starting(x)
  PROVE  Goes(x)
<1> DEFINE v == th[x]  w == th'[x]
<1>0. v \in Thread /\ w \in Thread /\ Shape(x, v) /\ v.pc \in Starter \cup Launcher
  BY AThread, NextThread DEF Shaped, Starting, Claim, Assign, Cut, Spawn, SetRunning, Register,
     Enqueue, At, Starter, Launcher
<1>1. ASSUME NEW err \in BOOLEAN, StartEnds(x, err) PROVE Goes(x)
  BY <1>0, <1>1, StartEndProceeds
<1>2. ASSUME NEW pc \in Starter \cup Launcher, Goto(x, pc),
             pc \in Launcher => v.pc \in Launcher
      PROVE  Goes(x)
  <2>1. w = [v EXCEPT !.pc = pc] /\ \A y \in Threads \ {x} : th'[y] = th[y]
    BY <1>2, Others DEF Goto
  <2>2. /\ w.pc = pc /\ w.job = v.job /\ w.task = v.task /\ w.duty = v.duty
        /\ w.then = v.then /\ w.from = v.from
    BY <1>0, <2>1 DEF Thread
  <2>3. Proceeds(x, v, w)
    BY <1>0, <1>2, <2>2, StartProceeds
  <2> QED BY <2>1, <2>3 DEF Goes
<1>3. ASSUME Claim(x) \/ Assign(x) \/ Cut(x), NEW pc \in {"assign", "cut", "spawn"}, Goto(x, pc)
      PROVE  Goes(x)
  BY <1>2, <1>3 DEF Starter, Launcher
<1>4. CASE Claim(x) \/ Assign(x) \/ Cut(x)
  <2>1. \/ \E pc \in {"assign", "cut", "spawn"} : Goto(x, pc)
        \/ StartEnds(x, TRUE)
    BY <1>4 DEF Claim, Assign, Cut
  <2> QED BY <1>1, <1>3, <1>4, <2>1
<1>5. CASE Spawn(x)
  <2>1. CASE StartEnds(x, TRUE)
    BY <1>1, <2>1
  <2>2. CASE ~StartEnds(x, TRUE)
    <3> DEFINE phase == IF v.from = "review" THEN "Review" ELSE "Implementation"
               pc    == IF phase = "Review" THEN "register" ELSE "running"
    <3>1. PICK r : Becomes(x, [v EXCEPT !.run = r, !.commit = 0, !.pc = pc])
      BY <1>5, <2>2 DEF Spawn
    <3>2. w = [v EXCEPT !.run = r, !.commit = 0, !.pc = pc]
          /\ \A y \in Threads \ {x} : th'[y] = th[y]
      BY <3>1, Others
    <3>3. /\ w.pc = pc /\ w.job = v.job /\ w.task = v.task /\ w.duty = v.duty
          /\ w.then = v.then /\ w.from = v.from
      BY <1>0, <3>2 DEF Thread
    <3>4. v.pc = "spawn" /\ w.pc \in Launcher
      BY <1>5, <3>3 DEF Spawn, At, Launcher
    <3>5. Proceeds(x, v, w)
      BY <1>0, <3>3, <3>4, StartProceeds
    <3> QED BY <3>2, <3>5 DEF Goes
  <2> QED BY <2>1, <2>2
<1>6. CASE SetRunning(x) \/ Register(x)
  <2>1. \/ \E pc \in {"register", "enqueue"} : Goto(x, pc)
        \/ StartEnds(x, TRUE)
    BY <1>6 DEF SetRunning, Register
  <2>2. v.pc \in Launcher
    BY <1>6 DEF SetRunning, Register, At, Launcher
  <2> QED BY <1>1, <1>2, <2>1, <2>2 DEF Launcher
<1>7. CASE Enqueue(x)
  BY <1>1, <1>7 DEF Enqueue
<1> QED BY <1>4, <1>5, <1>6, <1>7 DEF Starting

LEMMA GoesWaiting ==
  ASSUME TypeInv, TypeInv', Shaped, NEW x \in Threads, Waiting(x), ~WatchPending(x)
  PROVE  Goes(x)
<1> DEFINE v == th[x]
<1>0. v \in Thread /\ v.pc \in Work \cup {"await"}
  BY AThread DEF Waiting, Await, Finish, DropLease, Discredit, GiveUp, At, Work, Pcs, Round,
     Starter, Launcher, Ends
<1>1. CASE Await(x)
  <2> DEFINE ended == IF runs[x].proc = "killed" \/ status[v.task] = "Cancelled"
                      THEN "cancelled" ELSE runs[x].proc
             w == [v EXCEPT !.pc = "finish", !.ended = ended]
  <2>1. Becomes(x, w)
    BY <1>1 DEF Await
  <2>2. w.pc = "finish" /\ w.job = v.job /\ w.task = v.task /\ w.duty = v.duty /\ w.then = v.then
    BY <1>0 DEF Thread
  <2>3. w.pc \in Work
    BY <2>2 DEF Work, Pcs, Round, Starter, Launcher, Ends
  <2> HIDE DEF w
  <2> QED BY <1>0, <2>1, <2>2, <2>3, GoesWork
<1>2. CASE ~Await(x)
  <2>1. \/ \E pc \in {"dropLease", "discredit", "conclude", "verify", "giveUp", "reject"} : Goto(x, pc)
        \/ Return(x) \/ Fail(x)
    BY <1>2 DEF Waiting, Finish, FinishTo, DropLease, Discredit, GiveUp
  <2>2. {"dropLease", "discredit", "conclude", "verify", "giveUp", "reject"} \subseteq Work
    BY DEF Work, Pcs, Round, Starter, Launcher, Ends
  <2> QED BY <1>0, <2>1, <2>2, GoesOnOrReturns
<1> QED BY <1>1, <1>2

LEMMA GoesChecking ==
  ASSUME TypeInv, TypeInv', Shaped, NEW x \in Threads, Checking(x)
  PROVE  Goes(x)
<1> DEFINE v == th[x]
           Further == {"verification", "before", "check", "judge", "reject", "review", "block",
                    "requeue"}
<1>0. v \in Thread /\ v.pc \in Work \cup {"await"} /\ Further \subseteq Work
  <2> DEFINE here == {"verify", "verification", "before", "check", "judge", "reject", "block",
                     "requeue"}
  <2>1. v \in Thread
    BY AThread
  <2>2. v.pc \in here
    BY DEF Checking, Verify, Verification, Before, Check, Judge, Reject, Block, Requeue, At
  <2>3. here \subseteq Work /\ Further \subseteq Work
    BY DEF Work, Pcs, Round, Starter, Launcher, Ends
  <2> HIDE DEF here, v, Further
  <2> QED BY <2>1, <2>2, <2>3
<1>1. ASSUME NEW w, Becomes(x, w), w.pc \in Further \cup {"tick"}, w.job = v.job, w.task = v.task,
             v.duty \subseteq w.duty, w.then \in {v.then, "ret"}
      PROVE  Goes(x)
  BY <1>0, <1>1, GoesWork DEF Round
<1>2. CASE Return(x) \/ Fail(x)
  BY <1>0, <1>2, GoesOnOrReturns
<1>3. ASSUME NEW pc \in Further, Goto(x, pc) PROVE Goes(x)
  BY <1>0, <1>3, GoesOnOrReturns
<1>4. CASE Verify(x) /\ ~Fail(x)
  <2> DEFINE w == [v EXCEPT !.pc = "verification", !.list = checkList, !.duty = @ \cup {"stop"}]
  <2>1. Becomes(x, w)
    BY <1>4 DEF Verify
  <2>2. w.pc = "verification" /\ w.job = v.job /\ w.task = v.task /\ v.duty \subseteq w.duty
        /\ w.then = v.then
    BY <1>0 DEF Thread
  <2> HIDE DEF w
  <2> QED BY <1>1, <2>1, <2>2
<1>5. CASE Before(x)
  <2> DEFINE w == [v EXCEPT !.pc = "check", !.commit = CleanCommit(v.task)]
  <2>1. Becomes(x, w)
    BY <1>5 DEF Before
  <2>2. w.pc = "check" /\ w.job = v.job /\ w.task = v.task /\ w.duty = v.duty /\ w.then = v.then
    BY <1>0 DEF Thread
  <2> HIDE DEF w
  <2> QED BY <1>1, <2>1, <2>2
<1>6. CASE Check(x)
  <2>1. PICK result : Becomes(x, [v EXCEPT !.pc = "judge", !.ended = result])
    BY <1>6 DEF Check
  <2> DEFINE w == [v EXCEPT !.pc = "judge", !.ended = result]
  <2>2. w.pc = "judge" /\ w.job = v.job /\ w.task = v.task /\ w.duty = v.duty /\ w.then = v.then
    BY <1>0 DEF Thread
  <2> HIDE DEF w
  <2> QED BY <1>1, <2>1, <2>2 DEF w
<1>7. CASE Judge(x) /\ ~Return(x)
  <2> DEFINE pc == IF v.ended = "fail" THEN "reject" ELSE "review"
             w  == [v EXCEPT !.pc = pc, !.commit = 0, !.ended = "none", !.list = SomeList]
  <2>1. Becomes(x, w)
    BY <1>7 DEF Judge
  <2>2. w.pc \in Further /\ w.job = v.job /\ w.task = v.task /\ w.duty = v.duty /\ w.then = v.then
    BY <1>0 DEF Thread
  <2> HIDE DEF w
  <2> QED BY <1>1, <2>1, <2>2
<1>8. CASE Requeue(x) /\ ~Fail(x)
  <2> DEFINE w == [v EXCEPT !.pc = "tick", !.then = "ret"]
  <2>1. Becomes(x, w)
    BY <1>8 DEF Requeue
  <2>2. w.pc = "tick" /\ w.job = v.job /\ w.task = v.task /\ w.duty = v.duty /\ w.then = "ret"
    BY <1>0 DEF Thread
  <2> HIDE DEF w
  <2> QED BY <1>1, <2>1, <2>2
<1>9. CASE Verification(x) \/ Reject(x) \/ Block(x)
  <2>1. (\E pc \in Further : Goto(x, pc)) \/ Return(x) \/ Fail(x)
    BY <1>9 DEF Verification, Reject, Block, GotoOrFail
  <2> QED BY <1>2, <1>3, <2>1
<1> QED BY <1>2, <1>4, <1>5, <1>6, <1>7, <1>8, <1>9 DEF Checking

LEMMA GoesReviewing ==
  ASSUME TypeInv, TypeInv', Shaped, NEW x \in Threads, Reviewing(x)
  PROVE  Goes(x)
<1> DEFINE v == th[x]
           Further == {"pick", "reject", "approve", "merge"}
<1>0. v \in Thread /\ v.pc \in Work \cup {"await"} /\ Further \subseteq Work
  <2> DEFINE here == {"review", "pick", "conclude", "approve"}
  <2>1. v \in Thread
    BY AThread
  <2>2. v.pc \in here
    BY DEF Reviewing, Review, PickReviewer, Conclude, Approve, At
  <2>3. here \subseteq Work /\ Further \subseteq Work
    BY DEF Work, Pcs, Round, Starter, Launcher, Ends
  <2> HIDE DEF here, v, Further
  <2> QED BY <2>1, <2>2, <2>3
<1>1. CASE Return(x) \/ Fail(x)
  BY <1>0, <1>1, GoesOnOrReturns
<1>2. CASE PickReviewer(x) /\ ~Return(x)
  <2>1. PICK a : Becomes(x, [v EXCEPT !.pc = "spawn", !.from = "review", !.start = v.task,
                                      !.agent = a, !.commit = CleanCommit(v.task)])
    BY <1>2 DEF PickReviewer
  <2> DEFINE w == [v EXCEPT !.pc = "spawn", !.from = "review", !.start = v.task,
                            !.agent = a, !.commit = CleanCommit(v.task)]
  <2>2. w.pc = "spawn" /\ w.job = v.job /\ w.task = v.task /\ w.duty = v.duty /\ w.then = v.then
    BY <1>0 DEF Thread
  <2> HIDE DEF w
  <2> QED BY <1>0, <2>1, <2>2, GoesWork DEF w, Starter
<1>3. CASE Approve(x) /\ ~Return(x)
  <2> DEFINE w == [v EXCEPT !.pc = "merge", !.duty = @ \cup {"approve"}]
  <2>1. Becomes(x, w)
    BY <1>3 DEF Approve
  <2>2. w.pc = "merge" /\ w.job = v.job /\ w.task = v.task /\ v.duty \subseteq w.duty
        /\ w.then = v.then
    BY <1>0 DEF Thread
  <2> HIDE DEF w
  <2> QED BY <1>0, <2>1, <2>2, GoesWork
<1>4. CASE Review(x) \/ Conclude(x)
  <2>1. (\E pc \in Further : Goto(x, pc)) \/ Fail(x)
    BY <1>4 DEF Review, Conclude, GotoOrFail
  <2> QED BY <1>0, <1>1, <2>1, GoesOnOrReturns
<1> QED BY <1>1, <1>2, <1>3, <1>4 DEF Reviewing

LEMMA GoesLanding ==
  ASSUME TypeInv, TypeInv', Shaped, NEW x \in Threads, Landing(x)
  PROVE  Goes(x)
<1> DEFINE v == th[x]
           Further == {"evidence", "land", "reject", "conflict", "block", "arrived", "landed",
                       "remove", "verify", "requeue"}
<1>0. v \in Thread /\ v.pc \in Work \cup {"await"} /\ Further \subseteq Work
  <2> DEFINE here == {"merge", "evidence", "land", "merged", "arrived", "landed", "remove",
                     "conflict"}
  <2>1. v \in Thread
    BY AThread
  <2>2. v.pc \in here
    BY DEF Landing, Merge, CheckEvidence, LandOk, LandStops, MarkMerged, Arrived, Landed, Remove,
         AskPerson, ResolveByMerge, ResolveByAgent, At
  <2>3. here \subseteq Work /\ Further \subseteq Work
    BY DEF Work, Pcs, Round, Starter, Launcher, Ends
  <2> HIDE DEF here, v, Further
  <2> QED BY <2>1, <2>2, <2>3
<1>1. ASSUME NEW w, Becomes(x, w), w.pc \in Further \cup {"tick", "ret"}, w.job = v.job,
             w.task = v.task, w.duty = v.duty, w.then \in {v.then, "ret"}
      PROVE  Goes(x)
  BY <1>0, <1>1, GoesWork DEF Round
<1>2. CASE Return(x) \/ Fail(x)
  BY <1>0, <1>2, GoesOnOrReturns
<1>3. CASE Merge(x) /\ ~Fail(x)
  <2> DEFINE w == [v EXCEPT !.pc = "evidence", !.agent = implementedBy[v.task]]
  <2>1. Becomes(x, w)
    BY <1>3 DEF Merge
  <2>2. w.pc = "evidence" /\ w.job = v.job /\ w.task = v.task /\ w.duty = v.duty /\ w.then = v.then
    BY <1>0 DEF Thread
  <2> HIDE DEF w
  <2> QED BY <1>1, <2>1, <2>2
<1>4. CASE CheckEvidence(x)
  <2>1. PICK ok \in BOOLEAN :
          Becomes(x, [v EXCEPT !.agent = NoAgent, !.pc = IF ok THEN "land" ELSE "ret",
                               !.commit = IF ok THEN CleanCommit(v.task) ELSE 0, !.err = ~ok])
    BY <1>4 DEF CheckEvidence
  <2> DEFINE w == [v EXCEPT !.agent = NoAgent, !.pc = IF ok THEN "land" ELSE "ret",
                            !.commit = IF ok THEN CleanCommit(v.task) ELSE 0, !.err = ~ok]
  <2>2. w.pc \in {"land", "ret"} /\ w.job = v.job /\ w.task = v.task /\ w.duty = v.duty
        /\ w.then = v.then
    BY <1>0 DEF Thread
  <2>3. Becomes(x, w)
    BY <2>1
  <2> HIDE DEF w
  <2> QED BY <1>1, <2>2, <2>3
<1>5. CASE LandStops(x)
  <2>1. PICK pc \in {"reject", "conflict", "block"} :
          Becomes(x, [v EXCEPT !.commit = 0, !.pc = pc])
    BY <1>5 DEF LandStops
  <2> DEFINE w == [v EXCEPT !.commit = 0, !.pc = pc]
  <2>2. w.pc = pc /\ w.job = v.job /\ w.task = v.task /\ w.duty = v.duty /\ w.then = v.then
    BY <1>0 DEF Thread
  <2>3. Becomes(x, w)
    BY <2>1
  <2> HIDE DEF w
  <2> QED BY <1>1, <2>2, <2>3
<1>6. CASE Arrived(x) /\ ~Fail(x)
  <2> DEFINE w == [v EXCEPT !.pc = "landed", !.commit = CleanCommit(v.task)]
  <2>1. Becomes(x, w)
    BY <1>6 DEF Arrived
  <2>2. w.pc = "landed" /\ w.job = v.job /\ w.task = v.task /\ w.duty = v.duty /\ w.then = v.then
    BY <1>0 DEF Thread
  <2> HIDE DEF w
  <2> QED BY <1>1, <2>1, <2>2
<1>7. CASE Remove(x)
  <2> DEFINE w == [v EXCEPT !.pc = "tick", !.then = "ret", !.commit = 0]
  <2>1. Becomes(x, w)
    BY <1>7 DEF Remove
  <2>2. w.pc = "tick" /\ w.job = v.job /\ w.task = v.task /\ w.duty = v.duty /\ w.then = "ret"
    BY <1>0 DEF Thread
  <2> HIDE DEF w
  <2> QED BY <1>1, <2>1, <2>2
<1>8. CASE LandOk(x) \/ MarkMerged(x) \/ Landed(x) \/ AskPerson(x) \/ ResolveByMerge(x)
           \/ ResolveByAgent(x)
  <2>1. (\E pc \in Further : Goto(x, pc)) \/ Return(x) \/ Fail(x)
    BY <1>8 DEF LandOk, MarkMerged, Landed, AskPerson, ResolveByMerge, ResolveByAgent
  <2> QED BY <1>0, <1>2, <2>1, GoesOnOrReturns
<1> QED BY <1>2, <1>3, <1>4, <1>5, <1>6, <1>7, <1>8 DEF Landing

(* A thread that only lays down a duty, or gives its error up, returns      *)
(* further.                                                                *)
LEMMA GoesBack ==
  ASSUME TypeInv, TypeInv', Shaped, NEW x \in Threads, NEW w, Becomes(x, w), th[x].pc = "ret",
         w.job = th[x].job, w.task = th[x].task, w.then = th[x].then, w.pc = "ret",
         w.err => th[x].err,
         "stop" \in th[x].duty \ w.duty => stops'[th[x].task] = "none"
  PROVE  Goes(x)
<1> DEFINE v == th[x]
<1>1. v \in Thread /\ Shape(x, v) /\ th'[x] = w /\ \A y \in Threads \ {x} : th'[y] = th[y]
  BY AThread, Others DEF Shaped
<1>2. ~InTick(v) /\ ~InTick(w) /\ v.then # "watch"
  BY <1>1 DEF InTick, Shape
<1>3. Shape(x, w)
  BY <1>1, <1>2 DEF Shape
<1>4. WillWatch(v) => WillWatch(w)
  BY <1>2 DEF WillWatch
<1>5. Proceeds(x, v, w)
  BY <1>2, <1>3, <1>4 DEF Proceeds, Launcher
<1> QED BY <1>1, <1>5 DEF Goes

LEMMA GoesReturning ==
  ASSUME TypeInv, TypeInv', Shaped, NEW x \in Threads, Returning(x)
  PROVE  Goes(x)
<1> DEFINE v == th[x]  w == th'[x]
<1>0. v \in Thread /\ w \in Thread /\ Shape(x, v)
  BY AThread, NextThread DEF Shaped
<1>1. CASE ReturnFromVerify(x)
  <2> DEFINE u == [v EXCEPT !.duty = @ \ {"stop"}]
  <2>1. Becomes(x, u) /\ v.pc = "ret" /\ stops'[v.task] = "none"
    BY <1>1, AThread DEF ReturnFromVerify, At, TypeInv, TypeOK
  <2>2. u.pc = "ret" /\ u.job = v.job /\ u.task = v.task /\ u.then = v.then /\ u.err = v.err
    BY <1>0, <2>1 DEF Thread
  <2> HIDE DEF u
  <2> QED BY <2>1, <2>2, GoesBack
<1>2. CASE ReturnFromApprove(x)
  <2> DEFINE u == [v EXCEPT !.duty = {}, !.err = @ /\ ~MayMove(v.task, "Review")]
  <2>1. Becomes(x, u) /\ v.pc = "ret" /\ "stop" \notin v.duty
    BY <1>2 DEF ReturnFromApprove, At
  <2>2. u.pc = "ret" /\ u.job = v.job /\ u.task = v.task /\ u.then = v.then
        /\ (u.err => v.err)
    BY <1>0, <2>1 DEF Thread
  <2> HIDE DEF u
  <2> QED BY <2>1, <2>2, GoesBack
<1>3. CASE ReturnFromRun(x)
  <2> DEFINE pc == IF v.err THEN "report" ELSE "tick"
  <2>1. w = [v EXCEPT !.pc = pc, !.then = "watch"]
        /\ v.pc = "ret" /\ v.duty = {} /\ v.job = "watch"
    BY <1>3, Others DEF ReturnFromRun, At
  <2>2. w.pc \in {"report", "tick"} /\ w.job = v.job /\ w.task = v.task /\ w.duty = {}
    BY <1>0, <2>1 DEF Thread
  <2>3. \A y \in Threads \ {x} : th'[y] = th[y]
    BY <1>3, Others DEF ReturnFromRun
  <2>4. x \in RunIds => cancellations'[v.task] # x
    <3>1. x \in RunIds => x # 0
      BY FarmAssumption DEF RunIds
    <3>2. v.task \in Tasks /\ cancellations \in [Tasks -> 0..MaxRuns]
      BY AThread DEF TypeInv, TypeOK
    <3>3. cancellations'[v.task] = 0 \/ cancellations'[v.task] # x
      BY <1>3, <3>2 DEF ReturnFromRun
    <3> QED BY <3>1, <3>3
  <2>5. w.then = "watch" /\ v.then \in {"ret", "watch"}
    BY <1>0, <2>1 DEF Thread
  <2> HIDE DEF v, w
  <2>6. Shape(x, w)
    BY <1>0, <2>1, <2>2, <2>5 DEF Shape, InTick
  <2>7. WillWatch(w)
    BY <2>1, <2>2 DEF WillWatch
  <2>8. Proceeds(x, v, w)
    BY <2>1, <2>2, <2>4, <2>6, <2>7 DEF Proceeds, Launcher
  <2> QED BY <2>3, <2>8 DEF Goes, v, w
<1>4. CASE Report(x)
  <2>1. w = [v EXCEPT !.pc = "tick", !.err = FALSE] /\ v.pc = "report"
        /\ \A y \in Threads \ {x} : th'[y] = th[y]
    BY <1>4, Others DEF Report, At
  <2>2. w.pc = "tick" /\ w.job = v.job /\ w.task = v.task /\ w.duty = v.duty /\ w.then = v.then
    BY <1>0, <2>1 DEF Thread
  <2> HIDE DEF v, w
  <2>3. Proceeds(x, v, w)
    BY <1>0, <2>1, <2>2 DEF Proceeds, Shape, WillWatch, InTick, Launcher
  <2> QED BY <2>1, <2>3 DEF Goes, v, w
<1>5. CASE ReturnFromVerifyCommand(x) \/ (ReturnFromCommand(x) /\ ~Leave(x))
  <2>1. w = [v EXCEPT !.pc = "watch"] /\ v.pc = "ret" /\ v.duty = {}
        /\ v.job \in {"verify", "command"}
        /\ \A y \in Threads \ {x} : th'[y] = th[y]
    BY <1>5, Others DEF ReturnFromVerifyCommand, ReturnFromCommand, Goto, At
  <2>2. w.pc = "watch" /\ w.job = v.job /\ w.task = v.task /\ w.duty = v.duty /\ w.then = v.then
    BY <1>0, <2>1 DEF Thread
  <2>3. x \notin RunIds /\ v.then # "watch"
    BY <1>0, <2>1 DEF Shape, InTick
  <2> HIDE DEF v, w
  <2>4. Proceeds(x, v, w)
    BY <1>0, <2>1, <2>2, <2>3 DEF Proceeds, Shape, WillWatch, Launcher
  <2> QED BY <2>1, <2>4 DEF Goes, v, w
<1>6. CASE ReturnFromCommand(x) /\ Leave(x)
  <2>1. w = Idle /\ v.pc = "ret" /\ v.duty = {} /\ v.job = "command"
        /\ \A y \in Threads \ {x} : th'[y] = th[y]
    BY <1>6, Others DEF ReturnFromCommand, Leave, At
  <2>2. v.err
    <3>1. CASE ~v.err
      <4>1. th'[x] = [v EXCEPT !.pc = "watch"]
        BY <1>6, <3>1, Others DEF ReturnFromCommand, Goto
      <4>2. th'[x].pc = "watch"
        BY <1>0, <4>1 DEF Thread
      <4> QED BY <2>1, <4>2 DEF Idle
    <3> QED BY <3>1
  <2>3. x \notin RunIds /\ ~WillWatch(v)
    BY <1>0, <2>1, <2>2 DEF Shape, WillWatch, InTick
  <2>4. /\ Idle.pc = "idle" /\ Idle.job = "none" /\ Idle.duty = {} /\ Idle.then = "ret"
    BY DEF Idle
  <2> HIDE DEF v, w
  <2>5. Proceeds(x, v, w)
    BY <2>1, <2>3, <2>4 DEF Proceeds, Shape, Launcher
  <2> QED BY <2>1, <2>5 DEF Goes, v, w
<1> QED BY <1>1, <1>2, <1>3, <1>4, <1>5, <1>6 DEF Returning

LEMMA GoesCommanding ==
  ASSUME TypeInv, TypeInv', Shaped, NEW x \in Threads, Retry(x) \/ Halt(x) \/ Kill(x)
  PROVE  Goes(x)
<1> DEFINE v == th[x]  w == th'[x]
<1>0. v \in Thread /\ w \in Thread /\ Shape(x, v)
  BY AThread, NextThread DEF Shaped
<1>1. /\ v.pc \in {"retry", "halt", "kill"} /\ v.job = "command" /\ v.duty = {}
      /\ x \notin RunIds /\ ~WillWatch(v)
  BY <1>0 DEF Retry, Halt, Kill, At, Shape, WillWatch, InTick
<1>2. \A y \in Threads \ {x} : th'[y] = th[y]
  BY Others DEF Retry, Halt, Kill, BeginTick, Goto, Leave
<1>3. /\ w.pc \in {"tick", "kill", "idle"}
      /\ w.job = (IF w.pc = "idle" THEN "none" ELSE "command") /\ w.duty = {}
      /\ w.then = "watch" => w.pc = "tick"
  <2>1. CASE Retry(x)
    <3>1. w = [Idle EXCEPT !.pc = "tick", !.job = "command", !.then = "watch"]
      BY <2>1, Others DEF Retry, BeginTick
    <3> QED BY <3>1 DEF Idle
  <2>2. CASE Halt(x)
    <3>1. w = [v EXCEPT !.pc = "kill"] /\ v.pc = "halt"
      BY <2>2, Others DEF Halt, Goto, At
    <3>2. v.then # "watch"
      BY <1>0, <3>1 DEF Shape, InTick
    <3> QED BY <1>0, <1>1, <3>1, <3>2 DEF Thread
  <2>3. CASE Kill(x)
    <3>1. w = Idle
      BY <2>3, Others DEF Kill, Leave
    <3> QED BY <3>1 DEF Idle
  <2> QED BY <2>1, <2>2, <2>3
<1> HIDE DEF v, w
<1>4. Proceeds(x, v, w)
  BY <1>0, <1>1, <1>3 DEF Proceeds, Shape, InTick, Launcher
<1> QED BY <1>2, <1>4 DEF Goes, v, w

(* Every thread that takes a step goes on so, but the one that watches.     *)
LEMMA EveryoneGoes ==
  ASSUME TypeInv, TypeInv', Shaped, NEW x \in Threads, Step(x), ~WatchPending(x)
  PROVE  Goes(x)
BY GoesScheduling, GoesStarting, GoesWaiting, GoesChecking, GoesReviewing, GoesLanding,
   GoesReturning, GoesCommanding DEF Step

(* A command either leaves the threads alone, or begins one with no duties. *)
LEMMA CommandBegins ==
  ASSUME TypeInv, NEW p \in People, Command(p)
  PROVE  \/ UNCHANGED th
         \/ /\ At(p, "idle") /\ \A y \in Threads \ {p} : th'[y] = th[y]
            /\ Shape(p, th'[p]) /\ ~InTick(th[p]) /\ th'[p].pc \notin Launcher \cup {"idle", "await"}
            /\ th'[p].duty = {}
<1>0. p \in Threads /\ p \notin RunIds
  BY FarmAssumption DEF Threads
<1>1. CASE AskPause(p) \/ AskAssign(p) \/ AskConfigure(p) \/ PersonMerges(p)
  BY <1>1 DEF AskPause, AskAssign, AskConfigure, PersonMerges
<1>2. ASSUME NEW w, Becomes(p, w), At(p, "idle"),
             w.job \in {"command", "verify"}, w.duty = {}, w.then = "watch" => w.pc = "tick",
             w.pc \in {"tick", "claim", "verify"} \/
               (w.pc \in {"review", "merge", "merged", "retry", "halt"} /\ w.job = "command")
      PROVE  /\ At(p, "idle") /\ \A y \in Threads \ {p} : th'[y] = th[y]
             /\ Shape(p, th'[p]) /\ ~InTick(th[p])
             /\ th'[p].pc \notin Launcher \cup {"idle", "await"}
             /\ th'[p].duty = {}
  <2>1. th'[p] = w /\ \A y \in Threads \ {p} : th'[y] = th[y]
    BY <1>0, <1>2, Others
  <2>2. Shape(p, w) /\ w.pc \notin Launcher \cup {"idle", "await"}
    BY <1>0, <1>2 DEF Shape, InTick, Launcher
  <2> QED BY <1>2, <2>1, <2>2 DEF At, InTick
<1>3. ASSUME NEW pc \in {"review", "merge", "merged", "retry", "halt"}, NEW t, Begin(p, pc, t),
             At(p, "idle")
      PROVE  \E w : /\ Becomes(p, w) /\ w.job = "command" /\ w.duty = {} /\ w.then = "ret"
                    /\ w.pc = pc
  <2> DEFINE w == [Idle EXCEPT !.pc = pc, !.job = "command", !.task = t, !.start = t]
  <2>1. Becomes(p, w)
    BY <1>3 DEF Begin
  <2>2. w.job = "command" /\ w.duty = {} /\ w.then = "ret" /\ w.pc = pc
    BY DEF Idle
  <2> QED BY <2>1, <2>2
<1>4. CASE AskStep(p) \/ AskRetry(p) \/ AskCancel(p)
  <2>1. PICK pc \in {"review", "merge", "merged", "retry", "halt"}, t \in Tasks : Begin(p, pc, t)
    BY <1>4 DEF AskStep, AskRetry, AskCancel, FirstStep
  <2>2. At(p, "idle")
    BY <1>4 DEF AskStep, AskRetry, AskCancel, Asked
  <2> QED BY <1>2, <1>3, <2>1, <2>2
<1>5. CASE AskVerify(p)
  <2>1. PICK t : Becomes(p, [Idle EXCEPT !.pc = "verify", !.job = "verify", !.task = t, !.start = t])
    BY <1>5 DEF AskVerify
  <2> DEFINE w == [Idle EXCEPT !.pc = "verify", !.job = "verify", !.task = t, !.start = t]
  <2>2. w.job = "verify" /\ w.duty = {} /\ w.then = "ret" /\ w.pc = "verify"
    BY DEF Idle
  <2>3. Becomes(p, w) /\ At(p, "idle")
    BY <1>5, <2>1 DEF AskVerify, Asked
  <2> HIDE DEF w
  <2> QED BY <1>2, <2>2, <2>3
<1>6. CASE AskRun(p)
  <2>1. PICK t, a : Becomes(p, [Idle EXCEPT !.pc = "claim", !.job = "command", !.task = t,
                                            !.start = t, !.agent = a, !.from = "command"])
    BY <1>6 DEF AskRun
  <2> DEFINE w == [Idle EXCEPT !.pc = "claim", !.job = "command", !.task = t,
                               !.start = t, !.agent = a, !.from = "command"]
  <2>2. w.job = "command" /\ w.duty = {} /\ w.then = "ret" /\ w.pc = "claim"
    BY DEF Idle
  <2>3. Becomes(p, w) /\ At(p, "idle")
    BY <1>6, <2>1 DEF AskRun, Asked
  <2> HIDE DEF w
  <2> QED BY <1>2, <2>2, <2>3
<1>7. CASE AskReady(p) \/ AskStart(p)
  <2> DEFINE w == [Idle EXCEPT !.pc = "tick", !.job = "command", !.then = "watch"]
  <2>2. w.job = "command" /\ w.duty = {} /\ w.pc = "tick"
    BY DEF Idle
  <2>3. Becomes(p, w) /\ At(p, "idle")
    BY <1>7 DEF AskReady, AskStart, BeginTick, Asked
  <2> HIDE DEF w
  <2> QED BY <1>2, <2>2, <2>3
<1> QED BY <1>1, <1>4, <1>5, <1>6, <1>7 DEF Command

(* A thread that is claimed begins to wait, the one that watches is done.   *)
LEMMA Watching ==
  ASSUME TypeInv, NEW x \in Threads, WatchPending(x)
  PROVE  /\ \A r \in sessions : /\ th'[r].pc = "await" /\ th'[r].job = "watch"
                                /\ th'[r].task = runs[r].task /\ th'[r].duty = {}
                                /\ th'[r].then = "ret"
         /\ x \notin sessions => th'[x] = Idle
         /\ \A y \in Threads \ (sessions \cup {x}) : th'[y] = th[y]
BY DEF WatchPending, Claimed, Idle, TypeInv, TypeOK, Threads

LEMMA ShapedStays ==
  ASSUME TypeInv, TypeInv', Shaped, [Next]_vars
  PROVE  Shaped'
<1>1. ASSUME NEW x \in Threads, Step(x), ~WatchPending(x) PROVE Shaped'
  BY <1>1, EveryoneGoes DEF Goes, Proceeds, Shaped
<1>i. \A x : Shape(x, Idle)
  BY DEF Shape, Idle
<1>2. ASSUME NEW x \in Threads, WatchPending(x) PROVE Shaped'
  <2>1. \A y \in sessions : Shape(y, th'[y])
    <3> SUFFICES ASSUME NEW y \in sessions PROVE Shape(y, th'[y])
      OBVIOUS
    <3>1. /\ th'[y].pc = "await" /\ th'[y].job = "watch" /\ th'[y].duty = {}
          /\ th'[y].then = "ret" /\ y \in RunIds
      BY <1>2, Watching DEF TypeInv, TypeOK
    <3> QED BY <3>1 DEF Shape
  <2> QED BY <1>i, <1>2, <2>1, Watching DEF Shaped
<1>3. ASSUME NEW p \in People, Command(p) PROVE Shaped'
  BY <1>3, CommandBegins DEF Shaped, Threads
<1>4. ASSUME NEW r \in RunIds, Agent(r) PROVE Shaped'
  BY <1>4 DEF Agent, Edit, Commit, Exit, Shaped
<1>5. CASE Restart
  BY <1>i, <1>5 DEF Restart, Shaped
<1>6. CASE UNCHANGED vars
  BY <1>6 DEF vars, Shaped
<1> QED BY <1>1, <1>2, <1>3, <1>4, <1>5, <1>6 DEF Next

-----------------------------------------------------------------------------
(* Runs, from the start of their process to the end of the wait for it.     *)

(* The run a task's cancellation names is a session, waited for on behalf   *)
(* of the task, or about to be a session.                                  *)
StopReaches(t, r) ==
  \/ r \in sessions /\ runs[r].task = t
  \/ ~At(r, "idle") /\ th[r].task = t /\ th[r].then = "ret"
  \/ \E x \in Threads : At(x, "enqueue") /\ th[x].run = r /\ th[x].start = t

(* A run is started by one thread, which has it before it is a session, and *)
(* its own thread waits for it after that; a process is at one of the three *)
(* as long as it lives.                                                    *)
RunsInHand ==
  /\ \A x \in Threads : th[x].pc \in Launcher =>
       /\ runs[th[x].run].outcome # "none" /\ runs[th[x].run].task = th[x].start
       /\ At(th[x].run, "idle") /\ th[x].run \notin sessions
  /\ \A x, y \in Threads :
       th[x].pc \in Launcher /\ th[y].pc \in Launcher /\ th[x].run = th[y].run => x = y
  /\ \A r \in sessions : At(r, "idle") /\ runs[r].outcome # "none"
  /\ \A r \in RunIds : runs[r].outcome = "none" => At(r, "idle") /\ runs[r].proc # "alive"
  /\ \A r \in RunIds : runs[r].proc = "alive" =>
       r \in sessions \/ At(r, "await") \/ \E x \in Threads : th[x].pc \in Launcher /\ th[x].run = r
  /\ \A t \in Tasks : cancellations[t] # 0 => StopReaches(t, cancellations[t])

(* What is known of runs whose processes may have ended.                    *)
RunsAsWere ==
  \A r \in RunIds : /\ runs'[r].task = runs[r].task
                    /\ runs'[r].outcome = "none" <=> runs[r].outcome = "none"
                    /\ runs'[r].proc = "alive" => runs[r].proc = "alive"

LEMMA StopsAsWere ==
  ASSUME TypeInv, NEW R, runs' = Stop(R)
  PROVE  RunsAsWere /\ \A r \in R \cap RunIds : Reachable(r) => runs'[r].proc = "killed"
<1> SUFFICES ASSUME NEW r \in RunIds
             PROVE  /\ runs'[r].task = runs[r].task
                    /\ runs'[r].outcome = "none" <=> runs[r].outcome = "none"
                    /\ runs'[r].proc = "alive" => runs[r].proc = "alive"
                    /\ r \in R /\ Reachable(r) => runs'[r].proc = "killed"
  BY DEF RunsAsWere
<1>1. runs[r] \in Run
  BY DEF TypeInv, TypeOK
<1>2. runs'[r] = IF r \in R /\ Reachable(r) THEN [runs[r] EXCEPT !.proc = "killed"] ELSE runs[r]
  BY DEF Stop
<1>3. CASE r \in R /\ Reachable(r)
  <2>1. runs'[r] = [runs[r] EXCEPT !.proc = "killed"]
    BY <1>2, <1>3
  <2> QED BY <1>1, <2>1 DEF Run
<1>4. CASE ~(r \in R /\ Reachable(r))
  BY <1>2, <1>4
<1> QED BY <1>3, <1>4

(* Runs stay in hand when a thread that starts none goes on to start none,  *)
(* as long as what it gives up has ended and cannot be cancelled.           *)
LEMMA HandsStay ==
  ASSUME TypeInv, RunsInHand, RunsAsWere, NEW x \in Threads,
         \A y \in Threads \ {x} : th'[y] = th[y],
         th[x].pc \notin Launcher, th'[x].pc \notin Launcher,
         x \in RunIds =>
           /\ ~At(x, "idle") /\ ~At(x, "idle")' /\ th'[x].task = th[x].task
           /\ th[x].then = "ret" => th'[x].then = "ret" \/ cancellations'[th[x].task] # x
           /\ At(x, "await") => runs'[x].proc # "alive",
         \A t \in Tasks : cancellations'[t] \in {cancellations[t], 0},
         sessions' \subseteq sessions,
         \A r \in sessions \ sessions' :
           runs'[r].proc # "alive" /\ \A t \in Tasks : cancellations'[t] # r
  PROVE  RunsInHand'
<1>0. /\ sessions \subseteq RunIds /\ RunIds \subseteq Threads
      /\ cancellations \in [Tasks -> 0..MaxRuns]
      /\ \A y \in Threads : th[y].pc \in Launcher => th[y].run \in RunIds
  BY AThread DEF TypeInv, TypeOK, Threads, Worker
<1>1. \A y \in Threads : \/ th'[y] = th[y]
                         \/ y = x
  OBVIOUS
<1>2. \A y \in Threads : th'[y].pc \in Launcher <=> th[y].pc \in Launcher
  OBVIOUS
<1>3. \A y \in Threads : th[y].pc \in Launcher => th'[y] = th[y]
  OBVIOUS
<1>4. \A r \in RunIds : At(r, "idle")' <=> At(r, "idle")
  BY <1>0, <1>1 DEF At
<1>5. \A y \in Threads : th'[y].pc \in Launcher =>
        /\ runs'[th'[y].run].outcome # "none" /\ runs'[th'[y].run].task = th'[y].start
        /\ At(th[y].run, "idle")' /\ th'[y].run \notin sessions'
  BY <1>0, <1>2, <1>3, <1>4 DEF RunsInHand, RunsAsWere
<1>6. \A y, z \in Threads :
        th'[y].pc \in Launcher /\ th'[z].pc \in Launcher /\ th'[y].run = th'[z].run => y = z
  BY <1>2, <1>3 DEF RunsInHand
<1>7. \A r \in sessions' : At(r, "idle")' /\ runs'[r].outcome # "none"
  BY <1>0, <1>4 DEF RunsInHand, RunsAsWere
<1>8. \A r \in RunIds : runs'[r].outcome = "none" => At(r, "idle")' /\ runs'[r].proc # "alive"
  BY <1>4 DEF RunsInHand, RunsAsWere
<1>9. ASSUME NEW r \in RunIds, runs'[r].proc = "alive"
      PROVE  \/ r \in sessions' \/ At(r, "await")'
             \/ \E y \in Threads : th'[y].pc \in Launcher /\ th'[y].run = r
  <2>1. \/ r \in sessions \/ At(r, "await")
        \/ \E y \in Threads : th[y].pc \in Launcher /\ th[y].run = r
    BY <1>9 DEF RunsInHand, RunsAsWere
  <2>2. r \in sessions => r \in sessions'
    BY <1>9
  <2>3. At(r, "await") => At(r, "await")'
    BY <1>0, <1>1, <1>9 DEF At
  <2> QED BY <1>3, <2>1, <2>2, <2>3
<1>10. ASSUME NEW t \in Tasks, cancellations'[t] # 0 PROVE StopReaches(t, cancellations[t])'
  <2> DEFINE r == cancellations[t]
  <2>1. cancellations'[t] = r /\ r # 0 /\ r \in RunIds /\ StopReaches(t, r)
    BY <1>0, <1>10, FarmAssumption DEF RunsInHand, RunIds
  <2> HIDE DEF r
  <2>2. CASE r \in sessions /\ runs[r].task = t
    BY <1>10, <2>1, <2>2 DEF StopReaches, RunsAsWere
  <2>3. CASE ~At(r, "idle") /\ th[r].task = t /\ th[r].then = "ret"
    BY <1>0, <1>1, <1>4, <2>1, <2>3 DEF StopReaches
  <2>4. CASE \E y \in Threads : At(y, "enqueue") /\ th[y].run = r /\ th[y].start = t
    BY <1>3, <2>1, <2>4 DEF StopReaches, At, Launcher
  <2> QED BY <2>1, <2>2, <2>3, <2>4 DEF StopReaches
<1> QED BY <1>5, <1>6, <1>7, <1>8, <1>9, <1>10 DEF RunsInHand

(* So they do when a thread at none of these steps takes one that starts    *)
(* and ends no run.                                                        *)
LEMMA HandsOn ==
  ASSUME TypeInv, RunsInHand, NEW x \in Threads, Goes(x),
         th[x].pc \notin Launcher \cup {"idle", "await", "spawn"},
         UNCHANGED <<runs, sessions>>,
         \A t \in Tasks : cancellations'[t] \in {cancellations[t], 0}
  PROVE  RunsInHand'
<1>1. /\ \A y \in Threads \ {x} : th'[y] = th[y]
      /\ th[x].pc \notin Launcher /\ th'[x].pc \notin Launcher
      /\ x \in RunIds =>
           /\ ~At(x, "idle") /\ ~At(x, "idle")' /\ th'[x].task = th[x].task
           /\ th[x].then = "ret" => th'[x].then = "ret" \/ cancellations'[th[x].task] # x
           /\ At(x, "await") => runs'[x].proc # "alive"
  <2>1. th'[x].pc \notin Launcher /\ th[x].pc # "await" /\ th[x].pc # "idle"
    BY DEF Goes, Proceeds
  <2>2. x \in RunIds =>
          /\ th'[x].pc # "idle" /\ th'[x].task = th[x].task
          /\ th[x].then = "ret" => th'[x].then = "ret" \/ cancellations'[th[x].task] # x
    BY DEF Goes, Proceeds
  <2> QED BY <2>1, <2>2 DEF Goes, At
<1>2. RunsAsWere /\ sessions \ sessions' = {}
  BY DEF RunsAsWere
<1> QED BY <1>1, <1>2, HandsStay

LEMMA HandsStart ==
  ASSUME TypeInv, TypeInv', Shaped, RunsInHand, NEW x \in Threads, Starting(x)
  PROVE  RunsInHand'
<1>0. /\ th[x] \in Thread /\ Goes(x) /\ \A y \in Threads \ {x} : th'[y] = th[y]
      /\ sessions \subseteq RunIds /\ RunIds \subseteq Threads /\ 0 \notin RunIds
      /\ cancellations \in [Tasks -> 0..MaxRuns] /\ 0..MaxRuns \subseteq RunIds \cup {0}
      /\ \A y \in Threads : th[y].pc \in Launcher => th[y].run \in RunIds
  <2>1. th[x] \in Thread /\ \A y \in Threads : th[y].pc \in Launcher => th[y].run \in RunIds
    BY AThread DEF Worker
  <2>2. RunIds \subseteq Threads /\ 0 \notin RunIds /\ 0..MaxRuns \subseteq RunIds \cup {0}
    BY FarmAssumption DEF Threads, RunIds
  <2>3. sessions \subseteq RunIds /\ cancellations \in [Tasks -> 0..MaxRuns]
    BY DEF TypeInv, TypeOK
  <2>4. Goes(x) /\ \A y \in Threads \ {x} : th'[y] = th[y]
    BY GoesStarting DEF Goes
  <2> QED BY <2>1, <2>2, <2>3, <2>4
<1>1. CASE Claim(x) \/ Assign(x) \/ Cut(x)
  <2>1. UNCHANGED <<runs, sessions, cancellations>>
        /\ th[x].pc \notin Launcher \cup {"idle", "await", "spawn"}
    BY <1>1 DEF Claim, Assign, Cut, runVars, At, Launcher
  <2> QED BY <1>0, <2>1, HandsOn
<1>2. ASSUME StartEnds(x, TRUE), th[x].pc \in {"spawn", "running"}, UNCHANGED sessions,
             UNCHANGED cancellations,
             th[x].pc = "spawn" => UNCHANGED runs,
             th[x].pc = "running" => runs' = Stop({th[x].run})
      PROVE  RunsInHand'
  <2>1. x \in RunIds =>
          ~At(x, "idle") /\ ~At(x, "idle")' /\ th'[x].task = th[x].task
          /\ (th[x].then = "ret" => th'[x].then = "ret" \/ cancellations'[th[x].task] # x)
    BY <1>0, <1>2 DEF Goes, Proceeds, At
  <2>2. th'[x].pc \notin Launcher
    BY <1>2, StartEndProceeds DEF Shaped, Starter, Launcher
  <2>3. CASE th[x].pc = "spawn"
    <3>1. th[x].pc \notin Launcher /\ ~At(x, "await") /\ RunsAsWere
      BY <1>2, <2>3 DEF At, Launcher, RunsAsWere
    <3> QED BY <1>0, <1>2, <2>1, <2>2, <3>1, HandsStay
  <2>4. CASE th[x].pc = "running"
    <3> DEFINE q == th[x].run
    <3>1. q \in RunIds /\ At(q, "idle") /\ RunsAsWere /\ q \notin sessions
      BY <1>0, <1>2, <2>4, StopsAsWere DEF RunsInHand, Launcher
    <3>2. runs'[q].proc = "killed"
      BY <1>2, <2>4, <3>1, StopsAsWere DEF Reachable, At
    <3> HIDE DEF q
    <3>3. /\ \A y \in Threads : th'[y].pc \in Launcher =>
                y # x /\ th[y].pc \in Launcher /\ th'[y] = th[y]
          /\ \A r \in RunIds : At(r, "idle")' <=> At(r, "idle")
      BY <1>0, <1>2, <2>1, <2>2 DEF At, Goes, Proceeds
    <3>4. \A y \in Threads : th'[y].pc \in Launcher =>
            /\ runs'[th'[y].run].outcome # "none" /\ runs'[th'[y].run].task = th'[y].start
            /\ At(th[y].run, "idle")' /\ th'[y].run \notin sessions'
      BY <1>0, <1>2, <3>1, <3>3 DEF RunsInHand, RunsAsWere
    <3>5. \A y, z \in Threads :
            th'[y].pc \in Launcher /\ th'[z].pc \in Launcher /\ th'[y].run = th'[z].run => y = z
      BY <3>3 DEF RunsInHand
    <3>6. \A r \in sessions' : At(r, "idle")' /\ runs'[r].outcome # "none"
      BY <1>0, <1>2, <3>1, <3>3 DEF RunsInHand, RunsAsWere
    <3>7. \A r \in RunIds : runs'[r].outcome = "none" => At(r, "idle")' /\ runs'[r].proc # "alive"
      BY <3>1, <3>3 DEF RunsInHand, RunsAsWere
    <3>8. ASSUME NEW r \in RunIds, runs'[r].proc = "alive"
          PROVE  \/ r \in sessions' \/ At(r, "await")'
                 \/ \E y \in Threads : th'[y].pc \in Launcher /\ th'[y].run = r
      <4>1. r # q /\ runs[r].proc = "alive"
        BY <3>1, <3>2, <3>8 DEF RunsAsWere
      <4>2. At(r, "await") => At(r, "await")'
        BY <1>0, <2>4 DEF At
      <4>3. \A y \in Threads : th[y].pc \in Launcher /\ th[y].run = r => th'[y] = th[y]
        BY <1>0, <4>1 DEF q
      <4> QED BY <1>2, <4>1, <4>2, <4>3 DEF RunsInHand
    <3>9. ASSUME NEW t \in Tasks, cancellations'[t] # 0 PROVE StopReaches(t, cancellations[t])'
      <4> DEFINE r == cancellations[t]
      <4>1. cancellations'[t] = r /\ r # 0 /\ r \in RunIds /\ StopReaches(t, r)
        BY <1>0, <1>2, <3>9 DEF RunsInHand
      <4> HIDE DEF r
      <4>2. CASE r \in sessions /\ runs[r].task = t
        BY <1>2, <3>1, <4>1, <4>2 DEF StopReaches, RunsAsWere
      <4>3. CASE ~At(r, "idle") /\ th[r].task = t /\ th[r].then = "ret"
        <5>1. th'[r].task = t /\ th'[r].then = "ret"
          BY <1>0, <1>2, <2>1, <2>2, <4>1, <4>3
        <5> QED BY <3>3, <4>1, <4>3, <5>1 DEF StopReaches
      <4>4. CASE \E y \in Threads : At(y, "enqueue") /\ th[y].run = r /\ th[y].start = t
        BY <1>0, <2>4, <4>1, <4>4 DEF StopReaches, At
      <4> QED BY <4>1, <4>2, <4>3, <4>4 DEF StopReaches
    <3> QED BY <3>4, <3>5, <3>6, <3>7, <3>8, <3>9 DEF RunsInHand
  <2> QED BY <1>2, <2>3, <2>4
<1>3. CASE Spawn(x)
  <2>1. CASE StartEnds(x, TRUE) /\ UNCHANGED runs
    BY <1>2, <1>3, <2>1 DEF Spawn, At
  <2>2. CASE ~(StartEnds(x, TRUE) /\ UNCHANGED runs)
    <3> DEFINE phase == IF th[x].from = "review" THEN "Review" ELSE "Implementation"
               pc    == IF phase = "Review" THEN "register" ELSE "running"
               run   == [task |-> th[x].start, agent |-> th[x].agent, phase |-> phase,
                         outcome |-> "running", proc |-> "alive", input |-> th[x].commit]
    <3>1. PICK r \in RunIds :
            /\ \A q \in RunIds : runs[q].outcome = "none" <=> q >= r
            /\ runs' = [runs EXCEPT ![r] = run]
            /\ Becomes(x, [th[x] EXCEPT !.run = r, !.commit = 0, !.pc = pc])
      BY <1>3, <2>2 DEF Spawn
    <3>2. th'[x] = [th[x] EXCEPT !.run = r, !.commit = 0, !.pc = pc]
      BY <3>1, Others
    <3>3. th'[x].pc \in {"register", "running"} /\ th'[x].run = r /\ th'[x].start = th[x].start
      BY <1>0, <3>2 DEF Thread
    <3>4. /\ runs'[r].task = th[x].start /\ runs'[r].outcome # "none"
          /\ \A q \in RunIds \ {r} : runs'[q] = runs[q]
      BY <3>1 DEF TypeInv, TypeOK
    <3>5. runs[r].outcome = "none"
      BY <3>1, FarmAssumption DEF RunIds
    <3> HIDE DEF pc, run
    <3>6. /\ At(r, "idle") /\ r \notin sessions
          /\ \A y \in Threads : th[y].pc \in Launcher => th[y].run # r
      BY <3>5 DEF RunsInHand
    <3>7. /\ UNCHANGED <<sessions, cancellations>> /\ th[x].pc = "spawn"
          /\ th[x].pc \notin Launcher \cup {"idle"}
      BY <1>3 DEF Spawn, At, Launcher
    <3>8. /\ \A y \in Threads \ {x} : th'[y].pc \in Launcher =>
                th[y].pc \in Launcher /\ th'[y] = th[y] /\ th[y].run # r
          /\ \A q \in RunIds : At(q, "idle")' <=> At(q, "idle")
      BY <1>0, <3>6, <3>7 DEF At, Goes, Proceeds
    <3>9. \A y \in Threads : th'[y].pc \in Launcher =>
            /\ runs'[th'[y].run].outcome # "none" /\ runs'[th'[y].run].task = th'[y].start
            /\ At(th[y].run, "idle")' /\ th'[y].run \notin sessions'
      <4>1. ASSUME NEW y \in Threads, y # x, th'[y].pc \in Launcher
            PROVE  /\ runs'[th'[y].run].outcome # "none" /\ runs'[th'[y].run].task = th'[y].start
                   /\ At(th[y].run, "idle")' /\ th'[y].run \notin sessions'
        BY <1>0, <3>4, <3>7, <3>8, <4>1 DEF RunsInHand
      <4>2. /\ runs'[th'[x].run].outcome # "none" /\ runs'[th'[x].run].task = th'[x].start
            /\ At(th[x].run, "idle")' /\ th'[x].run \notin sessions'
        BY <3>3, <3>4, <3>6, <3>7, <3>8
      <4> QED BY <4>1, <4>2
    <3>10. \A y, z \in Threads :
             th'[y].pc \in Launcher /\ th'[z].pc \in Launcher /\ th'[y].run = th'[z].run => y = z
      BY <3>3, <3>8 DEF RunsInHand
    <3>11. \A q \in sessions' : At(q, "idle")' /\ runs'[q].outcome # "none"
      BY <1>0, <3>4, <3>7, <3>8 DEF RunsInHand
    <3>12. \A q \in RunIds : runs'[q].outcome = "none" => At(q, "idle")' /\ runs'[q].proc # "alive"
      BY <3>4, <3>8 DEF RunsInHand
    <3>13. ASSUME NEW q \in RunIds, runs'[q].proc = "alive"
           PROVE  \/ q \in sessions' \/ At(q, "await")'
                  \/ \E y \in Threads : th'[y].pc \in Launcher /\ th'[y].run = q
      <4>1. CASE q = r
        BY <3>3, <4>1 DEF Launcher
      <4>2. CASE q # r
        <5>1. runs[q].proc = "alive"
          BY <3>4, <3>13, <4>2
        <5>2. At(q, "await") => At(q, "await")'
          BY <1>0, <3>7 DEF At
        <5>3. \A y \in Threads : th[y].pc \in Launcher => th'[y] = th[y]
          BY <1>0, <3>7
        <5> QED BY <3>7, <5>1, <5>2, <5>3 DEF RunsInHand
      <4> QED BY <4>1, <4>2
    <3>14. ASSUME NEW t \in Tasks, cancellations'[t] # 0 PROVE StopReaches(t, cancellations[t])'
      <4> DEFINE q == cancellations[t]
      <4>1. cancellations'[t] = q /\ q # 0 /\ q \in RunIds /\ StopReaches(t, q)
        BY <1>0, <3>7, <3>14 DEF RunsInHand
      <4> HIDE DEF q
      <4>2. CASE q \in sessions /\ runs[q].task = t
        BY <3>4, <3>6, <3>7, <4>1, <4>2 DEF StopReaches
      <4>3. CASE ~At(q, "idle") /\ th[q].task = t /\ th[q].then = "ret"
        <5>1. th'[q].task = t /\ th'[q].then = "ret"
          BY <1>0, <3>7, <4>1, <4>3 DEF Goes, Proceeds
        <5> QED BY <3>8, <4>1, <4>3, <5>1 DEF StopReaches
      <4>4. CASE \E y \in Threads : At(y, "enqueue") /\ th[y].run = q /\ th[y].start = t
        BY <1>0, <3>7, <4>1, <4>4 DEF StopReaches, At
      <4> QED BY <4>1, <4>2, <4>3, <4>4 DEF StopReaches
    <3> QED BY <3>9, <3>10, <3>11, <3>12, <3>13, <3>14 DEF RunsInHand
  <2> QED BY <2>1, <2>2
<1>4. ASSUME NEW pc \in {"register", "enqueue"}, Goto(x, pc), th[x].pc \in {"running", "register"},
             UNCHANGED <<runs, sessions>>,
             \A t \in Tasks : \/ cancellations'[t] = cancellations[t]
                            \/ /\ cancellations'[t] = th[x].run /\ t = th[x].start
                               /\ pc = "enqueue"
      PROVE  RunsInHand'
  <2>1. th'[x].pc = pc /\ th'[x].run = th[x].run /\ th'[x].start = th[x].start
    <3>1. th'[x] = [th[x] EXCEPT !.pc = pc]
      BY <1>4, Others DEF Goto
    <3> QED BY <1>0, <3>1 DEF Thread
  <2>2. /\ \A y \in Threads : th'[y].pc \in Launcher <=> th[y].pc \in Launcher
        /\ \A y \in Threads : th'[y].run = th[y].run /\ th'[y].start = th[y].start
        /\ \A r \in RunIds : At(r, "idle")' <=> At(r, "idle")
    BY <1>0, <1>4, <2>1 DEF At, Launcher
  <2>3. \A y \in Threads : th'[y].pc \in Launcher =>
          /\ runs'[th'[y].run].outcome # "none" /\ runs'[th'[y].run].task = th'[y].start
          /\ At(th[y].run, "idle")' /\ th'[y].run \notin sessions'
    <3> SUFFICES ASSUME NEW y \in Threads, th'[y].pc \in Launcher
                 PROVE  /\ runs'[th'[y].run].outcome # "none"
                        /\ runs'[th'[y].run].task = th'[y].start
                        /\ At(th[y].run, "idle")' /\ th'[y].run \notin sessions'
      OBVIOUS
    <3>1. th'[y].run = th[y].run /\ th'[y].start = th[y].start /\ th[y].run \in RunIds
          /\ th[y].pc \in Launcher
      BY <1>0, <2>2
    <3>2. At(th[y].run, "idle") /\ (At(th[y].run, "idle")' <=> th'[th[y].run].pc = "idle")
      BY <3>1 DEF RunsInHand, At
    <3> QED BY <1>4, <2>2, <3>1, <3>2 DEF RunsInHand, At
  <2>4. \A y, z \in Threads :
          th'[y].pc \in Launcher /\ th'[z].pc \in Launcher /\ th'[y].run = th'[z].run => y = z
    BY <2>2 DEF RunsInHand
  <2>5. \A r \in sessions' : At(r, "idle")' /\ runs'[r].outcome # "none"
    BY <1>0, <1>4, <2>2 DEF RunsInHand
  <2>6. \A r \in RunIds : runs'[r].outcome = "none" => At(r, "idle")' /\ runs'[r].proc # "alive"
    BY <1>4, <2>2 DEF RunsInHand
  <2>7. ASSUME NEW r \in RunIds, runs'[r].proc = "alive"
        PROVE  \/ r \in sessions' \/ At(r, "await")'
               \/ \E y \in Threads : th'[y].pc \in Launcher /\ th'[y].run = r
    <3>1. At(r, "await") => At(r, "await")'
      BY <1>0, <1>4 DEF At
    <3> QED BY <1>4, <2>2, <2>7, <3>1 DEF RunsInHand
  <2>8. ASSUME NEW t \in Tasks, cancellations'[t] # 0 PROVE StopReaches(t, cancellations[t])'
    <3>1. CASE cancellations'[t] = th[x].run /\ t = th[x].start /\ pc = "enqueue"
      BY <2>1, <3>1 DEF StopReaches, At
    <3>2. CASE cancellations'[t] = cancellations[t]
      <4> DEFINE r == cancellations[t]
      <4>1. cancellations'[t] = r /\ r # 0 /\ r \in RunIds /\ StopReaches(t, r)
        BY <1>0, <2>8, <3>2 DEF RunsInHand
      <4> HIDE DEF r
      <4>2. CASE r \in sessions /\ runs[r].task = t
        BY <1>4, <4>1, <4>2 DEF StopReaches
      <4>3. CASE ~At(r, "idle") /\ th[r].task = t /\ th[r].then = "ret"
        <5>1. CASE r # x
          BY <1>0, <4>1, <4>3, <5>1 DEF StopReaches, At
        <5>2. CASE r = x
          <6>1. th'[x].task = th[x].task
                /\ (th'[x].then = "ret" \/ cancellations'[th[x].task] # x)
            BY <1>0, <4>1, <4>3, <5>2 DEF Goes, Proceeds
          <6> QED BY <2>2, <4>1, <4>3, <5>2, <6>1 DEF StopReaches
        <5> QED BY <5>1, <5>2
      <4>4. CASE \E y \in Threads : At(y, "enqueue") /\ th[y].run = r /\ th[y].start = t
        BY <1>0, <1>4, <4>1, <4>4 DEF StopReaches, At
      <4> QED BY <4>1, <4>2, <4>3, <4>4 DEF StopReaches
    <3> QED BY <1>4, <3>1, <3>2
  <2> QED BY <2>3, <2>4, <2>5, <2>6, <2>7, <2>8 DEF RunsInHand
<1>5. CASE SetRunning(x)
  <2>1. CASE MayMove(th[x].start, "Running")
    BY <1>4, <1>5, <2>1 DEF SetRunning, At
  <2>2. CASE ~MayMove(th[x].start, "Running")
    BY <1>2, <1>5, <2>2 DEF SetRunning, At
  <2> QED BY <2>1, <2>2
<1>6. CASE Register(x)
  <2>1. \A t \in Tasks : \/ cancellations'[t] = cancellations[t]
                       \/ (cancellations'[t] = th[x].run /\ t = th[x].start)
    BY <1>0, <1>6 DEF Register
  <2> QED BY <1>4, <1>6, <2>1 DEF Register, At
<1>7. CASE Enqueue(x)
  <2> DEFINE q == th[x].run
  <2>1. /\ UNCHANGED <<runs, cancellations>> /\ sessions' = sessions \cup {q}
        /\ th[x].pc = "enqueue" /\ StartEnds(x, FALSE) /\ q \in RunIds
    BY <1>0, <1>7 DEF Enqueue, At, Launcher
  <2>2. /\ th'[x].pc \notin Launcher /\ runs[q].outcome # "none" /\ runs[q].task = th[x].start
        /\ At(q, "idle")
    BY <2>1, StartEndProceeds DEF RunsInHand, Shaped, Starter, Launcher
  <2>3. \A y \in Threads : y # x /\ th[y].pc \in Launcher => th[y].run # q
    BY <2>1 DEF RunsInHand, Launcher
  <2> HIDE DEF q
  <2>4. /\ \A y \in Threads : th'[y].pc \in Launcher =>
              y # x /\ th[y].pc \in Launcher /\ th'[y] = th[y] /\ th[y].run \in RunIds
        /\ \A r \in RunIds : At(r, "idle")' <=> At(r, "idle")
    BY <1>0, <2>1, <2>2 DEF At, Goes, Proceeds
  <2>5. \A y \in Threads : th'[y].pc \in Launcher =>
          /\ runs'[th'[y].run].outcome # "none" /\ runs'[th'[y].run].task = th'[y].start
          /\ At(th[y].run, "idle")' /\ th'[y].run \notin sessions'
    BY <2>1, <2>3, <2>4 DEF RunsInHand
  <2>6. \A y, z \in Threads :
          th'[y].pc \in Launcher /\ th'[z].pc \in Launcher /\ th'[y].run = th'[z].run => y = z
    BY <2>4 DEF RunsInHand
  <2>7. \A r \in sessions' : At(r, "idle")' /\ runs'[r].outcome # "none"
    BY <1>0, <2>1, <2>2, <2>4 DEF RunsInHand
  <2>8. \A r \in RunIds : runs'[r].outcome = "none" => At(r, "idle")' /\ runs'[r].proc # "alive"
    BY <2>1, <2>4 DEF RunsInHand
  <2>9. ASSUME NEW r \in RunIds, runs'[r].proc = "alive"
        PROVE  \/ r \in sessions' \/ At(r, "await")'
               \/ \E y \in Threads : th'[y].pc \in Launcher /\ th'[y].run = r
    <3>1. At(r, "await") => At(r, "await")'
      BY <1>0, <2>1 DEF At
    <3>2. \A y \in Threads : th[y].pc \in Launcher /\ th[y].run = r => r = q \/ th'[y] = th[y]
      BY <1>0 DEF q
    <3> QED BY <2>1, <2>9, <3>1, <3>2 DEF RunsInHand
  <2>10. ASSUME NEW t \in Tasks, cancellations'[t] # 0 PROVE StopReaches(t, cancellations[t])'
    <3> DEFINE r == cancellations[t]
    <3>1. cancellations'[t] = r /\ r # 0 /\ r \in RunIds /\ StopReaches(t, r)
      BY <1>0, <2>1, <2>10 DEF RunsInHand
    <3> HIDE DEF r
    <3>2. CASE r \in sessions /\ runs[r].task = t
      BY <2>1, <3>1, <3>2 DEF StopReaches
    <3>3. CASE ~At(r, "idle") /\ th[r].task = t /\ th[r].then = "ret"
      <4>1. th'[r].task = t /\ th'[r].then = "ret"
        BY <1>0, <2>1, <3>1, <3>3 DEF Goes, Proceeds
      <4> QED BY <2>4, <3>1, <3>3, <4>1 DEF StopReaches
    <3>4. CASE \E y \in Threads : At(y, "enqueue") /\ th[y].run = r /\ th[y].start = t
      <4>1. PICK y \in Threads : At(y, "enqueue") /\ th[y].run = r /\ th[y].start = t
        BY <3>4
      <4>2. CASE y = x
        BY <2>1, <2>2, <3>1, <4>1, <4>2 DEF StopReaches, q
      <4>3. CASE y # x
        BY <1>0, <3>1, <4>1, <4>3 DEF StopReaches, At
      <4> QED BY <4>2, <4>3
    <3> QED BY <3>1, <3>2, <3>3, <3>4 DEF StopReaches
  <2> QED BY <2>5, <2>6, <2>7, <2>8, <2>9, <2>10 DEF RunsInHand
<1> QED BY <1>1, <1>3, <1>5, <1>6, <1>7 DEF Starting

LEMMA HandsWait ==
  ASSUME TypeInv, TypeInv', Shaped, RunsInHand, NEW x \in Threads, Waiting(x)
  PROVE  RunsInHand'
<1>1. CASE DropLease(x) \/ Discredit(x) \/ GiveUp(x)
  <2>1. Goes(x)
    BY <1>1, GoesWaiting DEF Waiting, DropLease, Discredit, GiveUp, WatchPending, At
  <2>2. UNCHANGED <<runs, sessions, cancellations>>
        /\ th[x].pc \notin Launcher \cup {"idle", "await", "spawn"}
    BY <1>1 DEF DropLease, Discredit, GiveUp, runVars, At, Launcher
  <2> QED BY <2>1, <2>2, HandsOn
<1>2. CASE Await(x) \/ Finish(x)
  <2>1. Goes(x) /\ x \in RunIds /\ th[x].pc \in {"await", "finish"} /\ UNCHANGED <<sessions, cancellations>>
    BY <1>2, GoesWaiting DEF Waiting, Await, Finish, WatchPending, At
  <2>2. /\ th'[x].pc \notin Launcher /\ th[x].pc \notin Launcher
        /\ ~At(x, "idle") /\ ~At(x, "idle")' /\ th'[x].task = th[x].task
        /\ th[x].then = "ret" => th'[x].then = "ret" \/ cancellations'[th[x].task] # x
    BY <2>1 DEF Goes, Proceeds, At, Launcher
  <2>3. runs[x] \in Run
    BY <2>1 DEF TypeInv, TypeOK
  <2>4. RunsAsWere /\ (At(x, "await") => runs'[x].proc # "alive")
    <3>1. CASE Await(x)
      <4>1. /\ runs'[x] = [runs[x] EXCEPT !.proc = "gone"]
            /\ \A r \in RunIds \ {x} : runs'[r] = runs[r]
        BY <2>1, <3>1 DEF Await, TypeInv, TypeOK
      <4> QED BY <2>1, <2>3, <4>1 DEF RunsAsWere, Run
    <3>2. CASE Finish(x) /\ DecidesItsTask(x)
      <4>1. /\ runs'[x] = [runs[x] EXCEPT !.outcome = "ended"]
            /\ \A r \in RunIds \ {x} : runs'[r] = runs[r]
            /\ runs[x].outcome # "none" /\ th[x].pc = "finish"
        BY <2>1, <3>2 DEF Finish, DecidesItsTask, At, TypeInv, TypeOK
      <4> QED BY <2>1, <2>3, <4>1 DEF RunsAsWere, Run, At
    <3>3. CASE Finish(x) /\ ~DecidesItsTask(x)
      BY <3>3 DEF Finish, RunsAsWere, At
    <3> QED BY <1>2, <3>1, <3>2, <3>3
  <2>5. \A r \in sessions \ sessions' : FALSE
    BY <2>1
  <2> QED BY <2>1, <2>2, <2>4, <2>5, HandsStay DEF Goes
<1>3. CASE WatchPending(x)
  <2>0. /\ sessions \subseteq RunIds /\ RunIds \subseteq Threads /\ sessions' = {}
        /\ UNCHANGED <<runs, cancellations>> /\ th[x].pc = "watch"
        /\ cancellations \in [Tasks -> 0..MaxRuns] /\ 0..MaxRuns \subseteq RunIds \cup {0}
        /\ \A y \in Threads : th[y].pc \in Launcher => th[y].run \in RunIds
    <3>1. sessions' = {}
      BY <1>3 DEF WatchPending, Claimed
    <3>2. 0..MaxRuns \subseteq RunIds \cup {0}
      BY FarmAssumption DEF RunIds
    <3> QED BY <1>3, <3>1, <3>2, AThread DEF WatchPending, At, TypeInv, TypeOK, Threads, Worker
  <2>1. /\ \A r \in sessions : th'[r].pc = "await" /\ th'[r].task = runs[r].task
                               /\ th'[r].then = "ret"
        /\ x \notin sessions /\ th'[x] = Idle
        /\ \A y \in Threads \ (sessions \cup {x}) : th'[y] = th[y]
    <3>1. x \notin sessions
      BY <2>0 DEF RunsInHand, At
    <3> QED BY <1>3, <3>1, Watching
  <2>2. Idle.pc = "idle" /\ "idle" \notin Launcher /\ "await" \notin Launcher /\ "watch" \notin Launcher
    BY DEF Idle, Launcher
  <2>3. \A y \in Threads : th[y].pc \in Launcher => y # x /\ y \notin sessions /\ th'[y] = th[y]
    BY <2>0, <2>1, <2>2 DEF RunsInHand, At, Launcher
  <2>4. \A y \in Threads : th'[y].pc \in Launcher => th[y].pc \in Launcher /\ th'[y] = th[y]
    BY <2>1, <2>2
  <2>5. \A r \in RunIds : At(r, "idle") /\ r \notin sessions => At(r, "idle")'
    BY <2>0, <2>1, <2>2 DEF At
  <2>6. \A y \in Threads : th'[y].pc \in Launcher =>
          /\ runs'[th'[y].run].outcome # "none" /\ runs'[th'[y].run].task = th'[y].start
          /\ At(th[y].run, "idle")' /\ th'[y].run \notin sessions'
    <3> SUFFICES ASSUME NEW y \in Threads, th'[y].pc \in Launcher
                 PROVE  /\ runs'[th'[y].run].outcome # "none"
                        /\ runs'[th'[y].run].task = th'[y].start
                        /\ At(th[y].run, "idle")' /\ th'[y].run \notin sessions'
      OBVIOUS
    <3>1. th[y].pc \in Launcher /\ th'[y] = th[y]
      BY <2>4
    <3>2. /\ runs[th[y].run].outcome # "none" /\ runs[th[y].run].task = th[y].start
          /\ At(th[y].run, "idle") /\ th[y].run \notin sessions /\ th[y].run \in RunIds
      BY <2>0, <3>1 DEF RunsInHand
    <3>3. th'[th[y].run].pc = "idle"
      BY <2>5, <3>2 DEF At
    <3> QED BY <2>0, <3>1, <3>2, <3>3 DEF At
  <2>7. \A y, z \in Threads :
          th'[y].pc \in Launcher /\ th'[z].pc \in Launcher /\ th'[y].run = th'[z].run => y = z
    BY <2>4 DEF RunsInHand
  <2>8. \A r \in RunIds : runs'[r].outcome = "none" => At(r, "idle")' /\ runs'[r].proc # "alive"
    BY <2>0, <2>5 DEF RunsInHand
  <2>9. ASSUME NEW r \in RunIds, runs'[r].proc = "alive"
        PROVE  \/ r \in sessions' \/ At(r, "await")'
               \/ \E y \in Threads : th'[y].pc \in Launcher /\ th'[y].run = r
    <3>1. At(r, "await") \/ r \in sessions => At(r, "await")'
      BY <2>0, <2>1 DEF At
    <3> QED BY <2>0, <2>3, <2>9, <3>1 DEF RunsInHand
  <2>10. ASSUME NEW t \in Tasks, cancellations'[t] # 0 PROVE StopReaches(t, cancellations[t])'
    <3> DEFINE r == cancellations[t]
    <3>1. cancellations'[t] = r /\ r # 0 /\ r \in RunIds /\ StopReaches(t, r)
      BY <2>0, <2>10 DEF RunsInHand
    <3> HIDE DEF r
    <3>2. CASE r \in sessions /\ runs[r].task = t
      BY <2>1, <3>1, <3>2 DEF StopReaches, At
    <3>3. CASE ~At(r, "idle") /\ th[r].task = t /\ th[r].then = "ret"
      <4>1. r # x /\ r \notin sessions
        BY <2>0, <3>1, <3>3 DEF RunsInHand, Shaped, Shape
      <4> QED BY <2>0, <2>1, <3>1, <3>3, <4>1 DEF StopReaches, At
    <3>4. CASE \E y \in Threads : At(y, "enqueue") /\ th[y].run = r /\ th[y].start = t
      BY <2>3, <3>1, <3>4 DEF StopReaches, At, Launcher
    <3> QED BY <3>1, <3>2, <3>3, <3>4 DEF StopReaches
  <2> QED BY <2>0, <2>6, <2>7, <2>8, <2>9, <2>10 DEF RunsInHand
<1> QED BY <1>1, <1>2, <1>3 DEF Waiting

(* So they do while no thread takes a step. *)
LEMMA HandsStill ==
  ASSUME TypeInv, RunsInHand, RunsAsWere, UNCHANGED <<th, sessions, cancellations>>
  PROVE  RunsInHand'
<1>0. /\ sessions \subseteq RunIds /\ cancellations \in [Tasks -> 0..MaxRuns]
      /\ \A y \in Threads : th[y].pc \in Launcher => th[y].run \in RunIds
  BY AThread DEF TypeInv, TypeOK, Threads, Worker
<1>1. \A x \in Threads : th[x].pc \in Launcher =>
        runs'[th[x].run].outcome # "none" /\ runs'[th[x].run].task = th[x].start
  BY <1>0 DEF RunsInHand, RunsAsWere
<1>2. \A r \in sessions : runs'[r].outcome # "none"
  BY <1>0 DEF RunsInHand, RunsAsWere
<1>3. \A r \in RunIds : runs'[r].outcome = "none" => At(r, "idle") /\ runs'[r].proc # "alive"
  BY DEF RunsInHand, RunsAsWere
<1>4. \A r \in RunIds : runs'[r].proc = "alive" => runs[r].proc = "alive"
  BY DEF RunsAsWere
<1>5. ASSUME NEW t \in Tasks, cancellations[t] # 0 PROVE StopReaches(t, cancellations[t])'
  <2>1. StopReaches(t, cancellations[t])
    BY <1>5 DEF RunsInHand
  <2>2. cancellations[t] \in sessions =>
          runs'[cancellations[t]].task = runs[cancellations[t]].task
    BY <1>0 DEF RunsAsWere
  <2> QED BY <2>1, <2>2 DEF StopReaches, At
<1>6. \A t \in Tasks : cancellations'[t] # 0 => StopReaches(t, cancellations[t])'
  BY <1>5
<1>7. \A r \in RunIds : At(r, "idle")' = At(r, "idle") /\ At(r, "await")' = At(r, "await")
  BY DEF At
<1> QED BY <1>1, <1>2, <1>3, <1>4, <1>6, <1>7 DEF RunsInHand, At

(* What nobody waits for is killed as it is forgotten, and no other task's  *)
(* cancellation named it.                                                  *)
LEMMA HandsKill ==
  ASSUME TypeInv, TypeInv', Shaped, RunsInHand, NEW x \in Threads, Kill(x)
  PROVE  RunsInHand'
<1> DEFINE t == th[x].task
           r == cancellations[t]
<1>1. /\ runs' = Stop({r}) /\ sessions' = sessions \ {r}
      /\ cancellations' = IF r \in sessions THEN [cancellations EXCEPT ![t] = 0]
                          ELSE cancellations
      /\ th[x].pc = "kill" /\ th' = [th EXCEPT ![x] = Idle]
  BY DEF Kill, At, Leave, Becomes
<1>2. /\ t \in Tasks /\ cancellations \in [Tasks -> 0..MaxRuns] /\ sessions \subseteq RunIds
      /\ 0 \notin RunIds /\ x \notin RunIds
  <2>1. t \in Tasks
    BY AThread
  <2>2. cancellations \in [Tasks -> 0..MaxRuns] /\ sessions \subseteq RunIds
    BY DEF TypeInv, TypeOK
  <2>3. 0 \notin RunIds
    BY FarmAssumption DEF RunIds
  <2>4. x \notin RunIds
    BY <1>1 DEF Shaped, Shape
  <2> QED BY <2>1, <2>2, <2>3, <2>4
<1>3. /\ th[x].pc \notin Launcher /\ th'[x].pc \notin Launcher
      /\ \A y \in Threads \ {x} : th'[y] = th[y]
  BY <1>1, <1>2 DEF TypeInv, Idle, Launcher
<1> HIDE DEF t
<1>4. RunsAsWere /\ (Reachable(r) /\ r \in RunIds => runs'[r].proc = "killed")
  BY <1>1, StopsAsWere
<1> HIDE DEF r
<1>5. \A u \in Tasks : cancellations'[u] \in {cancellations[u], 0}
  BY <1>1, <1>2
<1>6. ASSUME r \in sessions
      PROVE  runs'[r].proc # "alive" /\ \A u \in Tasks : cancellations'[u] # r
  <2>1. At(r, "idle") /\ r \in RunIds /\ r # 0
    BY <1>2, <1>6 DEF RunsInHand
  <2>2. runs'[r].proc = "killed"
    BY <1>4, <2>1 DEF Reachable, At
  <2>3. \A y \in Threads : At(y, "enqueue") => th[y].run # r
    BY <1>6 DEF RunsInHand, At, Launcher
  <2>4. \A u \in Tasks : cancellations[u] = r => runs[r].task = u
    BY <2>1, <2>3 DEF RunsInHand, StopReaches
  <2>5. cancellations'[t] = 0 /\ \A u \in Tasks \ {t} : cancellations'[u] = cancellations[u]
    BY <1>1, <1>2, <1>6
  <2>6. cancellations[t] = r
    BY DEF r
  <2> QED BY <1>2, <2>1, <2>2, <2>4, <2>5, <2>6
<1>7. \A q \in sessions \ sessions' :
        runs'[q].proc # "alive" /\ \A u \in Tasks : cancellations'[u] # q
  BY <1>1, <1>6
<1>8. sessions' \subseteq sessions
  BY <1>1
<1> QED BY <1>2, <1>3, <1>4, <1>5, <1>7, <1>8, HandsStay

LEMMA HandsCommand ==
  ASSUME TypeInv, RunsInHand, NEW p \in People, Command(p)
  PROVE  RunsInHand'
<1>1. UNCHANGED <<runs, sessions, cancellations>>
  BY DEF Command, AskStep, AskVerify, AskRun, AskReady, AskRetry, AskCancel, AskStart, AskPause,
     AskAssign, AskConfigure, PersonMerges, runVars
<1>2. RunsAsWere
  BY <1>1 DEF RunsAsWere
<1>3. CASE UNCHANGED th
  BY <1>1, <1>2, <1>3, HandsStill
<1>4. CASE ~UNCHANGED th
  <2>1. /\ At(p, "idle") /\ \A y \in Threads \ {p} : th'[y] = th[y]
        /\ th'[p].pc \notin Launcher
    BY <1>4, CommandBegins
  <2>2. p \in Threads /\ p \notin RunIds /\ th[p].pc \notin Launcher
    BY <2>1, FarmAssumption DEF Threads, At, Launcher
  <2>3. sessions \ sessions' = {}
    BY <1>1
  <2> QED BY <1>1, <1>2, <2>1, <2>2, <2>3, HandsStay
<1> QED BY <1>3, <1>4

LEMMA HandsStep ==
  ASSUME TypeInv, TypeInv', Shaped, RunsInHand, [Next]_vars
  PROVE  RunsInHand'
<1> USE DEF runVars
<1>1. ASSUME NEW x \in Threads, Step(x) PROVE RunsInHand'
  <2>0. th[x] \in Thread /\ Shape(x, th[x])
    BY AThread DEF Shaped
  <2>1. CASE Scheduling(x)
    <3>1. UNCHANGED <<runs, sessions, cancellations>> /\ Goes(x)
          /\ th[x].pc \notin Launcher \cup {"idle", "await", "spawn"}
      BY <2>1, GoesScheduling DEF Scheduling, Tick, TickEnds, ActBlock, ActSettle, ActStart,
         ActRefused, At, Launcher
    <3> QED BY <3>1, HandsOn
  <2>2. CASE Starting(x)
    BY <2>2, HandsStart
  <2>3. CASE Waiting(x)
    BY <2>3, HandsWait
  <2>4. CASE Checking(x)
    <3>1. UNCHANGED <<runs, sessions, cancellations>> /\ Goes(x)
          /\ th[x].pc \notin Launcher \cup {"idle", "await", "spawn"}
      BY <2>4, GoesChecking DEF Checking, Verify, Verification, Before, Check, Judge, Reject,
         Block, Requeue, At, Launcher
    <3> QED BY <3>1, HandsOn
  <2>5. CASE Reviewing(x)
    <3>1. UNCHANGED <<runs, sessions, cancellations>> /\ Goes(x)
          /\ th[x].pc \notin Launcher \cup {"idle", "await", "spawn"}
      BY <2>5, GoesReviewing DEF Reviewing, Review, PickReviewer, Conclude, Approve, At, Launcher
    <3> QED BY <3>1, HandsOn
  <2>6. CASE Landing(x)
    <3>1. UNCHANGED <<runs, sessions, cancellations>> /\ Goes(x)
          /\ th[x].pc \notin Launcher \cup {"idle", "await", "spawn"}
      BY <2>6, GoesLanding DEF Landing, Merge, CheckEvidence, LandOk, LandStops, MarkMerged,
         Arrived, Landed, Remove, AskPerson, ResolveByMerge, ResolveByAgent, At, Launcher
    <3> QED BY <3>1, HandsOn
  <2>7. CASE Returning(x)
    <3>1. UNCHANGED <<runs, sessions>> /\ Goes(x)
          /\ th[x].pc \notin Launcher \cup {"idle", "await", "spawn"}
      BY <2>7, GoesReturning DEF Returning, ReturnFromVerify, ReturnFromApprove, ReturnFromRun,
         Report, ReturnFromVerifyCommand, ReturnFromCommand, At, Launcher
    <3>2. \A t \in Tasks : cancellations'[t] \in {cancellations[t], 0}
      BY <2>7 DEF Returning, ReturnFromVerify, ReturnFromApprove, ReturnFromRun, Report,
         ReturnFromVerifyCommand, ReturnFromCommand, TypeInv, TypeOK
    <3> QED BY <3>1, <3>2, HandsOn
  <2>8. CASE Retry(x) \/ Halt(x)
    <3>1. UNCHANGED <<runs, sessions, cancellations>> /\ Goes(x)
          /\ th[x].pc \notin Launcher \cup {"idle", "await", "spawn"}
      BY <2>8, GoesCommanding DEF Retry, Halt, At, Launcher
    <3> QED BY <3>1, HandsOn
  <2>9. CASE Kill(x)
    BY <2>9, HandsKill
  <2> QED BY <1>1, <2>1, <2>2, <2>3, <2>4, <2>5, <2>6, <2>7, <2>8, <2>9 DEF Step
<1>2. ASSUME NEW p \in People, Command(p) PROVE RunsInHand'
  BY <1>2, HandsCommand
<1>3. ASSUME NEW r \in RunIds, Agent(r) PROVE RunsInHand'
  <2>1. UNCHANGED <<th, sessions, cancellations>>
    BY <1>3 DEF Agent, Edit, Commit, Exit
  <2>2. RunsAsWere
    <3>1. CASE UNCHANGED runs
      BY <3>1 DEF RunsAsWere
    <3>2. CASE \E how \in Exits : Exit(r, how)
      <4>1. PICK how \in Exits : Exit(r, how)
        BY <3>2
      <4>2. runs'[r] = [runs[r] EXCEPT !.proc = how] /\ runs[r] \in Run /\ runs[r].proc = "alive"
            /\ \A q \in RunIds \ {r} : runs'[q] = runs[q]
        BY <4>1 DEF Exit, Alive, TypeInv, TypeOK
      <4> QED BY <4>2 DEF RunsAsWere, Run
    <3> QED BY <1>3, <3>1, <3>2 DEF Agent, Edit, Commit
  <2> QED BY <2>1, <2>2, HandsStill
<1>4. CASE Restart
  <2>1. /\ \A x \in Threads : th'[x].pc = "idle"
        /\ \A r \in RunIds : runs'[r].outcome = "none" /\ runs'[r].proc = "gone"
        /\ sessions' = {} /\ \A t \in Tasks : cancellations'[t] = 0
    BY <1>4 DEF Restart, Idle, NoRun
  <2>2. RunIds \subseteq Threads /\ "idle" \notin Launcher
    BY DEF Threads, Launcher
  <2> QED BY <2>1, <2>2 DEF RunsInHand, At
<1>5. CASE UNCHANGED vars
  BY <1>5, HandsStill DEF vars, RunsAsWere
<1> QED BY <1>1, <1>2, <1>3, <1>4, <1>5 DEF Next

-----------------------------------------------------------------------------
(* The merge lock, the stop flags, and who will watch.                      *)

LocksHeld ==
  /\ mergeLock # Nobody => th[mergeLock].pc \in Locked
  /\ \A t \in Tasks : stops[t] # "none" =>
       \E x \in Threads : "stop" \in th[x].duty /\ th[x].task = t

SessionsOwed == sessions # {} => \E x \in Threads : WillWatch(th[x])

(* Watching overwrites no thread that lands or has a stop flag to give back. *)
LEMMA NobodyBusyClaimed ==
  ASSUME TypeInv, Shaped, RunsInHand, NEW x \in Threads, WatchPending(x),
         NEW y \in Threads, th[y].pc \in Locked \/ "stop" \in th[y].duty
  PROVE  th'[y] = th[y]
<1>1. y \notin sessions
  BY DEF RunsInHand, Shaped, Shape, At, Locked
<1>2. y # x
  BY DEF WatchPending, Shaped, Shape, At, Locked
<1> QED BY <1>1, <1>2, Watching

(* The lock of a landing goes with it to its end, and is given up there.    *)
LEMMA LockGoesOn ==
  ASSUME TypeInv, LandingInv, LocksHeld, NEW x \in Threads, Landing(x)
  PROVE  mergeLock' # Nobody => th'[mergeLock'].pc \in Locked
<1> DEFINE v == th[x]
<1>0. v \in Thread /\ mergeLock \in Threads \cup {Nobody} /\ Nobody \notin Threads
  BY AThread, FarmAssumption DEF TypeInv, TypeOK
<1>1. ASSUME NEW w, Becomes(x, w), w.pc \in Locked, mergeLock' = x
      PROVE  mergeLock' # Nobody => th'[mergeLock'].pc \in Locked
  BY <1>1, Others
<1>2. ASSUME NEW w, Becomes(x, w), v.pc \notin Locked, UNCHANGED mergeLock
      PROVE  mergeLock' # Nobody => th'[mergeLock'].pc \in Locked
  BY <1>0, <1>2, Others DEF LocksHeld
<1>3. CASE DropMergeLock
  BY <1>3 DEF DropMergeLock
<1>4. ASSUME NEW pc \in Locked, Goto(x, pc), mergeLock' = x
      PROVE  mergeLock' # Nobody => th'[mergeLock'].pc \in Locked
  <2>1. [v EXCEPT !.pc = pc].pc = pc
    BY <1>0 DEF Thread
  <2> QED BY <1>1, <1>4, <2>1 DEF Goto
<1>5. ASSUME v.pc \notin Locked, Fail(x) \/ Return(x) \/ \E pc : Goto(x, pc), UNCHANGED mergeLock
      PROVE  mergeLock' # Nobody => th'[mergeLock'].pc \in Locked
  BY <1>2, <1>5 DEF Fail, Return, Goto
<1>6. v.pc \in Locked => mergeLock = x
  BY DEF LandingInv
<1>7. CASE Merge(x)
  <2>1. CASE Fail(x) /\ UNCHANGED mergeLock
    BY <1>5, <1>7, <2>1 DEF Merge, At, Locked
  <2>2. CASE ~(Fail(x) /\ UNCHANGED mergeLock)
    <3> DEFINE w == [v EXCEPT !.pc = "evidence", !.agent = implementedBy[v.task]]
    <3>1. mergeLock' = x /\ Becomes(x, w)
      BY <1>7, <2>2 DEF Merge
    <3>2. w.pc = "evidence"
      BY <1>0 DEF Thread
    <3> HIDE DEF w
    <3> QED BY <1>1, <3>1, <3>2 DEF Locked
  <2> QED BY <2>1, <2>2
<1>8. CASE CheckEvidence(x) /\ ~DropMergeLock
  <2> DEFINE c == CleanCommit(v.task)
             w == [v EXCEPT !.agent = NoAgent, !.pc = "land", !.commit = c, !.err = FALSE]
  <2>1. v.pc = "evidence" /\ UNCHANGED mergeLock /\ Becomes(x, w)
    BY <1>8 DEF CheckEvidence, At
  <2>2. w.pc = "land"
    BY <1>0 DEF Thread
  <2> HIDE DEF w
  <2> QED BY <1>1, <1>6, <2>1, <2>2 DEF Locked
<1>9. CASE LandOk(x)
  BY <1>4, <1>6, <1>9 DEF LandOk, At, Locked
<1>10. CASE LandStops(x) \/ Remove(x)
  BY <1>3, <1>10 DEF LandStops, Remove
<1>11. CASE MarkMerged(x)
  <2>1. \/ mergeLock' = x /\ Goto(x, "arrived")
        \/ (Fail(x) \/ Return(x)) /\ UNCHANGED mergeLock
    BY <1>11 DEF MarkMerged
  <2>2. v.pc \notin Locked
    BY <1>11 DEF MarkMerged, At, Locked
  <2> QED BY <1>4, <1>5, <2>1, <2>2 DEF Locked
<1>12. CASE Arrived(x) /\ ~DropMergeLock
  <2> DEFINE w == [v EXCEPT !.pc = "landed", !.commit = CleanCommit(v.task)]
  <2>1. v.pc = "arrived" /\ UNCHANGED mergeLock /\ Becomes(x, w)
    BY <1>12 DEF Arrived, At
  <2>2. w.pc = "landed"
    BY <1>0 DEF Thread
  <2> HIDE DEF w
  <2> QED BY <1>1, <1>6, <2>1, <2>2 DEF Locked
<1>13. CASE Landed(x) /\ ~DropMergeLock
  <2>1. v.pc = "landed" /\ UNCHANGED mergeLock /\ Goto(x, "remove")
    BY <1>13 DEF Landed, At
  <2> QED BY <1>4, <1>6, <2>1 DEF Locked
<1>14. CASE AskPerson(x) \/ ResolveByMerge(x) \/ ResolveByAgent(x)
  BY <1>5, <1>14 DEF AskPerson, ResolveByMerge, ResolveByAgent, At, Locked
<1> QED BY <1>3, <1>7, <1>8, <1>9, <1>10, <1>11, <1>12, <1>13, <1>14 DEF Landing

(* No other step has the lock, or gives it up.                             *)
LEMMA LockStays ==
  ASSUME TypeInv, TypeInv', Shaped, RunsInHand, LandingInv, LocksHeld, NEW x \in Threads,
         Step(x), ~Landing(x)
  PROVE  mergeLock' # Nobody => th'[mergeLock'].pc \in Locked
<1>1. UNCHANGED mergeLock /\ th[x].pc \notin Locked
  BY DEF Step, Scheduling, Tick, TickEnds, ActBlock, ActSettle, ActStart, ActRefused,
     Starting, Claim, Assign, Cut, Spawn, SetRunning, Register, Enqueue,
     Waiting, WatchPending, Await, Finish, DropLease, Discredit, GiveUp,
     Checking, Verify, Verification, Before, Check, Judge, Reject, Block, Requeue,
     Reviewing, Review, PickReviewer, Conclude, Approve,
     Returning, ReturnFromVerify, ReturnFromApprove, ReturnFromRun, Report,
     ReturnFromVerifyCommand, ReturnFromCommand, Retry, Halt, Kill, At, Locked
<1>2. mergeLock \in Threads \cup {Nobody}
  BY DEF TypeInv, TypeOK
<1>3. CASE WatchPending(x)
  BY <1>1, <1>2, <1>3, NobodyBusyClaimed DEF LocksHeld
<1>4. CASE ~WatchPending(x)
  <2>1. \A y \in Threads \ {x} : th'[y] = th[y]
    BY <1>4, EveryoneGoes DEF Goes
  <2> QED BY <1>1, <1>2, <2>1 DEF LocksHeld
<1> QED BY <1>3, <1>4

(* A stop flag is raised by the thread that gives it back, and by no other. *)
LEMMA StopsStay ==
  ASSUME TypeInv, TypeInv', Shaped, RunsInHand, LocksHeld, NEW x \in Threads, Step(x)
  PROVE  \A t \in Tasks : stops'[t] # "none" =>
           \E y \in Threads : "stop" \in th'[y].duty /\ th'[y].task = t
<1>0. th[x] \in Thread /\ stops \in [Tasks -> {"none", "going", "stopping"}]
  BY AThread DEF TypeInv, TypeOK
<1>1. ASSUME NEW t \in Tasks, stops[t] # "none", stops'[t] # "none"
      PROVE  \E y \in Threads : "stop" \in th'[y].duty /\ th'[y].task = t
  <2>1. PICK y \in Threads : "stop" \in th[y].duty /\ th[y].task = t
    BY <1>1 DEF LocksHeld
  <2>2. CASE WatchPending(x)
    BY <2>1, <2>2, NobodyBusyClaimed
  <2>3. CASE ~WatchPending(x) /\ y # x
    BY <2>1, <2>3, EveryoneGoes DEF Goes
  <2>4. CASE ~WatchPending(x) /\ y = x
    BY <1>1, <2>1, <2>4, EveryoneGoes DEF Goes, Proceeds
  <2> QED BY <2>2, <2>3, <2>4
<1>2. CASE Verify(x)
  <2>1. CASE UNCHANGED stops
    BY <1>1, <2>1
  <2>2. CASE ~UNCHANGED stops
    <3> DEFINE w == [th[x] EXCEPT !.pc = "verification", !.list = checkList,
                                  !.duty = @ \cup {"stop"}]
    <3>1. stops' = [stops EXCEPT ![th[x].task] = "going"] /\ Becomes(x, w)
      BY <1>2, <2>2 DEF Verify
    <3>2. "stop" \in w.duty /\ w.task = th[x].task
      BY <1>0 DEF Thread
    <3>3. th'[x] = w
      BY <3>1, Others
    <3> HIDE DEF w
    <3>4. \A t \in Tasks : t # th[x].task => stops'[t] = stops[t]
      BY <1>0, <3>1
    <3> QED BY <1>1, <3>2, <3>3, <3>4
  <2> QED BY <2>1, <2>2
<1>3. CASE ReturnFromVerify(x) \/ Halt(x)
  <2>1. \A t \in Tasks : stops'[t] # "none" => stops[t] # "none"
    BY <1>0, <1>3 DEF ReturnFromVerify, Halt
  <2> QED BY <1>1, <2>1
<1>4. CASE ~Verify(x) /\ ~ReturnFromVerify(x) /\ ~Halt(x)
  <2>1. UNCHANGED stops
    BY <1>4 DEF Step, Scheduling, Tick, TickEnds, ActBlock, ActSettle, ActStart, ActRefused,
       Starting, Claim, Assign, Cut, Spawn, SetRunning, Register, Enqueue,
       Waiting, WatchPending, Await, Finish, DropLease, Discredit, GiveUp,
       Checking, Verification, Before, Check, Judge, Reject, Block, Requeue,
       Reviewing, Review, PickReviewer, Conclude, Approve,
       Landing, Merge, CheckEvidence, LandOk, LandStops, MarkMerged, Arrived, Landed, Remove,
       AskPerson, ResolveByMerge, ResolveByAgent,
       Returning, ReturnFromApprove, ReturnFromRun, Report,
       ReturnFromVerifyCommand, ReturnFromCommand, Retry, Kill
  <2> QED BY <1>1, <2>1
<1> QED BY <1>2, <1>3, <1>4

(* Whoever adds a session goes on to watch, unless it was going to anyway.  *)
LEMMA SessionsStayOwed ==
  ASSUME TypeInv, TypeInv', Shaped, SessionsOwed, NEW x \in Threads, Step(x)
  PROVE  SessionsOwed'
<1>1. CASE Enqueue(x)
  <2> DEFINE v == th[x]
  <2>1. /\ v \in Thread /\ v.pc = "enqueue" /\ v.job \in {"watch", "verify", "command"}
        /\ StartEnds(x, FALSE)
    BY <1>1, AThread DEF Enqueue, At, Shaped, Shape, Thread
  <2>2. \/ /\ th'[x].pc = "act" /\ th'[x].job = v.job
        \/ /\ th'[x].pc = "ret" /\ th'[x].job = v.job /\ ~th'[x].err
    <3>1. CASE v.from = "tick"
      <4>1. th'[x] = [v EXCEPT !.pc = "act", !.agent = NoAgent, !.run = 0]
        BY <2>1, <3>1, Others DEF StartEnds
      <4> QED BY <2>1, <4>1 DEF Thread
    <3>2. CASE v.from # "tick"
      <4>1. th'[x] = [v EXCEPT !.pc = "ret", !.err = FALSE, !.from = "tick", !.agent = NoAgent,
                               !.run = 0, !.commit = 0]
        BY <2>1, <3>2, Others DEF StartEnds
      <4> QED BY <2>1, <4>1 DEF Thread
    <3> QED BY <3>1, <3>2
  <2> HIDE DEF v
  <2>3. WillWatch(th'[x])
    BY <2>1, <2>2 DEF WillWatch, InTick
  <2> QED BY <2>3 DEF SessionsOwed
<1>2. CASE WatchPending(x)
  <2>1. sessions' = {}
    BY <1>2 DEF WatchPending, Claimed
  <2> QED BY <2>1 DEF SessionsOwed
<1>3. CASE ~Enqueue(x) /\ ~WatchPending(x)
  <2>1. sessions' \subseteq sessions
    BY <1>3 DEF Step, Scheduling, Tick, TickEnds, ActBlock, ActSettle, ActStart, ActRefused,
       Starting, Claim, Assign, Cut, Spawn, SetRunning, Register,
       Waiting, Await, Finish, DropLease, Discredit, GiveUp,
       Checking, Verify, Verification, Before, Check, Judge, Reject, Block, Requeue,
       Reviewing, Review, PickReviewer, Conclude, Approve,
       Landing, Merge, CheckEvidence, LandOk, LandStops, MarkMerged, Arrived, Landed, Remove,
       AskPerson, ResolveByMerge, ResolveByAgent,
       Returning, ReturnFromVerify, ReturnFromApprove, ReturnFromRun, Report,
       ReturnFromVerifyCommand, ReturnFromCommand, Retry, Halt, Kill, runVars
  <2>2. \A y \in Threads : WillWatch(th[y]) => WillWatch(th'[y])
    BY <1>3, EveryoneGoes DEF Goes, Proceeds
  <2> QED BY <2>1, <2>2 DEF SessionsOwed
<1> QED BY <1>1, <1>2, <1>3

LEMMA HeldStep ==
  ASSUME TypeInv, TypeInv', Shaped, RunsInHand, LandingInv, LocksHeld, SessionsOwed, [Next]_vars
  PROVE  LocksHeld' /\ SessionsOwed'
<1>1. ASSUME NEW x \in Threads, Step(x) PROVE LocksHeld' /\ SessionsOwed'
  <2>1. mergeLock' # Nobody => th'[mergeLock'].pc \in Locked
    BY <1>1, LockGoesOn, LockStays
  <2>2. \A t \in Tasks : stops'[t] # "none" =>
          \E y \in Threads : "stop" \in th'[y].duty /\ th'[y].task = t
    BY <1>1, StopsStay
  <2> QED BY <1>1, <2>1, <2>2, SessionsStayOwed DEF LocksHeld
<1>2. CASE UNCHANGED <<th, mergeLock, stops, sessions>>
  BY <1>2 DEF LocksHeld, SessionsOwed
<1>3. ASSUME NEW p \in People, Command(p) PROVE LocksHeld' /\ SessionsOwed'
  <2>1. UNCHANGED <<mergeLock, stops, sessions>>
    BY <1>3 DEF Command, AskStep, AskVerify, AskRun, AskReady, AskRetry, AskCancel, AskStart,
       AskPause, AskAssign, AskConfigure, PersonMerges, runVars
  <2>2. CASE UNCHANGED th
    BY <1>2, <2>1, <2>2
  <2>3. CASE ~UNCHANGED th
    <3>1. At(p, "idle") /\ \A y \in Threads \ {p} : th'[y] = th[y]
      BY <1>3, <2>3, CommandBegins
    <3>2. p \in Threads /\ mergeLock \in Threads \cup {Nobody}
      BY DEF Threads, TypeInv, TypeOK
    <3>3. /\ th[p].pc \notin Locked /\ "stop" \notin th[p].duty /\ ~WillWatch(th[p])
      BY <3>1, <3>2 DEF At, Locked, Shaped, Shape, WillWatch, InTick
    <3> QED BY <2>1, <3>1, <3>2, <3>3 DEF LocksHeld, SessionsOwed
  <2> QED BY <2>2, <2>3
<1>4. ASSUME NEW r \in RunIds, Agent(r) PROVE LocksHeld' /\ SessionsOwed'
  <2>1. UNCHANGED <<th, mergeLock, stops, sessions>>
    BY <1>4 DEF Agent, Edit, Commit, Exit, runVars
  <2> QED BY <1>2, <2>1
<1>5. CASE Restart
  BY <1>5 DEF Restart, LocksHeld, SessionsOwed
<1>6. CASE UNCHANGED vars
  BY <1>2, <1>6 DEF vars, runVars
<1> QED BY <1>1, <1>3, <1>4, <1>5, <1>6 DEF Next

(* Together they are inductive: a lock has a holder that will give it back, *)
(* a process somebody who will wait for it, and what is not waited for yet  *)
(* somebody who will come to watch.                                        *)
HeldInv == /\ TypeInv /\ LandingInv /\ Shaped /\ RunsInHand
           /\ LocksHeld /\ SessionsOwed

LEMMA InitHeld == Init => HeldInv
<1> SUFFICES ASSUME Init PROVE HeldInv
  OBVIOUS
<1>1. TypeInv /\ LandingInv
  BY InitTyped, InitLanding
<1>2. /\ \A x \in Threads : th[x] = Idle
      /\ \A r \in RunIds : runs[r].outcome = "none" /\ runs[r].proc = "gone"
      /\ sessions = {} /\ \A t \in Tasks : cancellations[t] = 0 /\ stops[t] = "none"
      /\ mergeLock = Nobody
  BY DEF Init, NoRun
<1>3. Idle.pc = "idle" /\ Idle.job = "none" /\ Idle.duty = {} /\ Idle.then = "ret"
  BY DEF Idle
<1>4. Shaped
  BY <1>2, <1>3 DEF Shaped, Shape
<1>5. RunsInHand
  BY <1>2, <1>3 DEF RunsInHand, At, Threads, Launcher
<1>6. LocksHeld /\ SessionsOwed
  BY <1>2 DEF LocksHeld, SessionsOwed
<1> QED BY <1>1, <1>4, <1>5, <1>6 DEF HeldInv

LEMMA NothingLeaksThen == ASSUME HeldInv PROVE NothingIsLeaked
<1>1. mergeLock # Nobody => th[mergeLock].pc \in Locked
  BY DEF HeldInv, LocksHeld
<1>2. \A t \in Tasks : stops[t] # "none" =>
        \E x \in Threads : "stop" \in th[x].duty /\ th[x].task = t
  BY DEF HeldInv, LocksHeld
<1>3. \A r \in RunIds : Alive(r) => r \in sessions \/ At(r, "await") \/ IsBeingStarted(r)
  BY DEF HeldInv, RunsInHand, Alive, IsBeingStarted, Launcher
<1>4. ASSUME NEW t \in Tasks, cancellations[t] # 0
      PROVE  \/ cancellations[t] \in sessions \/ ~At(cancellations[t], "idle")
             \/ IsBeingStarted(cancellations[t])
  BY <1>4 DEF HeldInv, RunsInHand, StopReaches, IsBeingStarted, At
<1>5. sessions # {} => \E x \in Threads : WillWatch(th[x])
  BY DEF HeldInv, SessionsOwed
<1> QED BY <1>1, <1>2, <1>3, <1>4, <1>5 DEF NothingIsLeaked, Locked

(* Nothing is held that nobody will give back: not the merge lock, a stop   *)
(* flag, an agent's process, the run a retry is refused for, or a session   *)
(* that waits to be watched, whatever threads, commands and agents do       *)
(* (merge_lock, verification_stops, cancellations, sessions).               *)
THEOREM NothingLeaks == Spec => []NothingIsLeaked
<1>1. HeldInv /\ [Next]_vars => HeldInv'
  <2> SUFFICES ASSUME HeldInv, [Next]_vars PROVE HeldInv'
    OBVIOUS
  <2>1. TypeInv' /\ LandingInv'
    BY StepTyped, LandingStep DEF HeldInv
  <2>2. Shaped' /\ RunsInHand'
    BY <2>1, ShapedStays, HandsStep DEF HeldInv
  <2>3. LocksHeld' /\ SessionsOwed'
    BY <2>1, HeldStep DEF HeldInv
  <2> QED BY <2>1, <2>2, <2>3 DEF HeldInv
<1> QED BY <1>1, InitHeld, NothingLeaksThen, PTL DEF Spec
=============================================================================

----------------------------- MODULE LandingLane -----------------------------
(***************************************************************************)
(* The landing lane: how the commit of a task reaches its destination      *)
(* branch.  The lane reads the branch's tip, writes the merge of the tip   *)
(* and the task's commit, checks that merge, and moves the branch to it,   *)
(* all while a person commits, switches and moves branches with Git, and   *)
(* lands merges of their own in Merger.                                    *)
(*                                                                         *)
(* A step is one call of git, which is what the program and the person     *)
(* share, with the local computation around it.  Commits are numbers in    *)
(* the order they are written; of a commit only its ancestors matter.      *)
(*                                                                         *)
(* Source: FarmService::land of crates/spagitty-farm/src/service.rs and    *)
(* crates/spagitty-core/src/merger/land.rs.                                *)
(***************************************************************************)
EXTENDS Integers, FiniteSets

CONSTANTS
  TaskCount,   \* tasks to land; task t has the commit t, written on the commit 0
  Mergers,     \* the merges a person lands in Merger, each of them once
  Nobody,      \* no task: the merge lock is free
  Main, Other, \* the destination, and a branch of the person's own
  LaneTries,   \* how many candidates the lane builds before it gives up
  Stops,       \* what may stop the lane: "conflict", "red", "git"
  Moves,       \* what the person does besides committing: "rewind", "switch",
               \* "switch amid a move"
  MaxMoves,    \* bound: commits the person writes, by hand or in Merger, and rewinds
  MaxCrashes   \* bound: crashes of the program

Tasks   == 1..TaskCount
Landers == Tasks \cup Mergers
Branch  == {Main, Other}

ASSUME LaneAssumption ==
  /\ TaskCount \in Nat /\ LaneTries \in Nat \ {0}
  /\ MaxMoves \in Nat /\ MaxCrashes \in Nat
  /\ Mergers \cap Tasks = {} /\ Nobody \notin Landers /\ Main # Other
  /\ Stops \subseteq {"conflict", "red", "git"}
  /\ Moves \subseteq {"rewind", "switch", "switch amid a move"}

VARIABLES
  last,      \* the newest commit
  reach,     \* [commit -> its ancestors, and itself]
  tip,       \* [Branch -> commit]
  head,      \* the branch the person's working copy is on
  at,        \* [Landers -> where a landing is, and what it holds]
  mergeLock, \* the task that is landing
  answer,    \* [Tasks -> how its landing ended]
  ledger,    \* what the ledger says was landed; its order, and the entries
             \* of races that were lost, are left out
  green,     \* the candidates whose checks passed
  had,       \* history: the commits the destination has had
  moves, crashes

gitVars == <<last, reach, tip, had>>
farm    == <<mergeLock, answer, ledger, green>>
bounds  == <<moves, crashes>>
vars    == <<gitVars, head, at, farm, bounds>>

-----------------------------------------------------------------------------
(* Types. *)

Commits == 0..last

Pcs == {"idle", "lock", "tip", "build", "check", "plan", "look", "head", "ff", "swap",
        "record", "settle", "over"}

Landing == [pc : Pcs,
            old : Commits,      \* the tip of the destination it read,
            source : Commits,   \* the tip Merger brings in,
            cand : Commits,     \* the commit that is to become the tip,
            tries : 0..LaneTries - 1]  \* and the candidates that lost their race

Idle == [pc |-> "idle", old |-> 0, source |-> 0, cand |-> 0, tries |-> 0]

(* How a landing ended.  What stopped it (LaneStop) makes no difference here. *)
Answers == {"none", "done", "stopped"}

Entry == [task : Tasks, old : Commits, new : Commits]

LaneTypeOK ==
  /\ last \in Nat /\ TaskCount <= last
  /\ reach \in [Commits -> SUBSET Commits]
  /\ tip \in [Branch -> Commits] /\ head \in Branch
  /\ at \in [Landers -> Landing]
  /\ mergeLock \in Tasks \cup {Nobody}
  /\ answer \in [Tasks -> Answers]
  /\ ledger \subseteq Entry
  /\ green \subseteq Commits /\ had \subseteq Commits
  /\ moves \in 0..MaxMoves /\ crashes \in 0..MaxCrashes

Init ==
  /\ last = TaskCount
  /\ reach = [c \in Commits |-> {0, c}]
  /\ tip = [b \in Branch |-> 0] /\ head \in Branch
  /\ at = [x \in Landers |-> Idle]
  /\ mergeLock = Nobody
  /\ answer = [t \in Tasks |-> "none"]
  /\ ledger = {} /\ green = {} /\ had = {0}
  /\ moves = 0 /\ crashes = 0

-----------------------------------------------------------------------------
(* Git. *)

Contains(c, d) == d \in reach[c]

(* A commit with these parents. *)
Write(parents) ==
  /\ last' = last + 1
  /\ reach' = [c \in 0..last + 1 |-> IF c = last + 1
                                     THEN {c} \cup UNION {reach[p] : p \in parents}
                                     ELSE reach[c]]

(* A branch moves to a commit that has been written. *)
MoveBranch(b, c) ==
  /\ tip' = [tip EXCEPT ![b] = c]
  /\ had' = IF b = Main THEN had \cup reach[c] ELSE had
  /\ UNCHANGED <<last, reach>>

-----------------------------------------------------------------------------
(* The lane: merge_checked and land. *)

Goto(x, p) == at' = [at EXCEPT ![x].pc = p]

(* A landing is over; what it held is gone. *)
Over == [Idle EXCEPT !.pc = "over"]

Leave(x) == at' = [at EXCEPT ![x] = IF x \in Tasks THEN Idle ELSE Over]

(* Seeded fault: a landing that stops keeps the merge lock.                *)
EndHoldingLock(t, how) ==
  /\ answer' = [answer EXCEPT ![t] = how]
  /\ mergeLock' = IF how = "done" THEN Nobody ELSE mergeLock

(* The status of the task is set, and the lock given up.                   *)
End(t, how) ==
  /\ answer' = [answer EXCEPT ![t] = how]
  /\ mergeLock' = Nobody

Finish(t, how) == Leave(t) /\ End(t, how)

Stop(t) == Finish(t, "stopped")

(* A landing is asked for, and waits for the one before it. *)
Merge(t) ==
  /\ at[t].pc = "idle" /\ answer[t] = "none"
  /\ Goto(t, "lock")
  /\ UNCHANGED <<gitVars, head, farm, bounds>>

TakeLock(t) ==
  /\ at[t].pc = "lock" /\ mergeLock = Nobody
  /\ mergeLock' = t
  /\ Goto(t, "tip")
  /\ UNCHANGED <<gitVars, head, answer, ledger, green, bounds>>

(* Seeded fault: the commit is looked for where the person is.             *)
AlreadyWhereThePersonIs(t) == Contains(tip[head], t)

AlreadyThere(t) == Contains(tip[Main], t)

ReadTip(t) ==
  /\ at[t].pc = "tip"
  /\ at' = [at EXCEPT ![t].old = tip[Main],
                      ![t].pc  = IF AlreadyThere(t) THEN "settle" ELSE "build"]
  /\ UNCHANGED <<gitVars, head, farm, bounds>>

(* Seeded fault: a rebuilt candidate is not checked again.                 *)
StartedFromTipOrChecked(t) == Contains(t, at[t].old) \/ at[t].tries > 0

(* The candidate's tree is the task's own, which was checked.              *)
StartedFromTip(t) == Contains(t, at[t].old)

Build(t) ==
  /\ at[t].pc = "build"
  /\ Write({at[t].old, t})
  /\ at' = [at EXCEPT ![t].cand = last + 1,
                      ![t].pc   = IF StartedFromTip(t) THEN "look" ELSE "check"]
  /\ UNCHANGED <<tip, had, head, farm, bounds>>

Conflict(t) ==
  /\ at[t].pc = "build" /\ "conflict" \in Stops
  /\ Stop(t)
  /\ UNCHANGED <<gitVars, head, ledger, green, bounds>>

CheckPasses(t) ==
  /\ at[t].pc = "check"
  /\ green' = green \cup {at[t].cand}
  /\ Goto(t, "look")
  /\ UNCHANGED <<gitVars, head, mergeLock, answer, ledger, bounds>>

CheckFails(t) ==
  /\ at[t].pc = "check" /\ "red" \in Stops
  /\ Stop(t)
  /\ UNCHANGED <<gitVars, head, ledger, green, bounds>>

(* A call of git fails for a reason of its own: a full disk, a locked ref,  *)
(* uncommitted changes a fast-forward would write over.                    *)
GitFails(t) ==
  /\ "git" \in Stops
  /\ at[t].pc \in {"tip", "build", "check", "head", "ff", "swap"}
  /\ Stop(t)
  /\ UNCHANGED <<gitVars, head, ledger, green, bounds>>

Spent(t) == at[t].tries + 1 = LaneTries

(* The destination moved since its tip was read. *)
Stale(t) ==
  /\ IF Spent(t) THEN Stop(t)
     ELSE /\ at' = [at EXCEPT ![t].pc = "tip", ![t].tries = @ + 1]
          /\ UNCHANGED <<mergeLock, answer>>
  /\ UNCHANGED <<ledger, green>>

Record(t) ==
  /\ at[t].pc = "record"
  /\ ledger' = ledger \cup {[task |-> t, old |-> at[t].old, new |-> at[t].cand]}
  /\ Goto(t, "settle")
  /\ UNCHANGED <<gitVars, head, mergeLock, answer, green, bounds>>

Settle(t) ==
  /\ at[t].pc = "settle"
  /\ Finish(t, "done")
  /\ UNCHANGED <<gitVars, head, ledger, green, bounds>>

-----------------------------------------------------------------------------
(* A landing in Merger: the branch Other into the destination.             *)

Plan(m) ==
  /\ at[m].pc = "idle"
  /\ at' = [at EXCEPT ![m].pc = "plan", ![m].old = tip[Main], ![m].source = tip[Other]]
  /\ UNCHANGED <<gitVars, head, farm, bounds>>

(* Both tips are as the plan read them, and there is something to land.    *)
PlanHolds(m) ==
  /\ tip[Main] = at[m].old /\ tip[Other] = at[m].source
  /\ ~Contains(at[m].old, at[m].source)

(* The plan no longer holds, its conflicts are not resolved, git fails.    *)
MergerRefuses(m) ==
  /\ at[m].pc = "plan"
  /\ Leave(m)
  /\ UNCHANGED <<gitVars, head, farm, bounds>>

(* A merge has both tips for parents, a squash or a rebase the destination's. *)
MergerBuilds(m) ==
  /\ at[m].pc = "plan" /\ PlanHolds(m)
  /\ moves < MaxMoves /\ moves' = moves + 1
  /\ \E parents \in {{at[m].old, at[m].source}, {at[m].old}} : Write(parents)
  /\ at' = [at EXCEPT ![m].pc = "look", ![m].cand = last + 1]
  /\ UNCHANGED <<tip, had, head, farm, crashes>>

MergerFastForwards(m) ==
  /\ at[m].pc = "plan" /\ PlanHolds(m)
  /\ Contains(at[m].source, at[m].old)
  /\ at' = [at EXCEPT ![m].pc = "look", ![m].cand = at[m].source]
  /\ UNCHANGED <<gitVars, head, farm, bounds>>

-----------------------------------------------------------------------------
(* advance, move_to: what the lane and Merger share.                       *)

(* Seeded fault: the merge is made in the working copy, whatever it is on. *)
AlwaysCheckedOut == TRUE

CheckedOut == head = Main

Look(x) ==
  /\ at[x].pc = "look"
  /\ Goto(x, IF CheckedOut THEN "head" ELSE "swap")
  /\ UNCHANGED <<gitVars, head, farm, bounds>>

ReadHead(x) ==
  /\ at[x].pc = "head"
  /\ IF tip[head] = at[x].old THEN Goto(x, "ff") /\ UNCHANGED farm
     ELSE IF x \in Tasks      THEN Stale(x)
     ELSE Leave(x) /\ UNCHANGED farm
  /\ UNCHANGED <<gitVars, head, bounds>>

(* git did what it was asked. *)
Advanced(x) == /\ IF x \in Tasks THEN Goto(x, "record") ELSE Leave(x)
               /\ UNCHANGED farm

(* git did not: any error but Stale stops the lane. *)
Refused(x) == IF x \in Tasks THEN Stop(x) /\ UNCHANGED <<ledger, green>>
                             ELSE Leave(x) /\ UNCHANGED farm

(* merge --ff-only, on the branch the working copy is on by now.           *)
FastForward(x) ==
  /\ at[x].pc = "ff"
  /\ IF Contains(at[x].cand, tip[head])      THEN MoveBranch(head, at[x].cand) /\ Advanced(x)
     ELSE IF Contains(tip[head], at[x].cand) THEN UNCHANGED gitVars /\ Advanced(x)
     ELSE UNCHANGED gitVars /\ Refused(x)
  /\ UNCHANGED <<head, bounds>>

(* Seeded fault: the branch is moved wherever it is.                       *)
SwapAnyway(x) == TRUE

SwapHolds(x) == tip[Main] = at[x].old

(* update-ref with the value it must still have.                           *)
UpdateRef(x) ==
  /\ at[x].pc = "swap"
  /\ IF SwapHolds(x) THEN MoveBranch(Main, at[x].cand) /\ Advanced(x)
                     ELSE UNCHANGED gitVars /\ Refused(x)
  /\ UNCHANGED <<head, bounds>>

Advance(x) == Look(x) \/ ReadHead(x) \/ FastForward(x) \/ UpdateRef(x)

-----------------------------------------------------------------------------
(* The person, with Git; and a crash of the program.                       *)

Commit ==
  /\ moves < MaxMoves /\ moves' = moves + 1
  /\ Write({tip[head]})
  /\ tip' = [tip EXCEPT ![head] = last + 1]
  /\ had' = IF head = Main THEN had \cup {last + 1} ELSE had
  /\ UNCHANGED <<head, at, farm, crashes>>

(* The destination is moved back to a commit it has. *)
Rewind ==
  /\ "rewind" \in Moves
  /\ moves < MaxMoves /\ moves' = moves + 1
  /\ \E c \in reach[tip[Main]] \ {tip[Main]} : MoveBranch(Main, c)
  /\ UNCHANGED <<head, at, farm, crashes>>

(* The person goes to the other branch; between the calls that look at the *)
(* working copy and move its branch only where the instance says so.       *)
Switch ==
  /\ "switch" \in Moves
  /\ \/ "switch amid a move" \in Moves
     \/ \A x \in Landers : at[x].pc \notin {"head", "ff"}
  /\ head' \in Branch \ {head}
  /\ UNCHANGED <<gitVars, at, farm, bounds>>

(* What git and the ledger have is kept; a task is still to be landed.     *)
Crash ==
  /\ crashes < MaxCrashes /\ crashes' = crashes + 1
  /\ at' = [x \in Landers |-> IF at[x].pc \in {"idle", "over"} THEN at[x] ELSE
                               IF x \in Tasks THEN Idle ELSE Over]
  /\ mergeLock' = Nobody
  /\ UNCHANGED <<gitVars, head, answer, ledger, green, moves>>

-----------------------------------------------------------------------------
Lane(t) == \/ TakeLock(t) \/ ReadTip(t) \/ Build(t) \/ Conflict(t) \/ CheckPasses(t)
           \/ CheckFails(t) \/ GitFails(t) \/ Advance(t) \/ Record(t) \/ Settle(t)

Merger(m) == \/ Plan(m) \/ MergerRefuses(m) \/ MergerBuilds(m) \/ MergerFastForwards(m)
             \/ Advance(m)

Person == Commit \/ Rewind \/ Switch

Next == \/ \E t \in Tasks : Merge(t) \/ Lane(t)
        \/ \E m \in Mergers : Merger(m)
        \/ Person \/ Crash

Spec == Init /\ [][Next]_vars

(* The thread that lands a task goes on.  Nobody has to ask for a landing.  *)
FairSpec == Spec /\ \A t \in Tasks : WF_vars(Lane(t))

-----------------------------------------------------------------------------
(* Nothing is lost: only a person takes a commit off a branch.  Neither the *)
(* lane nor Merger moves a branch to something that lacks what it had,      *)
(* whatever else moved it meanwhile (advance: "never overwritten").        *)
NothingLost ==
  [][(\A b \in Branch : reach[tip[b]] \subseteq reach'[tip'[b]]) \/ Rewind]_vars

(* What lands is what was tested: a candidate the ledger says was landed    *)
(* passed its own checks, however many were built before it, or has the    *)
(* tree of a task that started from that very tip (land,                   *)
(* check_candidate).                                                       *)
LandsWhatWasChecked ==
  \A e \in ledger : e.new \in green \/ Contains(e.task, e.old)

(* The ledger tells the truth about the destination: what an entry says was *)
(* landed has been there, on top of what it says was there, and brought     *)
(* the task in where it was not yet - also after a crash has had the same   *)
(* task landed again (write_ledger, land).                                 *)
LedgerTellsTruth ==
  \A e \in ledger :
    /\ {e.old, e.new} \subseteq had
    /\ {e.old, e.task} \subseteq reach[e.new]
    /\ ~Contains(e.old, e.task)

(* The promise of Destination, implemented. *)
Promise == INSTANCE Destination WITH
             on   <- reach[tip[Main]],
             ever <- had,
             done <- {t \in Tasks : answer[t] = "done"}

Promised == Promise!Spec

(* A landing ends: whoever has asked for one is answered, or the program    *)
(* crashed, however often the branch moves meanwhile and whatever the      *)
(* landings before it came to (LANE_TRIES, merge_lock).                    *)
LandingEnds == \A t \in Tasks : at[t].pc # "idle" ~> at[t].pc = "idle"

(* A race for the destination that is lost is run again, up to LANE_TRIES   *)
(* times (advance: "A branch that is no longer at `old` is Error::Stale";  *)
(* LedgerKind::RetryLost).                                                 *)
LostRaceIsRebuilt ==
  [][\A t \in Tasks :
       at[t].pc = "swap" /\ tip[Main] # at[t].old /\ answer'[t] = "stopped" => Spent(t)]_vars

(* The lane moves the destination, no other branch, and only from the tip   *)
(* it built its candidate on (ledger.rs: "moves a branch only by            *)
(* compare-and-swap").                                                     *)
MovesFromTheTipRead ==
  [][\A t \in Tasks :
       at[t].pc \in {"ff", "swap"} /\ at'[t].pc = "record"
         => tip = [tip' EXCEPT ![Main] = at[t].old] /\ tip'[Main] = at[t].cand]_vars
=============================================================================

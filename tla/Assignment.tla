------------------------------ MODULE Assignment ------------------------------
(***************************************************************************)
(* One agent on one job: a review, file by file, or a merge, conflict by   *)
(* conflict.  The engine's thread drives the steps and stops at gates; the *)
(* person's controls reach it through a queue; the webview does the last   *)
(* act, and keeps its own copy of what was chosen for each conflict.  The  *)
(* record survives a crash, the engine's memory does not.                  *)
(*                                                                         *)
(* A step of the specification is a lock section of the engine, with the   *)
(* computation around it, one press of the person, or one step of the      *)
(* webview.  A file's findings are one proposal; Stop and Take over are    *)
(* one control.  Tell, the reordering of the plan and the sentences shown  *)
(* are left out.  Ask why is the step it costs, which only matters when it *)
(* fails.                                                                  *)
(*                                                                         *)
(* Source: crates/spagitty-farm/src/assign/engine.rs and level.rs,         *)
(* src-tauri/src/agents.rs, and agent.svelte.ts of lib/merger, lib/review. *)
(***************************************************************************)
EXTENDS Integers, Sequences, FiniteSets

CONSTANTS
  Jobs,        \* the jobs handed over: "review", "merge"
  UnitCount,   \* the files of the review, or the conflicts of the merge
  FirstLevels, \* the levels an assignment is started at
  Highest,     \* the repository's highest level
  Configured,  \* checks are configured
  MayLand,     \* the receiving branch may be landed into unattended
  Controls,    \* what the person presses
  MaxPresses,  \* bound: presses, resumes among them
  MaxCrashes,  \* bound: times the program is closed or killed
  Trouble      \* how a step may fail: "silent", "error", "dirty", "limit"

Units  == 1..UnitCount
Levels == <<"Suggest", "StepByStep", "SignOff", "Unattended">>
Rank(l) == CHOOSE i \in 1..4 : Levels[i] = l
Level  == {Levels[i] : i \in 1..4}
AllControls == {"pause", "resume", "stop", "level", "continue", "redo", "askWhy",
                "accept", "dismiss", "own", "moved", "carryOn"}

ASSUME AssignmentAssumption ==
  /\ Jobs \subseteq {"review", "merge"} /\ UnitCount \in Nat
  /\ FirstLevels \subseteq Level /\ Highest \in Level
  /\ Configured \in BOOLEAN /\ MayLand \in BOOLEAN
  /\ Controls \subseteq AllControls
  /\ MaxPresses \in Nat /\ MaxCrashes \in Nat
  /\ Trouble \subseteq {"silent", "error", "dirty", "limit"}

VARIABLES
  \* the record, on disk
  job, state, level, pausing,
  lastAct,   \* the last act is asked of the webview
  step,      \* the newest step: what it is for and its state
  done,      \* the units with a step that is Done
  proposals, \* every proposal made, oldest first
  \* the engine
  pc,
  goal,      \* what the engine works at: its kind, and the unit
  at,        \* the proposal of the current step, 0 when it has none
  failed,    \* a check failed, the last time they ran
  moved, stale,
  choices,   \* [Units -> the person chose something of their own]
  checked,   \* [Units -> what stood when the checks last began]
  \* the way to the engine
  controls, cancel,
  \* the repository: a branch of the merge, or the head, has moved
  tips,
  \* the webview
  acted,     \* the last act of this assignment was taken
  acting,    \* how many of them are being done
  resolver,  \* [Units -> what is chosen there, and by whom]: what would land
  \* what came of it
  sent,      \* history: the last acts the agent did
  landed,    \* history: what the agent's landing was made of
  answered,  \* history: the units the agent has answered for
  passed,    \* history: what the checks have passed on
  presses, crashes

record  == <<job, state, level, pausing, lastAct, step, done, proposals>>
engine  == <<pc, goal, at, failed, moved, stale, choices, checked>>
webview == <<acted, acting, resolver>>
outcome == <<sent, landed, answered, passed>>
bounds  == <<presses, crashes>>
vars    == <<record, engine, controls, cancel, tips, webview, outcome, bounds>>

-----------------------------------------------------------------------------
(* What stands for a conflict: the person's own choice, a proposal, or     *)
(* nothing.                                                                *)
None == 0
Own  == -1
Empty == [of |-> None, by |-> "nobody"]

\* The newest proposal for u that is neither superseded nor dismissed.
Latest(ps, u) ==
  LET live == {i \in DOMAIN ps : /\ ps[i].kind = "unit" /\ ps[i].unit = u
                                 /\ ps[i].state \notin {"Superseded", "Dismissed"}}
  IN  IF live = {} THEN None ELSE CHOOSE i \in live : \A j \in live : j <= i

Standing(u) == IF choices[u] THEN Own ELSE Latest(proposals, u)
Unresolved  == \E u \in Units : Standing(u) = None

-----------------------------------------------------------------------------
(* Levels and gates.                                                       *)
LastGate(gate) == gate = "last"

Table(l, gate) ==
  CASE LastGate(gate) -> IF l = "Unattended" THEN "AgentDoesIt" ELSE "YouDoIt"
    [] ~LastGate(gate) /\ l = "Suggest"    -> IF gate = "checks" THEN "GoesOn" ELSE "Proposes"
    [] ~LastGate(gate) /\ l = "StepByStep" -> "Stops"
    [] OTHER -> "GoesOn"

\* What happens at a gate: something there always stops, or the act is refused.
AtGate(l, gate, stops, refused) ==
  LET planned == Table(l, gate) IN
  CASE stops /\ planned # "YouDoIt" -> "Stops"
    [] ~stops /\ planned = "AgentDoesIt" /\ refused -> "YouDoIt"
    [] OTHER -> planned

-----------------------------------------------------------------------------
IsOver(s) == s \in {"Done", "Stopped", "Failed"}
Goal(k, u) == [kind |-> k, unit |-> u]
NoStep     == [kind |-> "read", unit |-> 0, state |-> "Done"]

Init ==
  /\ job \in Jobs /\ level \in {l \in FirstLevels : Rank(l) <= Rank(Highest)}
  /\ state = "Starting" /\ pausing = FALSE /\ lastAct = FALSE
  /\ step = NoStep /\ done = {} /\ proposals = <<>>
  /\ pc = "start" /\ goal = Goal("read", 0) /\ at = 0 /\ failed = FALSE
  /\ moved = FALSE /\ stale = FALSE
  /\ choices = [u \in Units |-> FALSE] /\ checked = [u \in Units |-> None]
  /\ controls = <<>> /\ cancel = FALSE /\ tips = FALSE
  /\ acted = FALSE /\ acting = 0 /\ resolver = [u \in Units |-> Empty]
  /\ sent = 0 /\ landed = <<>> /\ answered = {} /\ passed = {}
  /\ presses = 0 /\ crashes = 0

-----------------------------------------------------------------------------
(* The person's controls as the engine takes them: a decision and a move   *)
(* are taken wherever the queue is read, the others where they mean        *)
(* something.                                                              *)
IsDecision(c) == c.kind \in {"accept", "dismiss", "own"}

\* The last decision the queue has of proposal i, None when it has none.
DecisionOf(i) ==
  LET all == {k \in DOMAIN controls : IsDecision(controls[k]) /\ controls[k].of = i}
  IN  IF all = {} THEN None ELSE CHOOSE k \in all : \A m \in all : m <= k

DecidedAs(c) == IF c.kind = "accept" THEN "Accepted" ELSE "Dismissed"

Decided ==
  [i \in DOMAIN proposals |->
    IF DecisionOf(i) = None THEN proposals[i]
    ELSE [proposals[i] EXCEPT !.state = DecidedAs(controls[DecisionOf(i)]),
                              !.by    = "person"]]

Chosen ==
  [u \in Units |->
    \/ choices[u]
    \/ \E k \in DOMAIN controls : /\ controls[k].kind = "own"
                                  /\ proposals[controls[k].of].kind = "unit"
                                  /\ proposals[controls[k].of].unit = u]

HeardMoved == moved \/ \E k \in DOMAIN controls : controls[k].kind = "moved"
AskedWhy   == level # "Unattended" /\ \E k \in DOMAIN controls : controls[k].kind = "askWhy"

\* The controls that are left for the place the engine is at.
Left == SelectSeq(controls, LAMBDA c : ~IsDecision(c) /\ c.kind \notin {"moved", "askWhy"})

TakeControls ==
  /\ controls' = <<>>
  /\ proposals' = Decided
  /\ choices' = Chosen
  /\ moved' = HeardMoved

-----------------------------------------------------------------------------
(* Steps.                                                                  *)
Begin(kind, unit) ==
  /\ step' = [kind |-> kind, unit |-> unit, state |-> "Running"]
  /\ state' = "Working"

\* Seeded fault: a step that is cut off counts as finished.
CutShortAsDone(s) == IF step.state \in {"Running", "Waiting"} THEN "Done" ELSE step.state

\* The run ends short: what ran is cut off, what waited is finished.
CutShort(s) ==
  CASE step.state = "Running" -> IF s = "Failed" THEN "Failed" ELSE "Superseded"
    [] step.state = "Waiting" -> IF s = "Failed" THEN "Failed" ELSE "Done"
    [] OTHER -> step.state

Halt(s) ==
  /\ state' = s /\ pc' = "over" /\ pausing' = FALSE
  /\ step' = [step EXCEPT !.state = CutShort(s)]
  /\ done' = IF step.kind = "unit" /\ CutShort(s) = "Done" THEN done \cup {step.unit} ELSE done

\* The step is finished, and the engine goes on to what comes after it.
Finish ==
  /\ step' = [step EXCEPT !.state = "Done"]
  /\ done' = IF step.kind = "unit" THEN done \cup {step.unit} ELSE done

\* Seeded fault: the units are counted, and the end is not looked for.
AfterUnitsCounted(d) == Goal("unit", Cardinality(d) + 1)

AfterUnits(d) ==
  IF Units \subseteq d
    THEN Goal(IF job = "review" THEN "verdict" ELSE "checks", 0)
    ELSE Goal("unit", CHOOSE u \in Units \ d : \A v \in Units \ d : u <= v)

GoOn ==
  /\ goal' = IF goal.kind \in {"plan", "unit"} THEN AfterUnits(done') ELSE Goal("last", 0)
  /\ pc' = IF goal.kind = "verdict" THEN "last" ELSE "check"

\* Is a plan kept from an earlier run?
KeptPlan ==
  \E i \in DOMAIN proposals : /\ proposals[i].kind = "plan"
                              /\ proposals[i].state \notin {"Superseded", "Dismissed"}

-----------------------------------------------------------------------------
(* The engine's thread.                                                    *)
Run ==
  /\ pc = "start"
  /\ state' = "Working" /\ step' = NoStep
  /\ goal' = IF job = "review" THEN Goal("plan", 0) ELSE AfterUnits(done)
  /\ pc' = "check"
  /\ UNCHANGED <<job, level, pausing, lastAct, done, proposals, at, failed, moved, stale,
                 choices, checked, controls, cancel, tips, webview, outcome, bounds>>

\* Seeded fault: a paused run hears nothing but Resume.
ListensUnlessPaused == pc \in {"check", "hold", "moved", "acting", "yours"}

\* Where the engine reads the queue and the stop flag.
Listens == pc \in {"check", "hold", "paused", "moved", "acting", "yours"}

\* Stop is an answer wherever the engine looks.
Stopped ==
  /\ Listens
  /\ cancel
  /\ Halt("Stopped")
  /\ UNCHANGED <<job, level, lastAct, proposals, goal, at, failed, moved, stale, choices,
                 checked, controls, cancel, tips, webview, outcome, bounds>>

\* A step asked for with Ask why fails, and the run with it.
WhyFails ==
  /\ Listens
  /\ ~cancel /\ AskedWhy
  /\ Trouble \cap {"error", "dirty"} # {}
  /\ TakeControls
  /\ Halt("Failed")
  /\ UNCHANGED <<job, level, lastAct, goal, at, failed, stale, checked, cancel, tips, webview,
                 outcome, bounds>>

\* Between steps: what the person asked for, and what no level lifts.
OverLimit ==
  /\ pc = "check" /\ ~cancel
  /\ "limit" \in Trouble
  /\ TakeControls
  /\ Halt("Stopped")
  /\ UNCHANGED <<job, level, lastAct, goal, at, failed, stale, checked, cancel, tips, webview,
                 outcome, bounds>>

TipsMoved == job = "merge" /\ tips

WaitMoved ==
  /\ pc = "check" /\ ~cancel
  /\ (HeardMoved \/ TipsMoved) /\ ~stale
  /\ TakeControls
  /\ state' = "Waiting" /\ pc' = "moved"
  /\ UNCHANGED <<job, level, pausing, lastAct, step, done, goal, at, failed, stale, checked,
                 cancel, tips, webview, outcome, bounds>>

PauseAsked == pausing \/ \E k \in DOMAIN Left : Left[k].kind = "pause"

Pause ==
  /\ pc = "check" /\ ~cancel
  /\ ~((HeardMoved \/ TipsMoved) /\ ~stale)
  /\ PauseAsked
  /\ controls' = <<>> /\ proposals' = Decided /\ choices' = Chosen /\ moved' = FALSE
  /\ state' = "Paused" /\ pausing' = FALSE /\ pc' = "paused"
  /\ UNCHANGED <<job, level, lastAct, step, done, goal, at, failed, stale, checked, cancel,
                 tips, webview, outcome, bounds>>

Checkpoint ==
  /\ pc = "check" /\ ~cancel
  /\ ~((HeardMoved \/ TipsMoved) /\ ~stale)
  /\ ~PauseAsked
  /\ controls' = <<>> /\ proposals' = Decided /\ choices' = Chosen /\ moved' = FALSE
  /\ pc' = IF goal.kind = "last" THEN "last" ELSE "begin"
  /\ UNCHANGED <<job, state, level, pausing, lastAct, step, done, goal, at, failed, stale,
                 checked, cancel, tips, webview, outcome, bounds>>

\* The plan is kept from before, so it is not asked for again.
KeepPlan ==
  /\ pc = "begin" /\ goal.kind = "plan" /\ KeptPlan
  /\ goal' = AfterUnits(done) /\ pc' = "check"
  /\ UNCHANGED <<record, at, failed, moved, stale, choices, checked, controls, cancel, tips,
                 webview, outcome, bounds>>

\* An agent's step begins.
Ask ==
  /\ pc = "begin" /\ goal.kind \in {"plan", "unit", "verdict"}
  /\ goal.kind = "plan" => ~KeptPlan
  /\ Begin(goal.kind, goal.unit)
  /\ at' = 0 /\ pc' = "ask"
  /\ UNCHANGED <<job, level, pausing, lastAct, done, proposals, goal, failed, moved, stale,
                 choices, checked, controls, cancel, tips, webview, outcome, bounds>>

\* The step ends without an answer that can be used.  What it wrote is put
\* back first: when that fails the run does, whatever else was asked.
StepFails ==
  /\ pc = "ask"
  /\ \/ cancel /\ Halt("Stopped")
     \/ "dirty" \in Trouble /\ Halt("Failed")
     \/ "limit" \in Trouble /\ Halt("Stopped")
     \/ ~cancel /\ Trouble \cap {"silent", "error"} # {} /\ Halt("Failed")
  /\ UNCHANGED <<job, level, lastAct, proposals, goal, at, failed, moved, stale, choices,
                 checked, controls, cancel, tips, webview, outcome, bounds>>

Proposal(sure) ==
  [kind |-> goal.kind, unit |-> goal.unit, sure |-> sure, state |-> "Proposed", by |-> "nobody"]

\* The agent answers: a plan, which is sure, findings, a resolution or a verdict.
Answer ==
  /\ pc = "ask" /\ ~cancel
  /\ \/ \E sure \in (IF goal.kind = "plan" THEN {TRUE} ELSE BOOLEAN) :
          /\ proposals' = Append(proposals, Proposal(sure))
          /\ at' = Len(proposals) + 1
     \/ job = "review" /\ goal.kind = "unit" /\ UNCHANGED <<proposals, at>>
  /\ answered' = answered \cup ({goal.unit} \cap Units)
  /\ pc' = "gate"
  /\ UNCHANGED <<job, state, level, pausing, lastAct, step, done, goal, failed, moved, stale,
                 choices, checked, controls, cancel, tips, webview, sent, landed, passed,
                 bounds>>

\* The checks, on the result as what stands makes it, a conflict nothing
\* stands for with its markers; none may be configured.
RunChecks ==
  /\ pc = "begin" /\ goal.kind = "checks"
  /\ at' = 0
  /\ IF Configured
       THEN /\ Begin("checks", 0)
            /\ checked' = [u \in Units |-> Standing(u)]
            /\ pc' = "checking"
            /\ UNCHANGED <<goal, failed>>
       ELSE /\ step' = [kind |-> "checks", unit |-> 0, state |-> "Done"]
            /\ state' = "Working"
            /\ failed' = FALSE /\ goal' = Goal("last", 0) /\ pc' = "check"
            /\ UNCHANGED checked
  /\ UNCHANGED <<job, level, pausing, lastAct, done, proposals, moved, stale, choices, controls,
                 cancel, tips, webview, outcome, bounds>>

ChecksEnd ==
  /\ pc = "checking" /\ ~cancel
  /\ failed' \in BOOLEAN
  /\ passed' = IF failed' THEN passed ELSE passed \cup {checked}
  /\ pc' = "gate"
  /\ UNCHANGED <<record, goal, at, moved, stale, choices, checked, controls, cancel, tips,
                 webview, sent, landed, answered, bounds>>

ChecksCutShort ==
  /\ pc = "checking"
  /\ \/ cancel /\ Halt("Stopped")
     \/ "error" \in Trouble /\ Halt("Failed")
  /\ UNCHANGED <<job, level, lastAct, proposals, goal, at, failed, moved, stale, choices,
                 checked, controls, cancel, tips, webview, outcome, bounds>>

-----------------------------------------------------------------------------
(* Gates.                                                                  *)
AlwaysStops == IF goal.kind = "checks" THEN failed ELSE at # 0 /\ ~proposals[at].sure

\* Seeded fault: every sure proposal that waits is applied, whatever its step.
ApplyAllSure ==
  [i \in DOMAIN proposals |->
    IF proposals[i].state = "Proposed" /\ proposals[i].sure
      THEN [proposals[i] EXCEPT !.state = "Applied", !.by = "agent"] ELSE proposals[i]]

\* The agent's sure proposal of this step becomes the person's material.
ApplySure ==
  IF at # 0 /\ proposals[at].state = "Proposed" /\ proposals[at].sure
    THEN [proposals EXCEPT ![at].state = "Applied", ![at].by = "agent"]
    ELSE proposals

Gate ==
  /\ pc = "gate"
  /\ LET gate == AtGate(level, goal.kind, AlwaysStops, FALSE) IN
     \/ /\ gate = "Stops"
        /\ state' = "Waiting" /\ step' = [step EXCEPT !.state = "Waiting"]
        /\ pc' = "hold"
        /\ UNCHANGED <<done, proposals, goal>>
     \/ /\ gate # "Stops"
        /\ proposals' = IF gate = "Proposes" THEN proposals ELSE ApplySure
        /\ Finish /\ GoOn
        /\ UNCHANGED state
  /\ UNCHANGED <<job, level, pausing, lastAct, at, failed, moved, stale, choices, checked,
                 controls, cancel, tips, webview, outcome, bounds>>

\* What the engine hears where it waits: the first control that is not a
\* pause.  Those taken with it are gone.
Answers == SelectSeq(Left, LAMBDA c : c.kind # "pause")
Heard   == IF Answers = <<>> THEN "nothing" ELSE Head(Answers).kind
Hears(kinds) == ~cancel /\ Heard \in kinds

\* Nothing that is an answer where the engine is; decisions are taken all the same.
Unheard(kinds) ==
  /\ ~cancel /\ controls # <<>>
  /\ Heard \notin kinds
  /\ TakeControls
  /\ UNCHANGED <<job, state, level, pausing, lastAct, step, done, pc, goal, at, failed, stale,
                 checked, cancel, tips, webview, outcome, bounds>>

HoldEnds ==
  /\ pc = "hold" /\ Hears({"continue", "resume"})
  /\ TakeControls
  /\ Finish /\ GoOn
  /\ UNCHANGED <<job, state, level, pausing, lastAct, at, failed, stale, checked, cancel, tips,
                 webview, outcome, bounds>>

\* Seeded fault: what the person has decided meanwhile is superseded too.
WithdrawAll(ps) ==
  [i \in DOMAIN ps |-> IF i = at THEN [ps[i] EXCEPT !.state = "Superseded"] ELSE ps[i]]

Withdraw(ps) ==
  [i \in DOMAIN ps |->
    IF i = at /\ ps[i].state = "Proposed" THEN [ps[i] EXCEPT !.state = "Superseded"] ELSE ps[i]]

\* The step runs again, at once: what it proposed is kept, superseded.
Redo ==
  /\ pc = "hold" /\ Hears({"redo"})
  /\ controls' = <<>> /\ choices' = Chosen /\ moved' = HeardMoved
  /\ proposals' = Withdraw(Decided)
  /\ step' = [step EXCEPT !.state = "Superseded"]
  /\ pc' = "begin"
  /\ UNCHANGED <<job, state, level, pausing, lastAct, done, goal, at, failed, stale, checked,
                 cancel, tips, webview, outcome, bounds>>

PauseEnds ==
  /\ pc = "paused" /\ Hears({"resume", "continue"})
  /\ TakeControls
  /\ state' = "Working" /\ pc' = "check"
  /\ UNCHANGED <<job, level, pausing, lastAct, step, done, goal, at, failed, stale, checked,
                 cancel, tips, webview, outcome, bounds>>

\* The job carries on against the revisions it was given.
CarryOn ==
  /\ pc = "moved" /\ Hears({"carryOn", "continue"})
  /\ controls' = <<>> /\ proposals' = Decided /\ choices' = Chosen
  /\ stale' = TRUE /\ moved' = FALSE
  /\ state' = "Working" /\ pc' = "check"
  /\ UNCHANGED <<job, level, pausing, lastAct, step, done, goal, at, failed, checked, cancel,
                 tips, webview, outcome, bounds>>

IgnoreControls ==
  \/ pc = "hold"   /\ Unheard({"continue", "resume", "redo"})
  \/ pc = "paused" /\ Unheard({"resume", "continue"})
  \/ pc = "moved"  /\ Unheard({"carryOn", "continue"})
  \/ pc = "acting" /\ Unheard({"acted", "failed"})
  \/ pc = "yours"  /\ Unheard({"acted", "continue"})

-----------------------------------------------------------------------------
(* The last act.                                                           *)
Unsure ==
  \E i \in DOMAIN proposals : /\ proposals[i].state = "Proposed" /\ ~proposals[i].sure
                              /\ job = "merge" => proposals[i].kind = "unit"

\* Seeded fault: that checks ran is taken for their having passed.
StopsLastUnchecked == Unsure \/ (job = "merge" /\ tips)

StopsLast == Unsure \/ (job = "merge" /\ (failed \/ tips))
Refused   == job = "merge" /\ (~Configured \/ Unresolved \/ ~MayLand)
AtLast    == AtGate(level, "last", StopsLast, Refused)

\* The act is the agent's, and asked of the webview; or the person's, who is
\* waited for where they approve the end; or the person's, in their own time.
LastAct ==
  /\ pc = "last"
  /\ \/ /\ AtLast = "AgentDoesIt"
        /\ Begin("last", 0) /\ lastAct' = TRUE /\ pc' = "acting"
        /\ UNCHANGED pausing
     \/ /\ AtLast # "AgentDoesIt" /\ Rank(level) >= Rank("SignOff")
        /\ step' = [kind |-> "last", unit |-> 0, state |-> "Waiting"]
        /\ state' = "Waiting" /\ pc' = "yours"
        /\ UNCHANGED <<lastAct, pausing>>
     \/ /\ AtLast # "AgentDoesIt" /\ Rank(level) < Rank("SignOff")
        /\ state' = "Done" /\ pc' = "over" /\ pausing' = FALSE
        /\ UNCHANGED <<step, lastAct>>
  /\ UNCHANGED <<job, level, done, proposals, goal, at, failed, moved, stale, choices, checked,
                 controls, cancel, tips, webview, outcome, bounds>>

IsDone ==
  /\ TakeControls
  /\ step' = [step EXCEPT !.state = "Done"]
  /\ state' = "Done" /\ pc' = "over" /\ pausing' = FALSE
  /\ UNCHANGED <<job, level, done, goal, at, failed, stale, checked, cancel, tips, webview,
                 outcome, bounds>>

AgentActed ==
  /\ pc = "acting" /\ Hears({"acted"})
  /\ lastAct' = FALSE
  /\ IsDone

ActFailed ==
  /\ pc = "acting" /\ Hears({"failed"})
  /\ TakeControls
  /\ lastAct' = FALSE
  /\ Halt("Failed")
  /\ UNCHANGED <<job, level, goal, at, failed, stale, checked, cancel, tips, webview, outcome,
                 bounds>>

PersonActed ==
  /\ pc = "yours" /\ Hears({"acted", "continue"})
  /\ IsDone
  /\ UNCHANGED lastAct

Engine ==
  \/ Run \/ Stopped \/ WhyFails \/ OverLimit \/ WaitMoved \/ Pause \/ Checkpoint
  \/ KeepPlan \/ Ask \/ RunChecks \/ Gate \/ HoldEnds \/ Redo \/ PauseEnds \/ CarryOn
  \/ IgnoreControls \/ LastAct \/ AgentActed \/ ActFailed \/ PersonActed

\* The agent and the checks, which are processes of their own.
Driver == StepFails \/ Answer \/ ChecksEnd \/ ChecksCutShort

-----------------------------------------------------------------------------
(* The person.                                                             *)
Live == ~IsOver(state)
Control(k, i) == [kind |-> k, of |-> i]
Queue(c) == controls' = Append(controls, c)

AtGateStep == state = "Waiting" /\ step.state = "Waiting" /\ step.kind # "last"

Offered(k) ==
  CASE k = "pause"    -> state # "Paused" /\ ~pausing
    [] k = "resume"   -> state = "Paused"
    [] k = "continue" -> AtGateStep
    [] k = "redo"     -> AtGateStep
    [] k = "carryOn"  -> state = "Waiting" /\ step.state # "Waiting"
    [] k = "askWhy"   -> level # "Unattended" /\ proposals # <<>>
    [] k = "acted"    -> state = "Waiting" /\ step.kind = "last" /\ step.state = "Waiting"
    [] OTHER -> FALSE

\* A control that is only queued, and Pause, which the record shows at once.
Press ==
  \E k \in Controls \cup {"acted"} :
    /\ Offered(k)
    /\ Queue(Control(k, None))
    /\ pausing' = (pausing \/ k = "pause")
    /\ UNCHANGED <<job, state, level, lastAct, step, done, proposals, engine, cancel, tips,
                   webview, outcome, crashes>>

\* Stop, or Take over: the step that runs is cancelled too.
PressStop ==
  /\ "stop" \in Controls /\ ~cancel
  /\ cancel' = TRUE
  /\ UNCHANGED <<record, engine, controls, tips, webview, outcome, crashes>>

\* A level is a fact about the record, at once; the highest allowed caps it.
PressLevel ==
  /\ "level" \in Controls
  /\ \E l \in Level \ {level} : Rank(l) <= Rank(Highest) /\ level' = l
  /\ UNCHANGED <<job, state, pausing, lastAct, step, done, proposals, engine, controls, cancel,
                 tips, webview, outcome, crashes>>

\* The person decides what is proposed for u; for a conflict, the resolver
\* shows it at once.
Decide ==
  \E k \in Controls \cap {"accept", "dismiss"}, u \in Units :
    LET i == Latest(proposals, u) IN
    /\ i # None
    /\ k = "accept" => proposals[i].state = "Proposed"
    /\ k = "dismiss" => job = "review"
    /\ Queue(Control(k, i))
    /\ resolver' = IF k = "accept" THEN [resolver EXCEPT ![u] = [of |-> i, by |-> "person"]]
                   ELSE resolver
    /\ UNCHANGED <<record, engine, cancel, tips, acted, acting, outcome, crashes>>

\* The person chooses something of their own in the resolver.  The engine
\* hears of it where it has a proposal for that conflict.
Choose ==
  /\ "own" \in Controls /\ job = "merge"
  /\ \E u \in Units :
       /\ resolver[u].of # Own
       /\ resolver' = [resolver EXCEPT ![u] = [of |-> Own, by |-> "person"]]
       /\ LET i == Latest(proposals, u) IN
          IF i # None THEN Queue(Control("own", i)) ELSE UNCHANGED controls
  /\ UNCHANGED <<record, engine, cancel, tips, acted, acting, outcome, crashes>>

\* A branch of the merge moves, or the webview sees the head of the pull
\* request move and says so.
Moves ==
  /\ "moved" \in Controls /\ ~tips
  /\ tips' = TRUE
  /\ IF job = "review" THEN Queue(Control("moved", None)) ELSE UNCHANGED controls
  /\ UNCHANGED <<record, engine, cancel, webview, outcome, crashes>>

\* A stopped run is carried on from its last finished step.  One whose work
\* has moved starts over as another assignment, which is not followed here.
Resume ==
  /\ pc = "over" /\ state \in {"Stopped", "Failed"} /\ ~tips
  /\ state' = "Starting" /\ lastAct' = FALSE /\ pausing' = FALSE
  /\ step' = IF step.state \in {"Running", "Waiting"} THEN [step EXCEPT !.state = "Superseded"]
             ELSE step
  /\ acted' = FALSE
  /\ pc' = "start" /\ goal' = Goal("read", 0) /\ at' = 0 /\ failed' = FALSE
  /\ moved' = FALSE /\ stale' = FALSE
  /\ choices' = [u \in Units |-> FALSE] /\ checked' = [u \in Units |-> None]
  /\ controls' = <<>> /\ cancel' = FALSE
  /\ UNCHANGED <<job, level, done, proposals, tips, acting, resolver, outcome, crashes>>

Person ==
  /\ presses < MaxPresses /\ presses' = presses + 1
  /\ \/ Live /\ (Press \/ PressStop \/ PressLevel \/ Decide \/ Choose \/ Moves)
     \/ Resume

\* The program is closed or killed; the next time it is opened a run that was
\* not over reads as stopped.  The resolver's choices are kept on disk.
Crash ==
  /\ crashes < MaxCrashes /\ crashes' = crashes + 1
  /\ pc # "over"
  /\ state' = "Stopped" /\ lastAct' = FALSE /\ pc' = "over"
  /\ controls' = <<>> /\ acted' = FALSE /\ acting' = 0
  /\ UNCHANGED <<job, level, pausing, step, done, proposals, goal, at, failed, moved, stale,
                 choices, checked, cancel, tips, resolver, outcome, presses>>

-----------------------------------------------------------------------------
(* The webview.                                                            *)

\* The resolver with what the agent applied, where the person has not chosen.
WithApplied ==
  [u \in Units |->
    LET i == Latest(proposals, u) IN
    IF i # None /\ proposals[i].state = "Applied" /\ resolver[u].of \notin {Own, i}
      THEN [of |-> i, by |-> "agent"] ELSE resolver[u]]

\* The last act is asked for, and taken once.
TakeLastAct ==
  /\ lastAct /\ ~acted
  /\ acted' = TRUE
  /\ resolver' = IF job = "merge" THEN WithApplied ELSE resolver
  /\ \/ /\ job = "merge" => \A u \in Units : resolver'[u].of # None
        /\ acting' = acting + 1
        /\ UNCHANGED controls
     \/ /\ Queue(Control("failed", None))
        /\ UNCHANGED acting
  /\ UNCHANGED <<record, engine, cancel, tips, outcome, bounds>>

\* Seeded fault: the branches are not looked at again when the merge lands.
LandsAnyway == TRUE

\* Merger does not land where a branch has moved since the plan.
Lands == job = "merge" => ~tips

\* The review is sent, or the merge lands.
DoLastAct ==
  /\ acting > 0 /\ acting' = acting - 1
  /\ Lands
  /\ sent' = sent + 1
  /\ IF job = "merge"
       THEN /\ landed' = <<resolver>> /\ tips' = TRUE
            /\ resolver' = [u \in Units |-> Empty]
       ELSE UNCHANGED <<landed, tips, resolver>>
  /\ Queue(Control("acted", None))
  /\ UNCHANGED <<record, engine, cancel, acted, answered, passed, bounds>>

LastActFails ==
  /\ acting > 0 /\ acting' = acting - 1
  /\ Queue(Control("failed", None))
  /\ UNCHANGED <<record, engine, cancel, tips, acted, resolver, outcome, bounds>>

Webview == TakeLastAct \/ DoLastAct \/ LastActFails

Next == Engine \/ Driver \/ Person \/ Crash \/ Webview

Spec == Init /\ [][Next]_vars

\* The engine's thread and the webview run; a step or a check that is
\* cancelled ends.  Nothing says that an agent ever answers.
FairSpec ==
  /\ Spec
  /\ WF_vars(Engine) /\ WF_vars(cancel /\ Driver) /\ WF_vars(Webview)

-----------------------------------------------------------------------------
(* Properties.                                                             *)
StateNames == {"Starting", "Working", "Waiting", "Paused", "Done", "Stopped", "Failed"}
Pcs == {"start", "check", "begin", "ask", "gate", "hold", "paused", "moved", "checking", "last",
        "acting", "yours", "over"}
Kinds == {"read", "plan", "unit", "verdict", "checks", "last"}
StepStates == {"Running", "Waiting", "Done", "Superseded", "Failed"}
GoalType == [kind : Kinds, unit : {0} \cup Units]
StepType == [kind : Kinds, unit : {0} \cup Units, state : StepStates]
ProposalStates == {"Proposed", "Accepted", "Dismissed", "Superseded", "Applied"}
Deciders == {"nobody", "person", "agent"}
ProposalType ==
  [kind : {"plan", "unit", "verdict"}, unit : {0} \cup Units, sure : BOOLEAN,
   state : ProposalStates, by : Deciders]
ControlType == [kind : AllControls \cup {"acted", "failed"}, of : 0..Len(proposals)]
Choice == {Own} \cup Nat
ResolverChoice == [of : Choice, by : Deciders]
Result == [Units -> Choice]

TypeOK ==
  /\ job \in {"review", "merge"} /\ state \in StateNames /\ level \in Level
  /\ pausing \in BOOLEAN /\ lastAct \in BOOLEAN
  /\ step \in StepType /\ done \subseteq Units /\ proposals \in Seq(ProposalType)
  /\ pc \in Pcs /\ goal \in GoalType /\ at \in 0..Len(proposals)
  /\ failed \in BOOLEAN /\ moved \in BOOLEAN /\ stale \in BOOLEAN
  /\ choices \in [Units -> BOOLEAN] /\ checked \in Result
  /\ controls \in Seq(ControlType)
  /\ cancel \in BOOLEAN /\ tips \in BOOLEAN
  /\ acted \in BOOLEAN /\ acting \in Nat /\ resolver \in [Units -> ResolverChoice]
  /\ sent \in Nat /\ landed \in Seq([Units -> ResolverChoice]) /\ answered \subseteq Units
  /\ passed \subseteq Result
  /\ presses \in Nat /\ crashes \in Nat

\* What the agent lands passed the checks as it lands, sure and applied,
\* wherever the person has not chosen.
LandedIsEarned ==
  \A n \in DOMAIN landed :
    /\ Configured /\ MayLand
    /\ \E result \in passed : \A u \in Units :
         \/ landed[n][u].by = "person" \/ result[u] = Own
         \/ /\ landed[n][u].of = result[u] /\ result[u] \in DOMAIN proposals
            /\ proposals[result[u]].sure

\* A merge is landed by the agent at most once, whatever is stopped, resumed
\* or closed while it lands.
LandsOnce == job = "merge" => sent <= 1

\* A unit counts as finished, and is skipped by a resumed run, only when the
\* agent has answered for it.
FinishedWasAnswered == done \subseteq answered

\* What waits for the person is never applied by the agent: not by raising
\* the level, nor by a later step.
WaitingIsThePersons ==
  [][\A i \in DOMAIN proposals :
       proposals[i].state = "Proposed" /\ ~(i = at /\ step.state = "Running")
         => proposals'[i].state # "Applied"]_vars

\* What the person decided stays decided, until they decide again.
PersonsWordStands ==
  [][\A i \in DOMAIN proposals :
       proposals[i].by = "person" =>
         \/ proposals'[i] = proposals[i]
         \/ \E k \in DOMAIN controls : IsDecision(controls[k]) /\ controls[k].of = i]_vars

\* Stop is heard wherever the run is, and whatever the agent does.
StopEnds == cancel ~> pc = "over"

\* docs/proposals/agents-in-review-and-merge.md:276: the checks run again if
\* a resolution changes afterwards; 162: they are current to the result that
\* is landed.
ChecksAreCurrent ==
  \A n \in DOMAIN landed : [u \in Units |-> landed[n][u].of] \in passed

\* lib/review/agent.svelte.ts:84: the last act is never taken twice.
NeverTakenTwice == sent <= 1

=============================================================================

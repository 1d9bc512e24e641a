--------------------------- MODULE AssignmentProofs ---------------------------
(***************************************************************************)
(* What an agent's assignment never does, proved for any number of files   *)
(* or conflicts, presses and crashes, whatever the checks, the levels and  *)
(* the ways in which a step may fail.                                      *)
(***************************************************************************)
EXTENDS Assignment, TLAPS, WellFoundedInduction, SequenceTheorems

-----------------------------------------------------------------------------
(* Numbers and sequences. *)

(* What is not empty has a smallest number.                                *)
LEMMA Smallest ==
  ASSUME NEW T \in SUBSET Nat, T # {}
  PROVE  \E x \in T : \A y \in T : x <= y
<1> DEFINE R == OpToRel(<, Nat)
<1>1. IsWellFoundedOn(R, Nat)
  BY NatLessThanWellFounded
<1>2. \A x, y \in Nat : (<<y, x>> \in R) <=> y < x
  BY DEF OpToRel
<1>3. \E x \in T : \A y \in T : ~(<<y, x>> \in R)
  <2> HIDE DEF R
  <2>1. T \subseteq Nat
    OBVIOUS
  <2> QED BY <1>1, <2>1, WFMin, Zenon
<1> HIDE DEF R
<1>4. PICK x \in T : \A y \in T : ~(<<y, x>> \in R)
  BY <1>3
<1>5. ASSUME NEW y \in T PROVE x <= y
  <2>1. x \in Nat /\ y \in Nat /\ ~(<<y, x>> \in R)
    BY <1>4
  <2>2. ~(y < x)
    BY <1>2, <2>1
  <2> QED BY <2>1, <2>2
<1> QED BY <1>5

(* And a largest one, if it has a bound.                                   *)
LEMMA Largest ==
  ASSUME NEW n \in Nat, NEW T \in SUBSET (1..n), T # {}
  PROVE  \E x \in T : \A y \in T : y <= x
<1> DEFINE U == {n - x : x \in T}
<1>1. U \in SUBSET Nat /\ U # {}
  <2>1. \A x \in T : x \in 1..n /\ n - x \in Nat
    OBVIOUS
  <2> QED BY <2>1
<1>2. PICK u \in U : \A v \in U : u <= v
  <2> HIDE DEF U
  <2> QED BY <1>1, Smallest
<1>3. PICK x \in T : u = n - x
  OBVIOUS
<1>4. ASSUME NEW y \in T PROVE y <= x
  <2> n - x \in Nat /\ x \in 1..n /\ y \in 1..n
    OBVIOUS
  <2>1. n - y \in U
    OBVIOUS
  <2>2. u <= n - y
    BY <1>2, <2>1
  <2> QED BY <1>3, <2>2
<1> QED BY <1>4

LEMMA SeqOf ==
  ASSUME NEW S, NEW n \in Nat, NEW f \in [1..n -> S]
  PROVE  f \in Seq(S) /\ Len(f) = n /\ DOMAIN f = 1..n
<1>1. f \in Seq(S)
  BY SeqDef
<1>2. DOMAIN f = 1..Len(f) /\ Len(f) \in Nat
  BY <1>1, LenProperties
<1> QED BY <1>1, <1>2

-----------------------------------------------------------------------------
(* Types. *)

LEMMA Numbers == UnitCount \in Nat /\ Units \subseteq Nat /\ 0 \notin Units
BY AssignmentAssumption DEF Units

LEMMA ProposalsTyped ==
  ASSUME TypeOK
  PROVE  /\ Len(proposals) \in Nat /\ DOMAIN proposals = 1..Len(proposals)
         /\ \A i \in DOMAIN proposals : proposals[i] \in ProposalType
BY LenProperties, ElementOfSeq DEF TypeOK

(* The newest proposal is one.                                             *)
LEMMA LatestIs ==
  ASSUME TypeOK, NEW u \in Units
  PROVE  LET live == {i \in DOMAIN proposals :
                        /\ proposals[i].kind = "unit" /\ proposals[i].unit = u
                        /\ proposals[i].state \notin {"Superseded", "Dismissed"}}
             l == Latest(proposals, u)
         IN  /\ live = {} => l = None
             /\ live # {} => l \in live /\ \A j \in live : j <= l
             /\ l \in 0..Len(proposals)
<1> DEFINE live == {i \in DOMAIN proposals :
                      /\ proposals[i].kind = "unit" /\ proposals[i].unit = u
                      /\ proposals[i].state \notin {"Superseded", "Dismissed"}}
<1>1. Len(proposals) \in Nat /\ live \in SUBSET (1..Len(proposals))
  BY ProposalsTyped
<1>2. Latest(proposals, u) =
        IF live = {} THEN None ELSE CHOOSE i \in live : \A j \in live : j <= i
  BY DEF Latest
<1> HIDE DEF live
<1>3. live # {} => \E i \in live : \A j \in live : j <= i
  BY <1>1, Largest
<1>4. live # {} => /\ Latest(proposals, u) \in live
                   /\ \A j \in live : j <= Latest(proposals, u)
  BY <1>2, <1>3
<1>5. live = {} => Latest(proposals, u) = 0
  BY <1>2 DEF None
<1>6. Latest(proposals, u) \in 0..Len(proposals)
  <2>1. CASE live = {}
    BY <1>1, <1>5, <2>1
  <2>2. CASE live # {}
    <3>1. Latest(proposals, u) \in 1..Len(proposals)
      BY <1>1, <1>4, <2>2
    <3> QED BY <1>1, <3>1
  <2> QED BY <2>1, <2>2
<1> QED BY <1>4, <1>5, <1>6 DEF live, None

(* What was decided, and what is withdrawn, is a list of the same length.  *)
LEMMA DecidedTyped ==
  ASSUME TypeOK
  PROVE  /\ Decided \in Seq(ProposalType) /\ Len(Decided) = Len(proposals)
         /\ DOMAIN Decided = 1..Len(proposals)
<1>1. ASSUME NEW i \in 1..Len(proposals) PROVE Decided[i] \in ProposalType
  <2>1. proposals[i] \in ProposalType /\ i \in DOMAIN proposals
    BY <1>1, ProposalsTyped
  <2>2. \A st \in ProposalStates :
          [proposals[i] EXCEPT !.state = st, !.by = "person"] \in ProposalType
    BY <2>1 DEF ProposalType, Deciders
  <2>3. DecidedAs(controls[DecisionOf(i)]) \in ProposalStates
    BY DEF DecidedAs, ProposalStates
  <2> QED BY <2>1, <2>2, <2>3 DEF Decided
<1>2. Decided \in [1..Len(proposals) -> ProposalType]
  BY <1>1, ProposalsTyped DEF Decided
<1> QED BY <1>2, SeqOf, ProposalsTyped

LEMMA WithdrawTyped ==
  ASSUME TypeOK
  PROVE  Withdraw(Decided) \in Seq(ProposalType) /\ Len(Withdraw(Decided)) = Len(proposals)
<1>1. \A i \in 1..Len(proposals) : Decided[i] \in ProposalType
  BY DecidedTyped, ElementOfSeq
<1>2. ASSUME NEW i \in 1..Len(proposals) PROVE Withdraw(Decided)[i] \in ProposalType
  BY <1>1, <1>2, DecidedTyped DEF Withdraw, ProposalType, ProposalStates
<1>3. Withdraw(Decided) \in [1..Len(proposals) -> ProposalType]
  BY <1>2, DecidedTyped DEF Withdraw
<1> QED BY <1>3, SeqOf, ProposalsTyped

LEMMA ApplyTyped ==
  ASSUME TypeOK
  PROVE  ApplySure \in Seq(ProposalType) /\ Len(ApplySure) = Len(proposals)
<1>1. CASE at # 0
  <2>1. at \in 1..Len(proposals) /\ proposals[at] \in ProposalType
    BY <1>1, ProposalsTyped DEF TypeOK
  <2>2. [proposals[at] EXCEPT !.state = "Applied", !.by = "agent"] \in ProposalType
    BY <2>1 DEF ProposalType, ProposalStates, Deciders
  <2>3. proposals \in Seq(ProposalType)
    BY DEF TypeOK
  <2>4. ApplySure \in {proposals, [proposals EXCEPT ![at].state = "Applied", ![at].by = "agent"]}
    BY DEF ApplySure
  <2>5. CASE ApplySure = proposals
    BY <2>3, <2>5
  <2>6. CASE ApplySure = [proposals EXCEPT ![at].state = "Applied", ![at].by = "agent"]
    <3>1. at \in DOMAIN proposals
      BY <2>1, ProposalsTyped
    <3>2. ApplySure
            = [proposals EXCEPT ![at] = [proposals[at] EXCEPT !.state = "Applied", !.by = "agent"]]
      BY <2>6, <3>1
    <3> QED BY <2>1, <2>2, <2>3, <3>2, ExceptSeq
  <2> QED BY <2>4, <2>5, <2>6
<1>2. CASE at = 0
  BY <1>2 DEF ApplySure, TypeOK
<1> QED BY <1>1, <1>2

LEMMA ChosenTyped == Chosen \in [Units -> BOOLEAN]
BY DEF Chosen

(* A control is one for a list that has grown, too.                        *)
LEMMA ControlsGrow ==
  ASSUME TypeOK, NEW n \in Nat, Len(proposals) <= n, NEW ps, Len(ps) = n
  PROVE  controls \in Seq([kind : AllControls \cup {"acted", "failed"}, of : 0..n])
<1>1. ControlType \subseteq [kind : AllControls \cup {"acted", "failed"}, of : 0..n]
  BY ProposalsTyped DEF ControlType
<1> QED BY <1>1, SeqMonotonic DEF TypeOK

LEMMA QueueTyped ==
  ASSUME TypeOK, NEW c \in ControlType, Queue(c), proposals' = proposals
  PROVE  controls' \in Seq(ControlType')
BY DEF Queue, TypeOK, ControlType

LEMMA AfterUnitsIs ==
  ASSUME NEW d
  PROVE  /\ AfterUnits(d) \in GoalType
         /\ AfterUnits(d).kind \in {"unit", "verdict", "checks"}
         /\ AfterUnits(d).kind = "unit" => AfterUnits(d).unit \in Units
<1>1. CASE Units \subseteq d
  BY <1>1 DEF AfterUnits, Goal, GoalType, Kinds
<1>2. CASE ~(Units \subseteq d)
  <2>1. \E u \in Units \ d : \A v \in Units \ d : u <= v
    BY <1>2, Numbers, Smallest
  <2>2. (CHOOSE u \in Units \ d : \A v \in Units \ d : u <= v) \in Units
    BY <2>1
  <2> QED BY <1>2, <2>2 DEF AfterUnits, Goal, GoalType, Kinds
<1> QED BY <1>1, <1>2

(* A step, and what the engine works at, is of a unit that there is.       *)
Aimed == /\ goal.kind = "unit" => goal.unit \in Units
         /\ step.kind = "unit" => step.unit \in Units
         /\ pc = "ask" => goal.kind \in {"plan", "unit", "verdict"}

(* What a run that ends short, or a step that is finished, leaves.         *)
LEMMA HaltTyped ==
  ASSUME TypeOK, Aimed, NEW s \in StateNames, Halt(s)
  PROVE  /\ state' \in StateNames /\ pc' \in Pcs /\ pausing' \in BOOLEAN
         /\ step' \in StepType /\ done' \subseteq Units
         /\ step'.kind = step.kind /\ step'.unit = step.unit /\ pc' = "over"
<1>1. CutShort(s) \in StepStates
  BY DEF CutShort, TypeOK, StepType, StepStates
<1>2. step' \in StepType /\ step'.kind = step.kind /\ step'.unit = step.unit
  BY <1>1 DEF Halt, TypeOK, StepType
<1>3. done' \subseteq Units
  BY DEF Halt, TypeOK, Aimed
<1> QED BY <1>2, <1>3 DEF Halt, Pcs

LEMMA FinishTyped ==
  ASSUME TypeOK, Aimed, Finish, GoOn
  PROVE  /\ step' \in StepType /\ done' \subseteq Units /\ goal' \in GoalType /\ pc' \in Pcs
         /\ Aimed'
<1>1. step' \in StepType /\ step'.kind = step.kind /\ step'.unit = step.unit
  BY DEF Finish, TypeOK, StepType, StepStates
<1>2. done' \subseteq Units
  BY DEF Finish, TypeOK, Aimed
<1>3. Goal("last", 0) \in GoalType
  BY DEF Goal, GoalType, Kinds
<1>4. goal' \in GoalType /\ (goal'.kind = "unit" => goal'.unit \in Units)
  BY <1>3, AfterUnitsIs DEF GoOn, Goal
<1>5. pc' \in Pcs /\ pc' # "ask"
  BY DEF GoOn, Pcs
<1> QED BY <1>1, <1>2, <1>4, <1>5 DEF Aimed

LEMMA BeginTyped ==
  ASSUME NEW k \in Kinds, NEW u \in {0} \cup Units, k = "unit" => u \in Units, Begin(k, u)
  PROVE  /\ step' \in StepType /\ state' \in StateNames
         /\ step'.kind = "unit" => step'.unit \in Units
BY DEF Begin, StepType, StepStates, StateNames

(* Controls that were taken leave the decided proposals.                   *)
LEMMA TakenTyped ==
  ASSUME TypeOK, controls' = <<>>, choices' = Chosen, proposals' = Decided
  PROVE  /\ controls' \in Seq(ControlType') /\ choices' \in [Units -> BOOLEAN]
         /\ proposals' \in Seq(ProposalType) /\ at \in 0..Len(proposals')
         /\ Len(proposals') = Len(proposals)
<1>1. controls' \in Seq(ControlType')
  BY EmptySeq
<1> QED BY <1>1, ChosenTyped, DecidedTyped DEF TypeOK

(* What stays where no proposal is made.                                   *)
LEMMA SameProposals ==
  ASSUME TypeOK, proposals' = proposals
  PROVE  ControlType' = ControlType /\ proposals' \in Seq(ProposalType) /\ at \in 0..Len(proposals')
BY DEF TypeOK, ControlType

LEMMA InitTyped == ASSUME Init PROVE TypeOK /\ Aimed
<1>1. level \in Level /\ job \in {"review", "merge"}
  BY AssignmentAssumption DEF Init
<1>2. step \in StepType /\ goal \in GoalType
  BY DEF Init, NoStep, Goal, StepType, GoalType, StepStates, Kinds
<1>3. checked \in Result /\ choices \in [Units -> BOOLEAN] /\ resolver \in [Units -> ResolverChoice]
  BY DEF Init, Result, Choice, None, Empty, ResolverChoice, Deciders
<1>4. /\ proposals \in Seq(ProposalType) /\ controls \in Seq(ControlType) /\ Len(proposals) = 0
      /\ landed \in Seq([Units -> ResolverChoice])
  BY EmptySeq DEF Init
<1>5. state \in StateNames /\ pc \in Pcs /\ at \in 0..Len(proposals)
  BY <1>4 DEF Init, StateNames, Pcs
<1>6. Aimed
  BY DEF Init, NoStep, Goal, Aimed
<1> QED BY <1>1, <1>2, <1>3, <1>4, <1>5, <1>6 DEF Init, TypeOK

(* Every step of the engine keeps the types.                               *)
LEMMA EngineTyped ==
  ASSUME TypeOK, Aimed, Engine
  PROVE  TypeOK' /\ Aimed'
<1>a. /\ {"start", "check", "begin", "ask", "gate", "hold", "paused", "moved", "checking", "last",
          "acting", "yours", "over"} \subseteq Pcs
      /\ {"Starting", "Working", "Waiting", "Paused", "Done", "Stopped", "Failed"} \subseteq StateNames
  BY DEF Pcs, StateNames
<1>b. \A st \in StepStates : [step EXCEPT !.state = st] \in StepType
  BY DEF TypeOK, StepType
<1>c. {"Running", "Waiting", "Done", "Superseded", "Failed"} \subseteq StepStates
  BY DEF StepStates
<1>d. {"read", "plan", "unit", "verdict", "checks", "last"} \subseteq Kinds
  BY DEF Kinds
<1> USE <1>a, <1>c, <1>d
<1>1. CASE Run
  <2>1. step' \in StepType /\ goal' \in GoalType /\ Aimed'
    BY <1>1, AfterUnitsIs DEF Run, NoStep, Goal, StepType, GoalType, Aimed
  <2> QED BY <1>1, <2>1, SameProposals DEF Run, TypeOK, webview, outcome, bounds
<1>2. CASE Stopped
  <2>1. Halt("Stopped") /\ UNCHANGED goal
    BY <1>2 DEF Stopped
  <2> QED BY <1>2, <2>1, HaltTyped, SameProposals
      DEF Stopped, TypeOK, Aimed, webview, outcome, bounds
<1>3. CASE WhyFails \/ OverLimit
  <2>1. (Halt("Failed") \/ Halt("Stopped")) /\ UNCHANGED goal /\ TakeControls
    BY <1>3 DEF WhyFails, OverLimit
  <2>2. moved' \in BOOLEAN
    BY <2>1 DEF TakeControls, HeardMoved, TypeOK
  <2> QED BY <1>3, <2>1, <2>2, HaltTyped, TakenTyped
      DEF WhyFails, OverLimit, TakeControls, TypeOK, Aimed, webview, outcome, bounds
<1>4. CASE WaitMoved
  <2>1. moved' \in BOOLEAN
    BY <1>4 DEF WaitMoved, TakeControls, HeardMoved, TypeOK
  <2> QED BY <1>4, <2>1, TakenTyped
      DEF WaitMoved, TakeControls, TypeOK, Aimed, webview, outcome, bounds
<1>5. CASE Pause
  <2>1. /\ controls' \in Seq(ControlType') /\ choices' \in [Units -> BOOLEAN]
        /\ proposals' \in Seq(ProposalType) /\ at \in 0..Len(proposals')
    BY <1>5, TakenTyped DEF Pause
  <2> QED BY <1>5, <2>1 DEF Pause, TypeOK, Aimed, webview, outcome, bounds
<1>6. CASE Checkpoint
  <2>1. /\ controls' \in Seq(ControlType') /\ choices' \in [Units -> BOOLEAN]
        /\ proposals' \in Seq(ProposalType) /\ at \in 0..Len(proposals')
    BY <1>6, TakenTyped DEF Checkpoint
  <2>2. pc' \in Pcs /\ pc' # "ask"
    BY <1>6 DEF Checkpoint
  <2> QED BY <1>6, <2>1, <2>2 DEF Checkpoint, TypeOK, Aimed, webview, outcome, bounds
<1>7. CASE KeepPlan
  BY <1>7, AfterUnitsIs, SameProposals
  DEF KeepPlan, TypeOK, Aimed, record, webview, outcome, bounds
<1>8. CASE Ask
  <2>1. /\ goal.kind \in Kinds /\ goal.unit \in {0} \cup Units /\ Begin(goal.kind, goal.unit)
        /\ 0 \in 0..Len(proposals)
    BY <1>8, ProposalsTyped DEF Ask, TypeOK, GoalType
  <2>2. /\ step' \in StepType /\ state' \in StateNames
        /\ step'.kind = "unit" => step'.unit \in Units
    BY <1>8, <2>1, BeginTyped DEF Ask, Aimed
  <2> QED BY <1>8, <2>1, <2>2, SameProposals
      DEF Ask, TypeOK, Aimed, webview, outcome, bounds
<1>9. CASE RunChecks
  <2>0. 0 \in 0..Len(proposals)
    BY ProposalsTyped
  <2>1. CASE Configured
    <3>1. Begin("checks", 0) /\ "checks" \in Kinds
      BY <1>9, <2>1 DEF RunChecks
    <3>2. checked' \in Result
      <4>1. \A u \in Units : Standing(u) \in Choice
        BY LatestIs DEF Standing, Choice
      <4> QED BY <1>9, <2>1, <4>1 DEF RunChecks, Result
    <3> QED BY <1>9, <2>0, <2>1, <3>1, <3>2, BeginTyped, SameProposals
        DEF RunChecks, TypeOK, Aimed, webview, outcome, bounds
  <2>2. CASE ~Configured
    <3>1. step' \in StepType /\ goal' \in GoalType /\ Aimed'
      BY <1>9, <2>2 DEF RunChecks, StepType, GoalType, Goal, Aimed
    <3> QED BY <1>9, <2>0, <2>2, <3>1, SameProposals
        DEF RunChecks, TypeOK, webview, outcome, bounds
  <2> QED BY <2>1, <2>2
<1>10. CASE Gate
  <2>1. CASE /\ state' = "Waiting" /\ step' = [step EXCEPT !.state = "Waiting"]
             /\ pc' = "hold" /\ UNCHANGED <<done, proposals, goal>>
    <3>1. step' \in StepType /\ step'.kind = step.kind /\ step'.unit = step.unit
      BY <2>1 DEF TypeOK, StepType
    <3> QED BY <1>10, <2>1, <3>1, SameProposals
        DEF Gate, TypeOK, Aimed, webview, outcome, bounds
  <2>2. CASE Finish /\ GoOn /\ proposals' \in {proposals, ApplySure} /\ UNCHANGED state
    <3>1. proposals' \in Seq(ProposalType) /\ Len(proposals') = Len(proposals)
      BY <2>2, ApplyTyped DEF TypeOK
    <3>2. ControlType' = ControlType
      BY <3>1 DEF ControlType
    <3> QED BY <1>10, <2>2, <3>1, <3>2, FinishTyped DEF Gate, TypeOK, webview, outcome, bounds
  <2> QED BY <1>10, <2>1, <2>2 DEF Gate
<1>11. CASE HoldEnds
  <2>1. moved' \in BOOLEAN
    BY <1>11 DEF HoldEnds, TakeControls, HeardMoved, TypeOK
  <2> QED BY <1>11, <2>1, TakenTyped, FinishTyped
      DEF HoldEnds, TakeControls, TypeOK, webview, outcome, bounds
<1>12. CASE Redo
  <2>1. moved' \in BOOLEAN /\ controls' \in Seq(ControlType') /\ choices' \in [Units -> BOOLEAN]
    BY <1>12, EmptySeq, ChosenTyped DEF Redo, HeardMoved, TypeOK
  <2>2. /\ proposals' \in Seq(ProposalType) /\ at \in 0..Len(proposals')
    BY <1>12, WithdrawTyped DEF Redo, TypeOK
  <2>3. step' \in StepType /\ step'.kind = step.kind /\ step'.unit = step.unit
    BY <1>12 DEF Redo, TypeOK, StepType
  <2> QED BY <1>12, <2>1, <2>2, <2>3 DEF Redo, TypeOK, Aimed, webview, outcome, bounds
<1>13. CASE PauseEnds
  <2>1. moved' \in BOOLEAN
    BY <1>13 DEF PauseEnds, TakeControls, HeardMoved, TypeOK
  <2> QED BY <1>13, <2>1, TakenTyped
      DEF PauseEnds, TakeControls, TypeOK, Aimed, webview, outcome, bounds
<1>14. CASE CarryOn
  <2>1. /\ controls' \in Seq(ControlType') /\ choices' \in [Units -> BOOLEAN]
        /\ proposals' \in Seq(ProposalType) /\ at \in 0..Len(proposals')
    BY <1>14, TakenTyped DEF CarryOn
  <2>2. pc' \in Pcs /\ pc' # "ask"
    BY <1>14 DEF CarryOn
  <2> QED BY <1>14, <2>1, <2>2 DEF CarryOn, TypeOK, Aimed, webview, outcome, bounds
<1>15. CASE IgnoreControls
  <2>1. PICK kinds : Unheard(kinds)
    BY <1>15 DEF IgnoreControls
  <2>2. moved' \in BOOLEAN
    BY <2>1 DEF Unheard, TakeControls, HeardMoved, TypeOK
  <2> QED BY <2>1, <2>2, TakenTyped
      DEF Unheard, TakeControls, TypeOK, Aimed, webview, outcome, bounds
<1>16. CASE LastAct
  <2>0. UNCHANGED <<job, level, done, proposals, goal, at, failed, moved, stale, choices, checked,
                    controls, cancel, tips, webview, outcome, bounds>>
    BY <1>16 DEF LastAct
  <2>1. CASE Begin("last", 0) /\ lastAct' = TRUE /\ pc' = "acting" /\ UNCHANGED pausing
    <3>1. /\ step' \in StepType /\ state' \in StateNames
          /\ step'.kind = "unit" => step'.unit \in Units
      BY <2>1, BeginTyped
    <3> QED BY <2>0, <2>1, <3>1, SameProposals DEF TypeOK, Aimed, webview, outcome, bounds
  <2>2. CASE /\ step' = [kind |-> "last", unit |-> 0, state |-> "Waiting"]
             /\ state' = "Waiting" /\ pc' = "yours" /\ UNCHANGED <<lastAct, pausing>>
    <3>1. step' \in StepType
      BY <2>2 DEF StepType
    <3> QED BY <2>0, <2>2, <3>1, SameProposals DEF TypeOK, Aimed, webview, outcome, bounds
  <2>3. CASE state' = "Done" /\ pc' = "over" /\ pausing' = FALSE /\ UNCHANGED <<step, lastAct>>
    <3>1. Aimed'
      BY <2>0, <2>3 DEF Aimed
    <3>2. TypeOK'
      BY <2>0, <2>3, SameProposals DEF TypeOK, webview, outcome, bounds
    <3> QED BY <3>1, <3>2
  <2> QED BY <1>16, <2>1, <2>2, <2>3 DEF LastAct
<1>17. CASE AgentActed \/ PersonActed
  <2>1. IsDone /\ lastAct' \in {FALSE, lastAct}
    BY <1>17 DEF AgentActed, PersonActed
  <2>2. step' \in StepType /\ step'.kind = step.kind /\ step'.unit = step.unit
    BY <2>1 DEF IsDone, TypeOK, StepType
  <2>3. moved' \in BOOLEAN /\ lastAct' \in BOOLEAN
    BY <2>1 DEF IsDone, TakeControls, HeardMoved, TypeOK
  <2>4. /\ controls' \in Seq(ControlType') /\ choices' \in [Units -> BOOLEAN]
        /\ proposals' \in Seq(ProposalType) /\ at \in 0..Len(proposals')
    BY <2>1, TakenTyped DEF IsDone, TakeControls
  <2>5. Aimed'
    BY <2>1, <2>2 DEF IsDone, Aimed
  <2>6. TypeOK'
    BY <2>1, <2>2, <2>3, <2>4 DEF IsDone, TypeOK, webview, outcome, bounds
  <2> QED BY <2>5, <2>6
<1>18. CASE ActFailed
  <2>1. moved' \in BOOLEAN
    BY <1>18 DEF ActFailed, TakeControls, HeardMoved, TypeOK
  <2>2. Halt("Failed") /\ "Failed" \in StateNames
    BY <1>18 DEF ActFailed, StateNames
  <2>3. /\ state' \in StateNames /\ pc' \in Pcs /\ pausing' \in BOOLEAN
        /\ step' \in StepType /\ done' \subseteq Units
        /\ step'.kind = step.kind /\ step'.unit = step.unit /\ pc' = "over"
    BY <2>2, HaltTyped
  <2>4. /\ controls' \in Seq(ControlType') /\ choices' \in [Units -> BOOLEAN]
        /\ proposals' \in Seq(ProposalType) /\ at \in 0..Len(proposals')
    BY <1>18, TakenTyped DEF ActFailed, TakeControls
  <2>5. /\ lastAct' = FALSE
        /\ UNCHANGED <<job, level, goal, at, failed, stale, checked, cancel, tips, webview,
                       outcome, bounds>>
    BY <1>18 DEF ActFailed
  <2>6. Aimed'
    BY <2>3, <2>5 DEF Aimed
  <2>7. TypeOK'
    BY <2>1, <2>3, <2>4, <2>5 DEF TypeOK, webview, outcome, bounds
  <2> QED BY <2>6, <2>7
<1> QED BY <1>1, <1>2, <1>3, <1>4, <1>5, <1>6, <1>7, <1>8, <1>9, <1>10, <1>11, <1>12, <1>13,
           <1>14, <1>15, <1>16, <1>17, <1>18 DEF Engine

(* So do the agent and the checks, *)
LEMMA DriverTyped ==
  ASSUME TypeOK, Aimed, Driver
  PROVE  TypeOK' /\ Aimed'
<1>1. CASE StepFails \/ ChecksCutShort
  <2>1. (Halt("Failed") \/ Halt("Stopped")) /\ {"Failed", "Stopped"} \subseteq StateNames
    BY <1>1 DEF StepFails, ChecksCutShort, StateNames
  <2> QED BY <1>1, <2>1, HaltTyped, SameProposals
      DEF StepFails, ChecksCutShort, TypeOK, Aimed, webview, outcome, bounds
<1>2. CASE Answer
  <2>1. CASE UNCHANGED <<proposals, at>>
    BY <1>2, <2>1, SameProposals DEF Answer, TypeOK, Aimed, webview, bounds, Pcs
  <2>2. ASSUME NEW sure \in BOOLEAN, proposals' = Append(proposals, Proposal(sure)),
               at' = Len(proposals) + 1, goal.kind \in {"plan", "unit", "verdict"}
        PROVE  TypeOK' /\ Aimed'
    <3>1. Proposal(sure) \in ProposalType
      <4>1. goal.unit \in {0} \cup Units
        BY DEF TypeOK, GoalType
      <4> QED BY <2>2, <4>1 DEF Proposal, ProposalType, ProposalStates, Deciders
    <3>2. proposals' \in Seq(ProposalType) /\ Len(proposals') = Len(proposals) + 1
      BY <2>2, <3>1 DEF TypeOK
    <3>3. controls' \in Seq(ControlType') /\ at' \in 0..Len(proposals')
      <4>1. Len(proposals) \in Nat
        BY ProposalsTyped
      <4>2. Len(proposals) + 1 \in Nat /\ Len(proposals) <= Len(proposals) + 1
        BY <4>1
      <4>3. controls \in Seq([kind : AllControls \cup {"acted", "failed"},
                              of : 0..(Len(proposals) + 1)])
        BY <3>2, <4>2, ControlsGrow
      <4> QED BY <1>2, <2>2, <3>2, <4>1, <4>3 DEF Answer, ControlType
    <3> QED BY <1>2, <3>2, <3>3 DEF Answer, TypeOK, Aimed, webview, bounds, Pcs
  <2>3. goal.kind \in {"plan", "unit", "verdict"}
    BY <1>2 DEF Answer, Aimed
  <2> QED BY <1>2, <2>1, <2>2, <2>3 DEF Answer
<1>3. CASE ChecksEnd
  BY <1>3, SameProposals DEF ChecksEnd, TypeOK, Aimed, record, webview, bounds, Pcs
<1> QED BY <1>1, <1>2, <1>3 DEF Driver

(* the person and a crash, *)
LEMMA PersonTyped ==
  ASSUME TypeOK, Aimed, Person \/ Crash
  PROVE  TypeOK' /\ Aimed'
<1>0. \A k \in Controls \cup {"acted", "moved", "accept", "dismiss", "own"}, i \in 0..Len(proposals) :
        Control(k, i) \in ControlType
  BY AssignmentAssumption DEF Control, ControlType, AllControls
<1>p. presses' \in Nat \/ Crash
  BY DEF Person, TypeOK
<1>1. CASE Person /\ Press
  <2>1. PICK k \in Controls \cup {"acted"} : Queue(Control(k, None)) /\ pausing' = (pausing \/ k = "pause")
    BY <1>1 DEF Press
  <2>2. Control(k, None) \in ControlType
    BY <1>0, ProposalsTyped DEF None
  <2>3. pausing' \in BOOLEAN
    BY <2>1 DEF TypeOK
  <2> QED BY <1>1, <2>1, <2>2, <2>3, QueueTyped, SameProposals
      DEF Person, Press, TypeOK, Aimed, engine, webview, outcome
<1>2. CASE Person /\ PressStop
  BY <1>2, SameProposals DEF Person, PressStop, TypeOK, Aimed, record, engine, webview, outcome
<1>3. CASE Person /\ PressLevel
  BY <1>3, SameProposals DEF Person, PressLevel, TypeOK, Aimed, engine, webview, outcome
<1>4. CASE Person /\ Decide
  <2>1. PICK k \in Controls \cap {"accept", "dismiss"}, u \in Units :
          /\ Queue(Control(k, Latest(proposals, u)))
          /\ resolver' = IF k = "accept"
                           THEN [resolver EXCEPT ![u] = [of |-> Latest(proposals, u), by |-> "person"]]
                           ELSE resolver
    BY <1>4 DEF Decide
  <2>2. Latest(proposals, u) \in 0..Len(proposals) /\ Latest(proposals, u) \in Choice
    BY LatestIs, ProposalsTyped DEF Choice
  <2>3. Control(k, Latest(proposals, u)) \in ControlType
    BY <1>0, <2>2
  <2>4. [of |-> Latest(proposals, u), by |-> "person"] \in ResolverChoice
    BY <2>2 DEF ResolverChoice, Deciders
  <2>5. resolver' \in [Units -> ResolverChoice]
    BY <2>1, <2>4 DEF TypeOK
  <2> QED BY <1>4, <2>1, <2>3, <2>5, QueueTyped, SameProposals
      DEF Person, Decide, TypeOK, Aimed, record, engine, outcome
<1>5. CASE Person /\ Choose
  <2>1. PICK u \in Units :
          /\ resolver' = [resolver EXCEPT ![u] = [of |-> Own, by |-> "person"]]
          /\ LET i == Latest(proposals, u) IN
             IF i # None THEN Queue(Control("own", i)) ELSE UNCHANGED controls
    BY <1>5 DEF Choose
  <2>2. Control("own", Latest(proposals, u)) \in ControlType
    BY <1>0, LatestIs
  <2>3. [of |-> Own, by |-> "person"] \in ResolverChoice
    BY DEF ResolverChoice, Deciders, Choice
  <2>4. resolver' \in [Units -> ResolverChoice]
    BY <2>1, <2>3 DEF TypeOK
  <2> QED BY <1>5, <2>1, <2>2, <2>4, QueueTyped, SameProposals
      DEF Person, Choose, TypeOK, Aimed, record, engine, outcome
<1>6. CASE Person /\ Moves
  <2>1. Control("moved", None) \in ControlType
    BY <1>0, ProposalsTyped DEF None
  <2> QED BY <1>6, <2>1, QueueTyped, SameProposals
      DEF Person, Moves, TypeOK, Aimed, record, engine, webview, outcome
<1>7. CASE Person /\ Resume
  <2>1. step' \in StepType /\ step'.kind = step.kind /\ step'.unit = step.unit
    BY <1>7 DEF Resume, TypeOK, StepType, StepStates
  <2>2. goal' \in GoalType /\ goal'.kind = "read"
    BY <1>7 DEF Resume, Goal, GoalType, Kinds
  <2>3. choices' \in [Units -> BOOLEAN] /\ checked' \in Result /\ controls' \in Seq(ControlType')
    BY <1>7, EmptySeq DEF Resume, Result, Choice, None
  <2>4. at' \in 0..Len(proposals') /\ proposals' = proposals
    BY <1>7, ProposalsTyped DEF Resume
  <2>5. /\ state' \in StateNames /\ pc' \in Pcs /\ pc' # "ask" /\ ControlType' = ControlType
        /\ lastAct' \in BOOLEAN /\ pausing' \in BOOLEAN /\ acted' \in BOOLEAN /\ cancel' \in BOOLEAN
        /\ failed' \in BOOLEAN /\ moved' \in BOOLEAN /\ stale' \in BOOLEAN
    BY <1>7, SameProposals DEF Resume, StateNames, Pcs
  <2>6. /\ UNCHANGED <<job, level, done, proposals, tips, acting, resolver, sent, landed, answered,
                       passed, crashes>>
        /\ presses' \in Nat
    BY <1>7 DEF Person, Resume, TypeOK, outcome
  <2>7. Aimed'
    BY <2>1, <2>2, <2>5 DEF Aimed
  <2> HIDE <1>7
  <2> QED BY <2>1, <2>2, <2>3, <2>4, <2>5, <2>6, <2>7 DEF TypeOK
<1>8. CASE Crash
  <2>1. controls' \in Seq(ControlType')
    BY <1>8, EmptySeq DEF Crash
  <2>2. crashes \in Nat
    BY DEF TypeOK
  <2>3. /\ state' \in StateNames /\ pc' \in Pcs /\ pc' # "ask"
        /\ crashes' \in Nat /\ acting' \in Nat
    BY <1>8, <2>2 DEF Crash, StateNames, Pcs
  <2>4. lastAct' \in BOOLEAN /\ acted' \in BOOLEAN
    BY <1>8 DEF Crash
  <2> QED BY <1>8, <2>1, <2>3, <2>4, SameProposals DEF Crash, TypeOK, Aimed, outcome
<1> QED BY <1>1, <1>2, <1>3, <1>4, <1>5, <1>6, <1>7, <1>8 DEF Person

(* and the webview.                                                        *)
LEMMA WebviewTyped ==
  ASSUME TypeOK, Aimed, Webview
  PROVE  TypeOK' /\ Aimed'
<1>0. Control("failed", None) \in ControlType /\ Control("acted", None) \in ControlType
  BY ProposalsTyped DEF Control, ControlType, None
<1>1. CASE TakeLastAct
  <2>1. WithApplied \in [Units -> ResolverChoice]
    <3>1. \A u \in Units : [of |-> Latest(proposals, u), by |-> "agent"] \in ResolverChoice
      BY LatestIs, ProposalsTyped DEF ResolverChoice, Deciders, Choice
    <3> QED BY <3>1 DEF WithApplied, TypeOK
  <2>2. resolver' \in [Units -> ResolverChoice]
    BY <1>1, <2>1 DEF TakeLastAct, TypeOK
  <2> QED BY <1>0, <1>1, <2>2, QueueTyped, SameProposals
      DEF TakeLastAct, TypeOK, Aimed, record, engine, outcome, bounds
<1>2. CASE DoLastAct
  <2>1. Empty \in ResolverChoice
    BY DEF Empty, ResolverChoice, Choice, None, Deciders
  <2>2. resolver' \in [Units -> ResolverChoice] /\ landed' \in Seq([Units -> ResolverChoice])
    <3>1. resolver \in [Units -> ResolverChoice] /\ landed \in Seq([Units -> ResolverChoice])
      BY DEF TypeOK
    <3>2. <<resolver>> \in Seq([Units -> ResolverChoice])
      BY <3>1
    <3>3. [u \in Units |-> Empty] \in [Units -> ResolverChoice]
      BY <2>1
    <3> QED BY <1>2, <3>1, <3>2, <3>3 DEF DoLastAct
  <2>3. sent' \in Nat /\ acting' \in Nat /\ tips' \in BOOLEAN
    <3>1. sent \in Nat /\ acting \in Nat /\ tips \in BOOLEAN
      BY DEF TypeOK
    <3>2. acting > 0 /\ acting' = acting - 1 /\ sent' = sent + 1
      BY <1>2 DEF DoLastAct
    <3>3. tips' = TRUE \/ tips' = tips
      BY <1>2 DEF DoLastAct
    <3>4. tips' \in BOOLEAN
      BY <3>1, <3>3
    <3>5. sent' \in Nat /\ acting' \in Nat
      BY <3>1, <3>2
    <3> QED BY <3>4, <3>5
  <2> QED BY <1>0, <1>2, <2>2, <2>3, QueueTyped, SameProposals
      DEF DoLastAct, TypeOK, Aimed, record, engine, bounds
<1>3. CASE LastActFails
  BY <1>0, <1>3, QueueTyped, SameProposals
  DEF LastActFails, TypeOK, Aimed, record, engine, outcome, bounds
<1> QED BY <1>1, <1>2, <1>3 DEF Webview

LEMMA StepTyped == ASSUME TypeOK, Aimed, [Next]_vars PROVE TypeOK' /\ Aimed'
<1>1. CASE UNCHANGED vars
  BY <1>1, SameProposals DEF vars, TypeOK, Aimed, record, engine, webview, outcome, bounds
<1> QED BY <1>1, EngineTyped, DriverTyped, PersonTyped, WebviewTyped DEF Next

(* An assignment always has its types; a step that is finished is of a unit *)
(* that there is, though the order of the plan is looked for in a set.      *)
THEOREM AssignmentTyped == Spec => []TypeOK
<1> QED BY InitTyped, StepTyped, PTL DEF Spec

-----------------------------------------------------------------------------
(* Steps. *)

(* Where the step is, by where the engine is: what runs and what waits is   *)
(* the step of the goal, and one that was answered for at the gate.        *)
AtStep ==
  /\ pc = "ask" => step.kind = goal.kind /\ step.unit = goal.unit
  /\ pc \in {"ask", "gate", "checking"} => step.state = "Running"
  /\ pc = "checking" => step.kind = "checks"
  /\ pc = "hold" => step.state = "Waiting"
  /\ pc \in {"acting", "yours"} => step.kind = "last"

Answered == step.kind = "unit" /\ (pc = "gate" \/ step.state \in {"Waiting", "Done"})
              => step.unit \in answered

(* A unit is finished when it was answered for, and what waits or is done   *)
(* was, wherever the run is cut short.                                     *)
StepInv == TypeOK /\ Aimed /\ AtStep /\ Answered /\ FinishedWasAnswered

LEMMA StepInvInit == ASSUME Init PROVE StepInv
<1>1. AtStep /\ Answered /\ FinishedWasAnswered
  BY DEF Init, NoStep, Goal, AtStep, Answered, FinishedWasAnswered
<1> QED BY <1>1, InitTyped DEF StepInv

(* A run that ends short keeps what it had finished.                       *)
LEMMA HaltKeeps ==
  ASSUME StepInv, NEW s \in StateNames, Halt(s), answered' = answered
  PROVE  AtStep' /\ Answered' /\ FinishedWasAnswered'
<1>1. step \in StepType /\ step.state \in StepStates
  BY DEF StepInv, TypeOK, StepType
<1>2. /\ step' = [step EXCEPT !.state = CutShort(s)] /\ pc' = "over"
      /\ done' = IF step.kind = "unit" /\ CutShort(s) = "Done" THEN done \cup {step.unit} ELSE done
  BY DEF Halt
<1>3. CutShort(s) \in {"Waiting", "Done"} => step.state \in {"Waiting", "Done"}
  BY <1>1 DEF CutShort, StepStates
<1>4. step'.kind = step.kind /\ step'.unit = step.unit /\ step'.state = CutShort(s)
  BY <1>1, <1>2 DEF StepType
<1>5. AtStep'
  BY <1>2 DEF AtStep
<1>6. Answered'
  BY <1>2, <1>3, <1>4 DEF StepInv, Answered
<1>7. FinishedWasAnswered'
  BY <1>2, <1>3 DEF StepInv, Answered, FinishedWasAnswered
<1> QED BY <1>5, <1>6, <1>7

(* A step that passes its gate was answered for.                           *)
LEMMA FinishKeeps ==
  ASSUME StepInv, pc \in {"gate", "hold"}, Finish, GoOn, answered' = answered
  PROVE  AtStep' /\ Answered' /\ FinishedWasAnswered'
<1>1. step \in StepType
  BY DEF StepInv, TypeOK
<1>2. step'.kind = step.kind /\ step'.unit = step.unit
  BY <1>1 DEF Finish, StepType
<1>3. step.kind = "unit" => step.unit \in answered
  BY DEF StepInv, AtStep, Answered
<1>4. pc' \in {"last", "check"}
  BY DEF GoOn
<1> QED BY <1>2, <1>3, <1>4 DEF AtStep, Answered, FinishedWasAnswered, Finish, StepInv

LEMMA StepInvStep == ASSUME StepInv, [Next]_vars PROVE StepInv'
<1>a. /\ TypeOK /\ Aimed /\ AtStep /\ Answered /\ FinishedWasAnswered
      /\ step \in StepType /\ step.state \in StepStates
  BY DEF StepInv, TypeOK, StepType
<1>b. TypeOK' /\ Aimed'
  BY <1>a, StepTyped
<1>c. {"Failed", "Stopped"} \subseteq StateNames
  BY DEF StateNames
<1> SUFFICES AtStep' /\ Answered' /\ FinishedWasAnswered'
  BY <1>b DEF StepInv
<1>1. CASE Run
  BY <1>a, <1>1 DEF Run, NoStep, AtStep, Answered, FinishedWasAnswered, outcome
<1>2. CASE \/ Stopped \/ WhyFails \/ OverLimit \/ StepFails \/ ChecksCutShort \/ ActFailed
  <2>1. (Halt("Failed") \/ Halt("Stopped")) /\ answered' = answered
    BY <1>2 DEF Stopped, WhyFails, OverLimit, StepFails, ChecksCutShort, ActFailed, outcome
  <2> QED BY <1>c, <2>1, HaltKeeps
<1>3. CASE \/ WaitMoved \/ Pause \/ Checkpoint \/ KeepPlan \/ PauseEnds \/ CarryOn
  <2>1. /\ UNCHANGED <<step, done, answered>>
        /\ pc' \in {"moved", "paused", "last", "begin", "check"}
    BY <1>3 DEF WaitMoved, Pause, Checkpoint, KeepPlan, PauseEnds, CarryOn, record, outcome
  <2>2. pc \notin {"gate"}
    BY <1>3 DEF WaitMoved, Pause, Checkpoint, KeepPlan, PauseEnds, CarryOn
  <2> QED BY <1>a, <2>1 DEF AtStep, Answered, FinishedWasAnswered
<1>4. CASE IgnoreControls \/ Person \/ Webview \/ UNCHANGED vars
  <2>1. CASE Person /\ Resume
    <3>1. step'.kind = step.kind /\ step'.unit = step.unit /\ step'.state \notin {"Running", "Waiting"}
      BY <1>a, <2>1 DEF Resume, StepType, StepStates
    <3>2. step'.state = "Done" => step.state = "Done"
      BY <1>a, <2>1 DEF Resume, StepType
    <3>3. pc' = "start" /\ UNCHANGED <<done, answered>>
      BY <2>1 DEF Resume, outcome
    <3> QED BY <1>a, <3>1, <3>2, <3>3 DEF AtStep, Answered, FinishedWasAnswered
  <2>2. CASE ~(Person /\ Resume)
    <3>1. UNCHANGED <<step, done, pc, goal, answered>>
      BY <1>4, <2>2 DEF IgnoreControls, Unheard, Person, Press, PressStop, PressLevel, Decide, Choose,
              Moves, Webview, TakeLastAct, DoLastAct, LastActFails, vars, record, engine, outcome
    <3> QED BY <1>a, <3>1 DEF AtStep, Answered, FinishedWasAnswered
  <2> QED BY <2>1, <2>2
<1>5. CASE Ask
  <2>1. /\ step' = [kind |-> goal.kind, unit |-> goal.unit, state |-> "Running"] /\ pc' = "ask"
        /\ UNCHANGED <<goal, done, answered>>
    BY <1>5 DEF Ask, Begin, outcome
  <2> QED BY <1>a, <2>1 DEF AtStep, Answered, FinishedWasAnswered
<1>6. CASE Answer
  <2>1. /\ answered' = answered \cup ({goal.unit} \cap Units) /\ pc = "ask" /\ pc' = "gate"
        /\ UNCHANGED <<step, done>>
    BY <1>6 DEF Answer
  <2> QED BY <1>a, <2>1 DEF AtStep, Answered, FinishedWasAnswered, Aimed
<1>7. CASE RunChecks
  <2>1. /\ step'.kind = "checks" /\ UNCHANGED <<done, answered>>
        /\ \/ pc' = "checking" /\ step'.state = "Running"
           \/ pc' = "check"
    BY <1>7 DEF RunChecks, Begin, outcome
  <2> QED BY <1>a, <2>1 DEF AtStep, Answered, FinishedWasAnswered
<1>8. CASE ChecksEnd
  BY <1>a, <1>8 DEF ChecksEnd, record, AtStep, Answered, FinishedWasAnswered
<1>9. CASE Gate
  <2>1. CASE /\ step' = [step EXCEPT !.state = "Waiting"]
             /\ pc' = "hold" /\ UNCHANGED <<done, proposals, goal>>
    <3>1. step'.kind = step.kind /\ step'.unit = step.unit /\ step'.state = "Waiting"
      BY <1>a, <2>1 DEF StepType
    <3>2. pc = "gate" /\ answered' = answered
      BY <1>9 DEF Gate, outcome
    <3> QED BY <1>a, <2>1, <3>1, <3>2 DEF AtStep, Answered, FinishedWasAnswered
  <2>2. CASE Finish /\ GoOn
    <3>1. pc = "gate" /\ answered' = answered
      BY <1>9 DEF Gate, outcome
    <3> QED BY <2>2, <3>1, FinishKeeps
  <2> QED BY <1>9, <2>1, <2>2 DEF Gate
<1>10. CASE HoldEnds
  <2>1. pc = "hold" /\ Finish /\ GoOn /\ answered' = answered
    BY <1>10 DEF HoldEnds, outcome
  <2> QED BY <2>1, FinishKeeps
<1>11. CASE Redo
  <2>1. /\ step'.state = "Superseded" /\ pc' = "begin" /\ UNCHANGED <<done, answered>>
    BY <1>a, <1>11 DEF Redo, StepType, outcome
  <2> QED BY <1>a, <2>1 DEF AtStep, Answered, FinishedWasAnswered
<1>12. CASE LastAct
  <2>1. UNCHANGED <<done, answered>>
    BY <1>12 DEF LastAct, outcome
  <2>2. \/ step'.kind = "last" /\ pc' \in {"acting", "yours"}
        \/ step' = step /\ pc' = "over" /\ pc = "last"
    BY <1>12 DEF LastAct, Begin
  <2> QED BY <1>a, <2>1, <2>2 DEF AtStep, Answered, FinishedWasAnswered
<1>13. CASE AgentActed \/ PersonActed
  <2>1. /\ pc \in {"acting", "yours"} /\ step' = [step EXCEPT !.state = "Done"] /\ pc' = "over"
        /\ UNCHANGED <<done, answered>>
    BY <1>13 DEF AgentActed, PersonActed, IsDone, outcome
  <2>2. step'.kind = "last"
    BY <1>a, <2>1 DEF AtStep, StepType
  <2> QED BY <1>a, <2>1, <2>2 DEF AtStep, Answered, FinishedWasAnswered
<1>14. CASE Crash
  BY <1>a, <1>14 DEF Crash, AtStep, Answered, FinishedWasAnswered, outcome
<1> QED BY <1>1, <1>2, <1>3, <1>4, <1>5, <1>6, <1>7, <1>8, <1>9, <1>10, <1>11, <1>12, <1>13,
           <1>14 DEF Next, Engine, Driver

(* A unit counts as finished, and is skipped by a resumed run, only when    *)
(* the agent has answered for it, however runs are cut short and resumed   *)
(* (finish_run, resume, next_unit).                                        *)
THEOREM FinishedIsAnswered == Spec => []FinishedWasAnswered
<1>1. StepInv => FinishedWasAnswered
  BY DEF StepInv
<1> QED BY <1>1, StepInvInit, StepInvStep, PTL DEF Spec

-----------------------------------------------------------------------------
(* What happens to the proposals. *)

(* The proposals are decided, withdrawn where the step is done again,       *)
(* applied at their gate, or one more is made.                             *)
Decision == proposals' = Decided
Again    == pc = "hold" /\ proposals' = Withdraw(Decided)
Apply    == pc = "gate" /\ proposals' = ApplySure
Propose  == \E sure \in BOOLEAN : proposals' = Append(proposals, Proposal(sure))

LEMMA ProposalsMove ==
  ASSUME [Next]_vars
  PROVE  UNCHANGED proposals \/ Decision \/ Again \/ Apply \/ Propose
<1>1. CASE Engine
  <2>1. CASE \/ Run \/ Stopped \/ KeepPlan \/ Ask \/ RunChecks \/ LastAct
    BY <2>1 DEF Run, Stopped, KeepPlan, Ask, RunChecks, LastAct, record
  <2>2. CASE WhyFails \/ OverLimit \/ WaitMoved \/ Pause \/ Checkpoint
    BY <2>2 DEF WhyFails, OverLimit, WaitMoved, Pause, Checkpoint, TakeControls, Decision
  <2>3. CASE HoldEnds \/ PauseEnds \/ CarryOn \/ IgnoreControls
    BY <2>3 DEF HoldEnds, PauseEnds, CarryOn, IgnoreControls, Unheard, TakeControls, Decision
  <2>4. CASE AgentActed \/ ActFailed \/ PersonActed
    BY <2>4 DEF AgentActed, ActFailed, PersonActed, IsDone, TakeControls, Decision
  <2>5. CASE Gate
    BY <2>5 DEF Gate, Apply
  <2>6. CASE Redo
    BY <2>6 DEF Redo, Again
  <2> QED BY <1>1, <2>1, <2>2, <2>3, <2>4, <2>5, <2>6 DEF Engine
<1>2. CASE Driver
  BY <1>2 DEF Driver, StepFails, Answer, ChecksEnd, ChecksCutShort, record, Propose
<1>3. CASE Person \/ Crash
  BY <1>3 DEF Person, Press, PressStop, PressLevel, Decide, Choose, Moves, Resume, Crash, record
<1>4. CASE Webview
  BY <1>4 DEF Webview, TakeLastAct, DoLastAct, LastActFails, record
<1>5. CASE UNCHANGED vars
  BY <1>5 DEF vars, record
<1> QED BY <1>1, <1>2, <1>3, <1>4, <1>5 DEF Next

(* What waits for the person is never applied by the agent: not by raising  *)
(* the level, nor by a later step.  Only the gate applies, only the         *)
(* proposal of its step, and at the gate that step runs (gate, decide).     *)
THEOREM WaitingStays == Spec => WaitingIsThePersons
<1> DEFINE Kept == \A i \in DOMAIN proposals :
                     proposals[i].state = "Proposed" /\ ~(i = at /\ step.state = "Running")
                       => proposals'[i].state # "Applied"
<1>1. ASSUME StepInv, [Next]_vars PROVE Kept
  <2> SUFFICES ASSUME NEW i \in DOMAIN proposals, proposals[i].state = "Proposed",
                      ~(i = at /\ step.state = "Running")
               PROVE  proposals'[i].state # "Applied"
    OBVIOUS
  <2>0. /\ TypeOK /\ AtStep /\ proposals[i] \in ProposalType
        /\ Len(proposals) \in Nat /\ DOMAIN proposals = 1..Len(proposals)
    BY <1>1, ProposalsTyped DEF StepInv
  <2>1. Decided[i].state # "Applied" /\ Decided[i] \in ProposalType
    <3>1. Decided[i] \in ProposalType
      BY <2>0, DecidedTyped, ElementOfSeq
    <3>2. \A st : [proposals[i] EXCEPT !.state = st, !.by = "person"].state = st
      BY <2>0 DEF ProposalType
    <3> QED BY <3>1, <3>2 DEF Decided, DecidedAs
  <2>2. CASE UNCHANGED proposals
    BY <2>2
  <2>3. CASE Decision
    BY <2>1, <2>3 DEF Decision
  <2>4. CASE Again
    <3>1. Withdraw(Decided)[i] \in {Decided[i], [Decided[i] EXCEPT !.state = "Superseded"]}
      BY <2>0, DecidedTyped DEF Withdraw
    <3> QED BY <2>1, <2>4, <3>1 DEF Again, ProposalType
  <2>5. CASE Apply
    <3>1. step.state = "Running" /\ i # at
      BY <2>0, <2>5 DEF Apply, AtStep
    <3>2. ApplySure[i] = proposals[i]
      BY <2>0, <3>1 DEF ApplySure
    <3> QED BY <2>5, <3>2 DEF Apply
  <2>6. CASE Propose
    <3>1. PICK sure : proposals' = Append(proposals, Proposal(sure))
      BY <2>6 DEF Propose
    <3>2. proposals'[i] = proposals[i]
      BY <2>0, <3>1, AppendProperties DEF TypeOK
    <3> QED BY <3>2
  <2> QED BY <1>1, <2>2, <2>3, <2>4, <2>5, <2>6, ProposalsMove
<1>2. StepInv /\ [Next]_vars => [Kept]_vars
  BY <1>1
<1> QED BY <1>2, StepInvInit, StepInvStep, PTL DEF Spec, WaitingIsThePersons

(* What the person decided is accepted or dismissed, so no withdrawal and   *)
(* no gate takes it up again.                                              *)
ByPerson ==
  \A i \in DOMAIN proposals :
    proposals[i].by = "person" => proposals[i].state \in {"Accepted", "Dismissed"}

(* A proposal no control decides is as it was.                             *)
LEMMA Undecided ==
  ASSUME TypeOK, NEW i \in DOMAIN proposals
  PROVE  \/ Decided[i] = proposals[i]
         \/ /\ \E k \in DOMAIN controls : IsDecision(controls[k]) /\ controls[k].of = i
            /\ Decided[i].state \in {"Accepted", "Dismissed"}
<1> DEFINE all == {k \in DOMAIN controls : IsDecision(controls[k]) /\ controls[k].of = i}
<1>1. CASE all = {}
  <2>1. DecisionOf(i) = None
    BY <1>1 DEF DecisionOf
  <2> QED BY <2>1 DEF Decided
<1>2. CASE all # {}
  <2>1. proposals[i] \in ProposalType
    BY ProposalsTyped
  <2>2. \A st : [proposals[i] EXCEPT !.state = st, !.by = "person"].state = st
    BY <2>1 DEF ProposalType
  <2>3. Decided[i] = proposals[i] \/ Decided[i].state \in {"Accepted", "Dismissed"}
    BY <2>2 DEF Decided, DecidedAs
  <2>4. \E k \in DOMAIN controls : IsDecision(controls[k]) /\ controls[k].of = i
    BY <1>2
  <2> QED BY <2>3, <2>4
<1> QED BY <1>1, <1>2

PersonInv == StepInv /\ ByPerson
Word(i) == proposals[i].by = "person" =>
             \/ proposals'[i] = proposals[i]
             \/ \E k \in DOMAIN controls : IsDecision(controls[k]) /\ controls[k].of = i

LEMMA PersonStep ==
  ASSUME PersonInv, [Next]_vars
  PROVE  ByPerson' /\ \A i \in DOMAIN proposals : Word(i)
<1>a. /\ TypeOK /\ AtStep /\ ByPerson
      /\ Len(proposals) \in Nat /\ DOMAIN proposals = 1..Len(proposals)
      /\ \A i \in DOMAIN proposals : proposals[i] \in ProposalType
  BY ProposalsTyped DEF PersonInv, StepInv
<1>b. ASSUME NEW i \in DOMAIN proposals
      PROVE  Decided[i].by = "person" => Decided[i].state \in {"Accepted", "Dismissed"}
  BY <1>a, <1>b, Undecided DEF ByPerson
<1>c. DOMAIN Decided = DOMAIN proposals
  BY <1>a, DecidedTyped
<1>1. CASE UNCHANGED proposals
  BY <1>a, <1>1 DEF ByPerson, Word
<1>2. CASE Decision
  BY <1>a, <1>b, <1>c, <1>2, Undecided DEF Decision, ByPerson, Word
<1>3. CASE Again
  <2>1. DOMAIN proposals' = DOMAIN proposals
    BY <1>c, <1>3 DEF Again, Withdraw
  <2>2. ASSUME NEW i \in DOMAIN proposals
        PROVE  /\ Word(i)
               /\ proposals'[i].by = "person" => proposals'[i].state \in {"Accepted", "Dismissed"}
    <3>1. Decided[i] \in ProposalType
      BY <1>a, DecidedTyped, ElementOfSeq
    <3>2. CASE proposals'[i] = Decided[i]
      BY <1>a, <1>b, <2>2, <3>2, Undecided DEF Word
    <3>3. CASE /\ proposals'[i] = [Decided[i] EXCEPT !.state = "Superseded"]
               /\ Decided[i].state = "Proposed"
      <4>1. proposals'[i].by = Decided[i].by /\ Decided[i].by # "person"
        BY <1>b, <2>2, <3>1, <3>3 DEF ProposalType
      <4>2. Decided[i] = proposals[i]
        BY <1>a, <2>2, <3>3, Undecided
      <4> QED BY <4>1, <4>2 DEF Word
    <3> QED BY <1>c, <1>3, <3>2, <3>3 DEF Again, Withdraw
  <2> QED BY <2>1, <2>2 DEF ByPerson
<1>4. CASE Apply
  <2>1. CASE ApplySure = proposals
    BY <1>a, <1>4, <2>1 DEF Apply, ByPerson, Word
  <2>2. CASE ApplySure # proposals
    <3>1. /\ at \in DOMAIN proposals /\ proposals[at].state = "Proposed"
          /\ ApplySure = [proposals EXCEPT ![at].state = "Applied", ![at].by = "agent"]
      BY <1>a, <2>2 DEF ApplySure, TypeOK
    <3>2. ApplySure[at].by = "agent" /\ proposals[at].by # "person"
      BY <1>a, <3>1 DEF ProposalType, ByPerson
    <3>3. \A i \in DOMAIN proposals : i # at => ApplySure[i] = proposals[i]
      BY <1>a, <3>1
    <3>4. DOMAIN ApplySure = DOMAIN proposals
      BY <1>a, <3>1
    <3> QED BY <1>a, <1>4, <3>2, <3>3, <3>4 DEF Apply, ByPerson, Word
  <2> QED BY <2>1, <2>2
<1>5. CASE Propose
  <2>1. PICK sure : proposals' = Append(proposals, Proposal(sure))
    BY <1>5 DEF Propose
  <2>2. /\ Len(proposals') = Len(proposals) + 1
        /\ proposals'[Len(proposals) + 1] = Proposal(sure)
        /\ \A i \in 1..Len(proposals) : proposals'[i] = proposals[i]
        /\ DOMAIN proposals' = 1..Len(proposals) + 1
    BY <1>a, <2>1, AppendProperties DEF TypeOK
  <2>3. \A i \in DOMAIN proposals' : i \in DOMAIN proposals \/ i = Len(proposals) + 1
    BY <1>a, <2>2
  <2>4. Proposal(sure).by = "nobody"
    BY DEF Proposal
  <2>5. \A i \in DOMAIN proposals : proposals'[i] = proposals[i]
    BY <1>a, <2>2
  <2> QED BY <1>a, <2>2, <2>3, <2>4, <2>5 DEF ByPerson, Word
<1> QED BY <1>1, <1>2, <1>3, <1>4, <1>5, ProposalsMove

(* What the person decided stays decided until they decide again: no redo   *)
(* withdraws it, and no gate applies over it (supersede_current, decide).   *)
THEOREM TheWordStands == Spec => PersonsWordStands
<1>1. Init => PersonInv
  <2>1. ASSUME Init PROVE ByPerson
    <3>1. proposals = <<>>
      BY <2>1 DEF Init
    <3> QED BY <3>1 DEF ByPerson
  <2> QED BY <2>1, StepInvInit DEF PersonInv
<1>2. PersonInv /\ [Next]_vars => PersonInv'
  BY StepInvStep, PersonStep DEF PersonInv
<1>3. PersonInv /\ [Next]_vars => [\A i \in DOMAIN proposals : Word(i)]_vars
  BY PersonStep
<1>4. PersonsWordStands <=> [][\A i \in DOMAIN proposals : Word(i)]_vars
  BY PTL DEF PersonsWordStands, Word
<1> QED BY <1>1, <1>2, <1>3, <1>4, PTL DEF Spec

-----------------------------------------------------------------------------
(* The last act. *)

(* What has landed has moved the branch, and it never moves back.          *)
LandInv == /\ sent \in Nat
           /\ job = "merge" => sent <= 1 /\ (sent > 0 => tips)

LEMMA LandStep ==
  ASSUME LandInv, [Next]_vars PROVE LandInv'
<1>1. CASE DoLastAct
  <2>1. CASE job = "merge"
    <3>1. ~tips /\ tips' = TRUE /\ sent' = sent + 1 /\ job' = job
      BY <1>1, <2>1 DEF DoLastAct, Lands, record
    <3>2. sent = 0
      BY <2>1, <3>1 DEF LandInv
    <3> QED BY <3>1, <3>2 DEF LandInv
  <2>2. CASE job # "merge"
    <3>1. tips' = tips /\ sent' = sent + 1 /\ job' = job
      BY <1>1, <2>2 DEF DoLastAct, record
    <3> QED BY <2>2, <3>1 DEF LandInv
  <2> QED BY <2>1, <2>2
<1>2. CASE Person
  <2>1. job' = job /\ sent' = sent /\ tips' \in {tips, TRUE}
    BY <1>2 DEF Person, Press, PressStop, PressLevel, Decide, Choose, Moves, Resume, record,
                outcome
  <2> QED BY <2>1 DEF LandInv
<1>3. CASE Engine \/ Driver \/ Crash \/ TakeLastAct \/ LastActFails \/ UNCHANGED vars
  <2>1. UNCHANGED <<job, sent, tips>>
    <3>1. CASE Run \/ Stopped \/ KeepPlan \/ Ask \/ RunChecks \/ LastAct \/ Gate \/ Redo
      BY <3>1 DEF Run, Stopped, KeepPlan, Ask, RunChecks, LastAct, Gate, Redo, record, outcome
    <3>2. CASE WhyFails \/ OverLimit \/ WaitMoved \/ Pause \/ Checkpoint
      BY <3>2 DEF WhyFails, OverLimit, WaitMoved, Pause, Checkpoint, record, outcome
    <3>3. CASE HoldEnds \/ PauseEnds \/ CarryOn \/ IgnoreControls
      BY <3>3 DEF HoldEnds, PauseEnds, CarryOn, IgnoreControls, Unheard, record, outcome
    <3>4. CASE AgentActed \/ ActFailed \/ PersonActed
      BY <3>4 DEF AgentActed, ActFailed, PersonActed, IsDone, record, outcome
    <3>5. CASE Driver
      BY <3>5 DEF Driver, StepFails, Answer, ChecksEnd, ChecksCutShort, record, outcome
    <3>6. CASE Crash \/ TakeLastAct \/ LastActFails \/ UNCHANGED vars
      BY <3>6 DEF Crash, TakeLastAct, LastActFails, vars, record, outcome
    <3> QED BY <1>3, <3>1, <3>2, <3>3, <3>4, <3>5, <3>6 DEF Engine
  <2> QED BY <2>1 DEF LandInv
<1> QED BY <1>1, <1>2, <1>3 DEF Next, Webview

(* A merge is landed by the agent at most once, whatever is stopped,        *)
(* resumed or closed while it lands: the landing moves the receiving        *)
(* branch, which is looked at as it lands (merger/land.rs).                *)
THEOREM LandedOnce == Spec => []LandsOnce
<1>1. Init => LandInv
  BY DEF Init, LandInv
<1>2. LandInv => LandsOnce
  BY DEF LandInv, LandsOnce
<1> QED BY <1>1, <1>2, LandStep, PTL DEF Spec

-----------------------------------------------------------------------------
(***************************************************************************)
(* What the agent lands is earned: proved for any number of conflicts,     *)
(* presses and crashes.  The resolver, which the webview keeps and lands,  *)
(* is not what the engine had checked; the invariant says how the two are  *)
(* kept together while decisions travel from one to the other.             *)
(***************************************************************************)

(* Where the engine is, and what it works at: nothing is proposed for a     *)
(* unit again once it is finished, and the checks propose nothing.         *)
Place ==
  /\ goal.kind \in {"checks", "verdict", "last"} => Units \subseteq done
  /\ pc # "over" /\ goal.kind = "unit" => goal.unit \notin done
  /\ job = "merge" => goal.kind \in {"read", "unit", "checks", "last"}
  /\ pc \in {"gate", "hold"} => goal.kind \in {"plan", "unit", "verdict", "checks"}
  /\ pc = "checking" => goal.kind = "checks"
  /\ pc \in {"checking", "gate", "hold"} /\ goal.kind = "checks" => at = 0
  /\ pc \in {"last", "acting", "yours"} \/ lastAct => goal.kind = "last"
  /\ pc = "start" => goal.kind = "read"

(* The checks of the merge have been begun in this run.                    *)
Ran == /\ job = "merge" /\ Configured
       /\ \/ goal.kind = "last"
          \/ goal.kind = "checks" /\ pc \in {"checking", "gate", "hold"}

(* What was checked has passed, unless the checks run or have failed.      *)
Passes == Ran /\ pc # "checking" /\ ~failed => checked \in passed

(* The last act is asked for only where the agent may do it.               *)
Asked == lastAct /\ job = "merge" => Configured /\ MayLand /\ ~failed

LiveOf(ps, u) == {i \in DOMAIN ps : /\ ps[i].kind = "unit" /\ ps[i].unit = u
                                  /\ ps[i].state \notin {"Superseded", "Dismissed"}}

Certain == \A i \in DOMAIN proposals : proposals[i].state = "Applied" => proposals[i].sure

(* A decision on its way is of a proposal that still counts.               *)
Pending ==
  \A k \in DOMAIN controls :
    IsDecision(controls[k]) =>
      /\ controls[k].of \in LiveOf(proposals, proposals[controls[k].of].unit)
      /\ job = "merge" => controls[k].kind # "dismiss"

Hands == \A u \in Units : /\ resolver[u].of = Own => resolver[u].by = "person"
                          /\ resolver[u].by = "nobody" => resolver[u].of = None

(* While the branch stands where it did: a decision on its way about what   *)
(* stands for a conflict is shown in the resolver already.                 *)
Open == job = "merge" /\ ~tips

ShownAs(i) == IF controls[DecisionOf(i)].kind = "accept" THEN i ELSE Own

Shown ==
  Open => \A u \in Units :
    LET i == Latest(proposals, u) IN
    i # None /\ DecisionOf(i) # None
      => resolver[u] = [of |-> ShownAs(i), by |-> "person"]

(* What the agent put into the resolver still stands for its conflict.     *)
Agents ==
  Open => \A u \in Units :
    resolver[u].by = "agent" =>
      /\ Units \subseteq done
      /\ Latest(proposals, u) # None /\ resolver[u].of = Latest(proposals, u)
      /\ proposals[resolver[u].of].state = "Applied"

(* The person has chosen, and nothing the agent applied replaces it.       *)
Theirs(u) ==
  /\ resolver[u].by = "person"
  /\ LET i == Latest(proposals, u) IN
     i # None /\ proposals[i].state = "Applied" => resolver[u].of = Own

(* What was checked for a conflict still stands for it, or the person has   *)
(* chosen since.                                                           *)
Stands ==
  Open /\ Ran => \A u \in Units : checked[u] \in {Own, Latest(proposals, u)} \/ Theirs(u)

(* A resolver that may be landed.                                          *)
Earned(res) ==
  /\ Configured /\ MayLand
  /\ \E result \in passed : \A u \in Units :
       \/ res[u].by = "person" \/ result[u] = Own
       \/ /\ res[u].of = result[u] /\ result[u] \in DOMAIN proposals
          /\ proposals[result[u]].sure

Landing == Open /\ acting > 0 => Earned(resolver) /\ \A u \in Units : resolver[u].of # None

Choosing == Certain /\ Pending /\ Hands /\ Shown /\ Agents /\ Stands /\ Landing

EarnedInv == StepInv /\ Place /\ Passes /\ Asked /\ Choosing /\ LandedIsEarned

-----------------------------------------------------------------------------
(* The proposal that stands for a unit. *)

LEMMA LatestOf ==
  ASSUME NEW ps \in Seq(ProposalType), NEW u
  PROVE  /\ LiveOf(ps, u) \subseteq 1..Len(ps) /\ None \notin LiveOf(ps, u)
         /\ LiveOf(ps, u) = {} => Latest(ps, u) = None
         /\ LiveOf(ps, u) # {} => /\ Latest(ps, u) \in LiveOf(ps, u)
                                  /\ \A j \in LiveOf(ps, u) : j <= Latest(ps, u)
<1>1. Len(ps) \in Nat /\ DOMAIN ps = 1..Len(ps)
  BY LenProperties
<1>2. LiveOf(ps, u) \in SUBSET (1..Len(ps)) /\ None \notin LiveOf(ps, u)
  BY <1>1 DEF LiveOf, None
<1>3. Latest(ps, u) = IF LiveOf(ps, u) = {} THEN None
                      ELSE CHOOSE i \in LiveOf(ps, u) : \A j \in LiveOf(ps, u) : j <= i
  BY DEF Latest, LiveOf
<1>4. LiveOf(ps, u) # {} => \E i \in LiveOf(ps, u) : \A j \in LiveOf(ps, u) : j <= i
  BY <1>1, <1>2, Largest
<1> QED BY <1>2, <1>3, <1>4

(* It is the same while what counts does not grow, and it counts.          *)
LEMMA LatestKept ==
  ASSUME NEW ps \in Seq(ProposalType), NEW qs \in Seq(ProposalType), NEW u,
         LiveOf(qs, u) \subseteq LiveOf(ps, u), Latest(ps, u) \in LiveOf(qs, u)
  PROVE  Latest(qs, u) = Latest(ps, u)
<1>1. Latest(qs, u) \in LiveOf(qs, u) /\ Latest(ps, u) <= Latest(qs, u)
  BY LatestOf
<1>2. Latest(qs, u) <= Latest(ps, u)
  BY <1>1, LatestOf
<1>3. Latest(qs, u) \in Nat /\ Latest(ps, u) \in Nat
  <2>1. LiveOf(ps, u) \subseteq 1..Len(ps) /\ Len(ps) \in Nat
    BY LatestOf, LenProperties
  <2> QED BY <1>1, <2>1
<1> QED BY <1>1, <1>2, <1>3

LEMMA LatestSame ==
  ASSUME NEW ps, NEW qs, NEW u, LiveOf(qs, u) = LiveOf(ps, u)
  PROVE  Latest(qs, u) = Latest(ps, u)
<1>1. \A rs : Latest(rs, u) = IF LiveOf(rs, u) = {} THEN None
                              ELSE CHOOSE i \in LiveOf(rs, u) : \A j \in LiveOf(rs, u) : j <= i
  BY DEF Latest, LiveOf
<1> QED BY <1>1

-----------------------------------------------------------------------------
(* What the engine does to the proposals, and what it leaves alone. *)

LEMMA EngineMoves ==
  ASSUME Engine \/ Driver
  PROVE  /\ UNCHANGED <<job, tips, acting, resolver, landed>>
         /\ \/ UNCHANGED <<proposals, controls>>
            \/ Decision /\ controls' = <<>>
            \/ Redo /\ Again /\ controls' = <<>>
            \/ Apply /\ UNCHANGED controls
            \/ pc = "ask" /\ Propose /\ UNCHANGED <<controls, goal>>
<1>1. CASE Engine
  <2>1. CASE \/ Run \/ Stopped \/ KeepPlan \/ Ask \/ RunChecks \/ LastAct
    BY <2>1 DEF Run, Stopped, KeepPlan, Ask, RunChecks, LastAct, record, webview, outcome
  <2>2. CASE WhyFails \/ OverLimit \/ WaitMoved \/ Pause \/ Checkpoint
    BY <2>2 DEF WhyFails, OverLimit, WaitMoved, Pause, Checkpoint, TakeControls, Decision,
                webview, outcome
  <2>3. CASE HoldEnds \/ PauseEnds \/ CarryOn \/ IgnoreControls
    BY <2>3 DEF HoldEnds, PauseEnds, CarryOn, IgnoreControls, Unheard, TakeControls, Decision,
                webview, outcome
  <2>4. CASE AgentActed \/ ActFailed \/ PersonActed
    BY <2>4 DEF AgentActed, ActFailed, PersonActed, IsDone, TakeControls, Decision, webview,
                outcome
  <2>5. CASE Gate
    BY <2>5 DEF Gate, Apply, webview, outcome
  <2>6. CASE Redo
    <3>1. /\ UNCHANGED <<job, tips, acting, resolver, landed>>
          /\ Again /\ controls' = <<>>
      BY <2>6 DEF Redo, Again, webview, outcome
    <3> QED BY <2>6, <3>1
  <2> QED BY <1>1, <2>1, <2>2, <2>3, <2>4, <2>5, <2>6 DEF Engine
<1>2. CASE StepFails \/ ChecksEnd \/ ChecksCutShort
  BY <1>2 DEF StepFails, ChecksEnd, ChecksCutShort, record, webview, outcome
<1>3. CASE Answer
  <2>1. /\ UNCHANGED <<job, tips, acting, resolver, landed>>
        /\ pc = "ask" /\ UNCHANGED <<controls, goal>>
    BY <1>3 DEF Answer, webview, outcome
  <2>2. UNCHANGED proposals \/ Propose
    BY <1>3 DEF Answer, Propose
  <2> QED BY <2>1, <2>2
<1> QED BY <1>1, <1>2, <1>3 DEF Driver

-----------------------------------------------------------------------------
(* Where the engine is. *)

LEMMA AfterUnitsLeft ==
  ASSUME NEW d
  PROVE  /\ AfterUnits(d).kind \in {"checks", "verdict", "last"} => Units \subseteq d
         /\ AfterUnits(d).kind = "unit" => AfterUnits(d).unit \notin d
         /\ job = "merge" => AfterUnits(d).kind \in {"unit", "checks"}
<1>1. CASE Units \subseteq d
  BY <1>1 DEF AfterUnits, Goal
<1>2. CASE ~(Units \subseteq d)
  <2>1. \E u \in Units \ d : \A v \in Units \ d : u <= v
    BY <1>2, Numbers, Smallest
  <2>2. (CHOOSE u \in Units \ d : \A v \in Units \ d : u <= v) \in Units \ d
    BY <2>1
  <2> QED BY <1>2, <2>2 DEF AfterUnits, Goal
<1> QED BY <1>1, <1>2

(* A step that passes its gate leads on to a unit that is left.            *)
LEMMA FinishPlaces ==
  ASSUME Place, pc \in {"gate", "hold"}, Finish, GoOn, job' = job, lastAct' = lastAct
  PROVE  Place'
<1>1. done \subseteq done'
  BY DEF Finish
<1>2. lastAct = FALSE \/ goal.kind = "last"
  BY DEF Place
<1>3. pc' = IF goal.kind = "verdict" THEN "last" ELSE "check"
  BY DEF GoOn
<1>4. CASE goal.kind \in {"plan", "unit"}
  <2>1. goal' = AfterUnits(done')
    BY <1>4 DEF GoOn
  <2> HIDE DEF Goal
  <2>2. /\ goal'.kind \in {"checks", "verdict", "last"} => Units \subseteq done'
        /\ goal'.kind = "unit" => goal'.unit \notin done'
        /\ job = "merge" => goal'.kind \in {"unit", "checks"}
    BY <2>1, AfterUnitsLeft
  <2>3. ~lastAct'
    BY <1>4 DEF Place
  <2> QED BY <1>3, <1>4, <2>2, <2>3 DEF Place
<1>5. CASE goal.kind \notin {"plan", "unit"}
  <2>1. goal'.kind = "last"
    BY <1>5 DEF GoOn, Goal
  <2>2. goal.kind \in {"verdict", "checks"} /\ Units \subseteq done'
    BY <1>1, <1>5 DEF Place
  <2> QED BY <1>3, <2>1, <2>2 DEF Place
<1> QED BY <1>4, <1>5

LEMMA PlaceStep ==
  ASSUME StepInv, Place, [Next]_vars PROVE Place'
<1>a. Aimed
  BY DEF StepInv
<1>1. CASE Run
  <2>1. /\ UNCHANGED <<job, lastAct, done>> /\ pc' = "check"
        /\ goal' = IF job = "review" THEN Goal("plan", 0) ELSE AfterUnits(done)
    BY <1>1 DEF Run
  <2>2. ~lastAct
    BY <1>1 DEF Place, Run
  <2> QED BY <2>1, <2>2, AfterUnitsLeft DEF Place, Goal
<1>2. CASE Stopped \/ WhyFails \/ OverLimit \/ StepFails \/ ChecksCutShort \/ ActFailed
  <2>1. UNCHANGED <<job, goal, at>> /\ (lastAct' => lastAct)
    BY <1>2 DEF Stopped, WhyFails, OverLimit, StepFails, ChecksCutShort, ActFailed
  <2>2. Halt("Stopped") \/ Halt("Failed")
    BY <1>2 DEF Stopped, WhyFails, OverLimit, StepFails, ChecksCutShort, ActFailed
  <2>3. pc' = "over" /\ done \subseteq done'
    BY <2>2 DEF Halt
  <2> QED BY <2>1, <2>3 DEF Place
<1>3. CASE WaitMoved \/ Pause \/ Checkpoint \/ PauseEnds \/ CarryOn
  <2>1. /\ UNCHANGED <<job, goal, at, done, lastAct>>
        /\ pc \in {"check", "paused", "moved"}
        /\ pc' \in {"check", "paused", "moved", "begin", "last"}
        /\ pc' = "last" => goal.kind = "last"
    BY <1>3 DEF WaitMoved, Pause, Checkpoint, PauseEnds, CarryOn
  <2> QED BY <2>1 DEF Place
<1>4. CASE KeepPlan
  <2>1. UNCHANGED <<job, lastAct, done>> /\ pc' = "check" /\ goal' = AfterUnits(done)
    BY <1>4 DEF KeepPlan, record
  <2>2. ~lastAct
    BY <1>4 DEF Place, KeepPlan
  <2> QED BY <2>1, <2>2, AfterUnitsLeft DEF Place
<1>5. CASE Ask \/ Redo
  <2>1. UNCHANGED <<job, goal, done, lastAct>> /\ pc' \in {"ask", "begin"} /\ pc # "over"
    BY <1>5 DEF Ask, Redo
  <2> QED BY <2>1 DEF Place
<1>6. CASE RunChecks
  <2>1. /\ UNCHANGED <<job, done, lastAct>> /\ at' = 0 /\ pc # "over" /\ goal.kind = "checks"
        /\ \/ goal' = goal /\ pc' = "checking"
           \/ goal' = Goal("last", 0) /\ pc' = "check"
    BY <1>6 DEF RunChecks
  <2> QED BY <2>1 DEF Place, Goal
<1>7. CASE Answer \/ ChecksEnd
  <2>1. UNCHANGED <<job, goal, done, lastAct>> /\ pc' = "gate" /\ pc \in {"ask", "checking"}
    BY <1>7 DEF Answer, ChecksEnd, record
  <2>2. goal.kind = "checks" => at' = 0
    BY <1>a, <1>7 DEF Answer, ChecksEnd, Place, Aimed
  <2>3. goal.kind \in {"plan", "unit", "verdict", "checks"}
    BY <1>a, <2>1 DEF Place, Aimed
  <2> QED BY <2>1, <2>2, <2>3 DEF Place
<1>8. CASE Gate
  <2>1. CASE pc' = "hold" /\ UNCHANGED <<done, goal>>
    <3>1. UNCHANGED <<job, at, lastAct>> /\ pc = "gate"
      BY <1>8 DEF Gate
    <3> QED BY <2>1, <3>1 DEF Place
  <2>2. CASE Finish /\ GoOn
    <3>1. UNCHANGED <<job, at, lastAct>> /\ pc = "gate"
      BY <1>8 DEF Gate
    <3> QED BY <2>2, <3>1, FinishPlaces
  <2> QED BY <1>8, <2>1, <2>2 DEF Gate
<1>9. CASE HoldEnds
  <2>1. Finish /\ GoOn /\ pc = "hold" /\ UNCHANGED <<job, lastAct>>
    BY <1>9 DEF HoldEnds
  <2> QED BY <2>1, FinishPlaces
<1>10. CASE IgnoreControls
  <2>1. UNCHANGED <<job, goal, at, done, lastAct, pc>>
    BY <1>10 DEF IgnoreControls, Unheard
  <2> QED BY <2>1 DEF Place
<1>11. CASE LastAct \/ AgentActed \/ PersonActed
  <2>1. /\ UNCHANGED <<job, goal, done>> /\ pc \in {"last", "acting", "yours"}
        /\ pc' \in {"acting", "yours", "over"}
    BY <1>11 DEF LastAct, AgentActed, PersonActed, IsDone
  <2> QED BY <2>1 DEF Place
<1>12. CASE Person
  <2>1. \/ UNCHANGED <<job, goal, at, done, lastAct, pc>>
        \/ UNCHANGED job /\ goal' = Goal("read", 0) /\ pc' = "start" /\ lastAct' = FALSE
    BY <1>12 DEF Person, Press, PressStop, PressLevel, Decide, Choose, Moves, Resume, record,
                 engine
  <2> QED BY <2>1 DEF Place, Goal
<1>13. CASE Crash
  BY <1>13 DEF Crash, Place
<1>14. CASE Webview \/ UNCHANGED vars
  <2>1. UNCHANGED <<job, goal, at, done, lastAct, pc>>
    BY <1>14 DEF Webview, TakeLastAct, DoLastAct, LastActFails, record, engine, vars
  <2> QED BY <2>1 DEF Place
<1> QED BY <1>1, <1>2, <1>3, <1>4, <1>5, <1>6, <1>7, <1>8, <1>9, <1>10, <1>11, <1>12, <1>13,
           <1>14 DEF Next, Engine, Driver

-----------------------------------------------------------------------------
(* The checks. *)

(* The agent does the last act only where nothing stops it or forbids it.  *)
LEMMA AgentMay ==
  ASSUME AtLast = "AgentDoesIt"
  PROVE  job = "merge" => Configured /\ MayLand /\ ~failed
<1> DEFINE planned == Table(level, "last")
<1>1. planned \in {"AgentDoesIt", "YouDoIt"}
  BY DEF Table, LastGate
<1> HIDE DEF planned
<1>2. AtLast = CASE StopsLast /\ planned # "YouDoIt" -> "Stops"
                 [] ~StopsLast /\ planned = "AgentDoesIt" /\ Refused -> "YouDoIt"
                 [] OTHER -> planned
  BY DEF AtLast, AtGate, planned
<1>3. ~StopsLast /\ ~Refused
  <2> HIDE DEF StopsLast, Refused
  <2>1. CASE StopsLast
    BY <1>1, <1>2, <2>1
  <2>2. CASE ~StopsLast /\ Refused
    BY <1>1, <1>2, <2>2
  <2> QED BY <2>1, <2>2
<1> QED BY <1>3 DEF StopsLast, Refused

(* What the checks are about and what they say changes only where they run. *)
Rechecked ==
  /\ RunChecks /\ checked' = [u \in Units |-> Standing(u)]
  /\ UNCHANGED <<job, tips, proposals, controls, resolver>>
StillRan == Ran' => (Ran /\ checked' = checked) \/ Rechecked

LEMMA GoneOn ==
  ASSUME Place, pc \in {"gate", "hold"}, GoOn, Ran', job' = job
  PROVE  Ran /\ goal.kind = "checks"
<1>1. CASE goal.kind \in {"plan", "unit"}
  <2>1. goal'.kind \in {"unit", "verdict", "checks"} /\ pc' = "check"
    BY <1>1, AfterUnitsIs DEF GoOn
  <2> QED BY <2>1 DEF Ran
<1>2. CASE goal.kind \notin {"plan", "unit"}
  BY <1>2 DEF GoOn, Ran, Place
<1> QED BY <1>1, <1>2

LEMMA CheckStep ==
  ASSUME StepInv, Place, Passes, Asked, [Next]_vars
  PROVE  Passes' /\ Asked' /\ StillRan /\ passed \subseteq passed'
<1>a. Aimed
  BY DEF StepInv
<1> DEFINE Same == UNCHANGED <<job, failed, checked, passed>>
           Fine == Passes' /\ StillRan /\ passed \subseteq passed'
<1>b. ASSUME Same, lastAct' => lastAct PROVE Asked'
  BY <1>b DEF Asked
<1>c. ASSUME Same, ~Ran' PROVE Fine
  BY <1>c DEF Passes, StillRan
<1>d. ASSUME Same, goal' = goal, pc' = pc PROVE Fine
  BY <1>d DEF Passes, StillRan, Ran
<1>e. ASSUME Same, goal' = goal, pc' \notin {"checking", "gate", "hold"} PROVE Fine
  <2>1. Ran' => Ran /\ goal.kind = "last" /\ pc # "checking"
    BY <1>e DEF Ran, Place
  <2> QED BY <1>e, <2>1 DEF Passes, StillRan
<1>f. ASSUME Same, pc \in {"gate", "hold"}, GoOn PROVE Fine
  <2>1. Ran' => Ran /\ pc # "checking"
    BY <1>f, GoneOn
  <2> QED BY <1>f, <2>1 DEF Passes, StillRan
<1>1. CASE Run \/ KeepPlan
  <2>1. Same /\ lastAct' = lastAct
    BY <1>1 DEF Run, KeepPlan, record, outcome
  <2>2. goal'.kind \in {"plan", "unit", "verdict", "checks"} /\ pc' = "check"
    BY <1>1, AfterUnitsIs DEF Run, KeepPlan, Goal
  <2>3. ~Ran'
    BY <2>2 DEF Ran
  <2> QED BY <1>b, <1>c, <2>1, <2>3
<1>2. CASE Stopped \/ WhyFails \/ OverLimit \/ StepFails \/ ChecksCutShort \/ ActFailed
  <2>1. Same /\ goal' = goal /\ (lastAct' => lastAct)
    BY <1>2 DEF Stopped, WhyFails, OverLimit, StepFails, ChecksCutShort, ActFailed, outcome
  <2>2. Halt("Stopped") \/ Halt("Failed")
    BY <1>2 DEF Stopped, WhyFails, OverLimit, StepFails, ChecksCutShort, ActFailed
  <2>3. pc' = "over"
    BY <2>2 DEF Halt
  <2> QED BY <1>b, <1>e, <2>1, <2>3
<1>3. CASE WaitMoved \/ Pause \/ Checkpoint \/ PauseEnds \/ CarryOn \/ Ask \/ Redo
  <2>1. /\ Same /\ UNCHANGED <<goal, lastAct>>
        /\ pc' \in {"check", "paused", "moved", "begin", "last", "ask"}
    BY <1>3 DEF WaitMoved, Pause, Checkpoint, PauseEnds, CarryOn, Ask, Redo, outcome
  <2> QED BY <1>b, <1>e, <2>1
<1>4. CASE RunChecks
  <2>1. UNCHANGED <<job, tips, proposals, controls, resolver, passed, lastAct>>
    BY <1>4 DEF RunChecks, webview, outcome
  <2>2. ~lastAct
    BY <1>4 DEF Place, RunChecks
  <2>3. CASE Configured
    <3>1. pc' = "checking" /\ checked' = [u \in Units |-> Standing(u)]
      BY <1>4, <2>3 DEF RunChecks
    <3> QED BY <1>4, <2>1, <2>2, <3>1 DEF Passes, Asked, StillRan, Rechecked
  <2>4. CASE ~Configured
    BY <2>1, <2>2, <2>4 DEF Passes, Asked, StillRan, Ran
  <2> QED BY <2>3, <2>4
<1>5. CASE Answer
  <2>1. Same /\ UNCHANGED <<lastAct, goal>> /\ pc = "ask"
    BY <1>5 DEF Answer
  <2>2. ~Ran'
    BY <1>a, <2>1 DEF Ran, Aimed
  <2> QED BY <1>b, <1>c, <2>1, <2>2
<1>6. CASE ChecksEnd
  <2>1. UNCHANGED <<job, checked, goal, lastAct>> /\ pc = "checking" /\ pc' = "gate"
    BY <1>6 DEF ChecksEnd, record
  <2>2. passed' = IF failed' THEN passed ELSE passed \cup {checked}
    BY <1>6 DEF ChecksEnd
  <2>3. ~lastAct
    BY <2>1 DEF Place
  <2>4. Ran' => Ran
    BY <2>1 DEF Ran
  <2> QED BY <2>1, <2>2, <2>3, <2>4 DEF Passes, Asked, StillRan
<1>7. CASE Gate
  <2>1. Same /\ pc = "gate" /\ UNCHANGED lastAct
    BY <1>7 DEF Gate, outcome
  <2>2. CASE pc' = "hold" /\ goal' = goal
    <3>1. Ran' => Ran
      BY <2>1, <2>2 DEF Ran
    <3> QED BY <1>b, <2>1, <3>1 DEF Passes, StillRan
  <2>3. CASE GoOn
    BY <1>b, <1>f, <2>1, <2>3
  <2> QED BY <1>7, <2>2, <2>3 DEF Gate
<1>8. CASE HoldEnds
  <2>1. Same /\ pc = "hold" /\ GoOn /\ UNCHANGED lastAct
    BY <1>8 DEF HoldEnds, outcome
  <2> QED BY <1>b, <1>f, <2>1
<1>9. CASE IgnoreControls
  <2>1. Same /\ UNCHANGED <<lastAct, goal, pc>>
    BY <1>9 DEF IgnoreControls, Unheard, outcome
  <2> QED BY <1>b, <1>d, <2>1
<1>10. CASE LastAct
  <2>1. Same /\ goal' = goal /\ pc' \in {"acting", "yours", "over"}
    BY <1>10 DEF LastAct, outcome
  <2>2. lastAct' => lastAct \/ AtLast = "AgentDoesIt"
    BY <1>10 DEF LastAct
  <2>3. Asked'
    BY <2>1, <2>2, AgentMay DEF Asked
  <2> QED BY <1>e, <2>1, <2>3
<1>11. CASE AgentActed \/ PersonActed
  <2>1. Same /\ goal' = goal /\ pc' = "over" /\ (lastAct' => lastAct)
    BY <1>11 DEF AgentActed, PersonActed, IsDone, outcome
  <2> QED BY <1>b, <1>e, <2>1
<1>12. CASE Person
  <2>1. CASE Resume
    <3>1. UNCHANGED <<job, passed>> /\ goal' = Goal("read", 0) /\ lastAct' = FALSE
      BY <2>1 DEF Resume, outcome
    <3>2. ~Ran'
      BY <3>1 DEF Ran, Goal
    <3> QED BY <3>1, <3>2 DEF Passes, Asked, StillRan
  <2>2. CASE ~Resume
    <3>1. Same /\ UNCHANGED <<lastAct, goal, pc>>
      BY <1>12, <2>2 DEF Person, Press, PressStop, PressLevel, Decide, Choose, Moves, record,
                         engine, outcome
    <3> QED BY <1>b, <1>d, <3>1
  <2> QED BY <2>1, <2>2
<1>13. CASE Crash
  <2>1. Same /\ goal' = goal /\ pc' = "over" /\ lastAct' = FALSE
    BY <1>13 DEF Crash, outcome
  <2> QED BY <1>b, <1>e, <2>1
<1>14. CASE Webview \/ UNCHANGED vars
  <2>1. Same /\ UNCHANGED <<lastAct, goal, pc>>
    BY <1>14 DEF Webview, TakeLastAct, DoLastAct, LastActFails, record, engine, outcome, vars
  <2> QED BY <1>b, <1>d, <2>1
<1> QED BY <1>1, <1>2, <1>3, <1>4, <1>5, <1>6, <1>7, <1>8, <1>9, <1>10, <1>11, <1>12, <1>13,
           <1>14 DEF Next, Engine, Driver

-----------------------------------------------------------------------------
(* Decisions on their way. *)

LEMMA DecisionIs ==
  ASSUME TypeOK, NEW i
  PROVE  LET all == {k \in DOMAIN controls : IsDecision(controls[k]) /\ controls[k].of = i}
         IN  /\ all = {} => DecisionOf(i) = None
             /\ all # {} => DecisionOf(i) \in all /\ \A m \in all : m <= DecisionOf(i)
             /\ None \notin all
<1> DEFINE all == {k \in DOMAIN controls : IsDecision(controls[k]) /\ controls[k].of = i}
<1>1. Len(controls) \in Nat /\ DOMAIN controls = 1..Len(controls)
  BY LenProperties DEF TypeOK
<1>2. all \in SUBSET (1..Len(controls)) /\ None \notin all
  BY <1>1 DEF None
<1>3. DecisionOf(i) = IF all = {} THEN None ELSE CHOOSE k \in all : \A m \in all : m <= k
  BY DEF DecisionOf
<1> HIDE DEF all
<1>4. all # {} => \E k \in all : \A m \in all : m <= k
  BY <1>1, <1>2, Largest
<1>5. all = {} => DecisionOf(i) = None
  BY <1>3
<1>6. all # {} => DecisionOf(i) \in all /\ \A m \in all : m <= DecisionOf(i)
  BY <1>3, <1>4
<1> QED BY <1>2, <1>5, <1>6 DEF all

(* A control that decides nothing leaves the decisions as they are, and     *)
(* where the queue is emptied there are none.                              *)
Undeciding ==
  \/ UNCHANGED controls
  \/ controls' = <<>>
  \/ \E c : ~IsDecision(c) /\ Queue(c)

LEMMA SameDecisions ==
  ASSUME TypeOK, TypeOK', Undeciding, NEW i, DecisionOf(i)' # None
  PROVE  DecisionOf(i) # None /\ ShownAs(i)' = ShownAs(i)
<1> DEFINE all == {k \in DOMAIN controls : IsDecision(controls[k]) /\ controls[k].of = i}
           then == {k \in DOMAIN controls' : IsDecision(controls'[k]) /\ controls'[k].of = i}
<1>1. CASE UNCHANGED controls
  BY <1>1 DEF DecisionOf, ShownAs
<1>2. CASE controls' = <<>>
  <2>1. then = {}
    BY <1>2
  <2>2. DecisionOf(i)' = None
    BY <2>1 DEF DecisionOf
  <2> QED BY <2>2
<1>3. CASE \E c : ~IsDecision(c) /\ Queue(c)
  <2>1. PICK c : ~IsDecision(c) /\ controls' = Append(controls, c)
    BY <1>3 DEF Queue
  <2>2. Len(controls) \in Nat /\ DOMAIN controls = 1..Len(controls)
    BY LenProperties DEF TypeOK
  <2>3. /\ DOMAIN controls' = 1..Len(controls) + 1 /\ controls'[Len(controls) + 1] = c
        /\ \A k \in DOMAIN controls : controls'[k] = controls[k]
    BY <2>1, <2>2, AppendProperties DEF TypeOK
  <2>4. then = all
    BY <2>1, <2>2, <2>3
  <2>5. DecisionOf(i)' = DecisionOf(i)
    <3>1. DecisionOf(i) = IF all = {} THEN None ELSE CHOOSE k \in all : \A m \in all : m <= k
      BY DEF DecisionOf
    <3>2. DecisionOf(i)'
            = IF then = {} THEN None ELSE CHOOSE k \in then : \A m \in then : m <= k
      BY DEF DecisionOf, IsDecision
    <3> HIDE DEF all, then
    <3> QED BY <2>4, <3>1, <3>2
  <2>6. DecisionOf(i) \in DOMAIN controls
    BY <2>5, DecisionIs
  <2> QED BY <2>3, <2>5, <2>6 DEF ShownAs
<1> QED BY <1>1, <1>2, <1>3 DEF Undeciding

LEMMA PendingStays ==
  ASSUME TypeOK, Pending, Undeciding, UNCHANGED <<job, proposals>>
  PROVE  Pending'
<1>1. CASE UNCHANGED controls \/ controls' = <<>>
  BY <1>1 DEF Pending, LiveOf
<1>2. CASE \E c : ~IsDecision(c) /\ Queue(c)
  <2>1. PICK c : ~IsDecision(c) /\ controls' = Append(controls, c)
    BY <1>2 DEF Queue
  <2>2. Len(controls) \in Nat /\ DOMAIN controls = 1..Len(controls)
    BY LenProperties DEF TypeOK
  <2>3. /\ DOMAIN controls' = 1..Len(controls) + 1 /\ controls'[Len(controls) + 1] = c
        /\ \A k \in DOMAIN controls : controls'[k] = controls[k]
    BY <2>1, <2>2, AppendProperties DEF TypeOK
  <2>4. ASSUME NEW k \in DOMAIN controls', IsDecision(controls'[k])
        PROVE  k \in DOMAIN controls /\ controls'[k] = controls[k]
    BY <2>1, <2>2, <2>3, <2>4
  <2> QED BY <2>4 DEF Pending, LiveOf
<1> QED BY <1>1, <1>2 DEF Undeciding

-----------------------------------------------------------------------------
(* What taking the decisions does to what counts. *)

(* The proposals stay what they are about; fewer count, none is applied,    *)
(* and none that was applied changes without a decision.                   *)
Fewer(qs) ==
  /\ qs \in Seq(ProposalType) /\ DOMAIN qs = DOMAIN proposals
  /\ \A i \in DOMAIN proposals :
       /\ qs[i].kind = proposals[i].kind /\ qs[i].unit = proposals[i].unit
       /\ qs[i].sure = proposals[i].sure
       /\ qs[i].state = "Applied" => proposals[i].state = "Applied"
       /\ proposals[i].state = "Applied" /\ DecisionOf(i) = None => qs[i] = proposals[i]
  /\ \A u : LiveOf(qs, u) \subseteq LiveOf(proposals, u)

LEMMA DecidedFewer ==
  ASSUME TypeOK, Pending
  PROVE  /\ Fewer(Decided)
         /\ \A u : \A i \in LiveOf(proposals, u) \ LiveOf(Decided, u) :
              DecisionOf(i) # None /\ controls[DecisionOf(i)].kind # "accept"
<1>a. /\ Decided \in Seq(ProposalType) /\ DOMAIN Decided = DOMAIN proposals
      /\ \A i \in DOMAIN proposals : proposals[i] \in ProposalType
  BY DecidedTyped, ProposalsTyped
<1>b. ASSUME NEW i \in DOMAIN proposals, DecisionOf(i) # None
      PROVE  i \in LiveOf(proposals, proposals[i].unit)
  BY <1>b, DecisionIs DEF Pending
<1>c. ASSUME NEW i \in DOMAIN proposals
      PROVE  /\ DecisionOf(i) = None => Decided[i] = proposals[i]
             /\ DecisionOf(i) # None =>
                  /\ Decided[i].kind = proposals[i].kind /\ Decided[i].unit = proposals[i].unit
                  /\ Decided[i].sure = proposals[i].sure
                  /\ Decided[i].state = DecidedAs(controls[DecisionOf(i)])
  BY <1>a, <1>c DEF Decided, ProposalType
<1>d. \A c : DecidedAs(c) = IF c.kind = "accept" THEN "Accepted" ELSE "Dismissed"
  BY DEF DecidedAs
<1>1. ASSUME NEW i \in DOMAIN proposals
      PROVE  /\ Decided[i].kind = proposals[i].kind /\ Decided[i].unit = proposals[i].unit
             /\ Decided[i].sure = proposals[i].sure
             /\ Decided[i].state = "Applied" => proposals[i].state = "Applied"
             /\ proposals[i].state = "Applied" /\ DecisionOf(i) = None
                  => Decided[i] = proposals[i]
  BY <1>c, <1>d, <1>1
<1>2. ASSUME NEW u, NEW i \in LiveOf(Decided, u) PROVE i \in LiveOf(proposals, u)
  <2>1. i \in DOMAIN proposals
    BY <1>a, <1>2 DEF LiveOf
  <2>2. CASE DecisionOf(i) = None
    BY <1>2, <1>c, <2>1, <2>2 DEF LiveOf
  <2>3. CASE DecisionOf(i) # None
    BY <1>2, <1>b, <1>c, <2>1, <2>3 DEF LiveOf
  <2> QED BY <2>2, <2>3
<1>3. ASSUME NEW u, NEW i \in LiveOf(proposals, u) \ LiveOf(Decided, u)
      PROVE  DecisionOf(i) # None /\ controls[DecisionOf(i)].kind # "accept"
  <2>1. i \in DOMAIN proposals
    BY <1>3 DEF LiveOf
  <2> QED BY <1>a, <1>3, <1>c, <1>d, <2>1 DEF LiveOf
<1> QED BY <1>a, <1>1, <1>2, <1>3 DEF Fewer

LEMMA WithdrawnFewer ==
  ASSUME TypeOK, Pending
  PROVE  Fewer(Withdraw(Decided))
<1>a. Fewer(Decided)
  BY DecidedFewer
<1>b. Withdraw(Decided) \in Seq(ProposalType) /\ DOMAIN Withdraw(Decided) = DOMAIN proposals
  BY <1>a, WithdrawTyped DEF Withdraw, Fewer
<1>c. \A i \in DOMAIN proposals : Decided[i] \in ProposalType
  BY <1>a, ElementOfSeq DEF Fewer
<1>d. ASSUME NEW i \in DOMAIN proposals
      PROVE  \/ Withdraw(Decided)[i] = Decided[i]
             \/ /\ Withdraw(Decided)[i] = [Decided[i] EXCEPT !.state = "Superseded"]
                /\ Decided[i].state = "Proposed"
  BY <1>a, <1>d DEF Withdraw, Fewer
<1>e. ASSUME NEW i \in DOMAIN proposals
      PROVE  \/ Withdraw(Decided)[i] = Decided[i]
             \/ /\ Decided[i].state = "Proposed" /\ Withdraw(Decided)[i].state = "Superseded"
                /\ Withdraw(Decided)[i].kind = Decided[i].kind
                /\ Withdraw(Decided)[i].unit = Decided[i].unit
                /\ Withdraw(Decided)[i].sure = Decided[i].sure
  BY <1>c, <1>d, <1>e DEF ProposalType
<1>1. ASSUME NEW i \in DOMAIN proposals
      PROVE  LET q == Withdraw(Decided)[i] IN
             /\ q.kind = proposals[i].kind /\ q.unit = proposals[i].unit
             /\ q.sure = proposals[i].sure
             /\ q.state = "Applied" => proposals[i].state = "Applied"
             /\ proposals[i].state = "Applied" /\ DecisionOf(i) = None => q = proposals[i]
  BY <1>a, <1>e, <1>1 DEF Fewer
<1>2. ASSUME NEW u, NEW i \in LiveOf(Withdraw(Decided), u) PROVE i \in LiveOf(proposals, u)
  <2>1. i \in LiveOf(Decided, u)
    BY <1>a, <1>b, <1>e, <1>2 DEF LiveOf, Fewer
  <2> QED BY <1>a, <2>1 DEF Fewer
<1> QED BY <1>b, <1>1, <1>2 DEF Fewer

-----------------------------------------------------------------------------
(* The engine's steps keep the resolver and what was checked together. *)

LEMMA NoneDecided ==
  ASSUME controls' = <<>>, NEW i PROVE DecisionOf(i)' = None
<1> DEFINE then == {k \in DOMAIN controls' : IsDecision(controls'[k]) /\ controls'[k].of = i}
<1>1. then = {}
  OBVIOUS
<1>2. DecisionOf(i)' = IF then = {} THEN None ELSE CHOOSE k \in then : \A m \in then : m <= k
  BY DEF DecisionOf, IsDecision
<1> QED BY <1>1, <1>2

LEMMA EarnedGrows ==
  ASSUME NEW res, Earned(res), passed \subseteq passed',
         DOMAIN proposals \subseteq DOMAIN proposals',
         \A i \in DOMAIN proposals : proposals'[i].sure = proposals[i].sure,
         NEW q, q = res
  PROVE  /\ Configured /\ MayLand
         /\ \E result \in passed' : \A u \in Units :
              \/ q[u].by = "person" \/ result[u] = Own
              \/ /\ q[u].of = result[u] /\ result[u] \in DOMAIN proposals'
                 /\ proposals'[result[u]].sure
<1>1. PICK result \in passed : \A u \in Units :
        \/ res[u].by = "person" \/ result[u] = Own
        \/ /\ res[u].of = result[u] /\ result[u] \in DOMAIN proposals
           /\ proposals[result[u]].sure
  BY DEF Earned
<1>2. result \in passed'
  OBVIOUS
<1>3. \A u \in Units :
        \/ q[u].by = "person" \/ result[u] = Own
        \/ /\ q[u].of = result[u] /\ result[u] \in DOMAIN proposals'
           /\ proposals'[result[u]].sure
  BY <1>1
<1> QED BY <1>2, <1>3 DEF Earned

(* Where the checks begin, what they are about is what stands.             *)
LEMMA Rechecking == ASSUME Rechecked PROVE Stands'
<1>1. \A u \in Units : checked'[u] \in {Own, Latest(proposals, u)}
  BY DEF Rechecked, Standing
<1>2. \A u \in Units : checked'[u] \in {Own, Latest(proposals, u)'}
  BY <1>1 DEF Rechecked, Latest
<1> QED BY <1>2 DEF Stands

(* A step that touches neither the proposals nor the resolver.             *)
LEMMA Unmoved ==
  ASSUME EarnedInv, TypeOK', Undeciding, UNCHANGED <<job, proposals, resolver>>, Open' => Open,
         done \subseteq done', StillRan, passed \subseteq passed', acting' > 0 => acting > 0
  PROVE  Choosing'
<1>a. TypeOK /\ Choosing
  BY DEF EarnedInv, StepInv
<1>b. \A u : Latest(proposals, u)' = Latest(proposals, u)
  BY DEF Latest
<1>1. Certain' /\ Hands'
  BY <1>a DEF Choosing, Certain, Hands
<1>2. Pending'
  BY <1>a, PendingStays DEF Choosing
<1>3. Shown'
  <2> SUFFICES ASSUME Open', NEW u \in Units, NEW i, i = Latest(proposals, u), i # None,
                      DecisionOf(i)' # None
               PROVE  resolver'[u] = [of |-> ShownAs(i)', by |-> "person"]
    BY <1>b DEF Shown
  <2>1. DecisionOf(i) # None /\ ShownAs(i)' = ShownAs(i)
    BY <1>a, SameDecisions
  <2> QED BY <1>a, <2>1 DEF Choosing, Shown
<1>4. Agents'
  BY <1>a, <1>b DEF Choosing, Agents
<1>5. Stands'
  <2>1. CASE Rechecked
    BY <2>1, Rechecking
  <2>2. CASE Open' /\ Ran' /\ ~Rechecked
    <3>1. Open /\ Ran /\ checked' = checked
      BY <2>2 DEF StillRan
    <3> QED BY <1>a, <1>b, <3>1 DEF Choosing, Stands, Theirs
  <2>3. CASE ~(Open' /\ Ran')
    BY <2>3 DEF Stands
  <2> QED BY <2>1, <2>2, <2>3
<1>6. Landing'
  <2> SUFFICES ASSUME Open', acting' > 0
               PROVE  Earned(resolver)' /\ \A u \in Units : resolver'[u].of # None
    BY DEF Landing
  <2>1. Earned(resolver) /\ \A u \in Units : resolver[u].of # None
    BY <1>a DEF Choosing, Landing
  <2> QED BY <2>1, EarnedGrows DEF Earned
<1> QED BY <1>1, <1>2, <1>3, <1>4, <1>5, <1>6 DEF Choosing

(* The decisions are taken: what the agent put into the resolver has none.  *)
LEMMA Taken ==
  ASSUME EarnedInv, TypeOK', NEW qs, Fewer(qs), proposals' = qs, controls' = <<>>,
         UNCHANGED <<job, tips, acting, resolver>>, done \subseteq done', passed \subseteq passed'
  PROVE  Certain' /\ Pending' /\ Hands' /\ Shown' /\ Agents' /\ Landing'
<1>a. TypeOK /\ Choosing
  BY DEF EarnedInv, StepInv
<1>1. Certain' /\ Hands'
  BY <1>a DEF Choosing, Certain, Hands, Fewer
<1>2. Pending'
  BY DEF Pending
<1>3. Shown'
  BY NoneDecided DEF Shown
<1>4. Agents'
  <2> SUFFICES ASSUME Open', NEW u \in Units, resolver'[u].by = "agent"
               PROVE  /\ Units \subseteq done'
                      /\ Latest(proposals', u) # None /\ resolver'[u].of = Latest(proposals', u)
                      /\ proposals'[resolver'[u].of].state = "Applied"
    BY DEF Agents
  <2> DEFINE i == Latest(proposals, u)
  <2>1. /\ Open /\ Units \subseteq done /\ i # None /\ resolver[u].of = i
        /\ proposals[i].state = "Applied"
    BY <1>a DEF Choosing, Agents, Open
  <2>2. DecisionOf(i) = None
    <3> SUFFICES ASSUME DecisionOf(i) # None PROVE FALSE
      OBVIOUS
    <3>1. resolver[u] = [of |-> ShownAs(i), by |-> "person"]
      BY <1>a, <2>1 DEF Choosing, Shown
    <3> QED BY <3>1
  <2>3. i \in LiveOf(proposals, u)
    BY <1>a, <2>1, LatestOf DEF TypeOK
  <2>4. i \in DOMAIN proposals /\ qs[i] = proposals[i]
    BY <2>1, <2>2, <2>3 DEF LiveOf, Fewer
  <2>5. i \in LiveOf(qs, u)
    BY <2>3, <2>4 DEF LiveOf, Fewer
  <2>6. Latest(qs, u) = i
    BY <1>a, <2>5, LatestKept DEF Fewer, TypeOK
  <2> QED BY <2>1, <2>4, <2>6
<1>5. Landing'
  <2> SUFFICES ASSUME Open', acting' > 0
               PROVE  Earned(resolver)' /\ \A u \in Units : resolver'[u].of # None
    BY DEF Landing
  <2>1. Earned(resolver) /\ \A u \in Units : resolver[u].of # None
    BY <1>a DEF Choosing, Landing, Open
  <2> QED BY <2>1, EarnedGrows DEF Earned, Fewer
<1> QED BY <1>1, <1>2, <1>3, <1>4, <1>5

(* What was checked stands, or the person's own choice is in the resolver. *)
LEMMA TakenStands ==
  ASSUME EarnedInv, Decision, UNCHANGED <<job, tips, resolver>>, StillRan
  PROVE  Stands'
<1>a. /\ TypeOK /\ Choosing /\ Fewer(Decided) /\ Decided \in Seq(ProposalType)
      /\ proposals \in Seq(ProposalType)
  BY DecidedFewer, DecidedTyped DEF EarnedInv, StepInv, Choosing, TypeOK
<1>b. \A u : \A i \in LiveOf(proposals, u) \ LiveOf(Decided, u) :
        DecisionOf(i) # None /\ controls[DecisionOf(i)].kind # "accept"
  BY <1>a, DecidedFewer DEF Choosing
<1>1. CASE Rechecked
  BY <1>1, Rechecking
<1>2. CASE Open' /\ Ran' /\ ~Rechecked
  <2>1. Open /\ Ran /\ checked' = checked
    BY <1>2 DEF StillRan, Open
  <2> SUFFICES ASSUME NEW u \in Units
               PROVE  checked'[u] \in {Own, Latest(proposals', u)} \/ Theirs(u)'
    BY DEF Stands
  <2> DEFINE i == Latest(proposals, u)
             j == Latest(Decided, u)
  <2>2. proposals' = Decided
    BY DEF Decision
  <2>3. checked[u] \in {Own, i} \/ Theirs(u)
    BY <1>a, <2>1 DEF Choosing, Stands
  <2>4. CASE i # None /\ i \notin LiveOf(Decided, u)
    <3>1. i \in LiveOf(proposals, u) \ LiveOf(Decided, u)
      BY <1>a, <2>4, LatestOf
    <3>2. DecisionOf(i) # None /\ ShownAs(i) = Own
      BY <1>b, <3>1 DEF ShownAs
    <3>3. resolver[u] = [of |-> Own, by |-> "person"]
      BY <1>a, <2>1, <2>4, <3>2 DEF Choosing, Shown
    <3> QED BY <3>3 DEF Theirs
  <2>5. CASE i = None
    <3>1. LiveOf(Decided, u) = {}
      BY <1>a, <2>5, LatestOf DEF Fewer
    <3>2. j = None
      BY <1>a, <3>1, LatestOf
    <3> QED BY <2>1, <2>2, <2>3, <2>5, <3>2 DEF Theirs
  <2>6. CASE i \in LiveOf(Decided, u)
    <3>1. j = i /\ i \in DOMAIN proposals
      BY <1>a, <2>6, LatestKept DEF Fewer, LiveOf
    <3>2. Decided[i].state = "Applied" => proposals[i].state = "Applied"
      BY <1>a, <3>1 DEF Fewer
    <3> QED BY <2>1, <2>2, <2>3, <3>1, <3>2 DEF Theirs
  <2> QED BY <2>4, <2>5, <2>6
<1>3. CASE ~(Open' /\ Ran')
  BY <1>3 DEF Stands
<1> QED BY <1>1, <1>2, <1>3

(* The gate applies the proposal of its step; that of the checks has none.  *)
LEMMA AppliedKeeps ==
  ASSUME EarnedInv, TypeOK', Apply, UNCHANGED <<job, tips, acting, resolver, controls>>,
         done \subseteq done', passed \subseteq passed', StillRan
  PROVE  Choosing'
<1>a. TypeOK /\ Choosing /\ Place
  BY DEF EarnedInv, StepInv
<1>b. /\ Len(proposals) \in Nat /\ DOMAIN proposals = 1..Len(proposals)
      /\ \A i \in DOMAIN proposals : proposals[i] \in ProposalType
  BY <1>a, ProposalsTyped
<1>c. /\ DOMAIN proposals' = DOMAIN proposals
      /\ \A i \in DOMAIN proposals :
           \/ proposals'[i] = proposals[i]
           \/ /\ i = at /\ proposals[i].state = "Proposed" /\ proposals'[i].state = "Applied"
              /\ proposals[i].sure
              /\ proposals'[i].kind = proposals[i].kind /\ proposals'[i].unit = proposals[i].unit
              /\ proposals'[i].sure = proposals[i].sure
  <2>1. CASE ApplySure = proposals
    BY <2>1 DEF Apply
  <2>2. CASE ApplySure # proposals
    <3>1. /\ at \in DOMAIN proposals /\ proposals[at].state = "Proposed" /\ proposals[at].sure
          /\ ApplySure = [proposals EXCEPT ![at].state = "Applied", ![at].by = "agent"]
      BY <1>a, <1>b, <2>2 DEF ApplySure, TypeOK
    <3>2. /\ ApplySure[at].state = "Applied" /\ ApplySure[at].kind = proposals[at].kind
          /\ ApplySure[at].unit = proposals[at].unit /\ ApplySure[at].sure = proposals[at].sure
      BY <1>b, <3>1 DEF ProposalType
    <3>3. \A i \in DOMAIN proposals : i # at => ApplySure[i] = proposals[i]
      BY <1>b, <3>1
    <3>4. DOMAIN ApplySure = DOMAIN proposals
      BY <1>b, <3>1
    <3> QED BY <3>1, <3>2, <3>3, <3>4 DEF Apply
  <2> QED BY <2>1, <2>2
<1>d. \A u : LiveOf(proposals', u) = LiveOf(proposals, u)
  BY <1>c DEF LiveOf
<1>e. \A u : Latest(proposals', u) = Latest(proposals, u)
  BY <1>d, LatestSame
<1>f. \A i : DecisionOf(i)' = DecisionOf(i) /\ ShownAs(i)' = ShownAs(i)
  BY DEF DecisionOf, ShownAs
<1>1. Certain' /\ Hands'
  BY <1>a, <1>c DEF Choosing, Certain, Hands
<1>2. Pending'
  <2> SUFFICES ASSUME NEW k \in DOMAIN controls, IsDecision(controls[k])
               PROVE  /\ controls[k].of \in LiveOf(proposals', proposals'[controls[k].of].unit)
                      /\ job = "merge" => controls[k].kind # "dismiss"
    BY DEF Pending
  <2>1. /\ controls[k].of \in LiveOf(proposals, proposals[controls[k].of].unit)
        /\ job = "merge" => controls[k].kind # "dismiss"
    BY <1>a DEF Choosing, Pending
  <2>2. controls[k].of \in DOMAIN proposals
    BY <2>1 DEF LiveOf
  <2>3. proposals'[controls[k].of].unit = proposals[controls[k].of].unit
    BY <1>c, <2>2
  <2> QED BY <1>d, <2>1, <2>3
<1>3. Shown'
  BY <1>a, <1>e, <1>f DEF Choosing, Shown, Open
<1>4. Agents'
  <2> SUFFICES ASSUME Open', NEW u \in Units, resolver'[u].by = "agent"
               PROVE  /\ Units \subseteq done'
                      /\ Latest(proposals', u) # None /\ resolver'[u].of = Latest(proposals', u)
                      /\ proposals'[resolver'[u].of].state = "Applied"
    BY DEF Agents
  <2>1. /\ Units \subseteq done /\ Latest(proposals, u) # None
        /\ resolver[u].of = Latest(proposals, u)
        /\ proposals[resolver[u].of].state = "Applied"
    BY <1>a DEF Choosing, Agents, Open
  <2>2. Latest(proposals, u) \in DOMAIN proposals
    BY <1>a, <2>1, LatestOf DEF TypeOK, LiveOf
  <2> QED BY <1>c, <1>e, <2>1, <2>2
<1>5. Stands'
  <2>1. CASE Rechecked
    BY <2>1, Rechecking
  <2>2. CASE Open' /\ Ran' /\ ~Rechecked
    <3>1. Open /\ Ran /\ checked' = checked
      BY <2>2 DEF StillRan, Open
    <3>2. at = 0
      BY <1>a, <3>1 DEF Apply, Place, Ran
    <3>3. proposals' = proposals
      BY <3>2 DEF Apply, ApplySure
    <3> QED BY <1>a, <1>e, <3>1, <3>3 DEF Choosing, Stands, Theirs
  <2>3. CASE ~(Open' /\ Ran')
    BY <2>3 DEF Stands
  <2> QED BY <2>1, <2>2, <2>3
<1>6. Landing'
  <2> SUFFICES ASSUME Open', acting' > 0
               PROVE  Earned(resolver)' /\ \A u \in Units : resolver'[u].of # None
    BY DEF Landing
  <2>1. Earned(resolver) /\ \A u \in Units : resolver[u].of # None
    BY <1>a DEF Choosing, Landing, Open
  <2> QED BY <1>c, <2>1, EarnedGrows DEF Earned
<1> QED BY <1>1, <1>2, <1>3, <1>4, <1>5, <1>6 DEF Choosing

(* A proposal is made for a unit that is not finished, and no decision is   *)
(* on its way for it.                                                      *)
LEMMA ProposedKeeps ==
  ASSUME EarnedInv, TypeOK', pc = "ask", Propose, done \subseteq done', passed \subseteq passed',
         UNCHANGED <<job, tips, acting, resolver, controls, goal>>
  PROVE  Choosing'
<1>a. TypeOK /\ Choosing /\ Place /\ Aimed /\ proposals \in Seq(ProposalType)
  BY DEF EarnedInv, StepInv, TypeOK
<1>b. Len(proposals) \in Nat /\ DOMAIN proposals = 1..Len(proposals)
  BY <1>a, ProposalsTyped
<1>c. /\ DOMAIN proposals' = 1..Len(proposals) + 1
      /\ \A i \in DOMAIN proposals : i \in DOMAIN proposals' /\ proposals'[i] = proposals[i]
      /\ proposals'[Len(proposals) + 1].state = "Proposed"
  <2>1. PICK sure : proposals' = Append(proposals, Proposal(sure))
    BY DEF Propose
  <2>2. Proposal(sure).state = "Proposed"
    BY DEF Proposal
  <2> QED BY <1>a, <1>b, <2>1, <2>2, AppendProperties
<1>d. \A i \in DOMAIN proposals' : i \in DOMAIN proposals \/ i = Len(proposals) + 1
  BY <1>b, <1>c
<1>e. \A i \in DOMAIN proposals : \A u : i \in LiveOf(proposals', u) <=> i \in LiveOf(proposals, u)
  BY <1>c DEF LiveOf
<1>f. \A i : DecisionOf(i)' = DecisionOf(i) /\ ShownAs(i)' = ShownAs(i)
  BY DEF DecisionOf, ShownAs
<1>g. Open => ~(Units \subseteq done)
  BY <1>a DEF Open, Aimed, Place
<1>1. Certain' /\ Hands'
  BY <1>a, <1>c, <1>d DEF Choosing, Certain, Hands
<1>2. Pending'
  <2> SUFFICES ASSUME NEW k \in DOMAIN controls, IsDecision(controls[k])
               PROVE  /\ controls[k].of \in LiveOf(proposals', proposals'[controls[k].of].unit)
                      /\ job = "merge" => controls[k].kind # "dismiss"
    BY DEF Pending
  <2>1. /\ controls[k].of \in LiveOf(proposals, proposals[controls[k].of].unit)
        /\ job = "merge" => controls[k].kind # "dismiss"
    BY <1>a DEF Choosing, Pending
  <2>2. controls[k].of \in DOMAIN proposals
    BY <2>1 DEF LiveOf
  <2> QED BY <1>c, <1>e, <2>1, <2>2
<1>3. Shown'
  <2> SUFFICES ASSUME Open', NEW u \in Units, NEW i, i = Latest(proposals', u), i # None,
                      DecisionOf(i)' # None
               PROVE  resolver'[u] = [of |-> ShownAs(i)', by |-> "person"]
    BY DEF Shown
  <2>1. i \in LiveOf(proposals', u)
    BY LatestOf DEF TypeOK
  <2>2. i \in DOMAIN proposals
    BY <1>a, <1>f, DecisionIs DEF Choosing, Pending, LiveOf
  <2>3. i \in LiveOf(proposals, u) /\ LiveOf(proposals, u) \subseteq LiveOf(proposals', u)
    BY <1>c, <1>e, <2>1, <2>2 DEF LiveOf
  <2>4. Latest(proposals, u) = i
    BY <1>a, <2>3, LatestKept DEF TypeOK
  <2> QED BY <1>a, <1>f, <2>4 DEF Choosing, Shown, Open
<1>4. Agents'
  BY <1>a, <1>g DEF Choosing, Agents, Open
<1>5. Stands'
  BY <1>a DEF Stands, Ran, Aimed, Open, Place
<1>6. Landing'
  <2> SUFFICES ASSUME Open', acting' > 0
               PROVE  Earned(resolver)' /\ \A u \in Units : resolver'[u].of # None
    BY DEF Landing
  <2>1. Earned(resolver) /\ \A u \in Units : resolver[u].of # None
    BY <1>a DEF Choosing, Landing, Open
  <2> QED BY <1>c, <2>1, EarnedGrows DEF Earned
<1> QED BY <1>1, <1>2, <1>3, <1>4, <1>5, <1>6 DEF Choosing

LEMMA DoneGrows == ASSUME [Next]_vars PROVE done \subseteq done'
<1>1. CASE Halt("Stopped") \/ Halt("Failed") \/ Finish
  BY <1>1 DEF Halt, Finish
<1>2. CASE ~(Halt("Stopped") \/ Halt("Failed") \/ Finish)
  <2>1. CASE Engine
    <3>1. CASE Run \/ WaitMoved \/ Pause \/ Checkpoint \/ KeepPlan \/ Ask \/ RunChecks
      BY <3>1 DEF Run, WaitMoved, Pause, Checkpoint, KeepPlan, Ask, RunChecks, record
    <3>2. CASE Redo \/ PauseEnds \/ CarryOn \/ IgnoreControls \/ LastAct
      BY <3>2 DEF Redo, PauseEnds, CarryOn, IgnoreControls, Unheard, LastAct
    <3>3. CASE AgentActed \/ PersonActed \/ Gate
      BY <1>2, <3>3 DEF AgentActed, PersonActed, IsDone, Gate
    <3>4. CASE Stopped \/ WhyFails \/ OverLimit \/ ActFailed \/ HoldEnds
      BY <1>2, <3>4 DEF Stopped, WhyFails, OverLimit, ActFailed, HoldEnds
    <3> QED BY <2>1, <3>1, <3>2, <3>3, <3>4 DEF Engine
  <2>2. CASE Driver
    BY <1>2, <2>2 DEF Driver, StepFails, Answer, ChecksEnd, ChecksCutShort, record
  <2>3. CASE Person \/ Crash
    BY <2>3 DEF Person, Press, PressStop, PressLevel, Decide, Choose, Moves, Resume, Crash, record
  <2>4. CASE Webview \/ UNCHANGED vars
    BY <2>4 DEF Webview, TakeLastAct, DoLastAct, LastActFails, record, vars
  <2> QED BY <2>1, <2>2, <2>3, <2>4 DEF Next
<1> QED BY <1>1, <1>2

LEMMA EngineKeeps ==
  ASSUME EarnedInv, TypeOK', Engine \/ Driver, done \subseteq done', passed \subseteq passed',
         StillRan
  PROVE  Choosing'
<1>a. TypeOK /\ Choosing /\ Place
  BY DEF EarnedInv, StepInv
<1>1. UNCHANGED <<job, tips, acting, resolver, landed>> /\ Open' = Open
  BY EngineMoves DEF Open
<1>2. CASE UNCHANGED <<proposals, controls>>
  BY <1>1, <1>2, Unmoved DEF Undeciding
<1>3. CASE Decision /\ controls' = <<>>
  <2>1. Fewer(Decided) /\ proposals' = Decided
    BY <1>a, <1>3, DecidedFewer DEF Choosing, Decision
  <2>2. Certain' /\ Pending' /\ Hands' /\ Shown' /\ Agents' /\ Landing'
    BY <1>1, <1>3, <2>1, Taken
  <2> QED BY <1>1, <1>3, <2>2, TakenStands DEF Choosing
<1>4. CASE Redo /\ Again /\ controls' = <<>>
  <2>1. Fewer(Withdraw(Decided)) /\ proposals' = Withdraw(Decided)
    BY <1>a, <1>4, WithdrawnFewer DEF Choosing, Again
  <2>2. Certain' /\ Pending' /\ Hands' /\ Shown' /\ Agents' /\ Landing'
    BY <1>1, <1>4, <2>1, Taken
  <2>3. pc = "hold" /\ pc' = "begin" /\ goal' = goal
    BY <1>4 DEF Redo
  <2>4. ~Ran'
    BY <1>a, <2>3 DEF Ran, Place
  <2> QED BY <2>2, <2>4 DEF Choosing, Stands
<1>5. CASE Apply /\ UNCHANGED controls
  BY <1>1, <1>5, AppliedKeeps
<1>6. CASE pc = "ask" /\ Propose /\ UNCHANGED <<controls, goal>>
  BY <1>1, <1>6, ProposedKeeps
<1> QED BY <1>2, <1>3, <1>4, <1>5, <1>6, EngineMoves

-----------------------------------------------------------------------------
(* The person's steps. *)

(* A decision that is queued is the last one of its proposal.              *)
LEMMA Queued ==
  ASSUME TypeOK, TypeOK', NEW c, IsDecision(c), Queue(c), NEW j
  PROVE  /\ DecisionOf(c.of)' # None /\ controls'[DecisionOf(c.of)'] = c
         /\ j # c.of /\ DecisionOf(j)' # None
              => DecisionOf(j) # None /\ ShownAs(j)' = ShownAs(j)
<1> DEFINE mine == {k \in DOMAIN controls' : IsDecision(controls'[k]) /\ controls'[k].of = c.of}
           all  == {k \in DOMAIN controls : IsDecision(controls[k]) /\ controls[k].of = j}
           then == {k \in DOMAIN controls' : IsDecision(controls'[k]) /\ controls'[k].of = j}
           n    == Len(controls) + 1
<1>1. Len(controls) \in Nat /\ DOMAIN controls = 1..Len(controls)
  BY LenProperties DEF TypeOK
<1>2. /\ DOMAIN controls' = 1..n /\ controls'[n] = c
      /\ \A k \in DOMAIN controls : controls'[k] = controls[k]
  BY <1>1, AppendProperties DEF TypeOK, Queue
<1>3. n \in mine /\ \A k \in mine : k \in Nat /\ k <= n
  BY <1>1, <1>2
<1>4. DecisionOf(c.of)' = n
  <2>1. \A i : DecisionOf(i)'
          = LET those == {k \in DOMAIN controls' : IsDecision(controls'[k]) /\ controls'[k].of = i}
            IN  IF those = {} THEN None ELSE CHOOSE k \in those : \A m \in those : m <= k
    BY DEF DecisionOf, IsDecision
  <2>2. DecisionOf(c.of)' = CHOOSE k \in mine : \A m \in mine : m <= k
    BY <1>3, <2>1
  <2> HIDE DEF mine
  <2>3. \A k \in mine : (\A m \in mine : m <= k) <=> k = n
    BY <1>1, <1>3
  <2> QED BY <1>3, <2>2, <2>3
<1>5. ASSUME j # c.of PROVE DecisionOf(j)' = DecisionOf(j)
  <2>1. then = all
    BY <1>1, <1>2, <1>5
  <2>2. DecisionOf(j) = IF all = {} THEN None ELSE CHOOSE k \in all : \A m \in all : m <= k
    BY DEF DecisionOf
  <2>3. DecisionOf(j)' = IF then = {} THEN None ELSE CHOOSE k \in then : \A m \in then : m <= k
    BY DEF DecisionOf, IsDecision
  <2> HIDE DEF all, then
  <2> QED BY <2>1, <2>2, <2>3
<1>6. ASSUME j # c.of, DecisionOf(j)' # None
      PROVE  DecisionOf(j) # None /\ ShownAs(j)' = ShownAs(j)
  <2>1. DecisionOf(j)' = DecisionOf(j) /\ DecisionOf(j) # None
    BY <1>5, <1>6
  <2>2. DecisionOf(j) \in DOMAIN controls
    BY <2>1, DecisionIs
  <2> QED BY <1>2, <2>1, <2>2 DEF ShownAs
<1>7. n # None
  BY <1>1 DEF None
<1> QED BY <1>2, <1>4, <1>6, <1>7

(* What the person puts into the resolver is theirs.                       *)
LEMMA PersonShows ==
  ASSUME EarnedInv, TypeOK', NEW u \in Units, NEW x,
         resolver' = [resolver EXCEPT ![u] = [of |-> x, by |-> "person"]],
         x # None,
         x # Own => (Latest(proposals, u) # None
                        => proposals[Latest(proposals, u)].state # "Applied"),
         UNCHANGED <<job, tips, proposals, acting, passed>>,
         done \subseteq done', Ran' => Ran /\ checked' = checked
  PROVE  Certain' /\ Hands' /\ Agents' /\ Stands' /\ Landing'
<1>a. TypeOK /\ Choosing
  BY DEF EarnedInv, StepInv
<1>b. /\ resolver'[u].of = x /\ resolver'[u].by = "person"
      /\ \A v \in Units : v # u => resolver'[v] = resolver[v]
  BY <1>a DEF TypeOK
<1>c. \A v : Latest(proposals, v)' = Latest(proposals, v)
  BY DEF Latest
<1>1. Certain' /\ Hands'
  BY <1>a, <1>b DEF Choosing, Certain, Hands
<1>2. Agents'
  BY <1>a, <1>b, <1>c DEF Choosing, Agents, Open
<1>3. Stands'
  <2> SUFFICES ASSUME Open', Ran', NEW v \in Units
               PROVE  checked'[v] \in {Own, Latest(proposals', v)} \/ Theirs(v)'
    BY DEF Stands
  <2>1. Open /\ Ran /\ checked' = checked
    BY DEF Open
  <2>2. CASE v = u
    BY <1>b, <1>c, <2>2 DEF Theirs
  <2>3. CASE v # u
    <3>1. checked[v] \in {Own, Latest(proposals, v)} \/ Theirs(v)
      BY <1>a, <2>1 DEF Choosing, Stands
    <3> QED BY <1>b, <1>c, <2>1, <2>3, <3>1 DEF Theirs
  <2> QED BY <2>2, <2>3
<1>4. Landing'
  <2> SUFFICES ASSUME Open', acting' > 0
               PROVE  Earned(resolver)' /\ \A v \in Units : resolver'[v].of # None
    BY DEF Landing
  <2>1. Earned(resolver) /\ \A v \in Units : resolver[v].of # None
    BY <1>a DEF Choosing, Landing, Open
  <2>2. PICK result \in passed : \A v \in Units :
          \/ resolver[v].by = "person" \/ result[v] = Own
          \/ /\ resolver[v].of = result[v] /\ result[v] \in DOMAIN proposals
             /\ proposals[result[v]].sure
    BY <2>1 DEF Earned
  <2>3. \A v \in Units :
          \/ resolver'[v].by = "person" \/ result[v] = Own
          \/ /\ resolver'[v].of = result[v] /\ result[v] \in DOMAIN proposals'
             /\ proposals'[result[v]].sure
    BY <1>b, <2>2
  <2>4. Configured /\ MayLand
    BY <2>1 DEF Earned
  <2>5. Earned(resolver)'
    BY <2>2, <2>3, <2>4 DEF Earned
  <2> QED BY <1>b, <2>1, <2>5
<1> QED BY <1>1, <1>2, <1>3, <1>4

(* A decision queued about the newest proposal for u is of one that counts. *)
LEMMA PendingGrows ==
  ASSUME TypeOK, Pending, NEW c, IsDecision(c), Queue(c), NEW u, c.of = Latest(proposals, u),
         c.of # None, job = "merge" => c.kind # "dismiss", UNCHANGED <<job, proposals>>
  PROVE  Pending'
<1>1. Len(controls) \in Nat /\ DOMAIN controls = 1..Len(controls)
  BY LenProperties DEF TypeOK
<1>2. /\ DOMAIN controls' = 1..Len(controls) + 1 /\ controls'[Len(controls) + 1] = c
      /\ \A k \in DOMAIN controls : controls'[k] = controls[k]
  BY <1>1, AppendProperties DEF TypeOK, Queue
<1>3. c.of \in LiveOf(proposals, u)
  BY LatestOf DEF TypeOK
<1>4. c.of \in LiveOf(proposals, proposals[c.of].unit)
  BY <1>3 DEF LiveOf
<1>5. \A k \in DOMAIN controls' : k \in DOMAIN controls \/ controls'[k] = c
  BY <1>1, <1>2
<1> SUFFICES ASSUME NEW k \in DOMAIN controls', IsDecision(controls'[k])
             PROVE  /\ controls'[k].of \in LiveOf(proposals', proposals'[controls'[k].of].unit)
                    /\ job' = "merge" => controls'[k].kind # "dismiss"
  BY DEF Pending, IsDecision
<1>6. CASE k \in DOMAIN controls
  BY <1>2, <1>6 DEF Pending
<1>7. CASE controls'[k] = c
  BY <1>4, <1>7
<1> QED BY <1>5, <1>6, <1>7

(* And the resolver shows it.                                              *)
LEMMA ShownGrows ==
  ASSUME EarnedInv, TypeOK', NEW c, IsDecision(c), Queue(c), NEW u \in Units,
         c.of = Latest(proposals, u), c.of # None, UNCHANGED <<job, tips, proposals>>,
         resolver' = [resolver EXCEPT ![u] =
                        [of |-> IF c.kind = "accept" THEN c.of ELSE Own, by |-> "person"]]
  PROVE  Shown'
<1>a. TypeOK /\ Choosing /\ \A v : Latest(proposals, v)' = Latest(proposals, v)
  BY DEF EarnedInv, StepInv, Latest
<1> SUFFICES ASSUME Open', NEW v \in Units, NEW i, i = Latest(proposals, v), i # None,
                    DecisionOf(i)' # None
             PROVE  resolver'[v] = [of |-> ShownAs(i)', by |-> "person"]
  BY <1>a DEF Shown
<1>1. CASE v = u
  <2>1. i = c.of /\ controls'[DecisionOf(i)'] = c
    BY <1>a, <1>1, Queued
  <2>2. ShownAs(i)' = IF c.kind = "accept" THEN c.of ELSE Own
    BY <2>1 DEF ShownAs
  <2> QED BY <1>a, <1>1, <2>2 DEF TypeOK
<1>2. CASE v # u
  <2>1. i \in LiveOf(proposals, v) /\ c.of \in LiveOf(proposals, u)
    BY <1>a, LatestOf DEF TypeOK
  <2>2. i # c.of
    BY <1>2, <2>1 DEF LiveOf
  <2>3. DecisionOf(i) # None /\ ShownAs(i)' = ShownAs(i)
    BY <1>a, <2>2, Queued
  <2>4. resolver'[v] = resolver[v]
    BY <1>a, <1>2 DEF TypeOK
  <2> QED BY <1>a, <2>3, <2>4 DEF Choosing, Shown, Open
<1> QED BY <1>1, <1>2

LEMMA DecideKeeps ==
  ASSUME EarnedInv, TypeOK', Decide, done \subseteq done', StillRan PROVE Choosing'
<1>a. TypeOK /\ Choosing
  BY DEF EarnedInv, StepInv
<1>b. /\ UNCHANGED <<job, tips, proposals, acting, passed>>
      /\ Ran' => Ran /\ checked' = checked
  BY DEF Decide, record, engine, outcome, Ran
<1>1. PICK k \in Controls \cap {"accept", "dismiss"}, u \in Units :
        LET i == Latest(proposals, u) IN
        /\ i # None
        /\ k = "accept" => proposals[i].state = "Proposed"
        /\ k = "dismiss" => job = "review"
        /\ Queue(Control(k, i))
        /\ resolver' = IF k = "accept" THEN [resolver EXCEPT ![u] = [of |-> i, by |-> "person"]]
                       ELSE resolver
  BY DEF Decide
<1> DEFINE c == Control(k, Latest(proposals, u))
<1>2. IsDecision(c) /\ Queue(c) /\ c.of = Latest(proposals, u) /\ c.of # None /\ c.kind = k
  BY <1>1 DEF IsDecision, Control
<1>3. Pending'
  BY <1>a, <1>b, <1>1, <1>2, PendingGrows DEF Choosing
<1>4. CASE k = "accept"
  <2>1. resolver' = [resolver EXCEPT ![u] = [of |-> c.of, by |-> "person"]]
    BY <1>1, <1>2, <1>4
  <2>2. proposals[Latest(proposals, u)].state # "Applied"
    BY <1>1, <1>4
  <2>3. Certain' /\ Hands' /\ Agents' /\ Stands' /\ Landing'
    <3> HIDE DEF c
    <3> QED BY <1>b, <1>2, <2>1, <2>2, PersonShows
  <2>4. Shown'
    <3> HIDE DEF c
    <3> QED BY <1>b, <1>2, <1>4, <2>1, ShownGrows
  <2> QED BY <1>3, <2>3, <2>4 DEF Choosing
<1>5. CASE k = "dismiss"
  <2>1. resolver' = resolver /\ ~Open'
    BY <1>b, <1>1, <1>5 DEF Open
  <2> QED BY <1>a, <1>b, <1>3, <2>1 DEF Choosing, Certain, Hands, Shown, Agents, Stands, Landing
<1> QED BY <1>4, <1>5

LEMMA ChooseKeeps ==
  ASSUME EarnedInv, TypeOK', Choose, done \subseteq done', StillRan PROVE Choosing'
<1>a. TypeOK /\ Choosing
  BY DEF EarnedInv, StepInv
<1>b. /\ UNCHANGED <<job, tips, proposals, acting, passed>>
      /\ Ran' => Ran /\ checked' = checked
  BY DEF Choose, record, engine, outcome, Ran
<1>1. PICK u \in Units :
        /\ resolver' = [resolver EXCEPT ![u] = [of |-> Own, by |-> "person"]]
        /\ LET i == Latest(proposals, u) IN
           IF i # None THEN Queue(Control("own", i)) ELSE UNCHANGED controls
  BY DEF Choose
<1>2. Certain' /\ Hands' /\ Agents' /\ Stands' /\ Landing'
  <2>1. Own # None
    BY DEF Own, None
  <2> QED BY <1>b, <1>1, <2>1, PersonShows
<1>3. CASE Latest(proposals, u) # None
  <2> DEFINE c == Control("own", Latest(proposals, u))
  <2>1. IsDecision(c) /\ Queue(c) /\ c.of = Latest(proposals, u) /\ c.of # None /\ c.kind = "own"
    BY <1>1, <1>3 DEF IsDecision, Control
  <2> HIDE DEF c
  <2>2. Pending'
    BY <1>a, <1>b, <2>1, PendingGrows DEF Choosing
  <2>3. Shown'
    BY <1>b, <1>1, <2>1, ShownGrows
  <2> QED BY <1>2, <2>2, <2>3 DEF Choosing
<1>4. CASE Latest(proposals, u) = None
  <2>1. UNCHANGED controls
    BY <1>1, <1>4
  <2>2. Pending'
    BY <1>a, <1>b, <2>1, PendingStays DEF Choosing, Undeciding
  <2>3. Shown'
    <3> SUFFICES ASSUME Open', NEW v \in Units, NEW i, i = Latest(proposals, v), i # None,
                        DecisionOf(i)' # None
                 PROVE  resolver'[v] = [of |-> ShownAs(i)', by |-> "person"]
      BY <1>b DEF Shown, Latest
    <3>1. DecisionOf(i) # None /\ ShownAs(i)' = ShownAs(i)
      BY <1>a, <2>1, SameDecisions DEF Undeciding
    <3>2. resolver'[v] = resolver[v]
      BY <1>a, <1>1, <1>4 DEF TypeOK
    <3> QED BY <1>a, <1>b, <3>1, <3>2 DEF Choosing, Shown, Open
  <2> QED BY <1>2, <2>2, <2>3 DEF Choosing
<1> QED BY <1>3, <1>4

LEMMA PersonKeeps ==
  ASSUME EarnedInv, TypeOK', Person \/ Crash, done \subseteq done', passed \subseteq passed',
         StillRan
  PROVE  Choosing'
<1>1. CASE Press
  <2>1. UNCHANGED <<job, proposals, resolver, tips, acting>>
    BY <1>1 DEF Press, webview
  <2>2. PICK k : Offered(k) /\ Queue(Control(k, None))
    BY <1>1 DEF Press
  <2>3. ~IsDecision(Control(k, None))
    BY <2>2 DEF Offered, IsDecision, Control
  <2> QED BY <2>1, <2>2, <2>3, Unmoved DEF Undeciding, Open
<1>2. CASE PressStop \/ PressLevel
  <2>1. UNCHANGED <<job, proposals, resolver, tips, acting, controls>>
    BY <1>2 DEF PressStop, PressLevel, webview, record
  <2> QED BY <2>1, Unmoved DEF Undeciding, Open
<1>3. CASE Moves
  <2>1. UNCHANGED <<job, proposals, resolver, acting>> /\ tips' = TRUE
    BY <1>3 DEF Moves, webview, record
  <2>2. UNCHANGED controls \/ Queue(Control("moved", None))
    BY <1>3 DEF Moves
  <2>3. ~IsDecision(Control("moved", None))
    BY DEF IsDecision, Control
  <2> QED BY <2>1, <2>2, <2>3, Unmoved DEF Undeciding, Open
<1>4. CASE Resume
  <2>1. UNCHANGED <<job, proposals, resolver, acting, tips>> /\ controls' = <<>>
    BY <1>4 DEF Resume
  <2> QED BY <2>1, Unmoved DEF Undeciding, Open
<1>5. CASE Crash
  <2>1. UNCHANGED <<job, proposals, resolver, tips>> /\ controls' = <<>> /\ ~(acting' > 0)
    BY <1>5 DEF Crash
  <2> QED BY <2>1, Unmoved DEF Undeciding, Open
<1> QED BY <1>1, <1>2, <1>3, <1>4, <1>5, DecideKeeps, ChooseKeeps DEF Person

-----------------------------------------------------------------------------
(* The webview's steps. *)

(* Where the last act is asked for, what is chosen with what the agent      *)
(* applied is what has passed the checks.                                  *)
LEMMA AppliedEarned ==
  ASSUME EarnedInv, Open, lastAct, \A u \in Units : WithApplied[u].of # None
  PROVE  Earned(WithApplied)
<1>a. TypeOK /\ Choosing /\ Place /\ Passes /\ Asked
  BY DEF EarnedInv, StepInv
<1>1. Configured /\ MayLand /\ ~failed /\ Ran /\ pc # "checking" /\ Units \subseteq done
  BY <1>a DEF Asked, Place, Open, Ran
<1>2. checked \in passed
  BY <1>a, <1>1 DEF Passes
<1>3. ASSUME NEW u \in Units
      PROVE  \/ WithApplied[u].by = "person" \/ checked[u] = Own
             \/ /\ WithApplied[u].of = checked[u] /\ checked[u] \in DOMAIN proposals
                /\ proposals[checked[u]].sure
  <2> DEFINE i == Latest(proposals, u)
  <2>a. WithApplied[u] =
          IF i # None /\ proposals[i].state = "Applied" /\ resolver[u].of \notin {Own, i}
            THEN [of |-> i, by |-> "agent"] ELSE resolver[u]
    BY DEF WithApplied
  <2>b. checked[u] \in {Own, i} \/ Theirs(u)
    BY <1>a, <1>1 DEF Choosing, Stands
  <2>1. CASE Theirs(u)
    BY <2>a, <2>1 DEF Theirs
  <2>2. CASE checked[u] = Own
    BY <2>2
  <2>3. CASE checked[u] = i /\ i # None /\ proposals[i].state = "Applied"
    <3>1. i \in DOMAIN proposals
      BY <1>a, <2>3, LatestOf DEF TypeOK, LiveOf
    <3>2. proposals[i].sure
      BY <1>a, <2>3, <3>1 DEF Choosing, Certain
    <3>3. CASE resolver[u].of = Own
      BY <1>a, <2>a, <3>3 DEF Choosing, Hands
    <3>4. CASE resolver[u].of # Own
      <4>1. WithApplied[u].of = i
        BY <2>a, <2>3, <3>4
      <4> QED BY <2>3, <3>1, <3>2, <4>1
    <3> QED BY <3>3, <3>4
  <2>4. CASE i = None \/ proposals[i].state # "Applied"
    <3>1. WithApplied[u] = resolver[u]
      BY <2>a, <2>4
    <3>2. resolver[u].by # "nobody"
      BY <1>a, <3>1 DEF Choosing, Hands
    <3>3. resolver[u].by # "agent"
      BY <1>a, <2>4 DEF Choosing, Agents
    <3>4. resolver[u].by \in {"nobody", "person", "agent"}
      BY <1>a DEF TypeOK, ResolverChoice, Deciders
    <3> QED BY <3>1, <3>2, <3>3, <3>4
  <2> QED BY <2>b, <2>1, <2>2, <2>3, <2>4
<1> QED BY <1>1, <1>2, <1>3 DEF Earned

LEMMA TakeKeeps ==
  ASSUME EarnedInv, TypeOK', TakeLastAct, StillRan PROVE Choosing'
<1>a. TypeOK /\ Choosing /\ Place
  BY DEF EarnedInv, StepInv
<1>b. /\ UNCHANGED <<job, tips, proposals, done, passed>> /\ lastAct
      /\ UNCHANGED controls \/ Queue(Control("failed", None))
  BY DEF TakeLastAct, record, outcome
<1>c. Undeciding
  BY <1>b DEF Undeciding, IsDecision, Control
<1>d. \A u : Latest(proposals, u)' = Latest(proposals, u)
  BY <1>b DEF Latest
<1>e. Ran' => Ran /\ checked' = checked
  BY DEF TakeLastAct, engine, Ran, record
<1>1. CASE job = "merge"
  <2>a. resolver' = WithApplied
    BY <1>1 DEF TakeLastAct
  <2>b. \A u \in Units :
          LET i == Latest(proposals, u) IN
          \/ resolver'[u] = resolver[u]
          \/ /\ i # None /\ proposals[i].state = "Applied" /\ resolver[u].of \notin {Own, i}
             /\ resolver'[u] = [of |-> i, by |-> "agent"]
    BY <2>a DEF WithApplied
  <2>1. Certain' /\ Pending'
    BY <1>a, <1>b, <1>c, PendingStays DEF Choosing, Certain
  <2>2. Hands'
    <3>1. ASSUME NEW u \in Units PROVE Latest(proposals, u) # Own
      <4>1. Latest(proposals, u) \in 0..Len(proposals) /\ Len(proposals) \in Nat
        BY <1>a, LatestIs, LenProperties DEF TypeOK
      <4> QED BY <4>1 DEF Own
    <3> SUFFICES ASSUME NEW u \in Units
                 PROVE  /\ resolver'[u].of = Own => resolver'[u].by = "person"
                        /\ resolver'[u].by = "nobody" => resolver'[u].of = None
      BY DEF Hands
    <3>2. CASE resolver'[u] = resolver[u]
      BY <1>a, <3>2 DEF Choosing, Hands
    <3>3. CASE resolver'[u] = [of |-> Latest(proposals, u), by |-> "agent"]
      BY <3>1, <3>3
    <3> QED BY <2>b, <3>2, <3>3
  <2>3. Shown'
    <3> SUFFICES ASSUME Open', NEW u \in Units, NEW i, i = Latest(proposals, u), i # None,
                        DecisionOf(i)' # None
                 PROVE  resolver'[u] = [of |-> ShownAs(i)', by |-> "person"]
      BY <1>d DEF Shown
    <3>1. DecisionOf(i) # None /\ ShownAs(i)' = ShownAs(i)
      BY <1>a, <1>c, SameDecisions
    <3>2. resolver[u] = [of |-> ShownAs(i), by |-> "person"]
      BY <1>a, <1>b, <3>1 DEF Choosing, Shown, Open
    <3>3. resolver[u].of \in {Own, i}
      BY <3>2 DEF ShownAs
    <3> QED BY <2>b, <3>1, <3>2, <3>3
  <2>4. Agents'
    <3>1. Units \subseteq done
      BY <1>a, <1>b DEF Place
    <3> SUFFICES ASSUME Open', NEW u \in Units, resolver'[u].by = "agent"
                 PROVE  /\ Latest(proposals, u) # None
                        /\ resolver'[u].of = Latest(proposals, u)
                        /\ proposals[Latest(proposals, u)].state = "Applied"
      BY <1>b, <1>d, <3>1 DEF Agents
    <3>2. CASE resolver'[u] = resolver[u]
      BY <1>a, <1>b, <3>2 DEF Choosing, Agents, Open
    <3>3. CASE resolver'[u] # resolver[u]
      <4>1. /\ Latest(proposals, u) # None
            /\ proposals[Latest(proposals, u)].state = "Applied"
            /\ resolver'[u] = [of |-> Latest(proposals, u), by |-> "agent"]
        BY <2>b, <3>3
      <4> QED BY <4>1
    <3> QED BY <3>2, <3>3
  <2>5. Stands'
    <3> SUFFICES ASSUME Open', Ran', NEW u \in Units
                 PROVE  checked'[u] \in {Own, Latest(proposals', u)} \/ Theirs(u)'
      BY DEF Stands
    <3>1. checked[u] \in {Own, Latest(proposals, u)} \/ Theirs(u)
      BY <1>a, <1>b, <1>e DEF Choosing, Stands, Open
    <3>2. CASE Theirs(u)
      <4>1. resolver'[u] = resolver[u]
        BY <2>b, <3>2 DEF Theirs
      <4> QED BY <1>b, <1>d, <3>2, <4>1 DEF Theirs
    <3> QED BY <1>d, <1>e, <3>1, <3>2
  <2>6. Landing'
    <3> SUFFICES ASSUME Open', acting' > 0
                 PROVE  Earned(resolver)' /\ \A u \in Units : resolver'[u].of # None
      BY DEF Landing
    <3>1. Open
      BY <1>b DEF Open
    <3>2. \A u \in Units : resolver'[u].of # None
      <4>1. CASE acting > 0
        <5> SUFFICES ASSUME NEW u \in Units PROVE resolver'[u].of # None
          OBVIOUS
        <5>1. resolver[u].of # None
          BY <1>a, <3>1, <4>1 DEF Choosing, Landing
        <5>2. CASE resolver'[u] # resolver[u]
          <6>1. /\ Latest(proposals, u) # None
                /\ resolver'[u] = [of |-> Latest(proposals, u), by |-> "agent"]
            BY <2>b, <5>2
          <6> QED BY <6>1
        <5> QED BY <5>1, <5>2
      <4>2. CASE ~(acting > 0)
        BY <1>1, <4>2 DEF TakeLastAct
      <4> QED BY <4>1, <4>2
    <3>3. Earned(WithApplied)
      BY <1>b, <2>a, <3>1, <3>2, AppliedEarned
    <3> QED BY <1>b, <2>a, <3>2, <3>3, EarnedGrows DEF Earned
  <2> QED BY <2>1, <2>2, <2>3, <2>4, <2>5, <2>6 DEF Choosing
<1>2. CASE job # "merge"
  <2>1. resolver' = resolver /\ ~Open /\ ~Open'
    BY <1>b, <1>2 DEF TakeLastAct, Open
  <2>2. Pending'
    BY <1>a, <1>b, <1>c, PendingStays DEF Choosing
  <2> QED BY <1>a, <1>b, <2>1, <2>2
          DEF Choosing, Certain, Hands, Shown, Agents, Stands, Landing
<1> QED BY <1>1, <1>2

LEMMA ActKeeps ==
  ASSUME EarnedInv, TypeOK', DoLastAct \/ LastActFails, StillRan
  PROVE  Choosing' /\ LandedIsEarned'
<1>a. TypeOK /\ Choosing /\ LandedIsEarned
  BY DEF EarnedInv, StepInv
<1>b. UNCHANGED <<job, proposals, done, passed>> /\ acting > 0
  BY DEF DoLastAct, LastActFails, record, outcome
<1>c. Undeciding
  <2>1. Queue(Control("acted", None)) \/ Queue(Control("failed", None))
    BY DEF DoLastAct, LastActFails
  <2> QED BY <2>1 DEF Undeciding, IsDecision, Control
<1>1. CASE DoLastAct /\ job = "merge"
  <2>1. ~tips /\ tips' = TRUE /\ landed' = <<resolver>> /\ resolver' = [u \in Units |-> Empty]
    BY <1>1 DEF DoLastAct, Lands
  <2>2. Earned(resolver)
    BY <1>a, <1>b, <1>1, <2>1 DEF Choosing, Landing, Open
  <2>3. LandedIsEarned'
    <3>1. \A n \in DOMAIN landed' : landed'[n] = resolver
      BY <2>1
    <3> QED BY <1>b, <2>2, <3>1 DEF LandedIsEarned, Earned
  <2>4. Certain' /\ Pending'
    BY <1>a, <1>b, <1>c, PendingStays DEF Choosing, Certain
  <2>5. Hands'
    BY <2>1 DEF Hands, Empty, Own, None
  <2> QED BY <2>1, <2>3, <2>4, <2>5 DEF Choosing, Shown, Agents, Stands, Landing, Open
<1>2. CASE LastActFails \/ (DoLastAct /\ job # "merge")
  <2>1. UNCHANGED <<resolver, tips, landed>>
    BY <1>2 DEF LastActFails, DoLastAct, outcome
  <2>2. Choosing'
    BY <1>b, <1>c, <2>1, Unmoved DEF Open
  <2> QED BY <1>a, <1>b, <2>1, <2>2 DEF LandedIsEarned
<1> QED BY <1>1, <1>2

-----------------------------------------------------------------------------
LEMMA LandedStays ==
  ASSUME EarnedInv, [Next]_vars, ~DoLastAct, passed \subseteq passed'
  PROVE  LandedIsEarned'
<1>a. TypeOK /\ Choosing /\ LandedIsEarned
  BY DEF EarnedInv, StepInv
<1>1. landed' = landed
  <2>1. CASE Engine \/ Driver
    BY <2>1, EngineMoves
  <2>2. CASE Person \/ Crash
    BY <2>2 DEF Person, Press, PressStop, PressLevel, Decide, Choose, Moves, Resume, Crash,
                outcome
  <2>3. CASE Webview \/ UNCHANGED vars
    BY <2>3 DEF Webview, TakeLastAct, LastActFails, outcome, vars
  <2> QED BY <2>1, <2>2, <2>3 DEF Next
<1>2. /\ DOMAIN proposals \subseteq DOMAIN proposals'
      /\ \A i \in DOMAIN proposals : proposals'[i].sure = proposals[i].sure
  <2>a. /\ Len(proposals) \in Nat /\ DOMAIN proposals = 1..Len(proposals)
        /\ \A i \in DOMAIN proposals : proposals[i] \in ProposalType
    BY <1>a, ProposalsTyped
  <2>1. CASE UNCHANGED proposals
    BY <2>1
  <2>2. CASE Decision
    BY <1>a, <2>2, DecidedFewer DEF Decision, Fewer, Choosing
  <2>3. CASE Again
    BY <1>a, <2>3, WithdrawnFewer DEF Again, Fewer, Choosing
  <2>4. CASE Apply
    <3>1. CASE ApplySure = proposals
      BY <2>4, <3>1 DEF Apply
    <3>2. CASE ApplySure # proposals
      <4>1. /\ at \in DOMAIN proposals
            /\ ApplySure = [proposals EXCEPT ![at].state = "Applied", ![at].by = "agent"]
        BY <1>a, <2>a, <3>2 DEF ApplySure, TypeOK
      <4>2. ApplySure[at].sure = proposals[at].sure
        BY <2>a, <4>1 DEF ProposalType
      <4>3. \A i \in DOMAIN proposals : i # at => ApplySure[i] = proposals[i]
        BY <2>a, <4>1
      <4>4. DOMAIN ApplySure = DOMAIN proposals
        BY <2>a, <4>1
      <4> QED BY <2>4, <4>2, <4>3, <4>4 DEF Apply
    <3> QED BY <3>1, <3>2
  <2>5. CASE Propose
    <3>1. PICK sure : proposals' = Append(proposals, Proposal(sure))
      BY <2>5 DEF Propose
    <3> QED BY <1>a, <2>a, <3>1, AppendProperties DEF TypeOK
  <2> QED BY <2>1, <2>2, <2>3, <2>4, <2>5, ProposalsMove
<1> SUFFICES ASSUME NEW n \in DOMAIN landed
             PROVE  /\ Configured /\ MayLand
                    /\ \E result \in passed' : \A u \in Units :
                         \/ landed[n][u].by = "person" \/ result[u] = Own
                         \/ /\ landed[n][u].of = result[u] /\ result[u] \in DOMAIN proposals'
                            /\ proposals'[result[u]].sure
  BY <1>1 DEF LandedIsEarned
<1>3. Earned(landed[n])
  BY <1>a DEF LandedIsEarned, Earned
<1> QED BY <1>2, <1>3, EarnedGrows

LEMMA EarnedInit == ASSUME Init PROVE EarnedInv
<1>1. /\ goal = Goal("read", 0) /\ pc = "start" /\ lastAct = FALSE /\ proposals = <<>>
      /\ controls = <<>> /\ acting = 0 /\ landed = <<>>
      /\ \A u \in Units : resolver[u] = Empty
  BY DEF Init
<1>2. Place /\ Passes /\ Asked
  BY <1>1 DEF Place, Passes, Asked, Ran, Goal
<1>3. Certain /\ Pending
  BY <1>1 DEF Certain, Pending
<1>4. Hands /\ Agents /\ Stands /\ Landing
  BY <1>1 DEF Hands, Empty, Own, None, Agents, Stands, Ran, Goal, Landing
<1>5. Shown
  <2>1. \A u : LiveOf(proposals, u) = {}
    BY <1>1 DEF LiveOf
  <2>2. \A u : Latest(proposals, u) = None
    <3>1. TypeOK
      BY StepInvInit DEF StepInv
    <3> QED BY <2>1, <3>1, LatestOf DEF TypeOK
  <2> QED BY <2>2 DEF Shown
<1>6. LandedIsEarned
  BY <1>1 DEF LandedIsEarned
<1> QED BY <1>2, <1>3, <1>4, <1>5, <1>6, StepInvInit DEF EarnedInv, Choosing

LEMMA EarnedStep == ASSUME EarnedInv, [Next]_vars PROVE EarnedInv'
<1>1. StepInv' /\ TypeOK'
  BY StepInvStep DEF EarnedInv, StepInv
<1>2. Place' /\ Passes' /\ Asked' /\ StillRan /\ passed \subseteq passed'
  BY PlaceStep, CheckStep DEF EarnedInv
<1>3. done \subseteq done'
  BY DoneGrows
<1>4. CASE DoLastAct
  BY <1>1, <1>2, <1>4, ActKeeps DEF EarnedInv
<1>5. CASE ~DoLastAct
  <2>1. LandedIsEarned'
    BY <1>2, <1>5, LandedStays
  <2>2. Choosing'
    <3>1. CASE Engine \/ Driver
      BY <1>1, <1>2, <1>3, <3>1, EngineKeeps
    <3>2. CASE Person \/ Crash
      BY <1>1, <1>2, <1>3, <3>2, PersonKeeps
    <3>3. CASE TakeLastAct
      BY <1>1, <1>2, <3>3, TakeKeeps
    <3>4. CASE LastActFails
      BY <1>1, <1>2, <3>4, ActKeeps
    <3>5. CASE UNCHANGED vars
      <4>1. UNCHANGED <<job, proposals, resolver, tips, acting, controls>>
        BY <3>5 DEF vars, record, webview
      <4> QED BY <1>1, <1>2, <1>3, <4>1, Unmoved DEF Undeciding, Open
    <3> QED BY <1>5, <3>1, <3>2, <3>3, <3>4, <3>5 DEF Next, Webview
  <2> QED BY <1>1, <1>2, <2>1, <2>2 DEF EarnedInv
<1> QED BY <1>4, <1>5

(* What the agent lands passed the checks as it lands, sure and applied,    *)
(* wherever the person has not chosen: whatever is decided, redone,         *)
(* stopped, resumed or closed between the checks and the landing, and       *)
(* whichever of the engine and the resolver hears of it first.             *)
THEOREM EarnedLanding == Spec => []LandedIsEarned
<1>1. EarnedInv => LandedIsEarned
  BY DEF EarnedInv
<1> QED BY <1>1, EarnedInit, EarnedStep, PTL DEF Spec
=============================================================================

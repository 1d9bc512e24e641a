------------------------------- MODULE RecipeRun -------------------------------
(***************************************************************************)
(* A recipe is run: its steps, each of them git commands, run one after    *)
(* another on a thread, which stops where the level asks, where a command  *)
(* fails, a check fails or git reports a conflict, and waits there for the *)
(* person.  A restore point is written before the first step, and undoing  *)
(* the run puts it back.                                                   *)
(*                                                                         *)
(* Content is a set of changes: a commit is what is in it, a branch is the *)
(* sequence of its commits, and the index and the tree are content too.    *)
(* What a git command does is taken from how the run uses it.  The blocks  *)
(* are Stash, Pop, Commit all, Squash, New branch, Switch, Delete branch,  *)
(* Merge (a merge commit), Push, Check, Clean and Ask; a rebase, a         *)
(* cherry-pick and a pull stop on a conflict the way a merge does.         *)
(*                                                                         *)
(* Source: crates/spagitty-core/src/recipes/run.rs, restore.rs and         *)
(* command.rs, src-tauri/src/recipes.rs.                                   *)
(***************************************************************************)
EXTENDS Integers, Sequences, FiniteSets, SequencesExt

CONSTANTS
  Changes,     \* what can be in a commit
  Recipes,     \* the recipes: sequences of steps
  RunLevels,   \* the levels they run at
  Start,       \* the repository before the run
  SquashCount, \* how many commits a Squash takes
  Theirs,      \* a change the person makes themselves
  MaxTroubles, \* bound: commands that fail, conflicts and messages not written
  MaxEdits,    \* bound: what the person does to the repository
  MaxAnswers,  \* bound: answers, Stop and Undo
  MaxCrashes   \* bound: times the program is closed or killed

Blocks == {"stash", "pop", "commit", "squash", "newBranch", "switch", "delete", "merge",
           "push", "check", "clean", "ask"}
NoBranch == "-"

VARIABLES
  repo,     \* the repository: see RepoOf
  \* the run
  recipe, level,
  steps,    \* the state of each step
  at,       \* the step it is on
  stop,     \* what it waits for, NoStop when it does not wait
  outcome,  \* "none" while it is not over
  approved, \* the person said to go on at the step it is on
  resume,   \* the command of that step to start again from
  mark,     \* where the repository stood when the run began to wait
  answers,  \* every stop and what was chosen there
  \* its thread
  pc, cmd, wakes,
  \* the rest of the program
  live,     \* the run is on a thread; otherwise there is its record
  stopping, \* Stop was pressed
  sending,  \* answers that have not woken the thread yet
  undoing,  \* the step of an undo, 0 when there is none
  \* history
  skips,    \* the steps left out
  begun,    \* the steps of which a command ran
  foreign,  \* someone else changed the repository, or an undo was cut short
  unseen,   \* where the run was when they did, since it last stopped; "undone"
            \* once they began to undo it themselves
  troubles, edits, presses, crashes

run    == <<recipe, level, steps, at, stop, outcome, approved, resume, mark, answers>>
thread == <<pc, cmd, wakes>>
shell  == <<live, stopping, sending, undoing>>
told   == <<skips, begun, foreign>>
past   == <<told, unseen>>
bounds == <<troubles, edits, presses, crashes>>
vars   == <<repo, run, thread, shell, past, bounds>>

-----------------------------------------------------------------------------
(* The repository: the branch checked out, the branches, the index, the    *)
(* tree, the stashes, newest first, and a merge that stopped on the way.   *)
(* A stash is a commit with a hash of its own: a number that was not used. *)
Content(r, b) == Last(r.tips[b])
HeadOf(r)     == Content(r, r.on)
HasBranch(r, b) == r.tips[b] # <<>>
IsMerged(b, r) == HasBranch(r, b) /\ Content(r, b) \subseteq HeadOf(r)
IsClean(r)    == r.tree = HeadOf(r) /\ r.index = HeadOf(r)
NoMerge       == NoBranch

Branches     == DOMAIN Start.tips
BranchOrNone == Branches \cup {NoBranch}
Commits      == SUBSET Changes
Stashes      == [id : Nat \ {0}, what : Commits]
Repos ==
  [on : Branches, tips : [Branches -> Seq(Commits)], index : Commits, tree : Commits,
   stash : Seq(Stashes), merging : BranchOrNone, conflict : BOOLEAN, made : Nat]

\* What validate.rs lets through: a branch that is named is there or is made
\* by the recipe, one that is made is not there.
IsRecipe(r) ==
  /\ r \in Seq([block : Blocks, branch : BranchOrNone, agent : BOOLEAN])
  /\ \A i \in DOMAIN r :
       /\ r[i].block \in {"newBranch", "merge", "switch", "delete"} => r[i].branch \in Branches
       /\ r[i].block = "newBranch" => ~HasBranch(Start, r[i].branch)

\* The run begins on a branch that has a commit, with no operation in progress
\* (validate.rs:491, restore.rs:143); no two stashes are the same commit.
ASSUME RecipeAssumption ==
  /\ NoBranch \notin Branches /\ Theirs \in Changes
  /\ Start \in Repos /\ HasBranch(Start, Start.on)
  /\ Start.merging = NoMerge /\ ~Start.conflict
  /\ \A i \in DOMAIN Start.stash : Start.stash[i].id <= Start.made
  /\ \A i, j \in DOMAIN Start.stash : Start.stash[i].id = Start.stash[j].id => i = j
  /\ \A r \in Recipes : IsRecipe(r)
  /\ RunLevels \subseteq {"StepByStep", "SignOff", "Unattended"}
  /\ SquashCount \in Nat \ {0}
  /\ MaxTroubles \in Nat /\ MaxEdits \in Nat /\ MaxAnswers \in Nat /\ MaxCrashes \in Nat

\* What is of the person's own making moves along to content c.
Onto(r, had, c) == (had \ HeadOf(r)) \cup c

\* git accepts the command.
Works(cmdName, b, r) ==
  CASE cmdName = "commit"    -> r.index # HeadOf(r) /\ ~r.conflict
    [] cmdName = "reset"     -> Len(r.tips[r.on]) > SquashCount
    [] cmdName = "newBranch" -> ~HasBranch(r, b)
    [] cmdName = "switch"    -> HasBranch(r, b) /\ ~r.conflict
    [] cmdName = "delete"    -> IsMerged(b, r) /\ b # r.on
    [] cmdName = "merge"     -> /\ HasBranch(r, b) /\ r.index = HeadOf(r)
                                /\ r.merging = NoMerge
    [] cmdName = "pop"       -> r.stash # <<>>
    [] OTHER -> TRUE

\* What it does then.
After(cmdName, b, r) ==
  CASE cmdName = "add"       -> [r EXCEPT !.index = r.tree]
    [] cmdName = "commit"    -> [r EXCEPT !.tips[r.on] = Append(@, r.index)]
    [] cmdName = "reset"     -> [r EXCEPT !.tips[r.on] = SubSeq(@, 1, Len(@) - SquashCount)]
    [] cmdName = "newBranch" -> [r EXCEPT !.tips[b] = r.tips[r.on], !.on = b]
    [] cmdName = "switch"    -> [r EXCEPT !.on = b, !.tree = Onto(r, r.tree, Content(r, b)),
                                          !.index = Onto(r, r.index, Content(r, b))]
    [] cmdName = "delete"    -> [r EXCEPT !.tips[b] = <<>>]
    [] cmdName = "merge"     ->
         LET both == HeadOf(r) \cup Content(r, b) IN
         [r EXCEPT !.tips[r.on] = IF both = HeadOf(r) THEN @ ELSE Append(@, both),
                   !.index = both, !.tree = @ \cup (Content(r, b) \ HeadOf(r))]
    [] cmdName = "stash"     ->
         IF IsClean(r) THEN r
         ELSE [r EXCEPT !.stash = <<[id |-> r.made + 1, what |-> r.tree \ HeadOf(r)]>> \o @,
                        !.made = @ + 1, !.tree = HeadOf(r), !.index = HeadOf(r)]
    [] cmdName = "pop"       -> [r EXCEPT !.tree = @ \cup Head(r.stash).what, !.stash = Tail(@)]
    [] OTHER -> r

\* A merge or a pop that conflicts: what came is in the tree, with conflicts.
Conflicted(cmdName, b, r) ==
  IF cmdName = "merge"
    THEN LET came == Content(r, b) \ HeadOf(r) IN
         [r EXCEPT !.index = @ \cup came, !.tree = @ \cup came, !.merging = b,
                   !.conflict = TRUE]
    ELSE [r EXCEPT !.tree = @ \cup Head(r.stash).what, !.conflict = TRUE]

\* git merge --abort, and git commit --no-edit.
MergeAborted(r) ==
  LET came == Content(r, r.merging) \ HeadOf(r) IN
  [r EXCEPT !.index = HeadOf(r), !.tree = @ \ came, !.merging = NoMerge, !.conflict = FALSE]

MergeCommitted(r) == [r EXCEPT !.tips[r.on] = Append(@, r.index), !.merging = NoMerge]

\* The git commands of a step, in order.
Commands(step) ==
  CASE step.block = "commit" -> <<"add", "commit">>
    [] step.block = "squash" -> <<"reset", "commit">>
    [] step.block \in {"check", "clean", "ask"} -> <<>>
    [] OTHER -> <<step.block>>

\* An agent writes the message of this step.
AgentWrites(step) == step.agent

-----------------------------------------------------------------------------
(* The restore point.                                                      *)
Uses(step) == IF step.block \in {"merge", "switch", "delete"} THEN {step.branch} ELSE {}
Named(r) == (UNION {Uses(recipe[i]) : i \in DOMAIN recipe}) \cup {r.on}
Makes    == {recipe[i].branch : i \in {j \in DOMAIN recipe : recipe[j].block = "newBranch"}}

TipsOf(r) == {b \in Named(r) : HasBranch(r, b)}

\* Written before the first step and left in place, it says what Start was.
Point ==
  [on |-> Start.on, index |-> Start.index, work |-> Start.tree, stash |-> Start.stash,
   tips |-> [b \in TipsOf(Start) |-> Start.tips[b]], makes |-> Makes \ TipsOf(Start)]

\* Seeded fault: the branches the recipe made go while HEAD may be on one.
UndoStepsMakesFirst ==
  <<"operation", "tree", "makes", "tips", "head", "index", "drop", "store">>

\* The steps of an undo, in order.  Each may fail, and what is before it is done.
UndoSteps == <<"operation", "tree", "tips", "head", "makes", "index", "drop", "store">>

\* The stash list is made what it was one stash at a time, the oldest first:
\* what was not there goes, and what is not there any more is stored again.
Added(r) ==
  {i \in DOMAIN r.stash : \A j \in DOMAIN Point.stash : Point.stash[j].id # r.stash[i].id}

\* Seeded fault: what the run popped is not stored again.
LackingNothing(r) == {}

Lacking(r) ==
  {j \in DOMAIN Point.stash : \A i \in DOMAIN r.stash : r.stash[i].id # Point.stash[j].id}

\* The branches after git update-ref.
WithRefs(r, refs) ==
  [b \in DOMAIN r.tips |-> IF b \in DOMAIN refs THEN refs[b] ELSE r.tips[b]]

\* There is a stash of this step left.
IsMore(s, r) == (s = "drop" /\ Added(r) # {}) \/ (s = "store" /\ Lacking(r) # {})

PutBack(s, r) ==
  CASE s = "operation" -> IF r.merging = NoMerge THEN r ELSE MergeAborted(r)
    [] s = "tree"  -> [r EXCEPT !.tree = Point.work, !.index = Point.work, !.conflict = FALSE]
    [] s = "tips"  -> [r EXCEPT !.tips = WithRefs(r, Point.tips)]
    [] s = "head"  -> [r EXCEPT !.on = Point.on]
    [] s = "makes" -> [r EXCEPT !.tips = WithRefs(r, [b \in Point.makes |-> <<>>])]
    [] s = "index" -> [r EXCEPT !.index = Point.index]
    [] s = "drop"  /\ IsMore(s, r) -> [r EXCEPT !.stash = RemoveAt(@, Max(Added(r)))]
    [] s = "store" /\ IsMore(s, r) ->
         [r EXCEPT !.stash = <<Point.stash[Max(Lacking(r))]>> \o @]
    [] OTHER -> r

-----------------------------------------------------------------------------
NoStop == [kind |-> "none", merge |-> FALSE, source |-> NoBranch, inMerger |-> FALSE,
           stash |-> 0]
StopOf(kind) == [NoStop EXCEPT !.kind = kind]
NoMark == [on |-> NoBranch]

\* Where the repository stands, as far as a waiting run looks.
MarkOf(r) == [on |-> r.on, head |-> r.tips[r.on], tree |-> r.tree, index |-> r.index,
              conflict |-> r.conflict]

Init ==
  /\ recipe \in Recipes /\ level \in RunLevels
  /\ repo = Start
  /\ steps = [i \in DOMAIN recipe |-> "NotStarted"]
  /\ at = 1 /\ stop = NoStop /\ outcome = "none"
  /\ approved = FALSE /\ resume = 1 /\ mark = NoMark /\ answers = <<>>
  /\ pc = "tick" /\ cmd = 1 /\ wakes = 0
  /\ live = TRUE /\ stopping = FALSE /\ sending = 0 /\ undoing = 0
  /\ skips = {} /\ begun = {} /\ foreign = FALSE /\ unseen = {}
  /\ troubles = 0 /\ edits = 0 /\ presses = 0 /\ crashes = 0

IsOver  == outcome # "none"
Waiting == stop # NoStop
Here    == recipe[at]

\* The run is over; a step that ran or waited is one that has not run.
FinishAs(o) ==
  /\ outcome' = o /\ stop' = NoStop
  /\ steps' = [i \in DOMAIN steps |->
                IF i = at /\ steps[i] \in {"Waiting", "Running"} THEN "NotStarted" ELSE steps[i]]

StopAt(s) ==
  /\ stop' = s /\ unseen' = {}
  /\ steps' = [steps EXCEPT ![at] = "Waiting"]

\* Seeded fault: the next step is gone on to as the one before was.
DoneStillApproved(s) ==
  /\ steps' = [steps EXCEPT ![at] = s]
  /\ at' = at + 1 /\ approved' = approved /\ resume' = 1 /\ stop' = NoStop

\* The step is behind, as s says, and the next one has not been asked about.
DoneAs(s) ==
  /\ steps' = [steps EXCEPT ![at] = s]
  /\ at' = at + 1 /\ approved' = FALSE /\ resume' = 1 /\ stop' = NoStop

AsksBefore(step) ==
  \/ level = "StepByStep"
  \/ level = "SignOff" /\ step.block \in {"push", "delete"}

-----------------------------------------------------------------------------
(* The run's thread.  It has the run for as long as a step takes.          *)
Stepping == pc = "run"

TickEnds ==
  /\ pc = "tick" /\ undoing = 0
  /\ \/ IsOver /\ pc' = "gone" /\ UNCHANGED run
     \/ ~IsOver /\ Waiting /\ pc' = "told" /\ UNCHANGED run
     \/ /\ ~IsOver /\ ~Waiting /\ pc' = "gone"
        /\ \/ stopping /\ FinishAs("Ended")
           \/ ~stopping /\ at > Len(recipe) /\ FinishAs("Done")
        /\ UNCHANGED <<recipe, level, at, approved, resume, mark, answers>>
  /\ UNCHANGED <<repo, cmd, wakes, shell, past, bounds>>

\* A step is to be run, and is asked about first or begins.
Tick ==
  /\ pc = "tick" /\ undoing = 0
  /\ ~IsOver /\ ~Waiting /\ ~stopping /\ at <= Len(recipe)
  /\ IF ~approved /\ (Here.block = "ask" \/ AsksBefore(Here))
       THEN /\ mark' = MarkOf(repo)
            /\ StopAt(StopOf(IF Here.block = "ask" THEN "Ask" ELSE "Approve"))
            /\ pc' = "told" /\ UNCHANGED cmd
       ELSE /\ steps' = [steps EXCEPT ![at] = "Running"]
            /\ pc' = "run" /\ cmd' = resume
            /\ UNCHANGED <<stop, mark, unseen>>
  /\ UNCHANGED <<repo, recipe, level, at, outcome, approved, resume, answers, wakes, shell, told,
                 bounds>>

StopsAs(kind) == StopAt(StopOf(kind)) /\ pc' = "told"

\* Everything of the step has run.
StepEnds ==
  /\ Stepping /\ cmd > Len(Commands(Here))
  /\ \/ /\ Here.block = "clean" => IsClean(repo)
        /\ DoneAs("Done") /\ pc' = "tick"
        /\ UNCHANGED <<troubles, unseen>>
     \/ /\ Here.block = "clean" /\ ~IsClean(repo)
        /\ StopsAs("NotClean")
        /\ UNCHANGED <<at, approved, resume, troubles>>
     \* A check fails; one that is running when Stop is pressed is ended.
     \/ /\ Here.block = "check" /\ (stopping \/ troubles < MaxTroubles)
        /\ troubles' = IF stopping THEN troubles ELSE troubles + 1
        /\ StopsAs("CheckFailed")
        /\ UNCHANGED <<at, approved, resume>>
  /\ UNCHANGED <<repo, recipe, level, outcome, mark, answers, cmd, wakes, shell, told, edits,
                 presses, crashes>>

RunCommand ==
  /\ Stepping /\ cmd <= Len(Commands(Here))
  /\ Works(Commands(Here)[cmd], Here.branch, repo)
  /\ repo' = After(Commands(Here)[cmd], Here.branch, repo)
  /\ cmd' = cmd + 1
  /\ begun' = begun \cup {at}
  /\ UNCHANGED <<run, pc, wakes, shell, skips, foreign, unseen, bounds>>

\* Seeded fault: a step that failed runs again from its first command.
StartAgainFromFirst(k) == 1

\* Where the step starts again: at the command that failed, or at what was
\* staged for it.
StartAgain(k) == IF k > 1 /\ Commands(Here)[k - 1] = "add" THEN k - 1 ELSE k

\* A command that fails changes nothing; a hook, a lock or a rule may fail any.
CommandFails ==
  /\ Stepping /\ cmd <= Len(Commands(Here))
  /\ \/ ~Works(Commands(Here)[cmd], Here.branch, repo) /\ UNCHANGED troubles
     \/ troubles < MaxTroubles /\ troubles' = troubles + 1
  /\ resume' = StartAgain(cmd)
  /\ \/ StopsAs("Failed")
     \/ Here.block = "push" /\ StopsAs("PushRejected")
  /\ UNCHANGED <<repo, recipe, level, at, outcome, approved, mark, answers, cmd, wakes, shell,
                 told, edits, presses, crashes>>

\* A merge or a pop conflicts.
CommandConflicts ==
  /\ Stepping /\ cmd <= Len(Commands(Here))
  /\ Here.block \in {"merge", "pop"} /\ Works(Here.block, Here.branch, repo)
  /\ Here.block = "merge" => ~(Content(repo, Here.branch) \subseteq HeadOf(repo))
  /\ troubles < MaxTroubles /\ troubles' = troubles + 1
  /\ repo' = Conflicted(Here.block, Here.branch, repo)
  /\ resume' = StartAgain(cmd)
  /\ StopAt([NoStop EXCEPT
               !.kind = "Conflict", !.merge = (Here.block = "merge"),
               !.source = IF Here.block = "merge" THEN Here.branch ELSE NoBranch,
               !.stash = IF Here.block = "pop" THEN Head(repo.stash).id ELSE 0])
  /\ pc' = "told"
  /\ UNCHANGED <<recipe, level, at, outcome, approved, mark, answers, cmd, wakes, shell, told,
                 edits, presses, crashes>>

\* The agent writes no message that can be used, and nothing has run yet.
NoMessage ==
  /\ Stepping /\ AgentWrites(Here) /\ cmd = resume
  /\ troubles < MaxTroubles /\ troubles' = troubles + 1
  /\ StopsAs("NoMessage")
  /\ UNCHANGED <<repo, recipe, level, at, outcome, approved, resume, mark, answers, cmd, wakes,
                 shell, told, edits, presses, crashes>>

\* The record is kept and the screen told, then the thread waits.
Sleep ==
  /\ pc = "told" /\ pc' = "asleep"
  /\ UNCHANGED <<repo, run, cmd, wakes, shell, past, bounds>>

Woken ==
  /\ pc = "asleep" /\ wakes > 0
  /\ wakes' = wakes - 1 /\ pc' = "tick"
  /\ UNCHANGED <<repo, run, cmd, shell, past, bounds>>

Thread ==
  \/ TickEnds \/ Tick \/ StepEnds \/ RunCommand \/ CommandFails \/ CommandConflicts
  \/ NoMessage \/ Sleep \/ Woken

-----------------------------------------------------------------------------
(* The person's choice at a stop.  It has the run while it is taken, and   *)
(* the thread is woken after.                                              *)
Offers ==
  CASE stop.kind \in {"Approve", "Ask", "Changed"} -> {"Continue", "End"}
    [] stop.kind = "Conflict" ->
         IF stop.inMerger THEN {"Continue", "End"}
         ELSE {"Continue", "End"} \cup (IF stop.merge THEN {"OpenMerger", "Abort"} ELSE {})
    [] stop.kind = "Failed" -> {"Retry", "Skip", "End"}
    [] stop.kind = "none"   -> {}
    [] OTHER -> {"Retry", "End"}

\* Nothing else has the run.
Free == live /\ ~Stepping /\ undoing = 0

Chosen(choice) ==
  /\ answers' = Append(answers, [step |-> at, kind |-> stop.kind, choice |-> choice])
  /\ sending' = sending + 1
  /\ UNCHANGED <<recipe, level, thread, live, stopping, undoing, troubles, edits, crashes>>

GoOnHere == approved' = TRUE /\ stop' = NoStop /\ UNCHANGED <<steps, at, resume>>

AnswerEnd ==
  /\ "End" \in Offers /\ Chosen("End")
  /\ FinishAs("Ended")
  /\ UNCHANGED <<repo, at, approved, resume, mark, past>>

\* Seeded fault: what the person was shown is not looked at again.
MovedNever == FALSE

Moved == mark # NoMark /\ mark # MarkOf(repo)

AnswerContinue ==
  /\ stop.kind \in {"Approve", "Ask"} /\ Chosen("Continue")
  /\ mark' = NoMark
  /\ IF Moved
       THEN StopAt(StopOf("Changed")) /\ UNCHANGED <<at, approved, resume>>
       ELSE GoOnHere /\ UNCHANGED unseen
  /\ UNCHANGED <<repo, outcome, told>>

AnswerGoOn ==
  /\ \/ stop.kind = "Changed" /\ Chosen("Continue")
     \/ "Retry" \in Offers /\ Chosen("Retry")
  /\ GoOnHere
  /\ UNCHANGED <<repo, outcome, mark, past>>

AnswerSkip ==
  /\ "Skip" \in Offers /\ Chosen("Skip")
  /\ DoneAs("Skipped")
  /\ skips' = skips \cup {at}
  /\ UNCHANGED <<repo, outcome, mark, begun, foreign, unseen>>

\* The merge is aborted here, to be made in Merger.
AnswerOpenMerger ==
  /\ "OpenMerger" \in Offers /\ repo.merging # NoMerge
  /\ Chosen("OpenMerger")
  /\ repo' = MergeAborted(repo)
  /\ stop' = [stop EXCEPT !.inMerger = TRUE]
  /\ UNCHANGED <<steps, at, outcome, approved, resume, mark, past>>

\* What the conflict interrupted is finished, and the stash of a pop goes if
\* it is still the one on top.
Concluded(r) ==
  CASE stop.inMerger -> r
    [] ~stop.inMerger /\ stop.merge /\ r.merging # NoMerge -> MergeCommitted(r)
    [] ~stop.inMerger /\ ~stop.merge /\ r.stash # <<>> /\ Head(r.stash).id = stop.stash ->
         [r EXCEPT !.stash = Tail(@)]
    [] OTHER -> r

AnswerResolved ==
  /\ stop.kind = "Conflict" /\ Chosen("Continue")
  /\ IF stop.inMerger THEN IsMerged(stop.source, repo) ELSE ~repo.conflict
  /\ repo' = Concluded(repo)
  /\ DoneAs("Done")
  /\ UNCHANGED <<outcome, mark, past>>

AnswerAbort ==
  /\ "Abort" \in Offers /\ repo.merging # NoMerge
  /\ Chosen("Abort")
  /\ repo' = MergeAborted(repo)
  /\ FinishAs("Ended")
  /\ UNCHANGED <<at, approved, resume, mark, past>>

Answer ==
  /\ Free /\ Waiting
  /\ \/ AnswerEnd \/ AnswerContinue \/ AnswerGoOn \/ AnswerSkip \/ AnswerOpenMerger
     \/ AnswerResolved \/ AnswerAbort

\* Stop: seen before the next step; where the run waits it is ended there.
PressStop ==
  /\ live /\ ~stopping
  /\ stopping' = TRUE /\ sending' = sending + 1
  /\ IF Free /\ Waiting
       THEN /\ answers' = Append(answers, [step |-> at, kind |-> stop.kind, choice |-> "End"])
            /\ FinishAs("Ended")
            /\ UNCHANGED <<recipe, level, at, approved, resume, mark>>
       ELSE UNCHANGED run
  /\ UNCHANGED <<repo, thread, live, undoing, past, troubles, edits, crashes>>

\* Undo the whole run: not while a step is running; and from its record, when
\* the program was closed since.
PressUndo ==
  /\ undoing = 0 /\ ~Stepping
  /\ undoing' = 1
  /\ UNCHANGED <<repo, run, thread, live, stopping, sending, past, troubles, edits, crashes>>

Press == presses < MaxAnswers /\ presses' = presses + 1 /\ (Answer \/ PressStop \/ PressUndo)

\* Seeded fault: the thread is woken only when it is already asleep.
SendToSleeper ==
  /\ sending > 0 /\ sending' = sending - 1
  /\ wakes' = IF pc = "asleep" THEN wakes + 1 ELSE wakes
  /\ UNCHANGED <<repo, run, pc, cmd, live, stopping, undoing, past, bounds>>

Send ==
  /\ sending > 0 /\ sending' = sending - 1
  /\ wakes' = wakes + 1
  /\ UNCHANGED <<repo, run, pc, cmd, live, stopping, undoing, past, bounds>>

UndoStep ==
  /\ undoing > 0 /\ undoing <= Len(UndoSteps)
  /\ repo' = PutBack(UndoSteps[undoing], repo)
  /\ undoing' = IF IsMore(UndoSteps[undoing], repo) THEN undoing ELSE undoing + 1
  /\ unseen' = {"undone"}
  /\ UNCHANGED <<run, thread, live, stopping, sending, told, bounds>>

\* A step of it fails, and the run is where it was.
UndoFails ==
  /\ undoing > 0 /\ undoing <= Len(UndoSteps)
  /\ troubles < MaxTroubles /\ troubles' = troubles + 1
  /\ undoing' = 0 /\ foreign' = TRUE
  /\ UNCHANGED <<repo, run, thread, live, stopping, sending, skips, begun, unseen, edits, presses,
                 crashes>>

UndoEnds ==
  /\ undoing > Len(UndoSteps)
  /\ undoing' = 0
  /\ IF live
       THEN FinishAs("Undone") /\ sending' = sending + 1
       ELSE outcome' = "Undone" /\ stop' = NoStop /\ UNCHANGED <<steps, sending>>
  /\ UNCHANGED <<repo, recipe, level, at, approved, resume, mark, answers, thread, live, stopping,
                 past, bounds>>

Undo == UndoStep \/ UndoFails \/ UndoEnds

-----------------------------------------------------------------------------
(* The person, in the repository.                                          *)
Resolve ==
  /\ repo.conflict
  /\ repo' = [repo EXCEPT !.conflict = FALSE]
  /\ UNCHANGED <<foreign, unseen>>

MergeInMerger ==
  /\ stop.inMerger /\ Works("merge", stop.source, repo) /\ ~repo.conflict
  /\ repo' = After("merge", stop.source, repo)
  /\ UNCHANGED <<foreign, unseen>>

\* Where the run is while someone else changes the repository.
Place ==
  CASE stop.kind \in {"Approve", "Ask"} -> {"asked"}
    [] Waiting -> {}
    [] OTHER -> {"running"}

\* They edit, commit an edit with what is in the tree, or abort the merge.
ChangeIt ==
  /\ \/ Theirs \notin repo.tree /\ repo' = [repo EXCEPT !.tree = @ \cup {Theirs}]
     \/ LET whole == repo.tree \cup {Theirs} IN
        /\ ~repo.conflict /\ repo.merging = NoMerge
        /\ repo' = [repo EXCEPT !.tree = whole, !.index = whole,
                                !.tips[repo.on] = Append(@, whole)]
     \/ repo.merging # NoMerge /\ repo' = MergeAborted(repo)
  /\ foreign' = TRUE
  /\ unseen' = IF "undone" \in unseen THEN unseen ELSE unseen \cup Place

Edit ==
  /\ edits < MaxEdits /\ edits' = edits + 1
  /\ undoing = 0
  /\ Resolve \/ MergeInMerger \/ ChangeIt
  /\ UNCHANGED <<run, thread, shell, skips, begun, troubles, presses, crashes>>

\* The program is closed or killed: the run is its record from then on.
Crash ==
  /\ live /\ crashes < MaxCrashes /\ crashes' = crashes + 1
  /\ live' = FALSE /\ pc' = "gone" /\ wakes' = 0 /\ sending' = 0 /\ undoing' = 0
  /\ mark' = NoMark
  /\ foreign' = (foreign \/ undoing > 0)
  /\ UNCHANGED <<repo, recipe, level, steps, at, stop, outcome, approved, resume, answers, cmd,
                 stopping, skips, begun, unseen, troubles, edits, presses>>

Next == Thread \/ Press \/ Send \/ Undo \/ Edit \/ Crash

Spec == Init /\ [][Next]_vars

\* The thread runs and the commands end, an answer that was taken wakes the
\* thread, and an undo goes on.  Nothing says that the person ever answers.
FairSpec == Spec /\ WF_vars(Thread) /\ WF_vars(Send) /\ WF_vars(Undo)

-----------------------------------------------------------------------------
(* Properties.                                                             *)
StepStates == {"NotStarted", "Running", "Done", "Waiting", "Skipped"}
StopKinds == {"none", "Approve", "Ask", "Conflict", "Failed", "CheckFailed", "PushRejected",
              "NotClean", "Changed", "NoMessage"}
ChoiceNames == {"Continue", "Retry", "Skip", "End", "OpenMerger", "Abort"}
Stops ==
  [kind : StopKinds, merge : BOOLEAN, source : BranchOrNone, inMerger : BOOLEAN, stash : Nat]

TypeOK ==
  /\ repo \in Repos /\ HasBranch(repo, repo.on)
  /\ recipe \in Recipes /\ level \in RunLevels
  /\ steps \in [DOMAIN recipe -> StepStates]
  /\ at \in 1..(Len(recipe) + 1)
  /\ stop \in Stops
  /\ outcome \in {"none", "Done", "Ended", "Undone"}
  /\ approved \in BOOLEAN /\ resume \in 1..2 /\ cmd \in 1..3
  /\ pc \in {"tick", "run", "told", "asleep", "gone"} /\ wakes \in Nat /\ sending \in Nat
  /\ live \in BOOLEAN /\ stopping \in BOOLEAN /\ undoing \in 0..(Len(UndoSteps) + 1)
  /\ skips \subseteq DOMAIN recipe /\ begun \subseteq DOMAIN recipe /\ foreign \in BOOLEAN
  /\ unseen \subseteq {"asked", "running", "undone"}
  /\ answers \in Seq([step : 1..Len(recipe), kind : StopKinds, choice : ChoiceNames])
  /\ Len(answers) <= presses /\ presses \in Nat

\* What the first k commands of a step make of a repository; no step has more
\* than two.
FirstOf(step, k, r) ==
  LET then(q, i) == After(Commands(step)[i], step.branch, q) IN
  CASE k = 0 -> r
    [] k = 1 -> then(r, 1)
    [] OTHER -> then(then(r, 1), 2)

AllOf(step, r) == FirstOf(step, Len(Commands(step)), r)

\* What a recipe is: each step's commands, one after another, once.  Where the
\* repository is after each of its steps, those in out left out.
Written(r, out) ==
  LET after[n \in 0..Len(r)] ==
        IF n = 0 THEN Start
        ELSE IF n \in out THEN after[n - 1]
        ELSE AllOf(r[n], after[n - 1])
  IN  after

AsWritten == Written(recipe, skips)[Len(recipe)]

Untouched == outcome = "Done" /\ undoing = 0 /\ ~foreign

\* A run that is done has done what its recipe says, whatever failed, was run
\* again, conflicted or was made in Merger on the way.
RanAsWritten == Untouched /\ skips \cap begun = {} => repo = AsWritten

\* run.rs:172: a step that is skipped is left out.
SkippedIsLeftOut == Untouched => repo = AsWritten

\* An undo that ends has put back the restore point, wherever the run was,
\* whatever the person did and however often an undo failed before.
UndoRestores ==
  undoing > Len(UndoSteps) =>
    /\ repo.on = Start.on /\ repo.index = Start.index /\ repo.tree = Start.tree
    /\ repo.stash = Start.stash /\ repo.merging = NoMerge /\ ~repo.conflict
    /\ \A b \in Named(Start) \cup Makes : repo.tips[b] = Start.tips[b]

Begins == pc # "run" /\ pc' = "run"

\* A step that is asked about begins only on an answer given for that step.
AskedFirst ==
  [][Begins /\ (Here.block = "ask" \/ AsksBefore(Here)) =>
       \E k \in DOMAIN answers :
         answers[k].step = at /\ answers[k].choice \in {"Continue", "Retry"}]_vars

\* The person is told when the repository changed while a step was asked about,
\* an undo that they began there aside.
ToldOfChanges == [][Begins => "asked" \notin unseen]_vars

\* recipes.md:31: it stops when the tree or a branch changed in a way the
\* recipe did not cause; workbench-and-recipes.md:232: at any level.
StopsOnChange == [][Begins => "running" \notin unseen]_vars

\* A run on a thread always comes to wait for the person, or to be over.
NeverStuck == (live /\ ~IsOver /\ ~Waiting) ~> (IsOver \/ Waiting \/ ~live)

\* recipes.rs (Stop): the run ends before its next step.
StopEnds == stopping ~> (IsOver \/ ~live)

=============================================================================

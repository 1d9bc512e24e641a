-------------------------- MODULE LandingLaneProofs --------------------------
(***************************************************************************)
(* What the landing lane never does, proved for any number of tasks,       *)
(* landings in Merger, tries, commits, moves of a person and crashes.      *)
(***************************************************************************)
EXTENDS LandingLane, TLAPS

USE DEF Commits, Tasks, Landers, Branch

(* Ancestry: a commit has itself, and whatever the commits it has have.    *)
Ancestry == \A c \in Commits : c \in reach[c] /\ \A d \in reach[c] : reach[d] \subseteq reach[c]

(* What is written is never changed.                                       *)
Kept == Commits \subseteq Commits' /\ \A c \in Commits : reach'[c] = reach[c]

-----------------------------------------------------------------------------
(* Types. *)

(* The numbers among the constants. *)
LEMMA Numbers == /\ TaskCount \in Nat /\ LaneTries \in Nat /\ LaneTries # 0
                 /\ MaxMoves \in Nat /\ MaxCrashes \in Nat
                 /\ Nobody \notin Tasks /\ Main # Other
BY LaneAssumption

(* A new commit leaves the old ones and their ancestry as they were.       *)
LEMMA Writing ==
  ASSUME LaneTypeOK, Ancestry, NEW ps \in SUBSET Commits, Write(ps)
  PROVE  /\ last' = last + 1 /\ last' \in Nat /\ TaskCount <= last'
         /\ last' \in Commits'
         /\ reach' \in [Commits' -> SUBSET Commits']
         /\ reach'[last'] = {last'} \cup UNION {reach[p] : p \in ps}
         /\ Kept /\ Ancestry'
<1>1. /\ last' = last + 1 /\ last' \in Nat /\ TaskCount <= last' /\ last' \in Commits'
      /\ Commits' = Commits \cup {last'} /\ last' \notin Commits
  <2>1. TaskCount \in Nat /\ last \in Nat /\ TaskCount <= last /\ last' = last + 1
    BY Numbers DEF LaneTypeOK, Write
  <2>2. last' \in Nat /\ TaskCount <= last'
    BY <2>1
  <2>3. 0..last + 1 = (0..last) \cup {last + 1} /\ last + 1 \notin 0..last
    BY <2>1
  <2> QED BY <2>1, <2>2, <2>3
<1>2. \A p \in ps : p \in Commits /\ reach[p] \in SUBSET Commits
  BY DEF LaneTypeOK
<1>3. DOMAIN reach' = Commits' /\ reach'[last'] = {last'} \cup UNION {reach[p] : p \in ps}
  BY <1>1 DEF Write
<1>4. \A c \in Commits : reach'[c] = reach[c]
  BY <1>1 DEF Write
<1>5. reach' \in [Commits' -> SUBSET Commits']
  <2>1. \A c \in Commits' : reach'[c] \in SUBSET Commits'
    BY <1>1, <1>2, <1>3, <1>4 DEF LaneTypeOK
  <2>2. reach' = [c \in Commits' |-> reach'[c]]
    BY <1>1 DEF Write
  <2> QED BY <2>1, <2>2
<1>6. Ancestry'
  <2> SUFFICES ASSUME NEW c \in Commits'
               PROVE  c \in reach'[c] /\ \A d \in reach'[c] : reach'[d] \subseteq reach'[c]
    BY DEF Ancestry
  <2>1. CASE c = last'
    <3>1. c \in reach'[c]
      BY <1>3, <2>1
    <3>2. ASSUME NEW d \in reach'[c], d # last' PROVE reach'[d] \subseteq reach'[c]
      <4>1. PICK p \in ps : d \in reach[p]
        BY <1>3, <2>1, <3>2
      <4>2. reach[d] \subseteq reach[p] /\ d \in Commits
        BY <1>2, <4>1 DEF Ancestry
      <4> QED BY <1>3, <1>4, <2>1, <4>1, <4>2
    <3> QED BY <2>1, <3>1, <3>2
  <2>2. CASE c \in Commits
    BY <1>4, <2>2 DEF Ancestry, LaneTypeOK
  <2> QED BY <1>1, <2>1, <2>2
<1> QED BY <1>1, <1>3, <1>4, <1>5, <1>6 DEF Kept

(* Nothing of git's moves: neither do the types of it.                     *)
LEMMA Leaving ==
  ASSUME LaneTypeOK, Ancestry, UNCHANGED gitVars
  PROVE  /\ last' \in Nat /\ TaskCount <= last' /\ reach' \in [Commits' -> SUBSET Commits']
         /\ tip' \in [Branch -> Commits'] /\ had' \subseteq Commits'
         /\ Commits' = Commits /\ Landing' = Landing /\ Entry' = Entry
         /\ Kept /\ Ancestry'
BY DEF LaneTypeOK, Ancestry, gitVars, Landing, Entry, Kept

(* A branch moves to a commit that has been written.                       *)
LEMMA Branching ==
  ASSUME LaneTypeOK, Ancestry, NEW b \in Branch, NEW c \in Commits, MoveBranch(b, c)
  PROVE  /\ last' \in Nat /\ TaskCount <= last' /\ reach' \in [Commits' -> SUBSET Commits']
         /\ tip' \in [Branch -> Commits'] /\ had' \subseteq Commits'
         /\ Commits' = Commits /\ Landing' = Landing /\ Entry' = Entry
         /\ Kept /\ Ancestry'
<1>1. last' = last /\ reach' = reach
  BY DEF MoveBranch
<1>2. reach[c] \in SUBSET Commits
  BY DEF LaneTypeOK
<1> QED BY <1>1, <1>2 DEF LaneTypeOK, Ancestry, MoveBranch, Landing, Entry, Kept

(* What is typed stays typed when a commit is written.                     *)
LEMMA Older ==
  ASSUME LaneTypeOK, Commits \subseteq Commits'
  PROVE  /\ at \in [Landers -> Landing'] /\ ledger \subseteq Entry'
         /\ green \subseteq Commits' /\ had \subseteq Commits'
         /\ tip \in [Branch -> Commits']
<1>1. \A l \in Landing : l \in Landing'
  BY DEF Landing
<1>2. \A e \in Entry : e \in Entry'
  BY DEF Entry
<1> QED BY <1>1, <1>2 DEF LaneTypeOK

(* A landing goes on to another step, or is over.                          *)
LEMMA Going ==
  ASSUME LaneTypeOK, NEW x \in Landers
  PROVE  /\ \A p \in Pcs : [at EXCEPT ![x].pc = p] \in [Landers -> Landing]
         /\ Leave(x) => at' \in [Landers -> Landing]
<1>1. Idle \in Landing /\ Over \in Landing
  <2>1. 0 \in 0..LaneTries - 1
    BY Numbers
  <2>2. 0 \in Commits
    BY DEF LaneTypeOK
  <2>3. Over = [pc |-> "over", old |-> 0, source |-> 0, cand |-> 0, tries |-> 0]
    BY DEF Over, Idle
  <2> QED BY <2>1, <2>2, <2>3 DEF Landing, Idle, Pcs
<1>2. \A p \in Pcs : [at[x] EXCEPT !.pc = p] \in Landing
  BY DEF LaneTypeOK, Landing
<1> QED BY <1>1, <1>2 DEF LaneTypeOK, Leave

(* A landing ends. *)
LEMMA Ending ==
  ASSUME LaneTypeOK, NEW t \in Tasks, NEW how \in Answers, End(t, how)
  PROVE  /\ mergeLock' \in Tasks \cup {Nobody} /\ answer' \in [Tasks -> Answers]
BY DEF LaneTypeOK, End

-----------------------------------------------------------------------------
(* Every step of the lane keeps the types, and ancestry.                   *)
LEMMA LaneTyped ==
  ASSUME LaneTypeOK, Ancestry, NEW t \in Tasks, Merge(t) \/ Lane(t)
  PROVE  LaneTypeOK' /\ Ancestry' /\ Kept
<1>a. t \in Landers /\ at[t] \in Landing
  BY DEF LaneTypeOK
<1>b. t \in Commits
  <2>1. last \in Nat /\ TaskCount <= last
    BY DEF LaneTypeOK
  <2> QED BY <2>1, Numbers
<1> USE <1>a, <1>b
<1>1. CASE Merge(t)
  BY <1>1, Leaving, Going DEF Merge, Goto, LaneTypeOK, Pcs, farm, bounds
<1>2. CASE TakeLock(t)
  BY <1>2, Leaving, Going DEF TakeLock, Goto, LaneTypeOK, Pcs, bounds
<1>3. CASE ReadTip(t)
  <2>1. at' \in [Landers -> Landing]
    BY <1>3 DEF ReadTip, LaneTypeOK, Landing, Pcs
  <2> QED BY <1>3, <2>1, Leaving DEF ReadTip, LaneTypeOK, farm, bounds
<1>4. CASE Build(t)
  <2>1. {at[t].old, t} \in SUBSET Commits /\ Write({at[t].old, t})
    BY <1>4 DEF Build, Landing
  <2>2. /\ last' = last + 1 /\ last' \in Nat /\ TaskCount <= last' /\ last' \in Commits'
        /\ reach' \in [Commits' -> SUBSET Commits'] /\ Kept /\ Ancestry'
    BY <2>1, Writing
  <2>3. /\ at \in [Landers -> Landing'] /\ ledger \subseteq Entry'
        /\ green \subseteq Commits' /\ had \subseteq Commits'
        /\ tip \in [Branch -> Commits']
    BY <2>2, Older DEF Kept
  <2>4. at' \in [Landers -> Landing']
    BY <1>4, <2>2, <2>3 DEF Build, Landing, Pcs
  <2> QED BY <1>4, <2>2, <2>3, <2>4 DEF Build, LaneTypeOK, farm, bounds
<1>5. CASE Conflict(t) \/ CheckFails(t) \/ GitFails(t)
  BY <1>5, Leaving, Going, Ending
  DEF Conflict, CheckFails, GitFails, Stop, Finish, LaneTypeOK, Answers, bounds
<1>6. CASE CheckPasses(t)
  <2>1. at[t].cand \in Commits
    BY DEF Landing
  <2> QED BY <1>6, <2>1, Leaving, Going DEF CheckPasses, Goto, LaneTypeOK, Pcs, bounds
<1>7. CASE Record(t)
  <2>1. [task |-> t, old |-> at[t].old, new |-> at[t].cand] \in Entry
    BY DEF Landing, Entry
  <2> QED BY <1>7, <2>1, Leaving, Going DEF Record, Goto, LaneTypeOK, Pcs, bounds
<1>8. CASE Settle(t)
  <2>1. /\ at' \in [Landers -> Landing]
        /\ mergeLock' \in Tasks \cup {Nobody} /\ answer' \in [Tasks -> Answers]
    BY <1>8, Going, Ending DEF Settle, Finish, Answers
  <2>2. UNCHANGED gitVars /\ UNCHANGED <<head, ledger, green, bounds>>
    BY <1>8 DEF Settle
  <2> QED BY <2>1, <2>2, Leaving DEF LaneTypeOK, bounds
<1>9. CASE Advance(t)
  <2>1. CASE Look(t)
    <3>1. at' \in [Landers -> Landing]
      BY <2>1, Going DEF Look, Goto, Pcs
    <3>2. UNCHANGED gitVars /\ UNCHANGED <<head, farm, bounds>>
      BY <2>1 DEF Look
    <3> QED BY <3>1, <3>2, Leaving DEF LaneTypeOK, farm, bounds
  <2>2. CASE ReadHead(t)
    <3>1. CASE tip[head] = at[t].old
      <4>1. at' \in [Landers -> Landing]
        <5>1. "ff" \in Pcs
          BY DEF Pcs
        <5> QED BY <2>2, <3>1, <5>1, Going DEF ReadHead, Goto
      <4>2. UNCHANGED gitVars /\ UNCHANGED <<head, farm, bounds>>
        BY <2>2, <3>1 DEF ReadHead
      <4> QED BY <4>1, <4>2, Leaving DEF LaneTypeOK, farm, bounds
    <3>2. CASE tip[head] # at[t].old /\ Spent(t)
      <4>1. /\ at' \in [Landers -> Landing]
            /\ mergeLock' \in Tasks \cup {Nobody} /\ answer' \in [Tasks -> Answers]
        BY <2>2, <3>2, Going, Ending DEF ReadHead, Stale, Stop, Finish, Answers
      <4>2. UNCHANGED gitVars /\ UNCHANGED <<head, ledger, green, bounds>>
        BY <2>2, <3>2 DEF ReadHead, Stale
      <4> QED BY <4>1, <4>2, Leaving DEF LaneTypeOK, bounds
    <3>3. CASE tip[head] # at[t].old /\ ~Spent(t)
      <4>1. at[t].tries + 1 \in 0..LaneTries - 1
        <5>1. at[t].tries \in 0..LaneTries - 1
          BY DEF Landing
        <5> QED BY <3>3, <5>1, Numbers DEF Spent
      <4>2. at' \in [Landers -> Landing]
        <5> DEFINE l == [at[t] EXCEPT !.pc = "tip", !.tries = @ + 1]
        <5>1. l \in Landing
          BY <4>1 DEF Landing, Pcs
        <5>2. at' = [at EXCEPT ![t] = l]
          BY <2>2, <3>3 DEF ReadHead, Stale
        <5> HIDE DEF l
        <5> QED BY <5>1, <5>2 DEF LaneTypeOK
      <4> QED BY <2>2, <3>3, <4>2, Leaving DEF ReadHead, Stale, LaneTypeOK, bounds
    <3> QED BY <3>1, <3>2, <3>3
  <2>3. CASE FastForward(t) \/ UpdateRef(t)
    <3>1. at[t].cand \in Commits /\ head \in Branch /\ Main \in Branch
      BY DEF Landing, LaneTypeOK
    <3>2. CASE Advanced(t)
      <4>1. UNCHANGED gitVars \/ MoveBranch(head, at[t].cand) \/ MoveBranch(Main, at[t].cand)
        BY <2>3 DEF FastForward, UpdateRef
      <4>2. /\ last' \in Nat /\ TaskCount <= last' /\ reach' \in [Commits' -> SUBSET Commits']
            /\ tip' \in [Branch -> Commits'] /\ had' \subseteq Commits'
            /\ Commits' = Commits /\ Landing' = Landing /\ Entry' = Entry
            /\ Kept /\ Ancestry'
        <5>1. CASE UNCHANGED gitVars
          BY <5>1, Leaving
        <5>2. CASE MoveBranch(head, at[t].cand) \/ MoveBranch(Main, at[t].cand)
          BY <3>1, <5>2, Branching
        <5> QED BY <4>1, <5>1, <5>2
      <4>3. at' \in [Landers -> Landing]
        <5>1. "record" \in Pcs
          BY DEF Pcs
        <5> QED BY <3>2, <5>1, Going DEF Advanced, Goto
      <4>4. UNCHANGED <<farm, head, bounds>>
        BY <2>3, <3>2 DEF FastForward, UpdateRef, Advanced
      <4> QED BY <4>2, <4>3, <4>4 DEF LaneTypeOK, farm, bounds
    <3>3. CASE Refused(t) /\ UNCHANGED gitVars
      BY <2>3, <3>3, Leaving, Going, Ending
      DEF Refused, Stop, Finish, FastForward, UpdateRef, LaneTypeOK, Answers, bounds
    <3> QED BY <2>3, <3>2, <3>3 DEF FastForward, UpdateRef
  <2> QED BY <1>9, <2>1, <2>2, <2>3 DEF Advance
<1> QED BY <1>1, <1>2, <1>3, <1>4, <1>5, <1>6, <1>7, <1>8, <1>9 DEF Lane

(* So does every step of a landing in Merger. *)
LEMMA MergerTyped ==
  ASSUME LaneTypeOK, Ancestry, NEW m \in Mergers, Merger(m)
  PROVE  LaneTypeOK' /\ Ancestry' /\ Kept
<1>a. m \in Landers /\ m \notin Tasks /\ at[m] \in Landing
  BY LaneAssumption DEF LaneTypeOK
<1> USE <1>a
<1>1. CASE Plan(m)
  <2>1. tip[Main] \in Commits /\ tip[Other] \in Commits
    BY DEF LaneTypeOK
  <2>2. at' \in [Landers -> Landing]
    BY <1>1, <2>1 DEF Plan, LaneTypeOK, Landing, Pcs
  <2> QED BY <1>1, <2>2, Leaving DEF Plan, LaneTypeOK, farm, bounds
<1>2. CASE MergerRefuses(m)
  BY <1>2, Leaving, Going DEF MergerRefuses, LaneTypeOK, farm, bounds
<1>3. CASE MergerBuilds(m)
  <2>1. PICK ps \in {{at[m].old, at[m].source}, {at[m].old}} : Write(ps)
    BY <1>3 DEF MergerBuilds
  <2>2. ps \in SUBSET Commits
    BY DEF Landing
  <2>3. /\ last' = last + 1 /\ last' \in Nat /\ TaskCount <= last' /\ last' \in Commits'
        /\ reach' \in [Commits' -> SUBSET Commits'] /\ Kept /\ Ancestry'
    BY <2>1, <2>2, Writing
  <2>4. /\ at \in [Landers -> Landing'] /\ ledger \subseteq Entry'
        /\ green \subseteq Commits' /\ had \subseteq Commits'
        /\ tip \in [Branch -> Commits']
    BY <2>3, Older DEF Kept
  <2>5. at' \in [Landers -> Landing']
    <3> DEFINE l == [at[m] EXCEPT !.pc = "look", !.cand = last + 1]
    <3>1. at[m] \in Landing' /\ last + 1 \in Commits'
      BY <2>3, <2>4
    <3>2. l \in Landing'
      BY <3>1 DEF Landing, Pcs
    <3>3. at' = [at EXCEPT ![m] = l]
      BY <1>3, <2>4, <3>1 DEF MergerBuilds, Landing
    <3> HIDE DEF l
    <3> QED BY <2>4, <3>2, <3>3
  <2>6. moves' \in 0..MaxMoves
    BY <1>3, Numbers DEF MergerBuilds, LaneTypeOK
  <2> QED BY <1>3, <2>3, <2>4, <2>5, <2>6 DEF MergerBuilds, LaneTypeOK, farm
<1>4. CASE MergerFastForwards(m)
  <2>1. at' \in [Landers -> Landing]
    BY <1>4 DEF MergerFastForwards, LaneTypeOK, Landing, Pcs
  <2> QED BY <1>4, <2>1, Leaving DEF MergerFastForwards, LaneTypeOK, farm, bounds
<1>5. CASE Look(m)
  BY <1>5, Leaving, Going DEF Look, Goto, LaneTypeOK, Pcs, farm, bounds
<1>6. CASE ReadHead(m)
  <2>1. Goto(m, "ff") \/ Leave(m)
    BY <1>6 DEF ReadHead
  <2>2. at' \in [Landers -> Landing]
    <3>1. CASE Goto(m, "ff")
      BY <3>1, Going DEF Goto, Pcs
    <3>2. CASE Leave(m)
      BY <3>2, Going
    <3> QED BY <2>1, <3>1, <3>2
  <2>3. UNCHANGED <<gitVars, head, farm, bounds>>
    BY <1>6 DEF ReadHead
  <2> QED BY <2>2, <2>3, Leaving DEF LaneTypeOK, farm, bounds
<1>7. CASE FastForward(m) \/ UpdateRef(m)
  <2>1. at[m].cand \in Commits /\ head \in Branch /\ Main \in Branch
    BY DEF Landing, LaneTypeOK
  <2>2. Leave(m) /\ UNCHANGED <<farm, head, bounds>>
    BY <1>7 DEF FastForward, UpdateRef, Advanced, Refused
  <2>3. UNCHANGED gitVars \/ MoveBranch(head, at[m].cand) \/ MoveBranch(Main, at[m].cand)
    BY <1>7 DEF FastForward, UpdateRef
  <2>4. /\ last' \in Nat /\ TaskCount <= last' /\ reach' \in [Commits' -> SUBSET Commits']
        /\ tip' \in [Branch -> Commits'] /\ had' \subseteq Commits'
        /\ Commits' = Commits /\ Landing' = Landing /\ Entry' = Entry
        /\ Kept /\ Ancestry'
    BY <2>1, <2>3, Leaving, Branching
  <2> QED BY <2>2, <2>4, Going DEF LaneTypeOK, farm, bounds
<1> QED BY <1>1, <1>2, <1>3, <1>4, <1>5, <1>6, <1>7 DEF Merger, Advance

(* And everything a person does with Git, and a crash.                     *)
LEMMA PersonTyped ==
  ASSUME LaneTypeOK, Ancestry, Person \/ Crash
  PROVE  LaneTypeOK' /\ Ancestry' /\ Kept
<1>1. CASE Commit
  <2>1. tip[head] \in Commits /\ {tip[head]} \in SUBSET Commits /\ Write({tip[head]})
    BY <1>1 DEF Commit, LaneTypeOK
  <2>2. /\ last' = last + 1 /\ last' \in Nat /\ TaskCount <= last' /\ last' \in Commits'
        /\ reach' \in [Commits' -> SUBSET Commits'] /\ Kept /\ Ancestry'
    BY <2>1, Writing
  <2>3. /\ at \in [Landers -> Landing'] /\ ledger \subseteq Entry'
        /\ green \subseteq Commits' /\ had \subseteq Commits'
        /\ tip \in [Branch -> Commits']
    BY <2>2, Older DEF Kept
  <2>4. tip' \in [Branch -> Commits'] /\ had' \subseteq Commits'
    BY <1>1, <2>2, <2>3 DEF Commit
  <2>5. moves' \in 0..MaxMoves
    BY <1>1, Numbers DEF Commit, LaneTypeOK
  <2> QED BY <1>1, <2>2, <2>3, <2>4, <2>5 DEF Commit, LaneTypeOK, farm
<1>2. CASE Rewind
  <2>1. PICK c \in reach[tip[Main]] : MoveBranch(Main, c)
    BY <1>2 DEF Rewind
  <2>2. c \in Commits /\ Main \in Branch
    BY DEF LaneTypeOK
  <2>3. moves' \in 0..MaxMoves
    BY <1>2, Numbers DEF Rewind, LaneTypeOK
  <2> QED BY <1>2, <2>1, <2>2, <2>3, Branching DEF Rewind, LaneTypeOK, farm
<1>3. CASE Switch
  BY <1>3, Leaving DEF Switch, LaneTypeOK, farm, bounds
<1>4. CASE Crash
  <2>1. at' \in [Landers -> Landing]
    <3>1. Idle \in Landing /\ Over \in Landing
      <4>1. 0 \in 0..LaneTries - 1
        BY Numbers
      <4>2. 0 \in Commits
        BY DEF LaneTypeOK
      <4>3. Over = [pc |-> "over", old |-> 0, source |-> 0, cand |-> 0, tries |-> 0]
        BY DEF Over, Idle
      <4> QED BY <4>1, <4>2, <4>3 DEF Landing, Idle, Pcs
    <3> QED BY <1>4, <3>1 DEF Crash, LaneTypeOK
  <2>2. crashes' \in 0..MaxCrashes
    BY <1>4, Numbers DEF Crash, LaneTypeOK
  <2> QED BY <1>4, <2>1, <2>2, Leaving DEF Crash, LaneTypeOK
<1> QED BY <1>1, <1>2, <1>3, <1>4 DEF Person

(* Every step keeps the types, and the ancestry of what was written.       *)
LEMMA LaneStepTyped ==
  ASSUME LaneTypeOK, Ancestry, [Next]_vars
  PROVE  LaneTypeOK' /\ Ancestry' /\ Kept
<1>1. CASE UNCHANGED vars
  BY <1>1, Leaving DEF vars, LaneTypeOK, farm, bounds
<1> QED BY <1>1, LaneTyped, MergerTyped, PersonTyped DEF Next

(* The repository as the tasks were given out.                             *)
LEMMA LaneInitTyped == ASSUME Init PROVE LaneTypeOK /\ Ancestry
<1>1. last \in Nat /\ TaskCount <= last
  BY Numbers DEF Init
<1>2. 0 \in Commits /\ 0 \in 0..LaneTries - 1
  BY <1>1, Numbers
<1>3. \A c \in Commits : reach[c] = {0, c} /\ reach[c] \in SUBSET Commits
  BY <1>2 DEF Init
<1>4. reach \in [Commits -> SUBSET Commits]
  BY <1>3 DEF Init
<1>5. Idle \in Landing
  BY <1>2 DEF Idle, Landing, Pcs
<1>6. Ancestry
  BY <1>2, <1>3 DEF Ancestry
<1>7. moves \in 0..MaxMoves /\ crashes \in 0..MaxCrashes
  BY Numbers DEF Init
<1> QED BY <1>1, <1>2, <1>4, <1>5, <1>6, <1>7 DEF Init, LaneTypeOK, Answers

(* Every reachable state is typed: whatever is said of a commit, by a      *)
(* branch, a landing or the ledger, is said of one that was written (land, *)
(* advance).                                                               *)
THEOREM LaneTypeCorrect == Spec => []LaneTypeOK
<1>1. Init => LaneTypeOK /\ Ancestry
  BY LaneInitTyped
<1>2. (LaneTypeOK /\ Ancestry) /\ [Next]_vars => (LaneTypeOK /\ Ancestry)'
  BY LaneStepTyped
<1> QED BY <1>1, <1>2, PTL DEF Spec

-----------------------------------------------------------------------------
(* What a landing knows at each step.                                      *)

Moving == {"look", "head", "ff", "swap"}

(* What is to become the tip has everything the tip it was built on has,   *)
Built(x) == at[x].pc \in Moving \cup {"check"} => reach[at[x].old] \subseteq reach[at[x].cand]

(* a candidate has the task, which the tip had not, and that tip,          *)
Candidate(t) ==
  /\ at[t].pc \in Moving \cup {"check", "record"} => {at[t].old, t} \subseteq reach[at[t].cand]
  /\ at[t].pc \in Moving \cup {"build", "check", "record"}
       => at[t].old \in had /\ ~Contains(at[t].old, t)

(* and was checked, unless its tree is the task's.                         *)
Checked(t) ==
  at[t].pc \in Moving \cup {"record"} => at[t].cand \in green \/ StartedFromTip(t)

SoundLanding(x) == Built(x) /\ (x \in Tasks => Candidate(x) /\ Checked(x))

(* What the destination has had is all there is of its history.            *)
History == reach[tip[Main]] \subseteq had /\ \A c \in had : reach[c] \subseteq had

(* A landing goes on, or is over: what of it changes.                      *)
LEMMA Went ==
  ASSUME LaneTypeOK, NEW x \in Landers, NEW p \in Pcs, Goto(x, p)
  PROVE  /\ at'[x].pc = p /\ at'[x].old = at[x].old /\ at'[x].cand = at[x].cand
         /\ \A y \in Landers \ {x} : at'[y] = at[y]
BY DEF LaneTypeOK, Goto, Landing

(* A landing is over: nothing else of the landings changes.                 *)
LEMMA Left ==
  ASSUME LaneTypeOK, NEW x \in Landers, Leave(x)
  PROVE  /\ at'[x].pc \in {"idle", "over"}
         /\ \A y \in Landers \ {x} : at'[y] = at[y]
BY DEF LaneTypeOK, Leave, Idle, Over

(* What a landing knows stays true while others move: nothing written is   *)
(* unwritten, nothing checked is unchecked, nothing had was not.           *)
LEMMA Aside ==
  ASSUME LaneTypeOK, NEW x \in Landers, SoundLanding(x), at'[x] = at[x],
         Kept, green \subseteq green', had \subseteq had'
  PROVE  SoundLanding(x)'
<1>1. at[x].old \in Commits /\ at[x].cand \in Commits
  BY DEF LaneTypeOK, Landing
<1>2. reach'[at[x].old] = reach[at[x].old] /\ reach'[at[x].cand] = reach[at[x].cand]
  BY <1>1 DEF Kept
<1>3. x \in Tasks => reach'[x] = reach[x]
  <2>1. last \in Nat /\ TaskCount <= last
    BY DEF LaneTypeOK
  <2> QED BY <2>1, Numbers DEF Kept
<1> QED BY <1>2, <1>3
    DEF SoundLanding, Built, Candidate, Checked, StartedFromTip, Contains

(* A landing that is not at work knows nothing. *)
LEMMA Resting ==
  ASSUME NEW x \in Landers, at[x].pc \in {"idle", "over", "lock", "tip", "settle", "plan"}
  PROVE  SoundLanding(x)
BY DEF SoundLanding, Built, Candidate, Checked, Moving

(* The destination keeps its history when it moves, or another branch does. *)
LEMMA Moved ==
  ASSUME LaneTypeOK, Ancestry, History, NEW b \in Branch, NEW c \in Commits, MoveBranch(b, c)
  PROVE  History' /\ had \subseteq had' /\ (b = Main => c \in had')
<1>1. reach' = reach /\ tip' = [tip EXCEPT ![b] = c]
      /\ had' = IF b = Main THEN had \cup reach[c] ELSE had
  BY DEF MoveBranch
<1>2. tip \in [Branch -> Commits] /\ Main \in Branch
  BY DEF LaneTypeOK
<1>3. c \in reach[c] /\ \A d \in reach[c] : reach[d] \subseteq reach[c]
  BY DEF Ancestry
<1>4. CASE b = Main
  BY <1>1, <1>2, <1>3, <1>4 DEF History
<1>5. CASE b # Main
  BY <1>1, <1>2, <1>5 DEF History
<1> QED BY <1>4, <1>5

(* The destination keeps its history when a commit is written.             *)
LEMMA Wrote ==
  ASSUME LaneTypeOK, History, Kept, UNCHANGED <<tip, had>>
  PROVE  History'
<1>1. tip[Main] \in Commits /\ had \subseteq Commits
  BY DEF LaneTypeOK
<1> QED BY <1>1 DEF History, Kept

-----------------------------------------------------------------------------
(* A step of the lane: what its landing knows then, and that the history   *)
(* of the destination is kept.                                             *)
LEMMA LaneSound ==
  ASSUME LaneTypeOK, Ancestry, History, NEW t \in Tasks, SoundLanding(t), Kept,
         Merge(t) \/ Lane(t)
  PROVE  /\ SoundLanding(t)' /\ \A y \in Landers \ {t} : at'[y] = at[y]
         /\ green \subseteq green' /\ had \subseteq had' /\ History'
<1>a. t \in Landers /\ at \in [Landers -> Landing] /\ at[t] \in Landing
  BY DEF LaneTypeOK
<1>b. t \in Commits /\ at[t].old \in Commits /\ at[t].cand \in Commits
  <2>1. last \in Nat /\ TaskCount <= last
    BY DEF LaneTypeOK
  <2> QED BY <1>a, <2>1, Numbers DEF Landing
<1>c. UNCHANGED gitVars => had \subseteq had' /\ History'
  BY DEF gitVars, History
<1>1. CASE Merge(t) \/ TakeLock(t)
  <2>1. Goto(t, "lock") \/ Goto(t, "tip")
    BY <1>1 DEF Merge, TakeLock
  <2>2. at'[t].pc \in {"lock", "tip"} /\ \A y \in Landers \ {t} : at'[y] = at[y]
    BY <1>a, <2>1, Went DEF Pcs
  <2>3. SoundLanding(t)'
    BY <2>2 DEF SoundLanding, Built, Candidate, Checked, Moving
  <2> QED BY <1>1, <1>c, <2>2, <2>3 DEF Merge, TakeLock, farm
<1>2. CASE ReadTip(t)
  <2>1. /\ at'[t].old = tip[Main]
        /\ at'[t].pc = IF AlreadyThere(t) THEN "settle" ELSE "build"
        /\ \A y \in Landers \ {t} : at'[y] = at[y]
    BY <1>2, <1>a DEF ReadTip, Landing
  <2>2. tip[Main] \in had
    BY DEF LaneTypeOK, Ancestry, History
  <2>3. reach' = reach /\ had' = had /\ green' = green
    BY <1>2 DEF ReadTip, gitVars, farm
  <2>4. SoundLanding(t)'
    BY <2>1, <2>2, <2>3
    DEF SoundLanding, Built, Candidate, Checked, Moving, AlreadyThere, Contains
  <2> QED BY <1>2, <1>c, <2>1, <2>3, <2>4 DEF ReadTip
<1>3. CASE Build(t)
  <2>1. {at[t].old, t} \in SUBSET Commits /\ Write({at[t].old, t})
    BY <1>3, <1>b DEF Build
  <2>2. reach'[last'] = {last'} \cup UNION {reach[p] : p \in {at[t].old, t}} /\ last' = last + 1
    BY <2>1, Writing
  <2>3. reach[at[t].old] \subseteq reach'[last'] /\ reach[t] \subseteq reach'[last']
    BY <2>2
  <2>4. reach'[at[t].old] = reach[at[t].old] /\ reach'[t] = reach[t]
    BY <1>b DEF Kept
  <2>5. at[t].old \in reach[at[t].old] /\ t \in reach[t]
    BY <1>b DEF Ancestry
  <2>6. /\ at'[t].old = at[t].old /\ at'[t].cand = last'
        /\ at'[t].pc = IF StartedFromTip(t) THEN "look" ELSE "check"
        /\ \A y \in Landers \ {t} : at'[y] = at[y]
    BY <1>3, <1>a, <2>2 DEF Build, Landing
  <2>7. had' = had /\ tip' = tip /\ green' = green /\ at[t].pc = "build"
    BY <1>3 DEF Build, farm
  <2>8. Built(t)'
    BY <2>3, <2>4, <2>6 DEF Built
  <2>9. Candidate(t)'
    BY <2>3, <2>4, <2>5, <2>6, <2>7 DEF SoundLanding, Candidate, Contains, Moving
  <2>10. Checked(t)'
    BY <2>4, <2>6 DEF Checked, StartedFromTip, Contains, Moving
  <2> QED BY <2>6, <2>7, <2>8, <2>9, <2>10, Wrote DEF SoundLanding
<1>4. CASE Conflict(t) \/ CheckFails(t) \/ GitFails(t) \/ Settle(t)
  <2>1. Leave(t) /\ UNCHANGED gitVars /\ green' = green
    BY <1>4 DEF Conflict, CheckFails, GitFails, Settle, Stop, Finish
  <2>2. at'[t].pc \in {"idle", "over"} /\ \A y \in Landers \ {t} : at'[y] = at[y]
    BY <1>a, <2>1, Left
  <2>3. SoundLanding(t)'
    BY <2>2 DEF SoundLanding, Built, Candidate, Checked, Moving
  <2> QED BY <1>c, <2>1, <2>2, <2>3
<1>5. CASE CheckPasses(t)
  <2>1. /\ at'[t].pc = "look" /\ at'[t].old = at[t].old /\ at'[t].cand = at[t].cand
        /\ \A y \in Landers \ {t} : at'[y] = at[y]
    BY <1>5, <1>a, Went DEF CheckPasses, Pcs
  <2>2. reach' = reach /\ had' = had /\ green' = green \cup {at[t].cand} /\ at[t].pc = "check"
    BY <1>5 DEF CheckPasses, gitVars
  <2>3. SoundLanding(t)'
    BY <2>1, <2>2 DEF SoundLanding, Built, Candidate, Checked, Contains, Moving
  <2> QED BY <1>5, <1>c, <2>1, <2>2, <2>3 DEF CheckPasses
<1>6. CASE Record(t)
  <2>1. at'[t].pc = "settle" /\ \A y \in Landers \ {t} : at'[y] = at[y]
    BY <1>6, <1>a, Went DEF Record, Pcs
  <2>2. SoundLanding(t)'
    BY <2>1 DEF SoundLanding, Built, Candidate, Checked, Moving
  <2> QED BY <1>6, <1>c, <2>1, <2>2 DEF Record
<1>7. CASE Look(t)
  <2>1. /\ at'[t].pc \in {"head", "swap"} /\ at'[t].old = at[t].old /\ at'[t].cand = at[t].cand
        /\ \A y \in Landers \ {t} : at'[y] = at[y]
    BY <1>7, <1>a, Went DEF Look, Pcs
  <2>2. reach' = reach /\ had' = had /\ green' = green /\ at[t].pc = "look"
    BY <1>7 DEF Look, gitVars, farm
  <2>3. SoundLanding(t)'
    BY <2>1, <2>2
    DEF SoundLanding, Built, Candidate, Checked, StartedFromTip, Contains, Moving
  <2> QED BY <1>7, <1>c, <2>1, <2>2, <2>3 DEF Look
<1>8. CASE ReadHead(t)
  <2>1. reach' = reach /\ had' = had /\ green' = green /\ at[t].pc = "head" /\ UNCHANGED gitVars
    BY <1>8 DEF ReadHead, Stale, Stop, Finish, gitVars, farm
  <2>2. CASE Goto(t, "ff")
    <3>1. /\ at'[t].pc = "ff" /\ at'[t].old = at[t].old /\ at'[t].cand = at[t].cand
          /\ \A y \in Landers \ {t} : at'[y] = at[y]
      BY <1>a, <2>2, Went DEF Pcs
    <3>2. SoundLanding(t)'
      BY <2>1, <3>1
      DEF SoundLanding, Built, Candidate, Checked, StartedFromTip, Contains, Moving
    <3> QED BY <1>c, <2>1, <3>1, <3>2
  <2>3. CASE Stale(t)
    <3>1. at'[t].pc \in {"idle", "over", "tip"} /\ \A y \in Landers \ {t} : at'[y] = at[y]
      <4>1. CASE Leave(t)
        BY <1>a, <4>1, Left
      <4>2. CASE at' = [at EXCEPT ![t].pc = "tip", ![t].tries = @ + 1]
        BY <1>a, <4>2 DEF Landing
      <4> QED BY <2>3, <4>1, <4>2 DEF Stale, Stop, Finish
    <3>2. SoundLanding(t)'
      BY <3>1 DEF SoundLanding, Built, Candidate, Checked, Moving
    <3> QED BY <1>c, <2>1, <3>1, <3>2
  <2> QED BY <1>8, <2>2, <2>3 DEF ReadHead
<1>9. CASE FastForward(t) \/ UpdateRef(t)
  <2>1. had \subseteq had' /\ History' /\ reach' = reach
    <3>1. Main \in Branch /\ head \in Branch
      BY DEF LaneTypeOK
    <3>2. CASE UNCHANGED gitVars
      BY <1>c, <3>2 DEF gitVars
    <3>3. CASE \E b \in Branch : MoveBranch(b, at[t].cand)
      BY <1>b, <3>3, Moved DEF MoveBranch
    <3> QED BY <1>9, <3>1, <3>2, <3>3 DEF FastForward, UpdateRef
  <2>2. green' = green /\ at[t].pc \in Moving
    BY <1>9 DEF FastForward, UpdateRef, Advanced, Refused, farm, Moving
  <2>3. CASE Goto(t, "record")
    <3>1. /\ at'[t].pc = "record" /\ at'[t].old = at[t].old /\ at'[t].cand = at[t].cand
          /\ \A y \in Landers \ {t} : at'[y] = at[y]
      BY <1>a, <2>3, Went DEF Pcs
    <3>2. SoundLanding(t)'
      BY <2>1, <2>2, <3>1
      DEF SoundLanding, Built, Candidate, Checked, StartedFromTip, Contains, Moving
    <3> QED BY <2>1, <2>2, <3>1, <3>2
  <2>4. CASE Leave(t)
    <3>1. at'[t].pc \in {"idle", "over"} /\ \A y \in Landers \ {t} : at'[y] = at[y]
      BY <1>a, <2>4, Left
    <3>2. SoundLanding(t)'
      BY <3>1 DEF SoundLanding, Built, Candidate, Checked, Moving
    <3> QED BY <2>1, <2>2, <3>1, <3>2
  <2> QED BY <1>9, <2>3, <2>4 DEF FastForward, UpdateRef, Advanced, Refused, Stop, Finish
<1> QED BY <1>1, <1>2, <1>3, <1>4, <1>5, <1>6, <1>7, <1>8, <1>9 DEF Lane, Advance

(* The same for a step of a landing in Merger. *)
LEMMA MergerSound ==
  ASSUME LaneTypeOK, Ancestry, History, NEW m \in Mergers, SoundLanding(m), Kept, Merger(m)
  PROVE  /\ SoundLanding(m)' /\ \A y \in Landers \ {m} : at'[y] = at[y]
         /\ green \subseteq green' /\ had \subseteq had' /\ History'
<1>a. m \in Landers /\ m \notin Tasks /\ at \in [Landers -> Landing] /\ at[m] \in Landing
  BY LaneAssumption DEF LaneTypeOK
<1>b. at[m].old \in Commits /\ at[m].source \in Commits /\ at[m].cand \in Commits
  BY <1>a DEF Landing
<1>c. UNCHANGED gitVars => had \subseteq had' /\ History'
  BY DEF gitVars, History
<1>1. CASE Plan(m)
  <2>1. at'[m].pc = "plan" /\ \A y \in Landers \ {m} : at'[y] = at[y]
    BY <1>1, <1>a DEF Plan, Landing
  <2>2. SoundLanding(m)'
    BY <1>a, <2>1 DEF SoundLanding, Built, Moving
  <2> QED BY <1>1, <1>c, <2>1, <2>2 DEF Plan, farm
<1>2. CASE MergerBuilds(m)
  <2>1. PICK ps \in {{at[m].old, at[m].source}, {at[m].old}} : Write(ps)
    BY <1>2 DEF MergerBuilds
  <2>2. reach'[last'] = {last'} \cup UNION {reach[p] : p \in ps} /\ last' = last + 1
    BY <1>b, <2>1, Writing
  <2>3. reach[at[m].old] \subseteq reach'[last'] /\ reach'[at[m].old] = reach[at[m].old]
    BY <1>b, <2>1, <2>2 DEF Kept
  <2>4. /\ at'[m].old = at[m].old /\ at'[m].cand = last'
        /\ \A y \in Landers \ {m} : at'[y] = at[y]
    BY <1>2, <1>a, <2>2 DEF MergerBuilds, Landing
  <2>5. SoundLanding(m)'
    BY <1>a, <2>3, <2>4 DEF SoundLanding, Built
  <2>6. UNCHANGED <<tip, had, green>>
    BY <1>2 DEF MergerBuilds, farm
  <2> QED BY <2>4, <2>5, <2>6, Wrote
<1>3. CASE MergerFastForwards(m)
  <2>1. reach[at[m].old] \subseteq reach[at[m].source]
    BY <1>3, <1>b DEF MergerFastForwards, Contains, Ancestry
  <2>2. /\ at'[m].old = at[m].old /\ at'[m].cand = at[m].source
        /\ \A y \in Landers \ {m} : at'[y] = at[y]
    BY <1>3, <1>a DEF MergerFastForwards, Landing
  <2>3. reach' = reach /\ green' = green /\ UNCHANGED gitVars
    BY <1>3 DEF MergerFastForwards, gitVars, farm
  <2>4. SoundLanding(m)'
    BY <1>a, <2>1, <2>2, <2>3 DEF SoundLanding, Built
  <2> QED BY <1>c, <2>2, <2>3, <2>4
<1>4. CASE Look(m)
  <2>1. /\ at'[m].old = at[m].old /\ at'[m].cand = at[m].cand
        /\ \A y \in Landers \ {m} : at'[y] = at[y]
    BY <1>4, <1>a, Went DEF Look, Pcs
  <2>2. reach' = reach /\ green' = green /\ at[m].pc = "look" /\ UNCHANGED gitVars
    BY <1>4 DEF Look, gitVars, farm
  <2>3. SoundLanding(m)'
    BY <1>a, <2>1, <2>2 DEF SoundLanding, Built, Moving
  <2> QED BY <1>c, <2>1, <2>2, <2>3
<1>5. CASE Goto(m, "ff") /\ ReadHead(m)
  <2>1. /\ at'[m].old = at[m].old /\ at'[m].cand = at[m].cand
        /\ \A y \in Landers \ {m} : at'[y] = at[y]
    BY <1>5, <1>a, Went DEF Pcs
  <2>2. reach' = reach /\ green' = green /\ at[m].pc = "head" /\ UNCHANGED gitVars
    BY <1>5, <1>a DEF ReadHead, Stale, gitVars, farm
  <2>3. SoundLanding(m)'
    BY <1>a, <2>1, <2>2 DEF SoundLanding, Built, Moving
  <2> QED BY <1>c, <2>1, <2>2, <2>3
<1>6. CASE Leave(m) /\ green' = green /\ had \subseteq had' /\ History'
  <2>1. at'[m].pc \in {"idle", "over"} /\ \A y \in Landers \ {m} : at'[y] = at[y]
    BY <1>6, <1>a, Left
  <2>2. SoundLanding(m)'
    BY <1>a, <2>1 DEF SoundLanding, Built, Moving
  <2> QED BY <1>6, <2>1, <2>2
<1>7. CASE FastForward(m) \/ UpdateRef(m)
  <2>1. Leave(m) /\ green' = green
    BY <1>7, <1>a DEF FastForward, UpdateRef, Advanced, Refused, farm
  <2>2. had \subseteq had' /\ History'
    <3>1. Main \in Branch /\ head \in Branch
      BY DEF LaneTypeOK
    <3>2. CASE \E b \in Branch : MoveBranch(b, at[m].cand)
      BY <1>b, <3>2, Moved
    <3> QED BY <1>7, <1>c, <3>1, <3>2 DEF FastForward, UpdateRef
  <2> QED BY <1>6, <2>1, <2>2
<1>8. CASE MergerRefuses(m)
  BY <1>8, <1>c, <1>6 DEF MergerRefuses, farm
<1>9. CASE ReadHead(m) /\ ~Goto(m, "ff")
  <2>1. Leave(m) /\ UNCHANGED farm /\ UNCHANGED gitVars
    BY <1>9, <1>a DEF ReadHead
  <2> QED BY <1>c, <1>6, <2>1 DEF farm
<1> QED BY <1>1, <1>2, <1>3, <1>4, <1>5, <1>7, <1>8, <1>9 DEF Merger, Advance

(* And for what a person does, and a crash: no landing knows more.         *)
LEMMA PersonSound ==
  ASSUME LaneTypeOK, Ancestry, History, Kept, Person \/ Crash
  PROVE  /\ \A x \in Landers : at'[x] = at[x] \/ at'[x].pc \in {"idle", "over"}
         /\ green \subseteq green' /\ had \subseteq had' /\ History'
<1>1. CASE Commit
  <2>1. Write({tip[head]}) /\ tip[head] \in Commits /\ {tip[head]} \in SUBSET Commits
    BY <1>1 DEF Commit, LaneTypeOK
  <2>2. reach'[last'] = {last'} \cup reach[tip[head]] /\ last' = last + 1
    BY <2>1, Writing
  <2>3. /\ tip' = [tip EXCEPT ![head] = last']
        /\ had' = IF head = Main THEN had \cup {last'} ELSE had
    BY <1>1, <2>2 DEF Commit
  <2>4. tip \in [Branch -> Commits] /\ head \in Branch /\ had \subseteq Commits
    BY DEF LaneTypeOK
  <2>5. \A c \in had : reach'[c] \subseteq had
    BY <2>4 DEF History, Kept
  <2>6. History'
    <3>1. CASE head = Main
      BY <2>2, <2>3, <2>4, <2>5, <3>1 DEF History
    <3>2. CASE head # Main
      BY <2>3, <2>4, <2>5, <3>2 DEF History, Kept
    <3> QED BY <3>1, <3>2
  <2> QED BY <1>1, <2>3, <2>6 DEF Commit, farm
<1>2. CASE Rewind
  <2>1. PICK c \in reach[tip[Main]] : MoveBranch(Main, c)
    BY <1>2 DEF Rewind
  <2>2. c \in Commits /\ Main \in Branch
    BY DEF LaneTypeOK
  <2> QED BY <1>2, <2>1, <2>2, Moved DEF Rewind, farm
<1>3. CASE Switch
  BY <1>3 DEF Switch, gitVars, farm, History
<1>4. CASE Crash
  <2>1. \A x \in Landers : at'[x] = at[x] \/ at'[x] = Idle \/ at'[x] = Over
    BY <1>4 DEF Crash
  <2> QED BY <1>4, <2>1 DEF Crash, Idle, Over, gitVars, History
<1> QED BY <1>1, <1>2, <1>3, <1>4 DEF Person

(* The inductive invariant. *)
LandingInv ==
  /\ LaneTypeOK /\ Ancestry /\ History
  /\ \A x \in Landers : SoundLanding(x)

(* Git and the lane's records only ever gain.                              *)
Gained == Kept /\ green \subseteq green' /\ had \subseteq had'

(* Every step keeps it.                                                     *)
LEMMA LandingInvStep ==
  ASSUME LandingInv, [Next]_vars
  PROVE  LandingInv' /\ Gained
<1>a. LaneTypeOK' /\ Ancestry' /\ Kept
  BY LaneStepTyped DEF LandingInv
<1>b. LaneTypeOK /\ Ancestry /\ History /\ \A x \in Landers : SoundLanding(x)
  BY DEF LandingInv
<1>1. CASE \E t \in Tasks : Merge(t) \/ Lane(t)
  <2>1. PICK t \in Tasks : Merge(t) \/ Lane(t)
    BY <1>1
  <2>2. /\ SoundLanding(t)' /\ \A y \in Landers \ {t} : at'[y] = at[y]
        /\ green \subseteq green' /\ had \subseteq had' /\ History'
    BY <1>a, <1>b, <2>1, LaneSound
  <2>3. \A y \in Landers \ {t} : SoundLanding(y)'
    BY <1>a, <1>b, <2>2, Aside
  <2> QED BY <1>a, <2>2, <2>3 DEF LandingInv, Gained
<1>2. CASE \E m \in Mergers : Merger(m)
  <2>1. PICK m \in Mergers : Merger(m)
    BY <1>2
  <2>2. /\ SoundLanding(m)' /\ \A y \in Landers \ {m} : at'[y] = at[y]
        /\ green \subseteq green' /\ had \subseteq had' /\ History'
    BY <1>a, <1>b, <2>1, MergerSound
  <2>3. \A y \in Landers \ {m} : SoundLanding(y)'
    BY <1>a, <1>b, <2>2, Aside
  <2> QED BY <1>a, <2>2, <2>3 DEF LandingInv, Gained
<1>3. CASE Person \/ Crash
  <2>1. /\ \A x \in Landers : at'[x] = at[x] \/ at'[x].pc \in {"idle", "over"}
        /\ green \subseteq green' /\ had \subseteq had' /\ History'
    BY <1>a, <1>b, <1>3, PersonSound
  <2>2. ASSUME NEW x \in Landers PROVE SoundLanding(x)'
    <3>1. CASE at'[x] = at[x]
      BY <1>a, <1>b, <2>1, <3>1, Aside
    <3>2. CASE at'[x].pc \in {"idle", "over"}
      BY <3>2 DEF SoundLanding, Built, Candidate, Checked, Moving
    <3> QED BY <2>1, <3>1, <3>2
  <2> QED BY <1>a, <2>1, <2>2 DEF LandingInv, Gained
<1>4. CASE UNCHANGED vars
  <2>1. at' = at /\ green' = green /\ UNCHANGED gitVars
    BY <1>4 DEF vars, farm
  <2>2. History' /\ had' = had
    BY <1>b, <2>1 DEF gitVars, History
  <2>3. \A x \in Landers : SoundLanding(x)'
    BY <1>a, <1>b, <2>1, <2>2, Aside
  <2> QED BY <1>a, <2>1, <2>2, <2>3 DEF LandingInv, Gained
<1> QED BY <1>1, <1>2, <1>3, <1>4 DEF Next

(* It holds of the repository as the tasks were given out.                  *)
LEMMA LandingInvInit == ASSUME Init PROVE LandingInv
<1>1. LaneTypeOK /\ Ancestry
  BY LaneInitTyped
<1>2. \A c \in Commits : reach[c] = {0, c}
  BY DEF Init
<1>3. 0 \in Commits /\ tip[Main] = 0 /\ had = {0}
  BY <1>1 DEF Init, LaneTypeOK
<1>4. History
  BY <1>2, <1>3 DEF History
<1>5. \A x \in Landers : at[x].pc = "idle"
  BY DEF Init, Idle
<1>6. \A x \in Landers : SoundLanding(x)
  BY <1>5, Resting
<1> QED BY <1>1, <1>4, <1>6 DEF LandingInv

-----------------------------------------------------------------------------
(* Nothing is lost. *)

(* A branch that moves to a commit that has its tip keeps all it had.      *)
LEMMA MovesForward ==
  ASSUME LaneTypeOK, Ancestry, NEW b \in Branch, NEW c \in Commits, MoveBranch(b, c),
         reach[tip[b]] \subseteq reach[c]
  PROVE  \A d \in Branch : reach[tip[d]] \subseteq reach'[tip'[d]]
<1>1. tip' = [tip EXCEPT ![b] = c] /\ reach' = reach /\ tip \in [Branch -> Commits]
  BY DEF MoveBranch, LaneTypeOK
<1> QED BY <1>1

(* The two ways advance moves a branch move it forward.                    *)
LEMMA AdvanceForward ==
  ASSUME LandingInv, NEW x \in Landers, FastForward(x) \/ UpdateRef(x)
  PROVE  \A d \in Branch : reach[tip[d]] \subseteq reach'[tip'[d]]
<1>1. LaneTypeOK /\ Ancestry /\ Built(x)
  BY DEF LandingInv, SoundLanding
<1>2. at[x].cand \in Commits /\ head \in Branch /\ Main \in Branch
  BY <1>1 DEF LaneTypeOK, Landing
<1>3. CASE UNCHANGED gitVars
  BY <1>3 DEF gitVars
<1>4. CASE MoveBranch(head, at[x].cand) /\ Contains(at[x].cand, tip[head])
  <2>1. reach[tip[head]] \subseteq reach[at[x].cand]
    BY <1>1, <1>2, <1>4 DEF Ancestry, Contains
  <2> QED BY <1>1, <1>2, <1>4, <2>1, MovesForward
<1>5. CASE MoveBranch(Main, at[x].cand) /\ SwapHolds(x) /\ at[x].pc = "swap"
  <2>1. reach[tip[Main]] \subseteq reach[at[x].cand]
    BY <1>1, <1>5 DEF Built, SwapHolds, Moving
  <2> QED BY <1>1, <1>2, <1>5, <2>1, MovesForward
<1> QED BY <1>3, <1>4, <1>5 DEF FastForward, UpdateRef

(* Every other step leaves the tips alone but a person's commit and rewind. *)
LEMMA TipsStay ==
  ASSUME LandingInv, [Next]_vars
  PROVE  \/ tip' = tip \/ Commit \/ Rewind
         \/ \E x \in Landers : FastForward(x) \/ UpdateRef(x)
<1>1. ASSUME NEW t \in Tasks, Merge(t) \/ Lane(t), ~FastForward(t), ~UpdateRef(t)
      PROVE  tip' = tip
  BY <1>1 DEF Lane, Advance, Merge, TakeLock, ReadTip, Build, Conflict, CheckPasses,
              CheckFails, GitFails, Record, Settle, Look, ReadHead, gitVars
<1>2. ASSUME NEW m \in Mergers, Merger(m), ~FastForward(m), ~UpdateRef(m)
      PROVE  tip' = tip
  BY <1>2 DEF Merger, Advance, Plan, MergerRefuses, MergerBuilds, MergerFastForwards,
              Look, ReadHead, gitVars
<1>3. ASSUME Switch \/ Crash \/ UNCHANGED vars PROVE tip' = tip
  BY <1>3 DEF Switch, Crash, vars, gitVars
<1> QED BY <1>1, <1>2, <1>3 DEF Next, Person

(* So no step but a person's rewind takes a commit off a branch.            *)
LEMMA NothingLostStep ==
  ASSUME LandingInv, [Next]_vars
  PROVE  (\A b \in Branch : reach[tip[b]] \subseteq reach'[tip'[b]]) \/ Rewind
<1>1. LaneTypeOK /\ Kept
  BY LandingInvStep DEF LandingInv, Gained
<1>2. CASE tip' = tip
  BY <1>1, <1>2 DEF LaneTypeOK, Kept
<1>3. CASE Commit
  <2>1. Write({tip[head]}) /\ tip[head] \in Commits /\ {tip[head]} \in SUBSET Commits
    BY <1>1, <1>3 DEF Commit, LaneTypeOK
  <2>2. reach'[last'] = {last'} \cup reach[tip[head]] /\ last' = last + 1
    BY <1>1, <2>1, Writing DEF LandingInv
  <2>3. tip' = [tip EXCEPT ![head] = last'] /\ tip \in [Branch -> Commits]
    BY <1>1, <1>3, <2>2 DEF Commit, LaneTypeOK
  <2> QED BY <1>1, <2>2, <2>3 DEF Kept
<1> QED BY <1>2, <1>3, TipsStay, AdvanceForward

(* Nothing is lost: whatever tasks land, whatever is merged in Merger and   *)
(* whatever else moves the branches meanwhile, only a person takes a commit *)
(* off a branch (advance, move_to, fast_forward, move_branch).             *)
THEOREM OnlyAPersonLoses == Spec => NothingLost
<1>1. Init => LandingInv
  BY LandingInvInit
<1>2. LandingInv /\ [Next]_vars => LandingInv'
  BY LandingInvStep
<1>3. LandingInv /\ [Next]_vars
        => [(\A b \in Branch : reach[tip[b]] \subseteq reach'[tip'[b]]) \/ Rewind]_vars
  BY NothingLostStep
<1> QED BY <1>1, <1>2, <1>3, PTL DEF Spec, NothingLost

-----------------------------------------------------------------------------
(* What lands was checked. *)

(* The ledger gains an entry only where a landing records its own.         *)
LEMMA LedgerGains ==
  ASSUME [Next]_vars
  PROVE  \/ ledger' = ledger
         \/ \E t \in Tasks :
              /\ Record(t)
              /\ ledger' = ledger \cup {[task |-> t, old |-> at[t].old, new |-> at[t].cand]}
<1>1. ASSUME NEW t \in Tasks, Merge(t) \/ Lane(t), ~Record(t) PROVE ledger' = ledger
  BY <1>1 DEF Lane, Advance, Merge, TakeLock, ReadTip, Build, Conflict, CheckPasses,
              CheckFails, GitFails, Settle, Look, ReadHead, Stale, FastForward, UpdateRef,
              Advanced, Refused, farm
<1>2. ASSUME NEW m \in Mergers, Merger(m) PROVE ledger' = ledger
  BY <1>2 DEF Merger, Advance, Plan, MergerRefuses, MergerBuilds, MergerFastForwards,
              Look, ReadHead, Stale, FastForward, UpdateRef, Advanced, Refused, farm
<1>3. ASSUME Person \/ Crash \/ UNCHANGED vars PROVE ledger' = ledger
  BY <1>3 DEF Person, Commit, Rewind, Switch, Crash, vars, farm
<1> QED BY <1>1, <1>2, <1>3 DEF Next, Record

(* What is recorded was checked, and stays so.                              *)
LEMMA CheckedStep ==
  ASSUME LandingInv, LandsWhatWasChecked, [Next]_vars
  PROVE  LandsWhatWasChecked'
<1>1. LaneTypeOK /\ Kept /\ green \subseteq green'
  BY LandingInvStep DEF LandingInv, Gained
<1>2. ASSUME NEW e \in ledger PROVE e.new \in green' \/ e.old \in reach'[e.task]
  <2>1. e.task \in Commits
    <3>1. last \in Nat /\ TaskCount <= last /\ e.task \in 1..TaskCount
      BY <1>1 DEF LaneTypeOK, Entry
    <3> QED BY <3>1, Numbers
  <2> QED BY <1>1, <2>1 DEF LandsWhatWasChecked, Contains, Kept
<1>3. ASSUME NEW t \in Tasks, Record(t)
      PROVE  at[t].cand \in green' \/ at[t].old \in reach'[t]
  <2>1. Checked(t) /\ at[t].pc = "record"
    BY <1>3 DEF LandingInv, SoundLanding, Record
  <2>2. t \in Commits
    <3>1. last \in Nat /\ TaskCount <= last
      BY <1>1 DEF LaneTypeOK
    <3> QED BY <3>1, Numbers
  <2> QED BY <1>1, <2>1, <2>2 DEF Checked, StartedFromTip, Contains, Kept
<1> QED BY <1>2, <1>3, LedgerGains DEF LandsWhatWasChecked, Contains

(* Whatever the ledger says was landed had passed the checks as it landed,  *)
(* or has the tree of a task that started from that very tip, however often *)
(* the candidate was built again (land, check_candidate).                  *)
THEOREM LandedWasChecked == Spec => []LandsWhatWasChecked
<1>1. Init => LandingInv /\ LandsWhatWasChecked
  BY LandingInvInit DEF Init, LandsWhatWasChecked
<1>2. (LandingInv /\ LandsWhatWasChecked) /\ [Next]_vars
        => (LandingInv /\ LandsWhatWasChecked)'
  BY LandingInvStep, CheckedStep
<1> QED BY <1>1, <1>2, PTL DEF Spec

-----------------------------------------------------------------------------
(* The lane keeps the promise of Destination, and the ledger tells the truth, *)
(* as long as nobody switches the branch of the working copy between the calls *)
(* of git that look at it and move it.  MovesFromTheTipRead shows what is  *)
(* lost otherwise.                                                         *)

(* The calls of move_to are not torn apart by a switch.                    *)
Undisturbed == "switch amid a move" \notin Moves

(* A landing that works in the working copy has the destination there.     *)
OnMain(x) == at[x].pc \in {"head", "ff"} => head = Main

(* A landing that moved the destination left it with the task's commit.    *)
Arrived(t) == /\ at[t].pc = "record" => at[t].cand \in had
              /\ at[t].pc = "settle" => t \in had

(* A task that is landing was not answered. *)
Asked(t) == at[t].pc # "idle" => answer[t] = "none"

PromiseInv ==
  /\ LandingInv
  /\ \A x \in Landers : OnMain(x)
  /\ \A t \in Tasks : Arrived(t) /\ Asked(t)

-----------------------------------------------------------------------------
(* Who may disturb it. *)

(* What a step of the lane does to the landing of its task, and to no other. *)
LEMMA LaneKeepsPromise ==
  ASSUME PromiseInv, LandingInv', Gained, NEW t \in Tasks, Merge(t) \/ Lane(t)
  PROVE  /\ OnMain(t)' /\ Arrived(t)' /\ Asked(t)' /\ head' = head
         /\ \A y \in Landers \ {t} : at'[y] = at[y]
         /\ \A u \in Tasks \ {t} : answer'[u] = answer[u]
<1>a. /\ LaneTypeOK /\ Ancestry /\ History /\ SoundLanding(t) /\ Kept
      /\ OnMain(t) /\ Arrived(t) /\ Asked(t) /\ had \subseteq had'
  BY DEF PromiseInv, LandingInv, Gained
<1>b. t \in Landers /\ at \in [Landers -> Landing] /\ at[t] \in Landing
      /\ answer \in [Tasks -> Answers]
  BY <1>a DEF LaneTypeOK
<1>c. head' = head /\ \A y \in Landers \ {t} : at'[y] = at[y]
  <2>1. head' = head
    BY DEF Lane, Advance, Merge, TakeLock, ReadTip, Build, Conflict, CheckPasses, CheckFails,
           GitFails, Record, Settle, Look, ReadHead, FastForward, UpdateRef
  <2> QED BY <1>a, <2>1, LaneSound
<1>1. CASE Leave(t) /\ \E how \in Answers : End(t, how)
  <2>1. at'[t] = Idle
    BY <1>1, <1>b DEF Leave
  <2>2. at'[t].pc = "idle"
    BY <2>1 DEF Idle
  <2>3. \A u \in Tasks \ {t} : answer'[u] = answer[u]
    BY <1>1, <1>b DEF End
  <2> QED BY <1>c, <2>2, <2>3 DEF OnMain, Arrived, Asked
<1>2. CASE /\ at'[t].pc \in Pcs \ {"idle", "head", "ff", "record", "settle"}
           /\ answer' = answer /\ answer[t] = "none"
  BY <1>c, <1>2 DEF OnMain, Arrived, Asked
<1>3. CASE Merge(t) \/ TakeLock(t) \/ Build(t) \/ CheckPasses(t)
  <2>1. at'[t].pc \in {"lock", "tip", "look", "check"}
    <3>1. CASE Build(t)
      BY <1>b, <3>1 DEF Build, Landing
    <3>2. CASE ~Build(t)
      BY <1>3, <1>a, <1>b, <3>2, Went DEF Merge, TakeLock, CheckPasses, Pcs
    <3> QED BY <3>1, <3>2
  <2>2. answer' = answer /\ answer[t] = "none"
    BY <1>3, <1>a DEF Merge, TakeLock, Build, CheckPasses, Asked, farm
  <2> QED BY <1>2, <2>1, <2>2 DEF Pcs
<1>4. CASE ReadTip(t)
  <2>1. at'[t].pc = IF AlreadyThere(t) THEN "settle" ELSE "build"
    BY <1>4, <1>b DEF ReadTip, Landing
  <2>2. answer' = answer /\ answer[t] = "none" /\ had' = had
    BY <1>4, <1>a DEF ReadTip, Asked, farm, gitVars
  <2>3. AlreadyThere(t) => t \in had
    BY <1>a DEF AlreadyThere, Contains, History
  <2> QED BY <1>c, <2>1, <2>2, <2>3 DEF OnMain, Arrived, Asked
<1>5. CASE Conflict(t) \/ CheckFails(t) \/ GitFails(t) \/ Settle(t)
  BY <1>1, <1>5 DEF Conflict, CheckFails, GitFails, Settle, Stop, Finish, Answers
<1>6. CASE Record(t)
  <2>1. at'[t].pc = "settle"
    BY <1>6, <1>a, <1>b, Went DEF Record, Pcs
  <2>2. answer' = answer /\ answer[t] = "none" /\ at[t].pc = "record"
    BY <1>6, <1>a DEF Record, Asked
  <2>3. t \in had
    BY <1>a, <2>2 DEF Arrived, SoundLanding, Candidate, History
  <2> QED BY <1>a, <1>c, <2>1, <2>2, <2>3 DEF OnMain, Arrived, Asked
<1>7. CASE Look(t)
  <2>1. at'[t].pc = IF CheckedOut THEN "head" ELSE "swap"
    BY <1>7, <1>a, <1>b, Went DEF Look, Pcs
  <2>2. answer' = answer /\ answer[t] = "none"
    BY <1>7, <1>a DEF Look, Asked, farm
  <2> QED BY <1>c, <2>1, <2>2 DEF OnMain, Arrived, Asked, CheckedOut
<1>8. CASE ReadHead(t)
  <2>1. head = Main /\ answer[t] = "none"
    BY <1>8, <1>a DEF ReadHead, OnMain, Asked
  <2>2. CASE Goto(t, "ff") /\ UNCHANGED farm
    <3>1. at'[t].pc = "ff" /\ answer' = answer
      BY <1>a, <1>b, <2>2, Went DEF Pcs, farm
    <3> QED BY <1>c, <2>1, <3>1 DEF OnMain, Arrived, Asked
  <2>3. CASE Stale(t)
    <3>1. CASE Stop(t)
      BY <1>1, <3>1 DEF Stop, Finish, Answers
    <3>2. CASE at' = [at EXCEPT ![t].pc = "tip", ![t].tries = @ + 1] /\ answer' = answer
      <4>1. at'[t].pc = "tip"
        BY <1>b, <3>2 DEF Landing
      <4> QED BY <1>2, <2>1, <3>2, <4>1 DEF Pcs
    <3> QED BY <2>3, <3>1, <3>2 DEF Stale
  <2> QED BY <1>8, <2>2, <2>3 DEF ReadHead
<1>9. CASE FastForward(t) \/ UpdateRef(t)
  <2>1. answer[t] = "none" /\ at[t].cand \in Commits
    BY <1>9, <1>a, <1>b DEF FastForward, UpdateRef, Asked, Landing
  <2>2. CASE Refused(t)
    BY <1>1, <2>2 DEF Refused, Stop, Finish, Answers
  <2>3. CASE Advanced(t) /\ (MoveBranch(Main, at[t].cand) \/ at[t].cand \in had)
    <3>1. at'[t].pc = "record" /\ at'[t].cand = at[t].cand /\ answer' = answer
      BY <1>a, <1>b, <2>3, Went DEF Advanced, Pcs, farm
    <3>2. at[t].cand \in had'
      <4>1. CASE at[t].cand \in had
        BY <1>a, <4>1
      <4>2. CASE MoveBranch(Main, at[t].cand)
        BY <1>a, <2>1, <4>2, Moved
      <4> QED BY <2>3, <4>1, <4>2
    <3> QED BY <1>c, <2>1, <3>1, <3>2 DEF OnMain, Arrived, Asked
  <2>4. FastForward(t) => head = Main
    BY <1>a DEF FastForward, OnMain
  <2>5. Contains(tip[Main], at[t].cand) => at[t].cand \in had
    BY <1>a DEF Contains, History
  <2> QED BY <1>9, <2>2, <2>3, <2>4, <2>5 DEF FastForward, UpdateRef
<1> QED BY <1>3, <1>4, <1>5, <1>6, <1>7, <1>8, <1>9 DEF Lane, Advance
(* The same of a step of a landing in Merger: it answers nobody.           *)
LEMMA MergerKeepsPromise ==
  ASSUME PromiseInv, NEW m \in Mergers, Merger(m)
  PROVE  /\ OnMain(m)' /\ head' = head /\ answer' = answer
         /\ \A y \in Landers \ {m} : at'[y] = at[y]
<1>a. LaneTypeOK /\ OnMain(m) /\ m \in Landers /\ m \notin Tasks
  BY LaneAssumption DEF PromiseInv, LandingInv
<1>b. at \in [Landers -> Landing] /\ at[m] \in Landing
  BY <1>a DEF LaneTypeOK
<1>c. head' = head /\ answer' = answer
  BY <1>a DEF Merger, Advance, Plan, MergerRefuses, MergerBuilds, MergerFastForwards, Look,
              ReadHead, FastForward, UpdateRef, Advanced, Refused, farm
<1>1. CASE Leave(m)
  BY <1>a, <1>c, <1>1, Left DEF OnMain
<1>2. CASE Plan(m) \/ MergerBuilds(m) \/ MergerFastForwards(m)
  <2>1. at'[m].pc \in {"plan", "look"} /\ \A y \in Landers \ {m} : at'[y] = at[y]
    BY <1>2, <1>b DEF Plan, MergerBuilds, MergerFastForwards, Landing
  <2> QED BY <1>c, <2>1 DEF OnMain
<1>3. CASE Look(m)
  <2>1. /\ at'[m].pc = IF CheckedOut THEN "head" ELSE "swap"
        /\ \A y \in Landers \ {m} : at'[y] = at[y]
    BY <1>3, <1>a, Went DEF Look, Pcs
  <2> QED BY <1>c, <2>1 DEF OnMain, CheckedOut
<1>4. CASE ReadHead(m) /\ Goto(m, "ff")
  <2>1. /\ at'[m].pc = "ff" /\ at[m].pc = "head"
        /\ \A y \in Landers \ {m} : at'[y] = at[y]
    BY <1>4, <1>a, Went DEF ReadHead, Pcs
  <2> QED BY <1>a, <1>c, <2>1 DEF OnMain
<1>5. MergerRefuses(m) \/ FastForward(m) \/ UpdateRef(m) => Leave(m)
  BY <1>a DEF MergerRefuses, FastForward, UpdateRef, Advanced, Refused
<1>6. ReadHead(m) => Goto(m, "ff") \/ Leave(m)
  BY <1>a DEF ReadHead
<1> QED BY <1>1, <1>2, <1>3, <1>4, <1>5, <1>6 DEF Merger, Advance

(* And of what a person does, and a crash: nobody switches amid a move.    *)
LEMMA PersonKeepsPromise ==
  ASSUME Undisturbed, PromiseInv, Person \/ Crash
  PROVE  /\ \A x \in Landers : at'[x] = at[x] \/ at'[x].pc \in {"idle", "over"}
         /\ \A t \in Tasks : at'[t] = at[t] \/ at'[t].pc = "idle"
         /\ answer' = answer
         /\ head' = head \/ \A x \in Landers : at'[x].pc \notin {"head", "ff"}
<1>1. CASE Commit \/ Rewind
  BY <1>1 DEF Commit, Rewind, farm
<1>2. CASE Switch
  BY <1>2 DEF Switch, Undisturbed, farm
<1>3. CASE Crash
  <2>1. \A x \in Landers : at'[x] = at[x] \/ at'[x] = Idle \/ at'[x] = Over
    BY <1>3 DEF Crash
  <2>2. ASSUME NEW t \in Tasks PROVE at'[t] = at[t] \/ at'[t] = Idle
    BY <1>3 DEF Crash
  <2>3. Idle.pc = "idle" /\ Over.pc = "over"
    BY DEF Idle, Over
  <2> QED BY <1>3, <2>1, <2>2, <2>3 DEF Crash
<1> QED BY <1>1, <1>2, <1>3 DEF Person

(* Every step keeps the invariant. *)
LEMMA PromiseInvStep ==
  ASSUME Undisturbed, PromiseInv, [Next]_vars
  PROVE  PromiseInv' /\ Gained
<1>a. LandingInv' /\ Gained /\ had \subseteq had'
  BY LandingInvStep DEF PromiseInv, Gained
<1>b. \A x \in Landers : OnMain(x)
  BY DEF PromiseInv
<1>c. \A t \in Tasks : Arrived(t) /\ Asked(t)
  BY DEF PromiseInv
<1>1. CASE \E t \in Tasks : Merge(t) \/ Lane(t)
  <2>1. PICK t \in Tasks : Merge(t) \/ Lane(t)
    BY <1>1
  <2>2. /\ OnMain(t)' /\ Arrived(t)' /\ Asked(t)' /\ head' = head
        /\ \A y \in Landers \ {t} : at'[y] = at[y]
        /\ \A u \in Tasks \ {t} : answer'[u] = answer[u]
    BY <1>a, <2>1, LaneKeepsPromise
  <2>3. \A y \in Landers \ {t} : OnMain(y)'
    BY <1>b, <2>2 DEF OnMain
  <2>4. \A u \in Tasks \ {t} : Arrived(u)' /\ Asked(u)'
    BY <1>a, <1>c, <2>2 DEF Arrived, Asked
  <2> QED BY <1>a, <2>2, <2>3, <2>4 DEF PromiseInv
<1>2. CASE \E m \in Mergers : Merger(m)
  <2>1. PICK m \in Mergers : Merger(m)
    BY <1>2
  <2>2. /\ OnMain(m)' /\ head' = head /\ answer' = answer
        /\ \A y \in Landers \ {m} : at'[y] = at[y]
    BY <2>1, MergerKeepsPromise
  <2>3. \A y \in Landers \ {m} : OnMain(y)'
    BY <1>b, <2>2 DEF OnMain
  <2>4. \A t \in Tasks : at'[t] = at[t]
    BY <2>2, LaneAssumption
  <2>5. \A t \in Tasks : Arrived(t)' /\ Asked(t)'
    BY <1>a, <1>c, <2>2, <2>4 DEF Arrived, Asked
  <2> QED BY <1>a, <2>2, <2>3, <2>5 DEF PromiseInv
<1>3. CASE Person \/ Crash
  <2>1. /\ \A x \in Landers : at'[x] = at[x] \/ at'[x].pc \in {"idle", "over"}
        /\ \A t \in Tasks : at'[t] = at[t] \/ at'[t].pc = "idle"
        /\ answer' = answer
        /\ head' = head \/ \A x \in Landers : at'[x].pc \notin {"head", "ff"}
    BY <1>3, PersonKeepsPromise
  <2>2. \A x \in Landers : OnMain(x)'
    BY <1>b, <2>1 DEF OnMain
  <2>3. \A t \in Tasks : Arrived(t)' /\ Asked(t)'
    BY <1>a, <1>c, <2>1 DEF Arrived, Asked
  <2> QED BY <1>a, <2>2, <2>3 DEF PromiseInv
<1>4. CASE UNCHANGED vars
  <2>1. at' = at /\ head' = head /\ answer' = answer /\ had' = had
    BY <1>4 DEF vars, farm, gitVars
  <2> QED BY <1>a, <1>b, <1>c, <2>1 DEF PromiseInv, OnMain, Arrived, Asked
<1> QED BY <1>1, <1>2, <1>3, <1>4, <1>a DEF Next

(* It holds before anybody has asked for anything. *)
LEMMA PromiseInvInit == ASSUME Init PROVE PromiseInv
<1>1. \A x \in Landers : at[x].pc = "idle"
  BY DEF Init, Idle
<1> QED BY <1>1, LandingInvInit DEF PromiseInv, OnMain, Arrived, Asked, Init

-----------------------------------------------------------------------------
(* The ledger. *)

(* What an entry says is there, and what a landing records says it too.    *)
LEMMA TruthStep ==
  ASSUME Undisturbed, PromiseInv, LedgerTellsTruth, [Next]_vars
  PROVE  LedgerTellsTruth'
<1>1. LaneTypeOK /\ Kept /\ had \subseteq had'
  BY PromiseInvStep DEF PromiseInv, LandingInv, Gained
<1>2. \A t \in Tasks : t \in Commits
  <2>1. last \in Nat /\ TaskCount <= last
    BY <1>1 DEF LaneTypeOK
  <2> QED BY <2>1, Numbers
<1>3. ASSUME NEW e \in ledger
      PROVE  /\ {e.old, e.new} \subseteq had' /\ {e.old, e.task} \subseteq reach'[e.new]
             /\ e.task \notin reach'[e.old]
  <2>1. e.old \in Commits /\ e.new \in Commits
    BY <1>1 DEF LaneTypeOK, Entry
  <2> QED BY <1>1, <2>1 DEF LedgerTellsTruth, Contains, Kept
<1>4. ASSUME NEW t \in Tasks, Record(t)
      PROVE  /\ {at[t].old, at[t].cand} \subseteq had'
             /\ {at[t].old, t} \subseteq reach'[at[t].cand] /\ t \notin reach'[at[t].old]
  <2>1. at[t].pc = "record" /\ Candidate(t) /\ Arrived(t)
    BY <1>4 DEF Record, PromiseInv, LandingInv, SoundLanding
  <2>2. at[t].old \in Commits /\ at[t].cand \in Commits
    BY <1>1 DEF LaneTypeOK, Landing
  <2> QED BY <1>1, <2>1, <2>2 DEF Candidate, Arrived, Contains, Kept
<1> QED BY <1>3, <1>4, LedgerGains DEF LedgerTellsTruth, Contains

(* Every entry of the ledger is true of the destination, also when the     *)
(* same task is landed again after a crash (write_ledger, land).           *)
THEOREM LedgerIsTrue == ASSUME Undisturbed PROVE Spec => []LedgerTellsTruth
<1>1. Init => PromiseInv /\ LedgerTellsTruth
  BY PromiseInvInit DEF Init, LedgerTellsTruth
<1>2. (PromiseInv /\ LedgerTellsTruth) /\ [Next]_vars => (PromiseInv /\ LedgerTellsTruth)'
  BY PromiseInvStep, TruthStep
<1> QED BY <1>1, <1>2, PTL DEF Spec

-----------------------------------------------------------------------------
(* The promise. *)

(* The history of the destination grows only where a branch moves.         *)
LEMMA HadStays ==
  ASSUME [Next]_vars
  PROVE  \/ had' = had \/ Commit \/ Rewind
         \/ \E x \in Landers : FastForward(x) \/ UpdateRef(x)
<1>1. ASSUME NEW t \in Tasks, Merge(t) \/ Lane(t), ~FastForward(t), ~UpdateRef(t)
      PROVE  had' = had
  BY <1>1 DEF Lane, Advance, Merge, TakeLock, ReadTip, Build, Conflict, CheckPasses,
              CheckFails, GitFails, Record, Settle, Look, ReadHead, gitVars
<1>2. ASSUME NEW m \in Mergers, Merger(m), ~FastForward(m), ~UpdateRef(m)
      PROVE  had' = had
  BY <1>2 DEF Merger, Advance, Plan, MergerRefuses, MergerBuilds, MergerFastForwards,
              Look, ReadHead, gitVars
<1>3. ASSUME Switch \/ Crash \/ UNCHANGED vars PROVE had' = had
  BY <1>3 DEF Switch, Crash, vars, gitVars
<1> QED BY <1>1, <1>2, <1>3 DEF Next, Person

(* The tasks that were answered "done". *)
Done == {t \in Tasks : answer[t] = "done"}

(* Only Settle answers a task "done", and no task loses that answer.       *)
LEMMA DoneStays ==
  ASSUME PromiseInv, [Next]_vars
  PROVE  Done' = Done \/ \E t \in Tasks : Settle(t)
<1>1. answer \in [Tasks -> Answers] /\ \A t \in Tasks : Asked(t)
  BY DEF PromiseInv, LandingInv, LaneTypeOK
<1>2. ASSUME NEW t \in Tasks, Stop(t), at[t].pc # "idle" PROVE Done' = Done
  <2>1. answer[t] = "none" /\ answer' = [answer EXCEPT ![t] = "stopped"]
    BY <1>1, <1>2 DEF Asked, Stop, Finish, End
  <2> QED BY <1>1, <2>1 DEF Done
<1>3. ASSUME NEW t \in Tasks, Merge(t) \/ Lane(t), ~Settle(t)
      PROVE  answer' = answer \/ (Stop(t) /\ at[t].pc # "idle")
  <2>1. Stale(t) => answer' = answer \/ Stop(t)
    BY DEF Stale
  <2>2. Advanced(t) \/ Refused(t) => answer' = answer \/ Stop(t)
    BY DEF Advanced, Refused, farm
  <2>3. FastForward(t) \/ UpdateRef(t) \/ ReadHead(t)
          => at[t].pc # "idle" /\ (answer' = answer \/ Stop(t))
    BY <2>1, <2>2 DEF FastForward, UpdateRef, ReadHead, farm
  <2>4. Conflict(t) \/ CheckFails(t) \/ GitFails(t) => at[t].pc # "idle" /\ Stop(t)
    BY DEF Conflict, CheckFails, GitFails
  <2>5. Merge(t) \/ TakeLock(t) \/ ReadTip(t) \/ Build(t) \/ CheckPasses(t) \/ Record(t)
          \/ Look(t) => answer' = answer
    BY DEF Merge, TakeLock, ReadTip, Build, CheckPasses, Record, Look, farm
  <2>6. CASE Merge(t) \/ TakeLock(t) \/ ReadTip(t) \/ Build(t) \/ CheckPasses(t) \/ Record(t)
          \/ Look(t)
    BY <2>5, <2>6
  <2>7. CASE FastForward(t) \/ UpdateRef(t) \/ ReadHead(t)
    BY <2>3, <2>7
  <2>8. CASE Conflict(t) \/ CheckFails(t) \/ GitFails(t)
    BY <2>4, <2>8
  <2> QED BY <1>3, <2>6, <2>7, <2>8 DEF Lane, Advance
<1>4. ASSUME NEW m \in Mergers, Merger(m) PROVE answer' = answer
  BY <1>4, MergerKeepsPromise
<1>5. ASSUME Person \/ Crash \/ UNCHANGED vars PROVE answer' = answer
  BY <1>5 DEF Person, Commit, Rewind, Switch, Crash, vars, farm
<1>6. answer' = answer => Done' = Done
  BY DEF Done
<1>7. ASSUME NEW t \in Tasks, Merge(t) \/ Lane(t), ~Settle(t) PROVE Done' = Done
  BY <1>2, <1>3, <1>6, <1>7
<1> QED BY <1>4, <1>5, <1>6, <1>7 DEF Next

(* A step that moves the destination forward is a Grow. *)
LEMMA ForwardIsGrow ==
  ASSUME PromiseInv, NEW c \in Commits, MoveBranch(Main, c),
         reach[tip[Main]] \subseteq reach[c]
  PROVE  reach[tip[Main]] \subseteq reach'[tip'[Main]] /\ had' = had \cup reach'[tip'[Main]]
<1>1. reach' = reach /\ tip'[Main] = c /\ had' = had \cup reach[c]
  BY DEF MoveBranch, PromiseInv, LandingInv, LaneTypeOK
<1> QED BY <1>1
(* Every step does what Destination allows, or nothing it could tell.      *)
LEMMA PromiseStep ==
  ASSUME Undisturbed, PromiseInv, [Next]_vars
  PROVE  [Promise!Next]_(Promise!vars)
<1>a. /\ LaneTypeOK /\ Ancestry /\ History /\ Kept
      /\ \A x \in Landers : OnMain(x) /\ SoundLanding(x)
      /\ \A t \in Tasks : Arrived(t) /\ Asked(t)
  BY PromiseInvStep DEF PromiseInv, LandingInv, Gained
<1>b. /\ tip \in [Branch -> Commits] /\ head \in Branch /\ Main \in Branch
      /\ at \in [Landers -> Landing] /\ answer \in [Tasks -> Answers]
  BY <1>a DEF LaneTypeOK
<1>1. ASSUME tip'[Main] = tip[Main], had' = had, Done' = Done PROVE UNCHANGED Promise!vars
  BY <1>1, <1>a, <1>b DEF Kept, Promise!vars, Done
<1>2. ASSUME reach[tip[Main]] \subseteq reach'[tip'[Main]],
             had' = had \cup reach'[tip'[Main]], Done' = Done
      PROVE  Promise!Grow
  BY <1>2 DEF Promise!Grow, Done
<1>3. CASE Commit
  <2>1. Write({tip[head]}) /\ {tip[head]} \in SUBSET Commits
    BY <1>3, <1>b DEF Commit
  <2>2. reach'[last'] = {last'} \cup reach[tip[head]] /\ last' = last + 1
    BY <1>a, <2>1, Writing
  <2>3. /\ tip' = [tip EXCEPT ![head] = last'] /\ Done' = Done
        /\ had' = IF head = Main THEN had \cup {last'} ELSE had
    BY <1>3, <2>2 DEF Commit, Done, farm
  <2>4. CASE head = Main
    <3>1. reach'[tip'[Main]] = {last'} \cup reach[tip[Main]]
      BY <1>b, <2>2, <2>3, <2>4
    <3>2. had' = had \cup reach'[tip'[Main]]
      BY <1>a, <2>3, <2>4, <3>1 DEF History
    <3> QED BY <1>2, <2>3, <3>1, <3>2 DEF Promise!Next
  <2>5. CASE head # Main
    BY <1>1, <1>b, <2>3, <2>5
  <2> QED BY <2>4, <2>5
<1>4. CASE Rewind
  <2>1. PICK c \in reach[tip[Main]] : MoveBranch(Main, c)
    BY <1>4 DEF Rewind
  <2>2. c \in Commits /\ reach[c] \subseteq reach[tip[Main]]
    BY <1>a, <1>b DEF Ancestry, LaneTypeOK
  <2>3. reach' = reach /\ tip'[Main] = c /\ had' = had \cup reach[c]
    BY <1>b, <2>1 DEF MoveBranch
  <2>4. had' = had
    BY <1>a, <2>2, <2>3 DEF History
  <2>5. Done' = Done
    BY <1>4 DEF Rewind, Done, farm
  <2> QED BY <2>2, <2>3, <2>4, <2>5 DEF Promise!Next, Promise!Rewind, Done
<1>5. ASSUME NEW x \in Landers, FastForward(x) \/ UpdateRef(x) PROVE [Promise!Next]_(Promise!vars)
  <2>1. at[x].cand \in Commits /\ at[x].pc \in Moving
    BY <1>5, <1>b DEF Landing, FastForward, UpdateRef, Moving
  <2>2. Done' = Done
    <3>1. UNCHANGED farm \/ (x \in Tasks /\ Stop(x) /\ answer[x] = "none")
      <4>1. Advanced(x) \/ Refused(x)
        BY <1>5 DEF FastForward, UpdateRef
      <4>2. Advanced(x) => UNCHANGED farm
        BY DEF Advanced
      <4>3. Refused(x) => UNCHANGED farm \/ (x \in Tasks /\ Stop(x))
        BY DEF Refused
      <4>4. x \in Tasks => answer[x] = "none"
        BY <1>a, <2>1 DEF Asked, Moving
      <4> QED BY <4>1, <4>2, <4>3, <4>4
    <3>2. CASE UNCHANGED farm
      BY <3>2 DEF farm, Done
    <3>3. CASE x \in Tasks /\ Stop(x) /\ answer[x] = "none"
      <4>1. answer' = [answer EXCEPT ![x] = "stopped"]
        BY <3>3 DEF Stop, Finish, End
      <4> QED BY <1>b, <3>3, <4>1 DEF Done
    <3> QED BY <3>1, <3>2, <3>3
  <2>3. CASE UNCHANGED gitVars
    BY <1>1, <2>2, <2>3 DEF gitVars
  <2>4. CASE /\ MoveBranch(Main, at[x].cand)
             /\ reach[tip[Main]] \subseteq reach[at[x].cand]
    BY <1>2, <2>1, <2>2, <2>4, ForwardIsGrow DEF Promise!Next
  <2>5. CASE FastForward(x) /\ MoveBranch(head, at[x].cand) /\ Contains(at[x].cand, tip[head])
    BY <1>a, <2>1, <2>4, <2>5 DEF FastForward, OnMain, Contains, Ancestry
  <2>6. CASE UpdateRef(x) /\ SwapHolds(x) /\ MoveBranch(Main, at[x].cand)
    BY <1>a, <2>1, <2>4, <2>6 DEF SwapHolds, SoundLanding, Built
  <2> QED BY <1>5, <2>3, <2>5, <2>6 DEF FastForward, UpdateRef
<1>6. ASSUME NEW t \in Tasks, Settle(t) PROVE Promise!Next
  <2>1. t \in had /\ answer' = [answer EXCEPT ![t] = "done"]
    BY <1>6, <1>a DEF Settle, Arrived, Finish, End
  <2>2. Done' = Done \cup {t}
    BY <1>b, <2>1 DEF Done
  <2>3. UNCHANGED <<tip, reach, had>>
    BY <1>6 DEF Settle, gitVars
  <2> QED BY <2>1, <2>2, <2>3 DEF Promise!Next, Promise!Answer, Done
<1> QED BY <1>1, <1>3, <1>4, <1>5, <1>6, TipsStay, HadStays, DoneStays DEF PromiseInv

(* The lane implements Destination: what lands adds to the destination, and *)
(* a task is answered "done" only when the destination has had its commit. *)
THEOREM PromiseKept == ASSUME Undisturbed PROVE Spec => Promised
<1>1. Init => PromiseInv
  BY PromiseInvInit
<1>2. Init => Promise!Init
  <2>1. SUFFICES ASSUME Init PROVE Promise!Init
    OBVIOUS
  <2>2. 0 \in Commits /\ tip[Main] = 0
    BY <2>1, LaneInitTyped DEF Init, LaneTypeOK
  <2>3. reach[0] = {0}
    BY <2>1, <2>2 DEF Init
  <2> QED BY <2>1, <2>2, <2>3 DEF Init, Promise!Init
<1>3. PromiseInv /\ [Next]_vars => PromiseInv'
  BY PromiseInvStep
<1>4. PromiseInv /\ [Next]_vars => [Promise!Next]_(Promise!vars)
  BY PromiseStep
<1> QED BY <1>1, <1>2, <1>3, <1>4, PTL DEF Spec, Promised, Promise!Spec
=============================================================================

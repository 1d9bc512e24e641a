--------------------------- MODULE RecipeRunProofs ---------------------------
(***************************************************************************)
(* What a run of a recipe never does, proved for every recipe the          *)
(* validator lets through, every repository it begins in, and any number   *)
(* of failures, edits, answers, undos and crashes.                         *)
(***************************************************************************)
EXTENDS RecipeRun, TLAPS, SequenceTheorems, WellFoundedInduction

-----------------------------------------------------------------------------
(* The invariants.                                                         *)

(* The thread has the run only while it is on a step that is not over; what *)
(* is waited for is a step of the recipe; a closed program has no thread.  *)
Placed ==
  /\ pc = "run" => at <= Len(recipe) /\ ~IsOver /\ ~Waiting /\ undoing = 0
  /\ Waiting => at <= Len(recipe) /\ ~IsOver /\ stop.kind # "none"
  /\ ~live => pc = "gone"

(* What a stop on a conflict says.                                         *)
Stopped ==
  /\ stop.merge => stop.kind = "Conflict" /\ stop.source \in Branches
  /\ stop.inMerger => stop.merge

(* A merge or a conflict is in the repository only while the run waits for *)
(* it, or is over.                                                         *)
Conflicts ==
  /\ ~IsOver /\ (repo.merging # NoMerge \/ repo.conflict) => stop.kind = "Conflict"
  /\ ~IsOver /\ repo.merging # NoMerge => stop.merge /\ ~stop.inMerger
  /\ stop.inMerger => repo.merging = NoMerge /\ ~repo.conflict

(* The person has answered at the step the run may go on at.               *)
Answered ==
  approved => \E k \in DOMAIN answers :
                answers[k].step = at /\ answers[k].choice \in {"Continue", "Retry"}

AskedHere == stop.kind \in {"Approve", "Ask"}

(* While a step is asked about, the repository is as it was shown, or what  *)
(* differs from it cannot have gone again; a change that was made while a   *)
(* step was asked about is one the run still asks at.                      *)
Shown ==
  /\ "asked" \in unseen => "undone" \notin unseen /\ (IsOver \/ ~live \/ AskedHere)
  /\ live /\ AskedHere =>
       /\ mark # NoMark /\ mark.head \in Seq(Commits)
       /\ \/ "undone" \in unseen
          \/ /\ mark.on = repo.on
             /\ \/ mark = MarkOf(repo) /\ "asked" \notin unseen
                \/ Len(repo.tips[repo.on]) > Len(mark.head)
                \/ Theirs \in repo.tree \ mark.tree

(* What of the repository is put back before step k of an undo.            *)
Back(r, k) ==
  /\ k > 1 => r.merging = NoMerge
  /\ k > 2 => r.tree = Start.tree /\ r.conflict = FALSE
  /\ k > 3 => \A b \in TipsOf(Start) : r.tips[b] = Start.tips[b]
  /\ k > 4 => r.on = Start.on
  /\ k > 5 => \A b \in Makes \ TipsOf(Start) : r.tips[b] = <<>>
  /\ k > 6 => r.index = Start.index
  /\ k > 7 => Added(r) = {}
  /\ k > 8 => Lacking(r) = {}

Restored == Back(repo, undoing)

(* No branch comes to be but those the recipe makes.                       *)
NoOthers == \A b \in Branches \ Makes : ~HasBranch(Start, b) => ~HasBranch(repo, b)

(* The stash list is the last j stashes there were, under stashes that are *)
(* of the run.                                                             *)
Keeps(r, j) ==
  LET n == Len(r.stash)
      m == Len(Start.stash) IN
  /\ j <= n /\ j <= m
  /\ \A i \in 1..j : r.stash[n - j + i] = Start.stash[m - j + i]
  /\ \A i \in 1..(n - j) : r.stash[i].id > Start.made

Stashed == repo.made >= Start.made /\ \E j \in 0..Len(Start.stash) : Keeps(repo, j)

-----------------------------------------------------------------------------
(* The repository.                                                         *)

(* The last commit of a branch is a commit.                                *)
LEMMA LastCommit ==
  ASSUME NEW r \in Repos, NEW b \in Branches, HasBranch(r, b)
  PROVE  /\ Content(r, b) \in Commits
         /\ Len(r.tips[b]) \in Nat \ {0}
         /\ Content(r, b) = r.tips[b][Len(r.tips[b])]
<1>1. r.tips[b] \in Seq(Commits) /\ r.tips[b] # <<>>
  BY DEF Repos, HasBranch
<1>2. Len(r.tips[b]) \in Nat \ {0}
  BY <1>1
<1>3. r.tips[b][Len(r.tips[b])] \in Commits
  BY <1>1, <1>2
<1> QED BY <1>2, <1>3 DEF Content, Last

(* What the run begins with.                                               *)
LEMMA StartIs ==
  /\ Start \in Repos /\ HasBranch(Start, Start.on) /\ Start.on \in Branches
  /\ Start.merging = NoMerge /\ Start.conflict = FALSE /\ NoMerge \notin Branches
  /\ Start.stash \in Seq(Stashes) /\ Start.made \in Nat
<1> QED BY RecipeAssumption DEF Repos, NoMerge

(* What a step may do to the stashes: nothing, or one is put on top that was *)
(* not there before, or the one on top goes.                               *)
StashStep(r, q) ==
  /\ q.made >= r.made
  /\ \/ q.stash = r.stash
     \/ r.stash # <<>> /\ q.stash = Tail(r.stash)
     \/ \E s \in Stashes : s.id > r.made /\ q.stash = <<s>> \o r.stash

(* What anyone but an undo does to a repository: it stays one, on a branch  *)
(* that is there.                                                          *)
Evolves(r, q) ==
  /\ q \in Repos /\ HasBranch(q, q.on)
  /\ \A x \in Branches \ Makes : HasBranch(q, x) => HasBranch(r, x)
  /\ StashStep(r, q)

(* The index and the tree change, and a merge or a conflict comes or goes.  *)
LEMMA ContentEvolves ==
  ASSUME NEW r \in Repos, HasBranch(r, r.on), NEW i \in Commits, NEW t \in Commits,
         NEW m \in BranchOrNone, NEW c \in BOOLEAN, NEW q,
         q = [r EXCEPT !.index = i, !.tree = t, !.merging = m, !.conflict = c]
  PROVE  Evolves(r, q)
<1>1. q \in Repos /\ q.on = r.on /\ q.tips = r.tips /\ q.stash = r.stash /\ q.made = r.made
  BY DEF Repos
<1> QED BY <1>1 DEF Repos, Evolves, HasBranch, StashStep

(* The branch checked out gets commits or loses some, never all.           *)
LEMMA TipEvolves ==
  ASSUME NEW r \in Repos, HasBranch(r, r.on), NEW s \in Seq(Commits), s # <<>>,
         NEW i \in Commits, NEW t \in Commits, NEW m \in BranchOrNone, NEW q,
         q = [r EXCEPT !.tips = [r.tips EXCEPT ![r.on] = s], !.index = i, !.tree = t,
                       !.merging = m]
  PROVE  Evolves(r, q)
<1>0. r.on \in Branches /\ r.tips \in [Branches -> Seq(Commits)] /\ r.made \in Nat
  BY DEF Repos
<1>1. [r.tips EXCEPT ![r.on] = s] \in [Branches -> Seq(Commits)]
  BY <1>0
<1>2. /\ q \in Repos /\ q.on = r.on /\ q.tips = [r.tips EXCEPT ![r.on] = s]
      /\ q.stash = r.stash /\ q.made = r.made
  BY <1>1 DEF Repos
<1>3. HasBranch(q, q.on) /\ \A x \in Branches : HasBranch(q, x) => HasBranch(r, x)
  BY <1>0, <1>2 DEF HasBranch
<1> QED BY <1>0, <1>2, <1>3 DEF Evolves, StashStep

(* A stash goes from the top, or one comes there.                          *)
LEMMA PopEvolves ==
  ASSUME NEW r \in Repos, HasBranch(r, r.on), r.stash # <<>>, NEW t \in Commits, NEW q,
         q = [r EXCEPT !.tree = t, !.stash = Tail(r.stash)]
  PROVE  Evolves(r, q)
<1>1. Tail(r.stash) \in Seq(Stashes) /\ r.made \in Nat
  BY HeadTailProperties DEF Repos
<1>2. /\ q \in Repos /\ q.on = r.on /\ q.tips = r.tips
      /\ q.stash = Tail(r.stash) /\ q.made = r.made
  BY <1>1 DEF Repos
<1> QED BY <1>1, <1>2 DEF Evolves, HasBranch, StashStep

(* What is in the stash on top.                                            *)
LEMMA HeadOfStash ==
  ASSUME NEW r \in Repos, r.stash # <<>>
  PROVE  /\ Head(r.stash) \in Stashes /\ Head(r.stash).what \in Commits
         /\ Head(r.stash).id \in Nat
<1>1. Head(r.stash) \in Stashes
  BY HeadTailProperties DEF Repos
<1> QED BY <1>1 DEF Stashes

(* Work in progress is stashed, or there is none.                          *)
LEMMA StashEvolves ==
  ASSUME NEW r \in Repos, HasBranch(r, r.on), NEW what \in Commits, NEW i \in Commits,
         NEW t \in Commits, NEW q,
         q = [r EXCEPT !.stash = <<[id |-> r.made + 1, what |-> what]>> \o r.stash,
                       !.made = r.made + 1, !.tree = t, !.index = i]
  PROVE  Evolves(r, q)
<1> DEFINE s == [id |-> r.made + 1, what |-> what]
<1>1. s \in Stashes /\ s.id > r.made /\ r.made \in Nat
  BY DEF Repos, Stashes
<1> DEFINE st == <<s>> \o r.stash
           n  == r.made + 1
<1> HIDE DEF s
<1>2. st \in Seq(Stashes)
  BY <1>1, ConcatProperties DEF Repos
<1>3. q = [r EXCEPT !.stash = st, !.made = n, !.tree = t, !.index = i]
  BY DEF s
<1>4. n \in Nat /\ n >= r.made
  BY <1>1
<1>5. \E x \in Stashes : x.id > r.made /\ st = <<x>> \o r.stash
  BY <1>1
<1> HIDE DEF st, n
<1>6. /\ q \in Repos /\ q.on = r.on /\ q.tips = r.tips /\ q.stash = st /\ q.made = n
  BY <1>2, <1>3, <1>4 DEF Repos
<1> QED BY <1>4, <1>5, <1>6 DEF Evolves, HasBranch, StashStep

(* A command of a step, on a repository that takes it.                     *)
LEMMA AfterEvolves ==
  ASSUME NEW r \in Repos, HasBranch(r, r.on), NEW c, NEW b, Works(c, b, r),
         c \in {"newBranch", "merge", "switch", "delete"} => b \in Branches,
         c = "newBranch" => b \in Makes
  PROVE  /\ Evolves(r, After(c, b, r))
         /\ After(c, b, r).merging = r.merging /\ After(c, b, r).conflict = r.conflict
<1> DEFINE q == After(c, b, r)
<1>0. /\ r.on \in Branches /\ r.tips \in [Branches -> Seq(Commits)] /\ r.made \in Nat
      /\ r.tips[r.on] \in Seq(Commits) /\ r.index \in Commits /\ r.tree \in Commits
      /\ r.merging \in BranchOrNone /\ r.conflict \in BOOLEAN /\ r.stash \in Seq(Stashes)
  BY DEF Repos
<1>1. HeadOf(r) \in Commits
  BY <1>0, LastCommit DEF HeadOf
<1>2. \A x \in Branches : HasBranch(r, x) => Content(r, x) \in Commits
  BY LastCommit
<1>3. CASE c = "add"
  <2>1. q = [r EXCEPT !.index = r.tree, !.tree = r.tree, !.merging = r.merging,
                      !.conflict = r.conflict]
    BY <1>3 DEF After, Repos
  <2> HIDE DEF q
  <2>2. Evolves(r, q) /\ q.merging = r.merging /\ q.conflict = r.conflict
    BY <1>0, <2>1, ContentEvolves DEF Repos
  <2> QED BY <2>2 DEF q
<1>4. CASE c = "commit"
  <2> DEFINE s == Append(r.tips[r.on], r.index)
  <2>1. s \in Seq(Commits) /\ s # <<>>
    BY <1>0, AppendProperties
  <2>2. q = [r EXCEPT !.tips = [r.tips EXCEPT ![r.on] = s], !.index = r.index, !.tree = r.tree,
                      !.merging = r.merging]
    BY <1>4 DEF After, Repos
  <2> HIDE DEF q, s
  <2>3. Evolves(r, q) /\ q.merging = r.merging /\ q.conflict = r.conflict
    BY <1>0, <2>1, <2>2, TipEvolves DEF Repos
  <2> QED BY <2>3 DEF q
<1>5. CASE c = "reset"
  <2> DEFINE s == SubSeq(r.tips[r.on], 1, Len(r.tips[r.on]) - SquashCount)
  <2>1. s \in Seq(Commits) /\ s # <<>>
    <3>1. Len(r.tips[r.on]) > SquashCount /\ SquashCount \in Nat \ {0}
      BY <1>5, RecipeAssumption DEF Works
    <3>2. 1 <= Len(r.tips[r.on]) - SquashCount /\ Len(r.tips[r.on]) \in Nat
      BY <1>0, <3>1
    <3>3. Len(r.tips[r.on]) - SquashCount \in 1..Len(r.tips[r.on])
      BY <3>1, <3>2
    <3> QED BY <1>0, <3>3, SubSeqProperties
  <2>2. q = [r EXCEPT !.tips = [r.tips EXCEPT ![r.on] = s], !.index = r.index, !.tree = r.tree,
                      !.merging = r.merging]
    BY <1>5 DEF After, Repos
  <2> HIDE DEF q, s
  <2>3. Evolves(r, q) /\ q.merging = r.merging /\ q.conflict = r.conflict
    BY <1>0, <2>1, <2>2, TipEvolves DEF Repos
  <2> QED BY <2>3 DEF q
<1>6. CASE c = "newBranch"
  <2>1. b \in Branches /\ b \in Makes
    BY <1>6
  <2>2. q = [r EXCEPT !.tips = [r.tips EXCEPT ![b] = r.tips[r.on]], !.on = b]
    BY <1>6 DEF After, Repos
  <2> HIDE DEF q
  <2>3. [r.tips EXCEPT ![b] = r.tips[r.on]] \in [Branches -> Seq(Commits)]
    BY <1>0
  <2>4. /\ q \in Repos /\ q.on = b /\ q.tips = [r.tips EXCEPT ![b] = r.tips[r.on]]
        /\ q.stash = r.stash /\ q.made = r.made
        /\ q.merging = r.merging /\ q.conflict = r.conflict
    BY <2>1, <2>2, <2>3 DEF Repos
  <2>5. HasBranch(q, q.on) /\ \A x \in Branches \ Makes : HasBranch(q, x) => HasBranch(r, x)
    BY <1>0, <2>1, <2>4 DEF HasBranch
  <2>6. Evolves(r, q) /\ q.merging = r.merging /\ q.conflict = r.conflict
    BY <1>0, <2>4, <2>5 DEF Evolves, StashStep
  <2> QED BY <2>6 DEF q
<1>7. CASE c = "switch"
  <2> DEFINE t == Onto(r, r.tree, Content(r, b))
             i == Onto(r, r.index, Content(r, b))
  <2>1. b \in Branches /\ HasBranch(r, b)
    BY <1>7 DEF Works
  <2>2. t \in Commits /\ i \in Commits
    BY <1>0, <1>2, <2>1 DEF Onto, Commits
  <2>3. q = [r EXCEPT !.on = b, !.tree = t, !.index = i]
    BY <1>7 DEF After
  <2> HIDE DEF q, t, i
  <2>4. /\ q \in Repos /\ q.on = b /\ q.tips = r.tips /\ q.stash = r.stash /\ q.made = r.made
        /\ q.merging = r.merging /\ q.conflict = r.conflict
    BY <2>1, <2>2, <2>3 DEF Repos
  <2>5. Evolves(r, q) /\ q.merging = r.merging /\ q.conflict = r.conflict
    BY <1>0, <2>1, <2>4 DEF Evolves, StashStep, HasBranch
  <2> QED BY <2>5 DEF q
<1>8. CASE c = "delete"
  <2>1. b \in Branches /\ b # r.on
    BY <1>8 DEF Works
  <2>2. q = [r EXCEPT !.tips = [r.tips EXCEPT ![b] = <<>>]]
    BY <1>8 DEF After
  <2> HIDE DEF q
  <2>3. [r.tips EXCEPT ![b] = <<>>] \in [Branches -> Seq(Commits)]
    BY <1>0, EmptySeq
  <2>4. /\ q \in Repos /\ q.on = r.on /\ q.tips = [r.tips EXCEPT ![b] = <<>>]
        /\ q.stash = r.stash /\ q.made = r.made
        /\ q.merging = r.merging /\ q.conflict = r.conflict
    BY <2>2, <2>3 DEF Repos
  <2>5. HasBranch(q, q.on) /\ \A x \in Branches : HasBranch(q, x) => HasBranch(r, x)
    BY <1>0, <2>1, <2>4 DEF HasBranch
  <2>6. Evolves(r, q) /\ q.merging = r.merging /\ q.conflict = r.conflict
    BY <1>0, <2>4, <2>5 DEF Evolves, StashStep
  <2> QED BY <2>6 DEF q
<1>9. CASE c = "merge"
  <2> DEFINE both == HeadOf(r) \cup Content(r, b)
             s == IF both = HeadOf(r) THEN r.tips[r.on] ELSE Append(r.tips[r.on], both)
  <2>1. b \in Branches /\ HasBranch(r, b)
    BY <1>9 DEF Works
  <2>2. both \in Commits
    BY <1>1, <1>2, <2>1 DEF Commits
  <2>3. s \in Seq(Commits) /\ s # <<>>
    <3>1. r.tips[r.on] # <<>>
      BY DEF HasBranch
    <3> HIDE DEF both
    <3> QED BY <1>0, <2>2, <3>1, AppendProperties
  <2> DEFINE t == r.tree \cup (Content(r, b) \ HeadOf(r))
  <2>4. t \in Commits
    BY <1>0, <1>2, <2>1 DEF Commits
  <2>5. q = [r EXCEPT !.tips = [r.tips EXCEPT ![r.on] = s], !.index = both,
                      !.tree = t, !.merging = r.merging]
    BY <1>9 DEF After, Repos
  <2> HIDE DEF q, s, both, t
  <2>6. Evolves(r, q) /\ q.merging = r.merging /\ q.conflict = r.conflict
    BY <1>0, <2>2, <2>3, <2>4, <2>5, TipEvolves DEF Repos
  <2> QED BY <2>6 DEF q
<1>10. CASE c = "stash"
  <2>1. CASE IsClean(r)
    <3>1. q = r
      BY <1>10, <2>1 DEF After
    <3> QED BY <1>0, <3>1 DEF Evolves, StashStep
  <2>2. CASE ~IsClean(r)
    <3> DEFINE what == r.tree \ HeadOf(r)
    <3>1. what \in Commits
      BY <1>0 DEF Commits
    <3>2. q = [r EXCEPT !.stash = <<[id |-> r.made + 1, what |-> what]>> \o r.stash,
                        !.made = r.made + 1, !.tree = HeadOf(r), !.index = HeadOf(r)]
      BY <1>10, <2>2 DEF After
    <3> HIDE DEF q, what
    <3>3. Evolves(r, q)
      BY <1>1, <3>1, <3>2, StashEvolves
    <3>4. q.merging = r.merging /\ q.conflict = r.conflict
      BY <3>2 DEF Repos
    <3> QED BY <3>3, <3>4 DEF q
  <2> QED BY <2>1, <2>2
<1>11. CASE c = "pop"
  <2> DEFINE t == r.tree \cup Head(r.stash).what
  <2>1. r.stash # <<>>
    BY <1>11 DEF Works
  <2>2. t \in Commits
    BY <1>0, <2>1, HeadOfStash DEF Commits
  <2>3. q = [r EXCEPT !.tree = t, !.stash = Tail(r.stash)]
    BY <1>11 DEF After
  <2> HIDE DEF q, t
  <2>4. Evolves(r, q) /\ q.merging = r.merging /\ q.conflict = r.conflict
    BY <2>1, <2>2, <2>3, PopEvolves DEF Repos
  <2> QED BY <2>4 DEF q
<1>12. CASE c \notin {"add", "commit", "reset", "newBranch", "switch", "delete", "merge", "stash",
                      "pop"}
  <2>1. q = r
    BY <1>12 DEF After
  <2> QED BY <1>0, <2>1 DEF Evolves, StashStep
<1> QED BY <1>3, <1>4, <1>5, <1>6, <1>7, <1>8, <1>9, <1>10, <1>11, <1>12

(* A merge or a pop that conflicts.                                        *)
LEMMA ConflictEvolves ==
  ASSUME NEW r \in Repos, HasBranch(r, r.on), NEW c \in {"merge", "pop"}, NEW b,
         Works(c, b, r), c = "merge" => b \in Branches
  PROVE  /\ Evolves(r, Conflicted(c, b, r))
         /\ Conflicted(c, b, r).merging = IF c = "merge" THEN b ELSE r.merging
<1> DEFINE q == Conflicted(c, b, r)
<1>0. /\ r.index \in Commits /\ r.tree \in Commits /\ r.merging \in BranchOrNone
  BY DEF Repos
<1>1. CASE c = "merge"
  <2>1. b \in Branches /\ Content(r, b) \in Commits /\ b \in BranchOrNone
    BY <1>1, LastCommit DEF Works, BranchOrNone
  <2> DEFINE came == Content(r, b) \ HeadOf(r)
             i == r.index \cup came
             t == r.tree \cup came
  <2>2. i \in Commits /\ t \in Commits
    BY <1>0, <2>1 DEF Commits
  <2>3. q = [r EXCEPT !.index = i, !.tree = t, !.merging = b, !.conflict = TRUE]
    BY <1>1 DEF Conflicted
  <2> HIDE DEF q, i, t
  <2>4. Evolves(r, q) /\ q.merging = b
    BY <2>1, <2>2, <2>3, ContentEvolves DEF Repos
  <2> QED BY <1>1, <2>4 DEF q
<1>2. CASE c = "pop"
  <2>1. Head(r.stash).what \in Commits
    BY <1>2, HeadOfStash DEF Works
  <2> DEFINE t == r.tree \cup Head(r.stash).what
  <2>2. t \in Commits
    BY <1>0, <2>1 DEF Commits
  <2>3. q = [r EXCEPT !.index = r.index, !.tree = t, !.merging = r.merging, !.conflict = TRUE]
    BY <1>2 DEF Conflicted, Repos
  <2> HIDE DEF q, t
  <2>4. Evolves(r, q) /\ q.merging = r.merging
    BY <1>0, <2>2, <2>3, ContentEvolves DEF Repos
  <2> QED BY <1>2, <2>4 DEF q
<1> QED BY <1>1, <1>2

(* A merge that is aborted leaves everything but the index and the tree.   *)
LEMMA AbortEvolves ==
  ASSUME NEW r \in Repos, HasBranch(r, r.on)
  PROVE  /\ Evolves(r, MergeAborted(r))
         /\ MergeAborted(r).on = r.on /\ MergeAborted(r).tips = r.tips
         /\ MergeAborted(r).stash = r.stash
         /\ MergeAborted(r).merging = NoMerge /\ MergeAborted(r).conflict = FALSE
<1> DEFINE t == r.tree \ (Content(r, r.merging) \ HeadOf(r))
           i == HeadOf(r)
           q == MergeAborted(r)
<1>1. r.on \in Branches /\ r.tree \in Commits /\ NoMerge \in BranchOrNone
  BY DEF Repos, BranchOrNone, NoMerge
<1>2. i \in Commits
  BY <1>1, LastCommit DEF HeadOf
<1>3. t \in Commits
  BY <1>1 DEF Commits
<1>4. q = [r EXCEPT !.index = i, !.tree = t, !.merging = NoMerge, !.conflict = FALSE]
  BY DEF MergeAborted
<1> HIDE DEF q, t, i
<1>5. Evolves(r, q)
  BY <1>1, <1>2, <1>3, <1>4, ContentEvolves
<1>6. q.on = r.on /\ q.tips = r.tips /\ q.stash = r.stash
      /\ q.merging = NoMerge /\ q.conflict = FALSE
  BY <1>4 DEF Repos
<1> QED BY <1>5, <1>6 DEF q

(* What a conflict interrupted is finished.                                *)
LEMMA ConcludedEvolves ==
  ASSUME NEW r \in Repos, HasBranch(r, r.on)
  PROVE  /\ Evolves(r, Concluded(r)) /\ Concluded(r).conflict = r.conflict
         /\ Concluded(r).merging \in {NoMerge, r.merging}
         /\ ~stop.inMerger /\ stop.merge => Concluded(r).merging = NoMerge
<1> DEFINE q == Concluded(r)
<1>0. /\ r.on \in Branches /\ r.tips[r.on] \in Seq(Commits) /\ r.index \in Commits
      /\ r.tree \in Commits /\ NoMerge \in BranchOrNone /\ r.made \in Nat
  BY DEF Repos, BranchOrNone, NoMerge
<1>1. CASE ~stop.inMerger /\ stop.merge /\ r.merging # NoMerge
  <2> DEFINE s == Append(r.tips[r.on], r.index)
  <2>1. s \in Seq(Commits) /\ s # <<>>
    BY <1>0, AppendProperties
  <2>2. q = [r EXCEPT !.tips = [r.tips EXCEPT ![r.on] = s], !.index = r.index, !.tree = r.tree,
                      !.merging = NoMerge]
    BY <1>1 DEF Concluded, MergeCommitted, Repos
  <2> HIDE DEF q, s
  <2>3. Evolves(r, q) /\ q.merging = NoMerge /\ q.conflict = r.conflict
    BY <1>0, <2>1, <2>2, TipEvolves DEF Repos
  <2> QED BY <2>3 DEF q
<1>2. CASE ~stop.merge /\ ~stop.inMerger /\ r.stash # <<>> /\ Head(r.stash).id = stop.stash
  <2>0. q = [r EXCEPT !.stash = Tail(r.stash)]
    BY <1>2 DEF Concluded
  <2>1. q = [r EXCEPT !.tree = r.tree, !.stash = Tail(r.stash)]
    BY <2>0 DEF Repos
  <2> HIDE DEF q
  <2>2. Evolves(r, q) /\ q.merging = r.merging /\ q.conflict = r.conflict
    BY <1>0, <1>2, <2>1, PopEvolves DEF Repos
  <2> QED BY <1>2, <2>2 DEF q
<1>3. CASE /\ ~(~stop.inMerger /\ stop.merge /\ r.merging # NoMerge)
           /\ ~(~stop.merge /\ ~stop.inMerger /\ r.stash # <<>> /\ Head(r.stash).id = stop.stash)
  <2>1. q = r
    BY <1>3 DEF Concluded
  <2> QED BY <1>0, <1>3, <2>1 DEF Evolves, StashStep
<1> QED BY <1>1, <1>2, <1>3

-----------------------------------------------------------------------------
(* The undo.                                                               *)

(* The branches a recipe names or makes are branches; those it makes were   *)
(* not there, and it was begun on one that was.                            *)
LEMMA NamedBranches ==
  ASSUME recipe \in Recipes
  PROVE  /\ Named(Start) \subseteq Branches /\ Makes \subseteq Branches
         /\ TipsOf(Start) \subseteq Branches /\ Start.on \in TipsOf(Start)
         /\ \A b \in Makes : ~HasBranch(Start, b)
<1>1. IsRecipe(recipe)
  BY RecipeAssumption
<1>2. \A i \in DOMAIN recipe : Uses(recipe[i]) \subseteq Branches
  BY <1>1 DEF IsRecipe, Uses
<1>3. Named(Start) \subseteq Branches
  <2>1. ASSUME NEW b \in Named(Start) PROVE b \in Branches
    <3>1. CASE b = Start.on
      BY <3>1, StartIs
    <3>2. CASE b # Start.on
      <4> DEFINE used == {Uses(recipe[i]) : i \in DOMAIN recipe}
      <4>1. b \in UNION used
        BY <3>2 DEF Named
      <4>2. PICK u \in used : b \in u
        BY <4>1
      <4>3. \E i \in DOMAIN recipe : u = Uses(recipe[i])
        OBVIOUS
      <4> QED BY <1>2, <4>2, <4>3
    <3> QED BY <3>1, <3>2
  <2> QED BY <2>1
<1>4. Makes \subseteq Branches /\ \A b \in Makes : ~HasBranch(Start, b)
  BY <1>1 DEF IsRecipe, Makes
<1>5. Start.on \in TipsOf(Start)
  <2>1. Start.on \in Named(Start)
    BY DEF Named
  <2> QED BY <2>1, StartIs DEF TipsOf
<1> QED BY <1>3, <1>4, <1>5 DEF TipsOf

(* What the restore point says.                                            *)
LEMMA PointIs ==
  /\ Point.on = Start.on /\ Point.index = Start.index /\ Point.work = Start.tree
  /\ Point.stash = Start.stash /\ Point.makes = Makes \ TipsOf(Start)
  /\ Point.tips = [b \in TipsOf(Start) |-> Start.tips[b]]
<1> QED BY DEF Point

(* Some number up to n that has a property is the largest that has it.     *)
LEMMA Largest ==
  ASSUME NEW n \in Nat, NEW T \in SUBSET (1..n), T # {}
  PROVE  Max(T) \in T /\ \A y \in T : Max(T) >= y
<1> DEFINE R == OpToRel(<, Nat)
           D == {n - x : x \in T}
<1>1. IsWellFoundedOn(R, Nat)
  BY NatLessThanWellFounded
<1>2. \A x, y \in Nat : (<<y, x>> \in R) <=> y < x
  BY DEF OpToRel
<1>3. D \subseteq Nat /\ D # {}
  <2>1. \A x \in T : x \in Int /\ n - x \in Nat
    OBVIOUS
  <2>2. D \subseteq Nat
    BY <2>1
  <2>3. PICK x \in T : TRUE
    OBVIOUS
  <2>4. n - x \in D
    BY <2>3
  <2> QED BY <2>2, <2>4
<1>4. \E x \in D : \A y \in D : ~(<<y, x>> \in R)
  <2> HIDE DEF R, D
  <2> QED BY <1>1, <1>3, WFMin, Zenon
<1> HIDE DEF R
<1>5. PICK d \in D : \A y \in D : ~(<<y, d>> \in R)
  BY <1>4
<1>6. PICK x \in T : d = n - x
  BY <1>5
<1>7. ASSUME NEW y \in T PROVE x >= y
  <2>1. n - y \in D /\ n - x \in D
    BY <1>6
  <2>2. ~(<<n - y, n - x>> \in R)
    BY <1>5, <1>6, <2>1
  <2>3. ~(n - y < n - x)
    BY <1>2, <1>3, <2>1, <2>2
  <2>4. x \in Int /\ y \in Int /\ n \in Int
    OBVIOUS
  <2> HIDE DEF D
  <2> QED BY <2>3, <2>4
<1> QED BY <1>6, <1>7 DEF Max

(* A sequence without one of its members.                                  *)
LEMMA RemovedAt ==
  ASSUME NEW S, NEW s \in Seq(S), NEW k \in 1..Len(s)
  PROVE  /\ RemoveAt(s, k) \in Seq(S) /\ Len(RemoveAt(s, k)) = Len(s) - 1
         /\ \A i \in 1..(Len(s) - 1) : RemoveAt(s, k)[i] = IF i < k THEN s[i] ELSE s[i + 1]
<1> DEFINE a == SubSeq(s, 1, k - 1)
           b == SubSeq(s, k + 1, Len(s))
<1>0. Len(s) \in Nat /\ k \in Int /\ k - 1 \in Int /\ k + 1 \in Int /\ \A i \in 1..Len(s) : s[i] \in S
  OBVIOUS
<1>1. /\ a \in Seq(S) /\ Len(a) = k - 1
      /\ \A i \in 1..(k - 1) : a[i] = s[i]
  <2>1. \A i \in 1..(k - 1) : s[i] \in S
    BY <1>0
  <2>2. /\ a \in Seq(S) /\ Len(a) = IF 1 <= k - 1 THEN k - 1 - 1 + 1 ELSE 0
        /\ \A i \in 1..(k - 1 - 1 + 1) : a[i] = s[1 + i - 1]
    BY <1>0, <2>1, SubSeqProperties
  <2> HIDE DEF a
  <2> QED BY <1>0, <2>2
<1>2. /\ b \in Seq(S) /\ Len(b) = Len(s) - k
      /\ \A i \in 1..(Len(s) - k) : b[i] = s[k + i]
  <2>1. \A i \in (k + 1)..Len(s) : s[i] \in S
    BY <1>0
  <2>2. /\ b \in Seq(S) /\ Len(b) = IF k + 1 <= Len(s) THEN Len(s) - (k + 1) + 1 ELSE 0
        /\ \A i \in 1..(Len(s) - (k + 1) + 1) : b[i] = s[k + 1 + i - 1]
    BY <1>0, <2>1, SubSeqProperties
  <2> HIDE DEF b
  <2> QED BY <1>0, <2>2
<1>3. RemoveAt(s, k) = a \o b
  BY DEF RemoveAt
<1> HIDE DEF a, b
<1>4. /\ a \o b \in Seq(S) /\ Len(a \o b) = Len(a) + Len(b)
      /\ \A i \in 1..(Len(a) + Len(b)) : (a \o b)[i] = IF i <= Len(a) THEN a[i] ELSE b[i - Len(a)]
  BY <1>1, <1>2, ConcatProperties
<1>5. ASSUME NEW i \in 1..(Len(s) - 1)
      PROVE  (a \o b)[i] = IF i < k THEN s[i] ELSE s[i + 1]
  <2>1. i \in 1..(Len(a) + Len(b))
    BY <1>0, <1>1, <1>2
  <2>2. CASE i < k
    BY <1>0, <1>1, <1>4, <2>1, <2>2
  <2>3. CASE ~(i < k)
    <3>1. i - Len(a) \in 1..(Len(s) - k) /\ ~(i <= Len(a)) /\ k + (i - Len(a)) = i + 1
      BY <1>0, <1>1, <2>3
    <3>2. (a \o b)[i] = b[i - Len(a)]
      BY <1>4, <2>1, <3>1
    <3>3. b[i - Len(a)] = s[i + 1]
      BY <1>2, <3>1
    <3> QED BY <2>3, <3>2, <3>3
  <2> QED BY <2>2, <2>3
<1>6. Len(a \o b) = Len(s) - 1
  BY <1>0, <1>1, <1>2, <1>4
<1> QED BY <1>3, <1>4, <1>5, <1>6

(* The branches that are set, and the others.                              *)
LEMMA RefsSet ==
  ASSUME NEW r \in Repos, NEW A \in SUBSET Branches, NEW f \in [A -> Seq(Commits)]
  PROVE  /\ WithRefs(r, f) \in [Branches -> Seq(Commits)]
         /\ \A x \in Branches : WithRefs(r, f)[x] = IF x \in A THEN f[x] ELSE r.tips[x]
<1>1. r.tips \in [Branches -> Seq(Commits)]
  BY DEF Repos
<1>2. WithRefs(r, f) = [x \in Branches |-> IF x \in A THEN f[x] ELSE r.tips[x]]
  BY <1>1 DEF WithRefs
<1> QED BY <1>1, <1>2

(* The names of the steps of an undo.                                      *)
LEMMA StepNames ==
  /\ UndoSteps[1] = "operation" /\ UndoSteps[2] = "tree" /\ UndoSteps[3] = "tips"
  /\ UndoSteps[4] = "head" /\ UndoSteps[5] = "makes" /\ UndoSteps[6] = "index"
  /\ UndoSteps[7] = "drop" /\ UndoSteps[8] = "store" /\ Len(UndoSteps) = 8
<1> QED BY DEF UndoSteps

(* A stash goes, or is stored again, and the rest stays.                   *)
LEMMA DropsOne ==
  ASSUME NEW r \in Repos, Added(r) # {}, NEW q,
         q = [r EXCEPT !.stash = RemoveAt(@, Max(Added(r)))]
  PROVE  /\ Max(Added(r)) \in Added(r) /\ \A i \in Added(r) : i <= Max(Added(r))
         /\ q \in Repos /\ q = [r EXCEPT !.stash = q.stash]
         /\ q.stash = RemoveAt(r.stash, Max(Added(r)))
<1> DEFINE k == Max(Added(r))
           s == RemoveAt(r.stash, k)
<1>1. r.stash \in Seq(Stashes) /\ Len(r.stash) \in Nat /\ DOMAIN r.stash = 1..Len(r.stash)
  BY DEF Repos
<1>2. Added(r) \in SUBSET (1..Len(r.stash))
  BY <1>1 DEF Added
<1>3. k \in Added(r) /\ \A i \in Added(r) : k >= i
  BY <1>1, <1>2, Largest
<1> HIDE DEF k
<1>4. s \in Seq(Stashes)
  BY <1>1, <1>2, <1>3, RemovedAt
<1>5. q = [r EXCEPT !.stash = s]
  BY DEF k
<1> HIDE DEF s
<1>6. q \in Repos /\ q.stash = s
  BY <1>4, <1>5 DEF Repos
<1>7. \A i \in Added(r) : i <= k
  BY <1>1, <1>2, <1>3
<1> QED BY <1>3, <1>5, <1>6, <1>7 DEF k, s

(* A stash of the start is stored again over the others.                   *)
LEMMA StoresOne ==
  ASSUME NEW r \in Repos, Lacking(r) # {}, NEW q,
         q = [r EXCEPT !.stash = <<Point.stash[Max(Lacking(r))]>> \o @]
  PROVE  /\ Max(Lacking(r)) \in Lacking(r) /\ \A i \in Lacking(r) : i <= Max(Lacking(r))
         /\ q \in Repos /\ q = [r EXCEPT !.stash = q.stash]
         /\ q.stash = <<Start.stash[Max(Lacking(r))]>> \o r.stash
         /\ Start.stash[Max(Lacking(r))] \in Stashes
<1> DEFINE k == Max(Lacking(r))
           s == <<Start.stash[k]>> \o r.stash
<1>1. /\ r.stash \in Seq(Stashes) /\ Start.stash \in Seq(Stashes)
      /\ Len(Start.stash) \in Nat /\ DOMAIN Start.stash = 1..Len(Start.stash)
  BY StartIs DEF Repos
<1>2. Lacking(r) \in SUBSET (1..Len(Start.stash))
  BY <1>1, PointIs DEF Lacking
<1>3. k \in Lacking(r) /\ \A i \in Lacking(r) : k >= i
  BY <1>1, <1>2, Largest
<1> HIDE DEF k
<1>4. Start.stash[k] \in Stashes
  BY <1>1, <1>2, <1>3
<1>5. s \in Seq(Stashes)
  <2> DEFINE x == Start.stash[k]
  <2>1. <<x>> \in Seq(Stashes)
    BY <1>4
  <2> HIDE DEF x
  <2>2. <<x>> \o r.stash \in Seq(Stashes)
    BY <1>1, <2>1, ConcatProperties
  <2> QED BY <2>2 DEF x
<1>6. q = [r EXCEPT !.stash = s]
  BY PointIs DEF k
<1> HIDE DEF s
<1>7. q \in Repos /\ q.stash = s
  BY <1>5, <1>6 DEF Repos
<1>8. \A i \in Lacking(r) : i <= k
  BY <1>1, <1>2, <1>3
<1> QED BY <1>3, <1>4, <1>6, <1>7, <1>8 DEF k, s

(* A step of an undo leaves what the steps before it put back, and a        *)
(* branch that is there after it was there or was there at the start.      *)
LEMMA UndoGoesOn ==
  ASSUME recipe \in Recipes, NEW r \in Repos, HasBranch(r, r.on), NEW k \in 1..8, Back(r, k)
  PROVE  LET q == PutBack(UndoSteps[k], r) IN
         /\ q \in Repos /\ HasBranch(q, q.on) /\ q.made >= r.made
         /\ Back(q, IF IsMore(UndoSteps[k], r) THEN k ELSE k + 1)
         /\ \A x \in Branches : HasBranch(q, x) => HasBranch(r, x) \/ HasBranch(Start, x)
         /\ k < 7 => q.stash = r.stash
         /\ k = 7 => q.stash = IF Added(r) = {} THEN r.stash ELSE RemoveAt(r.stash, Max(Added(r)))
         /\ k = 8 => q.stash = IF Lacking(r) = {} THEN r.stash
                               ELSE <<Start.stash[Max(Lacking(r))]>> \o r.stash
         /\ q.merging \in {NoMerge, r.merging} /\ (q.conflict => r.conflict)
<1> DEFINE q == PutBack(UndoSteps[k], r)
           n == IF IsMore(UndoSteps[k], r) THEN k ELSE k + 1
           less == IF Added(r) = {} THEN r.stash ELSE RemoveAt(r.stash, Max(Added(r)))
           more == IF Lacking(r) = {} THEN r.stash
                   ELSE <<Start.stash[Max(Lacking(r))]>> \o r.stash
           ItGoesOn ==
             /\ q \in Repos /\ HasBranch(q, q.on) /\ q.made >= r.made
             /\ Back(q, n)
             /\ \A x \in Branches : HasBranch(q, x) => HasBranch(r, x) \/ HasBranch(Start, x)
             /\ k < 7 => q.stash = r.stash
             /\ k = 7 => q.stash = less
             /\ k = 8 => q.stash = more
             /\ q.merging \in {NoMerge, r.merging} /\ (q.conflict => r.conflict)
<1> SUFFICES ItGoesOn
  OBVIOUS
<1> HIDE DEF less, more
<1>0. /\ r.on \in Branches /\ r.tips \in [Branches -> Seq(Commits)] /\ r.made \in Nat
      /\ r.merging \in BranchOrNone /\ r.conflict \in BOOLEAN
      /\ Start.tips \in [Branches -> Seq(Commits)]
      /\ Start.index \in Commits /\ Start.tree \in Commits /\ Start.on \in Branches
  BY StartIs DEF Repos
<1>1. k < 7 => n = k + 1
  <2>1. k < 7 => ~IsMore(UndoSteps[k], r)
    BY StepNames DEF IsMore
  <2> QED BY <2>1
<1>2. CASE k = 1
  <2>1. q = IF r.merging = NoMerge THEN r ELSE MergeAborted(r)
    BY <1>2, StepNames DEF PutBack
  <2>2. CASE r.merging = NoMerge
    <3>1. q = r
      BY <2>1, <2>2
    <3>2. n = 2 /\ Back(r, 2) /\ r.made >= r.made
      BY <1>0, <1>1, <1>2, <2>2 DEF Back
    <3> HIDE DEF q, n
    <3> QED BY <1>2, <3>1, <3>2
  <2>3. CASE r.merging # NoMerge
    <3>1. q = MergeAborted(r)
      BY <2>1, <2>3
    <3> HIDE DEF q
    <3>2. /\ q \in Repos /\ HasBranch(q, q.on) /\ q.made >= r.made
          /\ q.on = r.on /\ q.tips = r.tips /\ q.stash = r.stash
          /\ q.merging = NoMerge /\ q.conflict = FALSE
      BY <3>1, AbortEvolves DEF Evolves, StashStep
    <3>3. Back(q, 2)
      BY <3>2 DEF Back
    <3>4. \A x \in Branches : HasBranch(q, x) => HasBranch(r, x)
      BY <3>2 DEF HasBranch
    <3>5. n = 2
      BY <1>1, <1>2
    <3> HIDE DEF n
    <3> QED BY <1>2, <3>2, <3>3, <3>4, <3>5
  <2> QED BY <2>2, <2>3
<1>3. CASE k = 2
  <2>1. q = [r EXCEPT !.tree = Start.tree, !.index = Start.tree, !.conflict = FALSE]
    BY <1>3, StepNames, PointIs DEF PutBack
  <2> HIDE DEF q
  <2>2. /\ q \in Repos /\ q.on = r.on /\ q.tips = r.tips /\ q.made = r.made
        /\ q.stash = r.stash /\ q.tree = Start.tree /\ q.merging = r.merging
        /\ q.conflict = FALSE
    BY <1>0, <2>1 DEF Repos
  <2>3. Back(q, 3)
    BY <1>3, <2>2 DEF Back
  <2>4. HasBranch(q, q.on) /\ \A x \in Branches : HasBranch(q, x) => HasBranch(r, x)
    BY <2>2 DEF HasBranch
  <2>5. q.made >= r.made
    BY <1>0, <2>2
  <2>14. n = 3
    BY <1>1, <1>3
  <2> HIDE DEF n
  <2> QED BY <1>3, <2>14, <2>2, <2>3, <2>4, <2>5
<1>4. CASE k = 3
  <2> DEFINE f == [b \in TipsOf(Start) |-> Start.tips[b]]
             g == WithRefs(r, f)
  <2>1. f \in [TipsOf(Start) -> Seq(Commits)] /\ TipsOf(Start) \in SUBSET Branches
    BY <1>0, NamedBranches
  <2>2. /\ g \in [Branches -> Seq(Commits)]
        /\ \A x \in Branches : g[x] = IF x \in TipsOf(Start) THEN f[x] ELSE r.tips[x]
    <3> HIDE DEF f
    <3> QED BY <2>1, RefsSet
  <2>3. q = [r EXCEPT !.tips = g]
    BY <1>4, StepNames, PointIs DEF PutBack
  <2>4. \A x \in TipsOf(Start) : f[x] = Start.tips[x] /\ f[x] # <<>> /\ HasBranch(Start, x)
    BY DEF TipsOf, HasBranch
  <2> HIDE DEF q, f, g
  <2>5. /\ q \in Repos /\ q.on = r.on /\ q.tips = g /\ q.made = r.made
        /\ q.stash = r.stash /\ q.tree = r.tree /\ q.merging = r.merging
        /\ q.conflict = r.conflict
    BY <2>2, <2>3 DEF Repos
  <2>6. Back(q, 4)
    BY <1>4, <2>1, <2>2, <2>4, <2>5 DEF Back
  <2>7. HasBranch(q, q.on)
    BY <1>0, <2>2, <2>4, <2>5 DEF HasBranch
  <2>8. \A x \in Branches : HasBranch(q, x) => HasBranch(r, x) \/ HasBranch(Start, x)
    BY <2>2, <2>4, <2>5 DEF HasBranch
  <2>9. q.made >= r.made
    BY <1>0, <2>5
  <2>14. n = 4
    BY <1>1, <1>4
  <2> HIDE DEF n
  <2> QED BY <1>4, <2>14, <2>5, <2>6, <2>7, <2>8, <2>9
<1>5. CASE k = 4
  <2>1. q = [r EXCEPT !.on = Start.on]
    BY <1>5, StepNames, PointIs DEF PutBack
  <2> HIDE DEF q
  <2>2. /\ q \in Repos /\ q.on = Start.on /\ q.tips = r.tips /\ q.made = r.made
        /\ q.stash = r.stash /\ q.tree = r.tree /\ q.merging = r.merging
        /\ q.conflict = r.conflict
    BY <1>0, <2>1 DEF Repos
  <2>3. Back(q, 5)
    BY <1>5, <2>2 DEF Back
  <2>4. q.tips[Start.on] = Start.tips[Start.on]
    BY <1>5, <2>2, NamedBranches DEF Back
  <2>5. HasBranch(q, q.on) /\ \A x \in Branches : HasBranch(q, x) => HasBranch(r, x)
    BY <2>2, <2>4, StartIs DEF HasBranch
  <2>6. q.made >= r.made
    BY <1>0, <2>2
  <2>14. n = 5
    BY <1>1, <1>5
  <2> HIDE DEF n
  <2> QED BY <1>5, <2>14, <2>2, <2>3, <2>5, <2>6
<1>6. CASE k = 5
  <2> DEFINE A == Makes \ TipsOf(Start)
             f == [b \in A |-> <<>>]
             g == WithRefs(r, f)
  <2>1. f \in [A -> Seq(Commits)] /\ A \in SUBSET Branches /\ Start.on \notin A
    <3>1. <<>> \in Seq(Commits)
      BY EmptySeq
    <3> QED BY <3>1, NamedBranches
  <2>2. \A x \in A : f[x] = <<>>
    OBVIOUS
  <2>3. /\ g \in [Branches -> Seq(Commits)]
        /\ \A x \in Branches : g[x] = IF x \in A THEN f[x] ELSE r.tips[x]
    <3> HIDE DEF f, A
    <3> QED BY <2>1, RefsSet
  <2>4. q = [r EXCEPT !.tips = g]
    BY <1>6, StepNames, PointIs DEF PutBack
  <2>5. \A x \in TipsOf(Start) : x \notin A
    OBVIOUS
  <2>6. A = Makes \ TipsOf(Start)
    OBVIOUS
  <2> HIDE DEF q, f, g, A
  <2>7. /\ q \in Repos /\ q.on = r.on /\ q.tips = g /\ q.made = r.made
        /\ q.stash = r.stash /\ q.tree = r.tree /\ q.merging = r.merging
        /\ q.conflict = r.conflict
    BY <2>3, <2>4 DEF Repos
  <2>8. /\ r.merging = NoMerge /\ r.tree = Start.tree /\ r.conflict = FALSE
        /\ \A b \in TipsOf(Start) : r.tips[b] = Start.tips[b]
        /\ r.on = Start.on
    BY <1>6 DEF Back
  <2>9. \A b \in TipsOf(Start) : q.tips[b] = Start.tips[b]
    BY <2>3, <2>5, <2>7, <2>8, NamedBranches
  <2>10. \A b \in Makes \ TipsOf(Start) : q.tips[b] = <<>>
    BY <2>1, <2>2, <2>3, <2>6, <2>7
  <2>11. Back(q, 6)
    BY <2>7, <2>8, <2>9, <2>10 DEF Back
  <2>12. HasBranch(q, q.on) /\ \A x \in Branches : HasBranch(q, x) => HasBranch(r, x)
    BY <1>0, <2>1, <2>2, <2>3, <2>7, <2>8 DEF HasBranch
  <2>13. q.made >= r.made
    BY <1>0, <2>7
  <2>14. n = 6
    BY <1>1, <1>6
  <2> HIDE DEF n
  <2> QED BY <1>6, <2>14, <2>7, <2>11, <2>12, <2>13
<1>7. CASE k = 6
  <2>1. q = [r EXCEPT !.index = Start.index]
    BY <1>7, StepNames, PointIs DEF PutBack
  <2> HIDE DEF q
  <2>2. /\ q \in Repos /\ q.on = r.on /\ q.tips = r.tips /\ q.made = r.made
        /\ q.stash = r.stash /\ q.tree = r.tree /\ q.merging = r.merging
        /\ q.conflict = r.conflict /\ q.index = Start.index
    BY <1>0, <2>1 DEF Repos
  <2>3. Back(q, 7)
    BY <1>7, <2>2 DEF Back
  <2>4. HasBranch(q, q.on) /\ \A x \in Branches : HasBranch(q, x) => HasBranch(r, x)
    BY <2>2 DEF HasBranch
  <2>5. q.made >= r.made
    BY <1>0, <2>2
  <2>14. n = 7
    BY <1>1, <1>7
  <2> HIDE DEF n
  <2> QED BY <1>7, <2>14, <2>2, <2>3, <2>4, <2>5
<1>8. CASE k = 7
  <2>1. CASE Added(r) = {}
    <3>1. ~IsMore(UndoSteps[k], r)
      BY <1>8, <2>1, StepNames DEF IsMore
    <3>2. q = r
      BY <1>8, <3>1, StepNames DEF PutBack
    <3>3. Back(r, 8)
      BY <1>8, <2>1 DEF Back
    <3>4. r.made >= r.made /\ n = 8
      BY <1>0, <1>8, <3>1
    <3>5. q.stash = less
      BY <2>1, <3>2 DEF less
    <3> HIDE DEF q, n
    <3> QED BY <1>8, <3>2, <3>3, <3>4, <3>5
  <2>2. CASE Added(r) # {}
    <3>1. IsMore(UndoSteps[k], r)
      BY <1>8, <2>2, StepNames DEF IsMore
    <3>2. q = [r EXCEPT !.stash = RemoveAt(@, Max(Added(r)))]
      BY <1>8, <3>1, StepNames DEF PutBack
    <3> HIDE DEF q
    <3>3. /\ q \in Repos /\ q = [r EXCEPT !.stash = q.stash]
          /\ q.stash = RemoveAt(r.stash, Max(Added(r)))
      BY <2>2, <3>2, DropsOne
    <3>4. /\ q.on = r.on /\ q.tips = r.tips /\ q.made = r.made /\ q.tree = r.tree
          /\ q.merging = r.merging /\ q.conflict = r.conflict /\ q.index = r.index
      BY <3>3 DEF Repos
    <3>5. HasBranch(q, q.on) /\ \A x \in Branches : HasBranch(q, x) => HasBranch(r, x)
      BY <3>4 DEF HasBranch
    <3>6. q.made >= r.made
      BY <1>0, <3>4
    <3>7. Back(q, 7)
      BY <1>8, <3>4 DEF Back
    <3>9. n = 7 /\ q.stash = less
      BY <1>8, <2>2, <3>1, <3>3 DEF less
    <3> HIDE DEF n
    <3> QED BY <1>8, <3>3, <3>4, <3>5, <3>6, <3>7, <3>9
  <2> QED BY <2>1, <2>2
<1>9. CASE k = 8
  <2>1. CASE Lacking(r) = {}
    <3>1. ~IsMore(UndoSteps[k], r)
      BY <1>9, <2>1, StepNames DEF IsMore
    <3>2. q = r
      BY <1>9, <3>1, StepNames DEF PutBack
    <3>3. Back(r, 9)
      BY <1>9, <2>1 DEF Back
    <3>4. r.made >= r.made /\ n = 9
      BY <1>0, <1>9, <3>1
    <3>5. q.stash = more
      BY <2>1, <3>2 DEF more
    <3> HIDE DEF q, n
    <3> QED BY <1>9, <3>2, <3>3, <3>4, <3>5
  <2>2. CASE Lacking(r) # {}
    <3>1. IsMore(UndoSteps[k], r)
      BY <1>9, <2>2, StepNames DEF IsMore
    <3>2. q = [r EXCEPT !.stash = <<Point.stash[Max(Lacking(r))]>> \o @]
      BY <1>9, <3>1, StepNames DEF PutBack
    <3> HIDE DEF q
    <3>3. /\ q \in Repos /\ q = [r EXCEPT !.stash = q.stash]
          /\ q.stash = <<Start.stash[Max(Lacking(r))]>> \o r.stash
      BY <2>2, <3>2, StoresOne
    <3>4. /\ q.on = r.on /\ q.tips = r.tips /\ q.made = r.made /\ q.tree = r.tree
          /\ q.merging = r.merging /\ q.conflict = r.conflict /\ q.index = r.index
      BY <3>3 DEF Repos
    <3>5. HasBranch(q, q.on) /\ \A x \in Branches : HasBranch(q, x) => HasBranch(r, x)
      BY <3>4 DEF HasBranch
    <3>6. q.made >= r.made
      BY <1>0, <3>4
    <3>7. Added(q) = {}
      <4>1. Added(r) = {} /\ DOMAIN q.stash = 1..Len(q.stash)
        BY <1>9, <3>3 DEF Back, Repos
      <4>2. ASSUME NEW i \in DOMAIN q.stash
            PROVE  \E j \in DOMAIN Point.stash : Point.stash[j].id = q.stash[i].id
        <5> DEFINE m == Max(Lacking(r))
                   x == Start.stash[m]
        <5>1. m \in DOMAIN Point.stash /\ x \in Stashes /\ Point.stash[m] = x
          BY <2>2, <3>2, StoresOne, PointIs DEF Lacking
        <5> HIDE DEF m
        <5>2. q.stash = <<x>> \o r.stash /\ r.stash \in Seq(Stashes) /\ <<x>> \in Seq(Stashes)
          BY <3>3, <5>1 DEF Repos, m
        <5> HIDE DEF x
        <5>3. /\ Len(<<x>>) = 1 /\ <<x>>[1] = x /\ Len(r.stash) \in Nat
              /\ Len(q.stash) = 1 + Len(r.stash)
              /\ \A l \in 1..(1 + Len(r.stash)) :
                   q.stash[l] = IF l <= 1 THEN <<x>>[l] ELSE r.stash[l - 1]
          BY <5>2, ConcatProperties
        <5>4. CASE i = 1
          BY <5>1, <5>3, <5>4
        <5>5. CASE i # 1
          <6>1. i - 1 \in DOMAIN r.stash /\ q.stash[i] = r.stash[i - 1]
            BY <4>1, <5>2, <5>3, <5>5
          <6>2. i - 1 \notin Added(r)
            BY <4>1
          <6> QED BY <6>1, <6>2 DEF Added
        <5> QED BY <5>4, <5>5
      <4> QED BY <4>2 DEF Added
    <3>8. Back(q, 8)
      BY <1>9, <3>4, <3>7 DEF Back
    <3>9. n = 8 /\ q.stash = more
      BY <1>9, <2>2, <3>1, <3>3 DEF more
    <3> HIDE DEF n
    <3> QED BY <1>9, <3>3, <3>4, <3>5, <3>6, <3>8, <3>9
  <2> QED BY <2>1, <2>2
<1>10. k \in {1, 2, 3, 4, 5, 6, 7, 8}
  OBVIOUS
<1> HIDE DEF q, n, ItGoesOn
<1> QED BY <1>2, <1>3, <1>4, <1>5, <1>6, <1>7, <1>8, <1>9, <1>10

-----------------------------------------------------------------------------
(* What the variables hold.                                                *)

RepoOK == repo \in Repos /\ HasBranch(repo, repo.on)

Typed == TypeOK /\ Placed /\ Stopped /\ Restored

(* The step a run is on, and its commands.                                 *)
LEMMA StepIs ==
  ASSUME recipe \in Recipes, at \in 1..(Len(recipe) + 1), at <= Len(recipe)
  PROVE  /\ at \in DOMAIN recipe /\ at \in 1..Len(recipe) /\ Len(recipe) \in Nat
         /\ Here.block \in Blocks /\ Here.branch \in BranchOrNone
         /\ Here.block \in {"newBranch", "merge", "switch", "delete"} => Here.branch \in Branches
         /\ Here.block = "newBranch" => Here.branch \in Makes
         /\ Len(Commands(Here)) \in 0..2
         /\ \A k \in 1..Len(Commands(Here)) :
              Commands(Here)[k] \in {"newBranch", "merge", "switch", "delete"} =>
                Commands(Here)[k] = Here.block
<1>1. IsRecipe(recipe)
  BY RecipeAssumption
<1>2. recipe \in Seq([block : Blocks, branch : BranchOrNone, agent : BOOLEAN])
  BY <1>1 DEF IsRecipe
<1>3. at \in DOMAIN recipe /\ at \in 1..Len(recipe) /\ Len(recipe) \in Nat
  BY <1>2
<1>4. Here \in [block : Blocks, branch : BranchOrNone, agent : BOOLEAN]
  <2> DEFINE R == [block : Blocks, branch : BranchOrNone, agent : BOOLEAN]
  <2>1. recipe \in Seq(R)
    BY <1>2
  <2> HIDE DEF R
  <2>2. recipe[at] \in R
    BY <1>3, <2>1, ElementOfSeq
  <2> QED BY <2>2 DEF R, Here
<1>5. Here.block \in {"newBranch", "merge", "switch", "delete"} => Here.branch \in Branches
  BY <1>1, <1>3 DEF IsRecipe, Here
<1>6. Here.block = "newBranch" => Here.branch \in Makes
  BY <1>3 DEF Here, Makes
<1>7. /\ Len(Commands(Here)) \in 0..2
      /\ \A k \in 1..Len(Commands(Here)) :
           Commands(Here)[k] \in {"newBranch", "merge", "switch", "delete"} =>
             Commands(Here)[k] = Here.block
  <2> DEFINE cs == Commands(Here)
  <2>1. \/ cs = <<"add", "commit">> \/ cs = <<"reset", "commit">> \/ cs = <<>>
        \/ cs = <<Here.block>>
    BY DEF Commands
  <2> HIDE DEF cs
  <2>2. Len(cs) \in 0..2
    BY <2>1
  <2>3. \A k \in 1..Len(cs) :
          cs[k] \in {"newBranch", "merge", "switch", "delete"} => cs[k] = Here.block
    BY <2>1
  <2> QED BY <2>2, <2>3 DEF cs
<1> QED BY <1>3, <1>4, <1>5, <1>6, <1>7

(* The commands of a recipe, the person and the answers change a repository *)
(* as its users do; an undo does so at its steps only.                     *)
Moves ==
  /\ Evolves(repo, repo')
  /\ undoing' \in {0, 1} \/ (undoing' = undoing /\ repo' = repo)

(* The repository is left alone.                                           *)
LEMMA StandsStill ==
  ASSUME TypeOK, repo' = repo
  PROVE  Evolves(repo, repo')
<1>1. repo.made \in Nat
  BY DEF TypeOK, Repos
<1> QED BY <1>1 DEF TypeOK, Evolves, StashStep

(* The run's thread, the answers and the person; then all of them.         *)
LEMMA ThreadMoves ==
  ASSUME Typed, Thread
  PROVE  Moves
<1> USE DEF Typed
<1>1. CASE TickEnds \/ Tick \/ StepEnds \/ CommandFails \/ NoMessage \/ Sleep \/ Woken
  <2>1. repo' = repo /\ undoing' = undoing
    BY <1>1 DEF TickEnds, Tick, StepEnds, CommandFails, NoMessage, Sleep, Woken, shell
  <2> QED BY <2>1, StandsStill DEF Moves
<1>2. CASE RunCommand
  <2>1. /\ repo \in Repos /\ HasBranch(repo, repo.on) /\ undoing = 0
        /\ recipe \in Recipes /\ at \in 1..(Len(recipe) + 1) /\ at <= Len(recipe)
        /\ cmd \in 1..3
    BY <1>2 DEF TypeOK, Placed, RunCommand, Stepping
  <2> DEFINE c == Commands(Here)[cmd]
  <2>2. /\ Works(c, Here.branch, repo) /\ repo' = After(c, Here.branch, repo)
        /\ undoing' = undoing /\ cmd <= Len(Commands(Here))
    BY <1>2 DEF RunCommand, shell
  <2>3. c \in {"newBranch", "merge", "switch", "delete"} => c = Here.block
    BY <2>1, <2>2, StepIs
  <2> HIDE DEF c
  <2>4. Evolves(repo, repo')
    BY <2>1, <2>2, <2>3, StepIs, AfterEvolves
  <2> QED BY <2>1, <2>2, <2>4 DEF Moves
<1>3. CASE CommandConflicts
  <2>1. /\ repo \in Repos /\ HasBranch(repo, repo.on) /\ undoing = 0
        /\ recipe \in Recipes /\ at \in 1..(Len(recipe) + 1) /\ at <= Len(recipe)
    BY <1>3 DEF TypeOK, Placed, CommandConflicts, Stepping
  <2>2. /\ Here.block \in {"merge", "pop"} /\ Works(Here.block, Here.branch, repo)
        /\ repo' = Conflicted(Here.block, Here.branch, repo) /\ undoing' = undoing
    BY <1>3 DEF CommandConflicts, shell
  <2>3. Evolves(repo, repo')
    BY <2>1, <2>2, StepIs, ConflictEvolves
  <2> QED BY <2>1, <2>2, <2>3 DEF Moves
<1> QED BY <1>1, <1>2, <1>3 DEF Thread

LEMMA AnswerMoves ==
  ASSUME Typed, Answer
  PROVE  Moves
<1> USE DEF Typed
<1>1. undoing = 0 /\ undoing' = undoing
  BY DEF Answer, Free, AnswerEnd, AnswerContinue, AnswerGoOn, AnswerSkip, AnswerOpenMerger,
         AnswerResolved, AnswerAbort, Chosen
<1>2. repo \in Repos /\ HasBranch(repo, repo.on)
  BY DEF TypeOK
<1>3. CASE repo' = repo
  BY <1>1, <1>3, StandsStill DEF Moves
<1>4. CASE repo' = MergeAborted(repo)
  BY <1>1, <1>2, <1>4, AbortEvolves DEF Moves
<1>5. CASE repo' = Concluded(repo)
  BY <1>1, <1>2, <1>5, ConcludedEvolves DEF Moves
<1> QED BY <1>3, <1>4, <1>5
        DEF Answer, AnswerEnd, AnswerContinue, AnswerGoOn, AnswerSkip, AnswerOpenMerger,
            AnswerResolved, AnswerAbort

LEMMA EditMoves ==
  ASSUME Typed, Edit
  PROVE  Moves
<1> USE DEF Typed
<1>0. /\ undoing = 0 /\ undoing' = undoing
      /\ repo \in Repos /\ HasBranch(repo, repo.on) /\ repo.on \in Branches
      /\ repo.tree \in Commits /\ repo.index \in Commits /\ repo.merging \in BranchOrNone
      /\ repo.conflict \in BOOLEAN /\ repo.tips[repo.on] \in Seq(Commits)
  BY DEF Edit, TypeOK, Repos, shell
<1>1. CASE Resolve
  <2>1. repo' = [repo EXCEPT !.index = repo.index, !.tree = repo.tree,
                             !.merging = repo.merging, !.conflict = FALSE]
    BY <1>0, <1>1 DEF Resolve, Repos
  <2>2. Evolves(repo, repo')
    BY <1>0, <2>1, ContentEvolves
  <2> QED BY <1>0, <2>2 DEF Moves
<1>2. CASE MergeInMerger
  <2>1. /\ Works("merge", stop.source, repo) /\ repo' = After("merge", stop.source, repo)
        /\ stop.source \in Branches
    BY <1>2 DEF MergeInMerger, Stopped
  <2>2. Evolves(repo, repo')
    BY <1>0, <2>1, AfterEvolves
  <2> QED BY <1>0, <2>2 DEF Moves
<1>3. CASE ChangeIt
  <2> DEFINE whole == repo.tree \cup {Theirs}
  <2>0. whole \in Commits
    BY <1>0, RecipeAssumption DEF Commits
  <2>1. CASE repo' = [repo EXCEPT !.tree = whole]
    <3>1. repo' = [repo EXCEPT !.index = repo.index, !.tree = whole,
                               !.merging = repo.merging, !.conflict = repo.conflict]
      BY <1>0, <2>1 DEF Repos
    <3> HIDE DEF whole
    <3>2. Evolves(repo, repo')
      BY <1>0, <2>0, <3>1, ContentEvolves
    <3> QED BY <1>0, <3>2 DEF Moves
  <2>2. CASE repo' = [repo EXCEPT !.tree = whole, !.index = whole,
                                  !.tips[repo.on] = Append(@, whole)]
    <3> DEFINE s == Append(repo.tips[repo.on], whole)
    <3>1. repo' = [repo EXCEPT !.tips = [repo.tips EXCEPT ![repo.on] = s], !.index = whole,
                               !.tree = whole, !.merging = repo.merging]
      BY <1>0, <2>2 DEF Repos
    <3> HIDE DEF whole
    <3>2. s \in Seq(Commits) /\ s # <<>>
      BY <1>0, <2>0, AppendProperties
    <3> HIDE DEF s
    <3>3. Evolves(repo, repo')
      BY <1>0, <2>0, <3>1, <3>2, TipEvolves
    <3> QED BY <1>0, <3>3 DEF Moves
  <2>3. CASE repo' = MergeAborted(repo)
    BY <1>0, <2>3, AbortEvolves DEF Moves
  <2> QED BY <1>3, <2>1, <2>2, <2>3 DEF ChangeIt
<1> QED BY <1>1, <1>2, <1>3 DEF Edit

LEMMA RepoMoves ==
  ASSUME Typed, [Next]_vars
  PROVE  UndoStep \/ Moves
<1> USE DEF Typed
<1>1. CASE Thread
  BY <1>1, ThreadMoves
<1>2. CASE Press
  <2>1. CASE PressStop \/ PressUndo
    <3>1. repo' = repo /\ (undoing' = undoing \/ undoing' = 1)
      BY <2>1 DEF PressStop, PressUndo
    <3> QED BY <3>1, StandsStill DEF Moves
  <2> QED BY <1>2, <2>1, AnswerMoves DEF Press
<1>3. CASE Edit
  BY <1>3, EditMoves
<1>4. CASE Send \/ UndoFails \/ UndoEnds \/ Crash \/ UNCHANGED vars
  <2>1. repo' = repo /\ (undoing' = undoing \/ undoing' = 0)
    BY <1>4 DEF Send, UndoFails, UndoEnds, Crash, vars, shell
  <2> QED BY <2>1, StandsStill DEF Moves
<1> QED BY <1>1, <1>2, <1>3, <1>4 DEF Next, Undo

(* The recipe and its level are those the run was begun with.              *)
LEMMA RecipeStays ==
  ASSUME [Next]_vars
  PROVE  recipe' = recipe /\ level' = level /\ Makes' = Makes
<1>1. recipe' = recipe /\ level' = level
  BY DEF Next, Thread, Press, Undo, Edit, TickEnds, Tick, StepEnds, RunCommand, CommandFails,
         CommandConflicts, NoMessage, Sleep, Woken, Answer, AnswerEnd, AnswerContinue, AnswerGoOn,
         AnswerSkip, AnswerOpenMerger, AnswerResolved, AnswerAbort, Chosen, PressStop, PressUndo,
         Send, UndoStep, UndoFails, UndoEnds, Crash, vars, run
<1> QED BY <1>1 DEF Makes

(* The repository stays one, and an undo goes on putting it back.          *)
LEMMA RepoTyped ==
  ASSUME Typed, [Next]_vars
  PROVE  RepoOK' /\ Restored'
<1>0. /\ repo \in Repos /\ HasBranch(repo, repo.on) /\ recipe \in Recipes
      /\ undoing \in 0..9 /\ Back(repo, undoing)
  BY StepNames DEF Typed, TypeOK, Restored
<1>2. recipe' = recipe /\ Makes' = Makes /\ TipsOf(Start)' = TipsOf(Start)
  BY RecipeStays DEF TipsOf, Named
<1>3. Restored' = Back(repo', undoing')
  BY <1>2, RecipeStays DEF Restored, Back, Added, Lacking, Point, HasBranch
<1>4. CASE UndoStep
  <2>1. /\ undoing \in 1..8 /\ repo' = PutBack(UndoSteps[undoing], repo)
        /\ undoing' = IF IsMore(UndoSteps[undoing], repo) THEN undoing ELSE undoing + 1
    BY <1>0, <1>4, StepNames DEF UndoStep
  <2>2. RepoOK' /\ Back(repo', undoing')
    BY <1>0, <2>1, UndoGoesOn DEF RepoOK
  <2> QED BY <1>3, <2>2
<1>5. CASE Moves
  <2>1. RepoOK'
    BY <1>5 DEF Moves, Evolves, RepoOK
  <2>2. Back(repo', undoing')
    BY <1>0, <1>5 DEF Moves, Back
  <2> QED BY <1>3, <2>1, <2>2
<1> QED BY <1>4, <1>5, RepoMoves

(* The rest of the type invariant, in two parts: the run, and what is       *)
(* around it.                                                              *)
RunOK ==
  /\ recipe \in Recipes /\ level \in RunLevels
  /\ steps \in [DOMAIN recipe -> StepStates]
  /\ at \in 1..(Len(recipe) + 1)
  /\ stop \in Stops
  /\ outcome \in {"none", "Done", "Ended", "Undone"}
  /\ approved \in BOOLEAN /\ resume \in 1..2

RestOK ==
  /\ cmd \in 1..3
  /\ pc \in {"tick", "run", "told", "asleep", "gone"} /\ wakes \in Nat /\ sending \in Nat
  /\ live \in BOOLEAN /\ stopping \in BOOLEAN /\ undoing \in 0..9
  /\ skips \subseteq DOMAIN recipe /\ begun \subseteq DOMAIN recipe /\ foreign \in BOOLEAN
  /\ unseen \subseteq {"asked", "running", "undone"}
  /\ answers \in Seq([step : 1..Len(recipe), kind : StopKinds, choice : ChoiceNames])
  /\ Len(answers) <= presses /\ presses \in Nat

StateOK == RunOK /\ RestOK /\ Placed /\ Stopped

(* The parts of the type invariant.                                        *)
LEMMA TypedIs ==
  /\ TypeOK <=> RepoOK /\ RunOK /\ RestOK
  /\ TypeOK' <=> RepoOK' /\ RunOK' /\ RestOK'
<1> QED BY StepNames DEF TypeOK, RepoOK, RunOK, RestOK

(* A stop of a kind that says nothing more, and no stop.                   *)
LEMMA PlainStop ==
  ASSUME NEW kind \in StopKinds
  PROVE  /\ StopOf(kind) \in Stops /\ StopOf(kind).kind = kind
         /\ StopOf(kind).merge = FALSE /\ StopOf(kind).inMerger = FALSE
         /\ NoStop \in Stops /\ NoStop.kind = "none" /\ NoStop.merge = FALSE
         /\ NoStop.inMerger = FALSE
         /\ kind # "none" => StopOf(kind) # NoStop
<1>1. NoStop \in Stops /\ NoStop.kind = "none" /\ NoStop.merge = FALSE /\ NoStop.inMerger = FALSE
  BY DEF NoStop, Stops, StopKinds, BranchOrNone
<1>2. StopOf(kind) \in Stops /\ StopOf(kind).kind = kind
  BY <1>1 DEF StopOf, Stops
<1>3. StopOf(kind).merge = FALSE /\ StopOf(kind).inMerger = FALSE
  BY <1>1 DEF StopOf, Stops
<1> QED BY <1>1, <1>2, <1>3

(* The run is over.                                                        *)
LEMMA Finished ==
  ASSUME StateOK, NEW o \in {"Done", "Ended", "Undone"}, FinishAs(o), recipe' = recipe,
         at' = at, pc' # "run", pc' = "gone" \/ pc' = pc,
         UNCHANGED <<level, approved, resume, live>>
  PROVE  RunOK' /\ Placed' /\ Stopped'
<1>1. steps' \in [DOMAIN recipe -> StepStates]
  BY DEF FinishAs, StateOK, RunOK, StepStates
<1>2. stop' = NoStop /\ outcome' = o /\ o # "none"
  BY DEF FinishAs
<1>3. stop' \in Stops /\ stop'.merge = FALSE /\ stop'.inMerger = FALSE
  BY <1>2, PlainStop DEF StopKinds
<1>4. RunOK'
  BY <1>1, <1>2, <1>3 DEF StateOK, RunOK
<1>5. Placed'
  BY <1>2 DEF StateOK, Placed, Waiting
<1>6. Stopped'
  BY <1>3 DEF Stopped
<1> QED BY <1>4, <1>5, <1>6

(* The run waits.                                                          *)
LEMMA Halted ==
  ASSUME StateOK, NEW s \in Stops, s.kind # "none", StopAt(s), at <= Len(recipe), ~IsOver,
         s.merge => s.kind = "Conflict" /\ s.source \in Branches,
         s.inMerger => s.merge,
         pc' # "run", pc' = "gone" \/ live', resume' \in 1..2,
         UNCHANGED <<recipe, level, at, outcome, approved>>
  PROVE  RunOK' /\ Placed' /\ Stopped'
<1>1. at \in 1..Len(recipe) /\ recipe \in Recipes
  BY DEF StateOK, RunOK
<1>2. DOMAIN recipe = 1..Len(recipe)
  BY RecipeAssumption, <1>1 DEF IsRecipe
<1>3. steps' \in [DOMAIN recipe -> StepStates] /\ stop' = s
  BY <1>1, <1>2 DEF StopAt, StateOK, RunOK, StepStates
<1>4. RunOK'
  BY <1>3 DEF StateOK, RunOK
<1>5. Placed'
  BY <1>3 DEF StateOK, Placed, IsOver
<1>6. Stopped'
  BY <1>3 DEF Stopped
<1> QED BY <1>4, <1>5, <1>6

(* The step is behind.                                                     *)
LEMMA Behind ==
  ASSUME StateOK, NEW s \in {"Done", "Skipped"}, DoneAs(s), at <= Len(recipe), pc' # "run",
         pc' = "gone" \/ live', UNCHANGED <<recipe, level, outcome>>
  PROVE  RunOK' /\ Placed' /\ Stopped'
<1>1. at \in 1..Len(recipe) /\ recipe \in Recipes /\ Len(recipe) \in Nat
  BY RecipeAssumption DEF StateOK, RunOK, IsRecipe
<1>2. DOMAIN recipe = 1..Len(recipe)
  BY RecipeAssumption, <1>1 DEF IsRecipe
<1>3. steps' \in [DOMAIN recipe -> StepStates] /\ at' \in 1..(Len(recipe) + 1)
  BY <1>1, <1>2 DEF DoneAs, StateOK, RunOK, StepStates
<1>4. stop' = NoStop /\ approved' = FALSE /\ resume' = 1
  BY DEF DoneAs
<1>5. stop' \in Stops /\ stop'.merge = FALSE /\ stop'.inMerger = FALSE
  BY <1>4, PlainStop DEF StopKinds
<1>6. RunOK'
  <2>1. /\ recipe' \in Recipes /\ level' \in RunLevels
        /\ outcome' \in {"none", "Done", "Ended", "Undone"}
    BY DEF StateOK, RunOK
  <2>2. resume' \in 1..2 /\ recipe' = recipe
    BY <1>4
  <2>3. approved' \in BOOLEAN
    BY <1>4, Zenon
  <2> QED BY <1>3, <1>5, <2>1, <2>2, <2>3 DEF RunOK
<1>7. Placed'
  BY <1>4 DEF StateOK, Placed, Waiting
<1>8. Stopped'
  BY <1>5 DEF Stopped
<1> QED BY <1>6, <1>7, <1>8

(* An answer, or a press of Stop where the run waits, is added.            *)
LEMMA OneAnswer ==
  ASSUME StateOK, NEW kind \in StopKinds, NEW choice \in ChoiceNames, at <= Len(recipe),
         presses' = presses + 1,
         answers' = Append(answers, [step |-> at, kind |-> kind, choice |-> choice])
  PROVE  /\ answers' \in Seq([step : 1..Len(recipe), kind : StopKinds, choice : ChoiceNames])
         /\ Len(answers') <= presses' /\ presses' \in Nat
<1> DEFINE R == [step : 1..Len(recipe), kind : StopKinds, choice : ChoiceNames]
           a == [step |-> at, kind |-> kind, choice |-> choice]
<1>1. a \in R
  BY DEF StateOK, RunOK
<1>2. answers \in Seq(R) /\ Len(answers) <= presses /\ presses \in Nat
  BY DEF StateOK, RestOK
<1>3. answers' = Append(answers, a)
  OBVIOUS
<1> HIDE DEF R, a
<1>4. answers' \in Seq(R) /\ Len(answers') = Len(answers) + 1
  BY <1>1, <1>2, <1>3, AppendProperties
<1>5. Len(answers') <= presses' /\ presses' \in Nat
  BY <1>2, <1>4
<1> QED BY <1>4, <1>5 DEF R

(* What is around the run, when the answers, the undo, what was left out    *)
(* and what began stay.                                                    *)
LEMMA RestStays ==
  ASSUME StateOK, recipe' = recipe, cmd' \in 1..3,
         pc' \in {"tick", "run", "told", "asleep", "gone"}, wakes' \in Nat, sending' \in Nat,
         unseen' \subseteq {"asked", "running", "undone"}, begun' \subseteq DOMAIN recipe,
         UNCHANGED <<live, stopping, undoing, skips, foreign, answers, presses>>
  PROVE  RestOK'
<1>1. /\ live' \in BOOLEAN /\ stopping' \in BOOLEAN /\ foreign' \in BOOLEAN
  BY Zenon DEF StateOK, RestOK
<1>2. /\ undoing' \in 0..9 /\ skips' \subseteq DOMAIN recipe' /\ begun' \subseteq DOMAIN recipe'
      /\ answers' \in Seq([step : 1..Len(recipe'), kind : StopKinds, choice : ChoiceNames])
      /\ Len(answers') <= presses' /\ presses' \in Nat
  BY DEF StateOK, RestOK
<1> QED BY <1>1, <1>2 DEF RestOK

(* One lemma for each action of the thread: the run stays one.             *)
LEMMA TickEndsTyped ==
  ASSUME StateOK, TickEnds
  PROVE  StateOK'
<1>1. /\ recipe' = recipe /\ pc' \in {"gone", "told"} /\ live' = live /\ pc = "tick" /\ undoing' = undoing
      /\ UNCHANGED <<cmd, wakes, sending, unseen, begun, stopping, skips, foreign, answers, presses>>
  BY DEF TickEnds, run, shell, past, told, bounds
<1>2. RestOK'
  <2>1. cmd' \in 1..3 /\ wakes' \in Nat /\ sending' \in Nat
        /\ unseen' \subseteq {"asked", "running", "undone"} /\ begun' \subseteq DOMAIN recipe
    BY <1>1 DEF StateOK, RestOK
  <2> QED BY <1>1, <2>1, RestStays
<1>3. live
  BY <1>1 DEF StateOK, Placed
<1>4. RunOK' /\ Placed' /\ Stopped'
  <2>1. CASE UNCHANGED run
    BY <1>1, <1>3, <2>1 DEF run, StateOK, RunOK, Placed, Stopped, Waiting, IsOver
  <2>2. CASE \E o \in {"Done", "Ended"} :
               FinishAs(o) /\ UNCHANGED <<recipe, level, at, approved, resume>> /\ pc' = "gone"
    BY <1>1, <2>2, Finished
  <2> QED BY <2>1, <2>2 DEF TickEnds
<1> QED BY <1>2, <1>4 DEF StateOK

LEMMA TickTyped ==
  ASSUME StateOK, Tick
  PROVE  StateOK'
<1>1. /\ recipe' = recipe /\ pc = "tick" /\ at <= Len(recipe) /\ ~IsOver /\ ~Waiting /\ undoing = 0
      /\ recipe \in Recipes /\ at \in 1..(Len(recipe) + 1)
      /\ UNCHANGED <<level, at, outcome, approved, resume, answers, wakes, live, stopping, sending,
                     undoing, skips, begun, foreign, presses>>
  BY DEF Tick, shell, told, bounds, StateOK, RunOK
<1>2. live /\ live'
  BY <1>1 DEF StateOK, Placed
<1>3. resume \in 1..2 /\ wakes' \in Nat /\ sending' \in Nat /\ begun' \subseteq DOMAIN recipe
  BY <1>1 DEF StateOK, RunOK, RestOK
<1>4. CASE \E kind \in {"Ask", "Approve"} : StopAt(StopOf(kind)) /\ pc' = "told" /\ UNCHANGED cmd
  <2>1. PICK kind \in {"Ask", "Approve"} : StopAt(StopOf(kind)) /\ pc' = "told" /\ cmd' = cmd
    BY <1>4
  <2>2. kind \in StopKinds /\ kind # "none"
    BY DEF StopKinds
  <2>3. RunOK' /\ Placed' /\ Stopped'
    BY <1>1, <1>2, <1>3, <2>1, <2>2, PlainStop, Halted
  <2>4. cmd' \in 1..3 /\ unseen' = {}
    BY <2>1 DEF StopAt, StateOK, RestOK
  <2>5. RestOK'
    BY <1>1, <1>3, <2>1, <2>4, RestStays
  <2> QED BY <2>3, <2>5 DEF StateOK
<1>5. CASE /\ steps' = [steps EXCEPT ![at] = "Running"] /\ pc' = "run" /\ cmd' = resume
           /\ UNCHANGED <<stop, mark, unseen>>
  <2>1. steps' \in [DOMAIN recipe -> StepStates]
    BY <1>1, <1>5, StepIs DEF StateOK, RunOK, StepStates
  <2>2. RunOK'
    BY <1>1, <1>5, <2>1 DEF StateOK, RunOK
  <2>3. cmd' \in 1..3 /\ unseen' \subseteq {"asked", "running", "undone"}
    BY <1>3, <1>5 DEF StateOK, RestOK
  <2>4. RestOK'
    BY <1>1, <1>3, <1>5, <2>3, RestStays
  <2>5. Placed' /\ Stopped'
    BY <1>1, <1>2, <1>5 DEF StateOK, Placed, Stopped, Waiting, IsOver
  <2> QED BY <2>2, <2>4, <2>5 DEF StateOK
<1> QED BY <1>4, <1>5 DEF Tick

(* A step stops without being over.                                        *)
LEMMA StopsTyped ==
  ASSUME StateOK, NEW kind \in StopKinds, kind # "none", StopsAs(kind), Stepping,
         resume' \in 1..2,
         UNCHANGED <<recipe, level, at, outcome, approved, cmd, wakes, sending, live, stopping,
                     undoing, skips, begun, foreign, answers, presses>>
  PROVE  StateOK'
<1>1. /\ pc = "run" /\ at <= Len(recipe) /\ ~IsOver /\ live'
      /\ cmd' \in 1..3 /\ wakes' \in Nat /\ sending' \in Nat /\ begun' \subseteq DOMAIN recipe
  BY DEF Stepping, StateOK, RestOK, Placed
<1>2. StopAt(StopOf(kind)) /\ pc' = "told"
  BY DEF StopsAs
<1>3. RunOK' /\ Placed' /\ Stopped'
  BY <1>1, <1>2, PlainStop, Halted
<1>4. RestOK'
  BY <1>1, <1>2, RestStays DEF StopAt
<1> QED BY <1>3, <1>4 DEF StateOK

LEMMA StepEndsTyped ==
  ASSUME StateOK, StepEnds
  PROVE  StateOK'
<1>1. /\ Stepping /\ pc = "run" /\ at <= Len(recipe) /\ ~IsOver /\ live' /\ resume \in 1..2
      /\ cmd' \in 1..3 /\ wakes' \in Nat /\ sending' \in Nat /\ begun' \subseteq DOMAIN recipe
      /\ unseen \subseteq {"asked", "running", "undone"}
      /\ UNCHANGED <<recipe, level, outcome, cmd, wakes, sending, live, stopping,
                     undoing, skips, begun, foreign, answers, presses>>
  BY DEF StepEnds, Stepping, StateOK, RunOK, RestOK, Placed, shell, told
<1>2. CASE DoneAs("Done") /\ pc' = "tick" /\ UNCHANGED <<troubles, unseen>>
  <2>1. RunOK' /\ Placed' /\ Stopped'
    BY <1>1, <1>2, Behind
  <2>2. RestOK'
    BY <1>1, <1>2, RestStays
  <2> QED BY <2>1, <2>2 DEF StateOK
<1>3. CASE StopsAs("NotClean") /\ UNCHANGED <<at, approved, resume>>
  BY <1>1, <1>3, StopsTyped DEF StopKinds
<1>4. CASE StopsAs("CheckFailed") /\ UNCHANGED <<at, approved, resume>>
  BY <1>1, <1>4, StopsTyped DEF StopKinds
<1> QED BY <1>2, <1>3, <1>4 DEF StepEnds

LEMMA RunCommandTyped ==
  ASSUME StateOK, RunCommand
  PROVE  StateOK'
<1>1. /\ at <= Len(recipe) /\ cmd <= Len(Commands(Here)) /\ cmd' = cmd + 1 /\ cmd \in 1..3
      /\ begun' = begun \cup {at} /\ recipe \in Recipes /\ at \in 1..(Len(recipe) + 1)
      /\ begun \subseteq DOMAIN recipe /\ wakes' \in Nat /\ sending' \in Nat
      /\ unseen' \subseteq {"asked", "running", "undone"}
      /\ UNCHANGED <<recipe, pc, wakes, sending, live, stopping, undoing, skips, foreign, answers,
                     presses, unseen>>
  BY DEF RunCommand, Stepping, StateOK, RunOK, RestOK, Placed, run, shell, bounds
<1>2. cmd' \in 1..3 /\ begun' \subseteq DOMAIN recipe
  BY <1>1, StepIs
<1>3. pc' \in {"tick", "run", "told", "asleep", "gone"}
  BY <1>1 DEF StateOK, RestOK
<1>4. RestOK'
  BY <1>1, <1>2, <1>3, RestStays
<1>5. RunOK' /\ Placed' /\ Stopped'
  BY DEF RunCommand, run, shell, StateOK, RunOK, Placed, Stopped, IsOver, Waiting
<1> QED BY <1>4, <1>5 DEF StateOK

LEMMA CommandFailsTyped ==
  ASSUME StateOK, CommandFails
  PROVE  StateOK'
<1>1. /\ Stepping /\ at <= Len(recipe) /\ cmd <= Len(Commands(Here)) /\ cmd \in 1..3
      /\ recipe \in Recipes /\ at \in 1..(Len(recipe) + 1) /\ resume' = StartAgain(cmd)
      /\ UNCHANGED <<recipe, level, at, outcome, approved, cmd, wakes, sending, live, stopping,
                     undoing, skips, begun, foreign, answers, presses>>
  BY DEF CommandFails, Stepping, StateOK, RunOK, RestOK, Placed, shell, told
<1>2. resume' \in 1..2
  BY <1>1, StepIs DEF StartAgain
<1>3. \E kind \in {"Failed", "PushRejected"} : StopsAs(kind)
  BY DEF CommandFails
<1> QED BY <1>1, <1>2, <1>3, StopsTyped DEF StopKinds

LEMMA CommandConflictsTyped ==
  ASSUME StateOK, RepoOK, CommandConflicts
  PROVE  StateOK'
<1> DEFINE s == [NoStop EXCEPT
                   !.kind = "Conflict", !.merge = (Here.block = "merge"),
                   !.source = IF Here.block = "merge" THEN Here.branch ELSE NoBranch,
                   !.stash = IF Here.block = "pop" THEN Head(repo.stash).id ELSE 0]
<1>1. /\ Stepping /\ pc = "run" /\ at <= Len(recipe) /\ cmd <= Len(Commands(Here)) /\ cmd \in 1..3
      /\ recipe \in Recipes /\ at \in 1..(Len(recipe) + 1) /\ resume' = StartAgain(cmd)
      /\ Here.block \in {"merge", "pop"} /\ Works(Here.block, Here.branch, repo)
      /\ StopAt(s) /\ pc' = "told" /\ ~IsOver /\ live'
      /\ UNCHANGED <<recipe, level, at, outcome, approved, cmd, wakes, sending, live, stopping,
                     undoing, skips, begun, foreign, answers, presses>>
  BY DEF CommandConflicts, Stepping, StateOK, RunOK, RestOK, Placed, shell, told
<1>2. resume' \in 1..2
  BY <1>1, StepIs DEF StartAgain
<1>3. Here.block = "merge" => Here.branch \in Branches
  BY <1>1, StepIs
<1>4. Here.block = "pop" => Head(repo.stash).id \in Nat
  BY <1>1, HeadOfStash DEF Works, RepoOK
<1>5. /\ s \in Stops /\ s.kind = "Conflict" /\ s.merge = (Here.block = "merge")
      /\ s.inMerger = FALSE /\ (s.merge => s.source \in Branches)
  <2> DEFINE from == IF Here.block = "merge" THEN Here.branch ELSE NoBranch
             at0  == IF Here.block = "pop" THEN Head(repo.stash).id ELSE 0
             is   == Here.block = "merge"
  <2>1. from \in BranchOrNone /\ at0 \in Nat /\ is \in BOOLEAN /\ (is => from \in Branches)
    BY <1>3, <1>4 DEF BranchOrNone
  <2>2. s = [NoStop EXCEPT !.kind = "Conflict", !.merge = is, !.source = from, !.stash = at0]
    OBVIOUS
  <2>3. "Conflict" \in StopKinds
    BY DEF StopKinds
  <2> HIDE DEF s, from, at0, is
  <2>4. s = [kind |-> "Conflict", merge |-> is, source |-> from, inMerger |-> FALSE, stash |-> at0]
    BY <2>2 DEF NoStop
  <2>5. s \in Stops /\ s.merge = is /\ s.kind = "Conflict" /\ s.inMerger = FALSE /\ s.source = from
    BY <2>1, <2>3, <2>4 DEF Stops
  <2> QED BY <2>1, <2>5 DEF is
<1> HIDE DEF s
<1>6. RunOK' /\ Placed' /\ Stopped'
  BY <1>1, <1>2, <1>5, Halted
<1>7. /\ cmd' \in 1..3 /\ wakes' \in Nat /\ sending' \in Nat /\ begun' \subseteq DOMAIN recipe
      /\ unseen' = {}
  BY <1>1 DEF StateOK, RestOK, StopAt
<1>8. RestOK'
  BY <1>1, <1>7, RestStays
<1> QED BY <1>6, <1>8 DEF StateOK

LEMMA NoMessageTyped ==
  ASSUME StateOK, NoMessage
  PROVE  StateOK'
<1>1. /\ Stepping /\ StopsAs("NoMessage") /\ resume \in 1..2
      /\ UNCHANGED <<recipe, level, at, outcome, approved, resume, cmd, wakes, sending, live,
                     stopping, undoing, skips, begun, foreign, answers, presses>>
  BY DEF NoMessage, StateOK, RunOK, shell, told
<1> QED BY <1>1, StopsTyped DEF StopKinds

LEMMA SleepTyped ==
  ASSUME StateOK, Sleep \/ Woken
  PROVE  StateOK'
<1>1. /\ recipe' = recipe /\ pc \in {"told", "asleep"} /\ pc' \in {"asleep", "tick"}
      /\ \/ wakes' = wakes
         \/ wakes > 0 /\ wakes' = wakes - 1
      /\ UNCHANGED <<live, stopping, undoing, skips, foreign, answers, presses, cmd, sending, unseen,
                     begun>>
  BY DEF Sleep, Woken, run, shell, past, told, bounds
<1>2. RestOK'
  <2>1. /\ cmd' \in 1..3 /\ wakes' \in Nat /\ sending' \in Nat
        /\ unseen' \subseteq {"asked", "running", "undone"} /\ begun' \subseteq DOMAIN recipe
    BY <1>1 DEF StateOK, RestOK
  <2> QED BY <1>1, <2>1, RestStays
<1>3. RunOK' /\ Placed' /\ Stopped'
  BY <1>1 DEF Sleep, Woken, run, shell, StateOK, RunOK, Placed, Stopped, IsOver, Waiting
<1> QED BY <1>2, <1>3 DEF StateOK

(* What is around the run, when the person has answered.                   *)
LEMMA RestAnswered ==
  ASSUME StateOK, NEW kind \in StopKinds, NEW choice \in ChoiceNames, at <= Len(recipe),
         recipe' = recipe, presses' = presses + 1,
         answers' = Append(answers, [step |-> at, kind |-> kind, choice |-> choice]),
         sending' = sending + 1, stopping' \in BOOLEAN, skips' \subseteq DOMAIN recipe,
         unseen' \subseteq {"asked", "running", "undone"},
         UNCHANGED <<thread, live, undoing, begun, foreign>>
  PROVE  RestOK'
<1>1. /\ answers' \in Seq([step : 1..Len(recipe'), kind : StopKinds, choice : ChoiceNames])
      /\ Len(answers') <= presses' /\ presses' \in Nat
  BY OneAnswer
<1>2. live' \in BOOLEAN /\ foreign' \in BOOLEAN
  BY Zenon DEF StateOK, RestOK
<1>3. /\ cmd' \in 1..3 /\ pc' \in {"tick", "run", "told", "asleep", "gone"} /\ wakes' \in Nat
      /\ sending' \in Nat /\ undoing' \in 0..9
      /\ skips' \subseteq DOMAIN recipe' /\ begun' \subseteq DOMAIN recipe'
  BY DEF StateOK, RestOK, thread
<1> QED BY <1>1, <1>2, <1>3 DEF RestOK

(* A choice is one of a stop the run waits at.                             *)
LEMMA ChoiceTyped ==
  ASSUME StateOK, Free, Waiting, presses' = presses + 1, NEW choice \in ChoiceNames,
         Chosen(choice), skips' \subseteq DOMAIN recipe,
         unseen' \subseteq {"asked", "running", "undone"}, begun' = begun, foreign' = foreign
  PROVE  RestOK'
<1>1. at <= Len(recipe) /\ stop.kind \in StopKinds
  BY DEF StateOK, RunOK, Placed, Stops
<1>2. stopping' \in BOOLEAN
  BY Zenon DEF Chosen, StateOK, RestOK
<1>3. /\ recipe' = recipe /\ UNCHANGED <<thread, live, undoing>> /\ sending' = sending + 1
      /\ answers' = Append(answers, [step |-> at, kind |-> stop.kind, choice |-> choice])
  BY DEF Chosen
<1> QED BY <1>1, <1>2, <1>3, RestAnswered

(* The run goes on where it waited, or waits for something else.           *)
LEMMA GoneOn ==
  ASSUME StateOK, Waiting, Free, GoOnHere, UNCHANGED <<recipe, level, outcome, pc, live>>
  PROVE  RunOK' /\ Placed' /\ Stopped'
<1>1. stop' = NoStop /\ approved' = TRUE /\ pc # "run"
  BY DEF GoOnHere, Free, Stepping
<1>2. stop' \in Stops /\ stop'.merge = FALSE /\ stop'.inMerger = FALSE
  BY <1>1, PlainStop DEF StopKinds
<1>3. RunOK'
  <2>1. approved' \in BOOLEAN
    BY <1>1, Zenon
  <2> QED BY <1>2, <2>1 DEF GoOnHere, StateOK, RunOK
<1>4. Placed'
  BY <1>1 DEF StateOK, Placed, Waiting
<1>5. Stopped'
  BY <1>2 DEF Stopped
<1> QED BY <1>3, <1>4, <1>5

(* The answers, and the other actions.                                     *)
LEMMA AnswerTyped ==
  ASSUME StateOK, Answer, presses' = presses + 1
  PROVE  StateOK'
<1>0. /\ Free /\ Waiting /\ at <= Len(recipe) /\ ~IsOver /\ live /\ pc # "run" /\ undoing = 0
      /\ recipe \in Recipes /\ at \in 1..(Len(recipe) + 1) /\ stop \in Stops /\ resume \in 1..2
      /\ skips \subseteq DOMAIN recipe /\ unseen \subseteq {"asked", "running", "undone"}
      /\ at \in DOMAIN recipe
  <2>1. /\ Free /\ Waiting /\ at <= Len(recipe) /\ ~IsOver /\ live /\ pc # "run" /\ undoing = 0
        /\ recipe \in Recipes /\ at \in 1..(Len(recipe) + 1) /\ stop \in Stops /\ resume \in 1..2
        /\ skips \subseteq DOMAIN recipe /\ unseen \subseteq {"asked", "running", "undone"}
    BY DEF Answer, Free, Stepping, StateOK, RunOK, RestOK, Placed
  <2> QED BY <2>1, StepIs
<1> DEFINE Same == recipe' = recipe /\ level' = level /\ pc' = pc /\ live' = live /\ undoing' = undoing
<1>1. ASSUME NEW choice, Chosen(choice) PROVE Same
  BY <1>1 DEF Chosen, thread
<1>2. /\ "End" \in ChoiceNames /\ "Continue" \in ChoiceNames /\ "Retry" \in ChoiceNames
      /\ "Skip" \in ChoiceNames /\ "OpenMerger" \in ChoiceNames /\ "Abort" \in ChoiceNames
      /\ "Changed" \in StopKinds
  BY DEF ChoiceNames, StopKinds
<1>3. CASE AnswerEnd
  <2>1. /\ Chosen("End") /\ FinishAs("Ended") /\ UNCHANGED <<at, approved, resume>>
        /\ UNCHANGED <<skips, begun, foreign, unseen>>
    BY <1>3 DEF AnswerEnd, past, told
  <2>2. RestOK'
    BY <1>0, <1>2, <2>1, ChoiceTyped
  <2>3. RunOK' /\ Placed' /\ Stopped'
    BY <1>0, <1>1, <2>1, Finished
  <2> QED BY <2>2, <2>3 DEF StateOK
<1>4. CASE AnswerContinue
  <2>1. /\ Chosen("Continue") /\ outcome' = outcome /\ UNCHANGED <<skips, begun, foreign>>
        /\ \/ StopAt(StopOf("Changed")) /\ UNCHANGED <<at, approved, resume>>
           \/ GoOnHere /\ UNCHANGED unseen
    BY <1>4 DEF AnswerContinue, told
  <2>2. unseen' \subseteq {"asked", "running", "undone"}
    BY <1>0, <2>1 DEF StopAt
  <2>3. RestOK'
    BY <1>0, <1>2, <2>1, <2>2, ChoiceTyped
  <2>4. Same
    BY <1>1, <2>1
  <2>5. CASE StopAt(StopOf("Changed")) /\ UNCHANGED <<at, approved, resume>>
    <3>1. RunOK' /\ Placed' /\ Stopped'
      BY <1>0, <1>2, <2>1, <2>4, <2>5, PlainStop, Halted
    <3> QED BY <2>3, <3>1 DEF StateOK
  <2>6. CASE GoOnHere
    <3>1. RunOK' /\ Placed' /\ Stopped'
      BY <1>0, <2>1, <2>4, <2>6, GoneOn
    <3> QED BY <2>3, <3>1 DEF StateOK
  <2> QED BY <2>1, <2>5, <2>6
<1>5. CASE AnswerGoOn
  <2>1. /\ Chosen("Continue") \/ Chosen("Retry")
        /\ GoOnHere /\ outcome' = outcome /\ UNCHANGED <<skips, begun, foreign, unseen>>
    BY <1>5 DEF AnswerGoOn, past, told
  <2>2. RestOK'
    BY <1>0, <1>2, <2>1, ChoiceTyped
  <2>3. Same
    BY <1>1, <2>1
  <2>4. RunOK' /\ Placed' /\ Stopped'
    BY <1>0, <2>1, <2>3, GoneOn
  <2> QED BY <2>2, <2>4 DEF StateOK
<1>6. CASE AnswerSkip
  <2>1. /\ Chosen("Skip") /\ DoneAs("Skipped") /\ skips' = skips \cup {at}
        /\ UNCHANGED <<outcome, begun, foreign, unseen>>
    BY <1>6 DEF AnswerSkip
  <2>2. skips' \subseteq DOMAIN recipe
    BY <1>0, <2>1
  <2>3. RestOK'
    BY <1>0, <1>2, <2>1, <2>2, ChoiceTyped
  <2>4. Same
    BY <1>1, <2>1
  <2>5. RunOK' /\ Placed' /\ Stopped'
    BY <1>0, <2>1, <2>4, Behind
  <2> QED BY <2>3, <2>5 DEF StateOK
<1>7. CASE AnswerOpenMerger
  <2>1. /\ Chosen("OpenMerger") /\ "OpenMerger" \in Offers
        /\ stop' = [stop EXCEPT !.inMerger = TRUE]
        /\ UNCHANGED <<steps, at, outcome, approved, resume, skips, begun, foreign, unseen>>
    BY <1>7 DEF AnswerOpenMerger, past, told
  <2>2. RestOK'
    BY <1>0, <1>2, <2>1, ChoiceTyped
  <2>3. Same
    BY <1>1, <2>1
  <2>4. stop.kind = "Conflict" /\ stop.merge /\ stop.source \in Branches
    BY <2>1 DEF Offers, StateOK, Stopped
  <2>5. /\ stop' \in Stops /\ stop'.kind = "Conflict" /\ stop'.source = stop.source
        /\ stop'.merge = stop.merge
    BY <1>0, <2>1, <2>4 DEF Stops
  <2>6. Stopped'
    BY <2>4, <2>5 DEF Stopped
  <2>7. RunOK'
    BY <2>1, <2>3, <2>5 DEF StateOK, RunOK
  <2>8. Placed'
    BY <1>0, <2>1, <2>3, <2>5 DEF StateOK, Placed, IsOver, Waiting
  <2> QED BY <2>2, <2>6, <2>7, <2>8 DEF StateOK
<1>8. CASE AnswerResolved
  <2>1. /\ Chosen("Continue") /\ DoneAs("Done")
        /\ UNCHANGED <<outcome, skips, begun, foreign, unseen>>
    BY <1>8 DEF AnswerResolved, past, told
  <2>2. RestOK'
    BY <1>0, <1>2, <2>1, ChoiceTyped
  <2>3. Same
    BY <1>1, <2>1
  <2>4. RunOK' /\ Placed' /\ Stopped'
    BY <1>0, <2>1, <2>3, Behind
  <2> QED BY <2>2, <2>4 DEF StateOK
<1>9. CASE AnswerAbort
  <2>1. /\ Chosen("Abort") /\ FinishAs("Ended") /\ UNCHANGED <<at, approved, resume>>
        /\ UNCHANGED <<skips, begun, foreign, unseen>>
    BY <1>9 DEF AnswerAbort, past, told
  <2>2. RestOK'
    BY <1>0, <1>2, <2>1, ChoiceTyped
  <2>3. RunOK' /\ Placed' /\ Stopped'
    BY <1>0, <1>1, <2>1, Finished
  <2> QED BY <2>2, <2>3 DEF StateOK
<1> QED BY <1>3, <1>4, <1>5, <1>6, <1>7, <1>8, <1>9 DEF Answer

LEMMA PressTyped ==
  ASSUME StateOK, Press
  PROVE  StateOK'
<1>0. /\ presses' = presses + 1 /\ presses \in Nat /\ Len(answers) \in Nat /\ Len(answers) <= presses
      /\ answers \in Seq([step : 1..Len(recipe), kind : StopKinds, choice : ChoiceNames])
  BY DEF Press, StateOK, RestOK
<1>1. CASE Answer
  BY <1>0, <1>1, AnswerTyped
<1>2. CASE PressStop
  <2>1. /\ live /\ stopping' = TRUE /\ sending' = sending + 1 /\ sending \in Nat
        /\ skips \subseteq DOMAIN recipe /\ unseen \subseteq {"asked", "running", "undone"}
        /\ UNCHANGED <<thread, pc, live, undoing, skips, begun, foreign, unseen>>
    BY <1>2 DEF PressStop, past, told, thread, StateOK, RestOK
  <2>2. stopping' \in BOOLEAN
    BY <2>1, Zenon
  <2>3. CASE Free /\ Waiting
    <3>1. /\ answers' = Append(answers, [step |-> at, kind |-> stop.kind, choice |-> "End"])
          /\ FinishAs("Ended") /\ UNCHANGED <<recipe, level, at, approved, resume>>
      BY <1>2, <2>3 DEF PressStop
    <3>2. at <= Len(recipe) /\ stop.kind \in StopKinds /\ "End" \in ChoiceNames /\ pc # "run"
      BY <2>3 DEF StateOK, RunOK, Placed, Stops, ChoiceNames, Free, Stepping
    <3>3. RestOK'
      BY <1>0, <2>1, <2>2, <3>1, <3>2, RestAnswered
    <3>4. RunOK' /\ Placed' /\ Stopped'
      BY <2>1, <3>1, <3>2, Finished
    <3> QED BY <3>3, <3>4 DEF StateOK
  <2>4. CASE UNCHANGED run
    <3>1. RunOK' /\ Placed' /\ Stopped' /\ recipe' = recipe /\ answers' = answers
      BY <2>1, <2>4 DEF run, StateOK, RunOK, Placed, Stopped, IsOver, Waiting
    <3>2. live' \in BOOLEAN /\ foreign' \in BOOLEAN
      BY <2>1, Zenon DEF StateOK, RestOK
    <3>3. Len(answers') <= presses' /\ presses' \in Nat
      BY <1>0, <3>1
    <3>4. RestOK'
      BY <1>0, <2>1, <2>2, <3>1, <3>2, <3>3 DEF StateOK, RestOK, thread
    <3> QED BY <3>1, <3>4 DEF StateOK
  <2> QED BY <1>2, <2>3, <2>4 DEF PressStop
<1>3. CASE PressUndo
  <2>1. /\ UNCHANGED <<run, thread, live, stopping, sending, skips, begun, foreign, unseen>>
        /\ undoing' = 1 /\ pc # "run" /\ recipe' = recipe /\ answers' = answers
    BY <1>3 DEF PressUndo, Stepping, past, told, run
  <2>2. RunOK' /\ Placed' /\ Stopped'
    BY <2>1 DEF run, thread, StateOK, RunOK, Placed, Stopped, IsOver, Waiting
  <2>3. live' \in BOOLEAN /\ stopping' \in BOOLEAN /\ foreign' \in BOOLEAN
    BY <2>1, Zenon DEF StateOK, RestOK
  <2>4. Len(answers') <= presses' /\ presses' \in Nat /\ undoing' \in 0..9
    BY <1>0, <2>1
  <2>5. RestOK'
    BY <1>0, <2>1, <2>3, <2>4 DEF StateOK, RestOK, thread
  <2> QED BY <2>2, <2>5 DEF StateOK
<1> QED BY <1>1, <1>2, <1>3 DEF Press

(* The run and its place stay when nothing of the run, and no thread, moves. *)
LEMMA RunStays ==
  ASSUME StateOK, UNCHANGED run, UNCHANGED <<pc, live>>, pc = "run" => undoing' = 0
  PROVE  RunOK' /\ Placed' /\ Stopped'
<1> QED BY DEF run, StateOK, RunOK, Placed, Stopped, IsOver, Waiting

LEMMA SendTyped ==
  ASSUME StateOK, Send
  PROVE  StateOK'
<1>1. /\ sending' = sending - 1 /\ wakes' = wakes + 1 /\ sending > 0
      /\ UNCHANGED <<run, pc, cmd, live, stopping, undoing, skips, foreign, answers, presses, begun,
                     unseen, recipe>>
  BY DEF Send, run, past, told, bounds
<1>2. /\ cmd' \in 1..3 /\ pc' \in {"tick", "run", "told", "asleep", "gone"} /\ wakes' \in Nat
      /\ sending' \in Nat /\ unseen' \subseteq {"asked", "running", "undone"}
      /\ begun' \subseteq DOMAIN recipe
  BY <1>1 DEF StateOK, RestOK
<1>3. RestOK'
  BY <1>1, <1>2, RestStays
<1>4. pc = "run" => undoing' = 0
  BY <1>1 DEF StateOK, Placed
<1> QED BY <1>1, <1>3, <1>4, RunStays DEF StateOK

LEMMA UndoTyped ==
  ASSUME StateOK, Undo
  PROVE  StateOK'
<1>0. /\ undoing > 0 /\ undoing \in 0..9 /\ pc # "run"
      /\ answers \in Seq([step : 1..Len(recipe), kind : StopKinds, choice : ChoiceNames])
      /\ Len(answers) <= presses /\ presses \in Nat
      /\ wakes \in Nat /\ sending \in Nat /\ cmd \in 1..3
      /\ pc \in {"tick", "run", "told", "asleep", "gone"}
      /\ skips \subseteq DOMAIN recipe /\ begun \subseteq DOMAIN recipe
      /\ unseen \subseteq {"asked", "running", "undone"}
  BY StepNames DEF Undo, UndoStep, UndoFails, UndoEnds, StateOK, RestOK, Placed
<1> DEFINE Rest ==
      /\ undoing' \in 0..9 /\ sending' \in Nat /\ unseen' \subseteq {"asked", "running", "undone"}
      /\ foreign' \in BOOLEAN
      /\ UNCHANGED <<recipe, answers, thread, live, stopping, skips, begun, presses>>
<1>1. ASSUME Rest PROVE RestOK'
  <2>1. live' \in BOOLEAN /\ stopping' \in BOOLEAN /\ foreign' \in BOOLEAN
    BY <1>1, Zenon DEF StateOK, RestOK
  <2> QED BY <1>0, <1>1, <2>1 DEF RestOK, thread
<1>2. CASE UndoStep
  <2>1. /\ undoing <= 8 /\ undoing' \in {undoing, undoing + 1} /\ unseen' = {"undone"}
        /\ UNCHANGED <<run, recipe, answers, thread, pc, live, stopping, sending, skips, begun,
                       foreign, presses>>
    BY <1>2, StepNames DEF UndoStep, run, thread, told, bounds
  <2>2. foreign' \in BOOLEAN
    BY <2>1, Zenon DEF StateOK, RestOK
  <2>3. Rest
    BY <1>0, <2>1, <2>2
  <2>4. RunOK' /\ Placed' /\ Stopped'
    BY <1>0, <2>1, RunStays
  <2> QED BY <1>1, <2>3, <2>4 DEF StateOK
<1>3. CASE UndoFails
  <2>1. /\ undoing' = 0 /\ foreign' = TRUE
        /\ UNCHANGED <<run, recipe, answers, thread, pc, live, stopping, sending, skips, begun,
                       unseen, presses>>
    BY <1>3 DEF UndoFails, run, thread
  <2>2. foreign' \in BOOLEAN
    BY <2>1, Zenon
  <2>3. Rest
    BY <1>0, <2>1, <2>2
  <2>4. RunOK' /\ Placed' /\ Stopped'
    BY <1>0, <2>1, RunStays
  <2> QED BY <1>1, <2>3, <2>4 DEF StateOK
<1>4. CASE UndoEnds
  <2>1. /\ undoing' = 0 /\ sending' \in {sending, sending + 1}
        /\ UNCHANGED <<recipe, level, at, approved, resume, answers, thread, pc, live, stopping,
                       skips, begun, foreign, unseen, presses>>
    BY <1>4 DEF UndoEnds, past, told, bounds, thread
  <2>2. foreign' \in BOOLEAN
    BY <2>1, Zenon DEF StateOK, RestOK
  <2>3. Rest
    BY <1>0, <2>1, <2>2
  <2>4. CASE FinishAs("Undone")
    <3>1. RunOK' /\ Placed' /\ Stopped'
      BY <1>0, <2>1, <2>4, Finished
    <3> QED BY <1>1, <2>3, <3>1 DEF StateOK
  <2>5. CASE outcome' = "Undone" /\ stop' = NoStop /\ UNCHANGED steps
    <3>1. stop' \in Stops /\ stop'.merge = FALSE /\ stop'.inMerger = FALSE
      BY <2>5, PlainStop DEF StopKinds
    <3>2. RunOK'
      BY <2>1, <2>5, <3>1 DEF StateOK, RunOK
    <3>3. Placed' /\ Stopped'
      BY <1>0, <2>1, <2>5, <3>1 DEF StateOK, Placed, Stopped, Waiting
    <3> QED BY <1>1, <2>3, <3>2, <3>3 DEF StateOK
  <2> QED BY <1>4, <2>4, <2>5 DEF UndoEnds
<1> QED BY <1>2, <1>3, <1>4 DEF Undo

LEMMA EditTyped ==
  ASSUME StateOK, Edit
  PROVE  StateOK'
<1>1. /\ UNCHANGED <<run, pc, cmd, wakes, live, stopping, sending, undoing, skips, answers, presses,
                     begun, recipe>>
      /\ undoing = 0
  BY DEF Edit, run, thread, shell
<1>2. foreign' \in BOOLEAN
  <2>1. foreign \in BOOLEAN
    BY DEF StateOK, RestOK
  <2> QED BY <2>1, Zenon DEF Edit, Resolve, MergeInMerger, ChangeIt
<1>3. unseen' \subseteq {"asked", "running", "undone"}
  BY DEF Edit, Resolve, MergeInMerger, ChangeIt, Place, StateOK, RestOK
<1>4. live' \in BOOLEAN /\ stopping' \in BOOLEAN
  BY <1>1, Zenon DEF StateOK, RestOK
<1>5. RestOK'
  BY <1>1, <1>2, <1>3, <1>4 DEF StateOK, RestOK
<1> QED BY <1>1, <1>5, RunStays DEF StateOK

LEMMA CrashTyped ==
  ASSUME StateOK, Crash
  PROVE  StateOK'
<1>1. /\ live' = FALSE /\ pc' = "gone" /\ wakes' = 0 /\ sending' = 0 /\ undoing' = 0
      /\ foreign' = (foreign \/ undoing > 0)
      /\ UNCHANGED <<recipe, level, steps, at, stop, outcome, approved, resume, answers, cmd,
                     stopping, skips, begun, unseen, presses>>
  BY DEF Crash
<1>2. live' \in BOOLEAN /\ stopping' \in BOOLEAN
  BY <1>1, Zenon DEF StateOK, RestOK
<1>3. foreign' \in BOOLEAN
  BY <1>1
<1>4. RestOK'
  BY <1>1, <1>2, <1>3 DEF StateOK, RestOK
<1>5. RunOK' /\ Placed' /\ Stopped'
  BY <1>1 DEF StateOK, RunOK, Placed, Stopped, IsOver, Waiting
<1> QED BY <1>4, <1>5 DEF StateOK

(* All of them together.                                                   *)
LEMMA StateTyped ==
  ASSUME StateOK, RepoOK, [Next]_vars
  PROVE  StateOK'
<1>1. CASE Thread
  BY <1>1, TickEndsTyped, TickTyped, StepEndsTyped, RunCommandTyped, CommandFailsTyped,
     CommandConflictsTyped, NoMessageTyped, SleepTyped DEF Thread
<1>2. CASE UNCHANGED vars
  BY <1>2 DEF vars, run, thread, shell, past, told, bounds, StateOK, RunOK, RestOK, Placed,
              Stopped, IsOver, Waiting
<1> QED BY <1>1, <1>2, PressTyped, SendTyped, UndoTyped, EditTyped, CrashTyped DEF Next

(* What a run begins as.                                                   *)
LEMMA InitTyped ==
  ASSUME Init
  PROVE  Typed
<1>1. recipe \in Recipes /\ level \in RunLevels /\ Len(recipe) \in Nat
  BY RecipeAssumption DEF Init, IsRecipe
<1>2. NoStop \in Stops /\ NoStop.merge = FALSE /\ NoStop.inMerger = FALSE
  BY PlainStop DEF StopKinds
<1>3. RepoOK
  BY StartIs DEF Init, RepoOK
<1>4. steps \in [DOMAIN recipe -> StepStates]
  BY DEF Init, StepStates
<1>5. RunOK
  <2>1. approved \in BOOLEAN
    BY Zenon DEF Init
  <2>2. /\ at \in 1..(Len(recipe) + 1) /\ stop \in Stops /\ resume \in 1..2
        /\ outcome \in {"none", "Done", "Ended", "Undone"}
    BY <1>1, <1>2 DEF Init
  <2> QED BY <1>1, <1>4, <2>1, <2>2 DEF RunOK
<1>6. RestOK
  <2>1. live \in BOOLEAN /\ stopping \in BOOLEAN /\ foreign \in BOOLEAN
    BY Zenon DEF Init
  <2>2. /\ cmd \in 1..3 /\ pc \in {"tick", "run", "told", "asleep", "gone"} /\ wakes \in Nat
        /\ sending \in Nat /\ undoing \in 0..9 /\ skips = {} /\ begun = {} /\ unseen = {}
        /\ answers = <<>> /\ presses = 0
    BY DEF Init
  <2>3. /\ answers \in Seq([step : 1..Len(recipe), kind : StopKinds, choice : ChoiceNames])
        /\ Len(answers) <= presses /\ presses \in Nat
    BY <2>2
  <2> QED BY <2>1, <2>2, <2>3 DEF RestOK
<1>7. Placed /\ Stopped
  BY <1>2 DEF Init, Placed, Stopped, Waiting
<1>8. Restored
  BY DEF Init, Restored, Back
<1> QED BY <1>3, <1>5, <1>6, <1>7, <1>8, TypedIs DEF Typed

(* With the repository, the type invariant is inductive.                   *)
LEMMA TypedStays ==
  ASSUME Typed, [Next]_vars
  PROVE  Typed'
<1>1. StateOK /\ RepoOK
  BY TypedIs DEF Typed, StateOK
<1>2. StateOK'
  BY <1>1, StateTyped
<1>3. RepoOK' /\ Restored'
  BY RepoTyped
<1> QED BY <1>2, <1>3, TypedIs DEF Typed, StateOK

LEMMA SpecTyped == Spec => []Typed
<1> QED BY InitTyped, TypedStays, PTL DEF Spec

(* Every variable holds what it is for: the repository stays one, with the  *)
(* branch checked out there, whatever is run, answered, undone or edited.  *)
THEOREM RecipeTyped == Spec => []TypeOK
<1> QED BY SpecTyped, PTL DEF Typed

-----------------------------------------------------------------------------
(* A step is asked about.                                                  *)

(* A step begins when it is its turn, and was answered if it is asked about. *)
LEMMA BeginsIs ==
  ASSUME [Next]_vars, Begins
  PROVE  /\ pc = "tick" /\ undoing = 0 /\ ~IsOver /\ ~Waiting /\ unseen' = unseen
         /\ (Here.block = "ask" \/ AsksBefore(Here)) => approved
<1>1. CASE Tick
  BY <1>1 DEF Tick, Begins
<1>2. CASE TickEnds \/ Sleep \/ Woken
  BY <1>2 DEF TickEnds, Sleep, Woken, Begins
<1>3. CASE StepEnds \/ RunCommand \/ CommandFails \/ CommandConflicts \/ NoMessage
  BY <1>3 DEF StepEnds, RunCommand, CommandFails, CommandConflicts, NoMessage, Stepping, Begins
<1>4. CASE Press \/ Send \/ Undo \/ Edit \/ UNCHANGED vars
  <2>1. pc' = pc
    BY <1>4 DEF Press, Answer, AnswerEnd, AnswerContinue, AnswerGoOn, AnswerSkip, AnswerOpenMerger,
                AnswerResolved, AnswerAbort, Chosen, PressStop, PressUndo, Send, Undo, UndoStep,
                UndoFails, UndoEnds, Edit, vars, thread
  <2> QED BY <2>1 DEF Begins
<1>5. CASE Crash
  BY <1>5 DEF Crash, Begins
<1> QED BY <1>1, <1>2, <1>3, <1>4, <1>5 DEF Next, Thread

(* What was answered stays.                                                *)
LEMMA AnswersGrow ==
  ASSUME Typed, NEW a, answers' = Append(answers, a)
  PROVE  /\ \A k \in DOMAIN answers : k \in DOMAIN answers' /\ answers'[k] = answers[k]
         /\ \E k \in DOMAIN answers' : answers'[k] = a
<1>1. PICK R : answers \in Seq(R)
  BY DEF Typed, TypeOK
<1>2. /\ Len(answers) \in Nat /\ DOMAIN answers = 1..Len(answers)
      /\ DOMAIN answers' = 1..(Len(answers) + 1)
      /\ answers'[Len(answers) + 1] = a
      /\ \A k \in 1..Len(answers) : answers'[k] = answers[k]
  BY <1>1, AppendProperties
<1> QED BY <1>2

(* The run may go on at a step only because the person says so there.      *)
LEMMA ApprovedBy ==
  ASSUME [Next]_vars
  PROVE  \/ approved' = FALSE
         \/ /\ approved' = approved /\ at' = at
            /\ answers' = answers \/ \E a : answers' = Append(answers, a)
         \/ /\ at' = at
            /\ \E a : /\ a.step = at /\ a.choice \in {"Continue", "Retry"}
                      /\ answers' = Append(answers, a)
<1> DEFINE Kept ==
      /\ approved' = approved /\ at' = at
      /\ answers' = answers \/ \E a : answers' = Append(answers, a)
<1>1. CASE Thread
  BY <1>1 DEF Thread, TickEnds, Tick, StepEnds, RunCommand, CommandFails, CommandConflicts,
              NoMessage, Sleep, Woken, DoneAs, run
<1>2. CASE Answer
  <2>1. CASE AnswerGoOn \/ (AnswerContinue /\ GoOnHere)
    <3>1. PICK c \in {"Continue", "Retry"} : Chosen(c) /\ GoOnHere
      BY <2>1 DEF AnswerGoOn, AnswerContinue
    <3> DEFINE a == [step |-> at, kind |-> stop.kind, choice |-> c]
    <3>2. at' = at /\ answers' = Append(answers, a) /\ a.step = at /\ a.choice = c
      BY <3>1 DEF Chosen, GoOnHere
    <3> QED BY <3>2
  <2>2. CASE AnswerEnd \/ AnswerOpenMerger \/ AnswerAbort \/ (AnswerContinue /\ ~GoOnHere)
    <3>1. PICK c : Chosen(c)
      BY <2>2 DEF AnswerEnd, AnswerOpenMerger, AnswerAbort, AnswerContinue
    <3>2. \E a : answers' = Append(answers, a)
      BY <3>1 DEF Chosen
    <3>3. approved' = approved /\ at' = at
      BY <2>2 DEF AnswerEnd, AnswerOpenMerger, AnswerAbort, AnswerContinue
    <3> QED BY <3>2, <3>3
  <2>3. CASE AnswerSkip \/ AnswerResolved
    BY <2>3 DEF AnswerSkip, AnswerResolved, DoneAs
  <2> QED BY <1>2, <2>1, <2>2, <2>3 DEF Answer
<1>3. CASE PressStop
  <2>1. Kept
    BY <1>3 DEF PressStop, run
  <2> QED BY <2>1
<1>4. CASE PressUndo \/ Send \/ Undo \/ Edit \/ Crash \/ UNCHANGED vars
  BY <1>4 DEF PressUndo, Send, Undo, UndoStep, UndoFails, UndoEnds, Edit, Crash, run, vars
<1> QED BY <1>1, <1>2, <1>3, <1>4 DEF Next, Press

(* So the invariant of the answers is kept.                                *)
LEMMA AnsweredStays ==
  ASSUME Typed, Answered, [Next]_vars
  PROVE  Answered'
<1>1. CASE approved' = FALSE
  BY <1>1 DEF Answered
<1>2. CASE /\ approved' = approved /\ at' = at
           /\ answers' = answers \/ \E a : answers' = Append(answers, a)
  BY <1>2, AnswersGrow DEF Answered
<1>3. CASE /\ at' = at
           /\ \E a : /\ a.step = at /\ a.choice \in {"Continue", "Retry"}
                     /\ answers' = Append(answers, a)
  BY <1>3, AnswersGrow DEF Answered
<1> QED BY <1>1, <1>2, <1>3, ApprovedBy

(* A step that is asked about, at this level or by the recipe itself,       *)
(* begins only on an answer given at that step, whatever failed, conflicted *)
(* or was undone on the way.                                               *)
THEOREM StepsAreAskedFirst == Spec => AskedFirst
<1>1. Init => Answered
  BY DEF Init, Answered
<1>2. Typed /\ Answered /\ [Next]_vars => Answered'
  BY AnsweredStays
<1>3. Typed /\ Answered /\ [Next]_vars =>
        [Begins /\ (Here.block = "ask" \/ AsksBefore(Here)) =>
           \E k \in DOMAIN answers :
             answers[k].step = at /\ answers[k].choice \in {"Continue", "Retry"}]_vars
  BY BeginsIs DEF Answered
<1> QED BY <1>1, <1>2, <1>3, SpecTyped, PTL DEF Spec, AskedFirst

-----------------------------------------------------------------------------
(* The person is told.                                                     *)

Quiet(r) == r.merging = NoMerge /\ ~r.conflict

(* A step brings no merge and no conflict.                                 *)
Calm(r, q) == q.merging \in {NoMerge, r.merging} /\ (q.conflict => r.conflict)

(* What a step does to a merge or a conflict that is in the repository: it  *)
(* ends the run, leaves none, brings none, or is the command that brings it. *)
LEMMA Calms ==
  ASSUME Typed, Conflicts, [Next]_vars
  PROVE  \/ IsOver' /\ ~stop'.inMerger
         \/ Quiet(repo')
         \/ stop' = stop /\ outcome' = outcome /\ Calm(repo, repo')
         \/ CommandConflicts
<1>00. NoStop.inMerger = FALSE
  BY DEF NoStop
<1>0. /\ repo \in Repos /\ HasBranch(repo, repo.on) /\ recipe \in Recipes
      /\ at \in 1..(Len(recipe) + 1) /\ undoing \in 0..9 /\ cmd \in 1..3 /\ Placed /\ Stopped
      /\ Back(repo, undoing)
  BY StepNames DEF Typed, TypeOK, Restored
<1>1. ASSUME NEW o \in {"Done", "Ended", "Undone"}, FinishAs(o) PROVE IsOver' /\ ~stop'.inMerger
  BY <1>00, <1>1 DEF FinishAs, IsOver
<1>2. ~IsOver /\ stop.kind # "Conflict" => Quiet(repo)
  BY DEF Conflicts, Quiet
<1>3. NoStop.kind = "none"
  BY DEF NoStop
<1>4. CASE TickEnds
  <2>1. CASE \E o \in {"Done", "Ended"} : FinishAs(o)
    BY <1>1, <2>1
  <2>2. CASE UNCHANGED run
    BY <1>4, <2>2 DEF TickEnds, run, Calm
  <2> QED BY <1>4, <2>1, <2>2 DEF TickEnds
<1>5. CASE Tick \/ StepEnds \/ CommandFails \/ NoMessage
  <2>1. repo' = repo /\ ~IsOver /\ ~Waiting
    BY <1>0, <1>5 DEF Tick, StepEnds, CommandFails, NoMessage, Stepping, Placed
  <2> QED BY <1>2, <1>3, <2>1 DEF Waiting
<1>6. CASE RunCommand
  <2>1. /\ at <= Len(recipe) /\ cmd <= Len(Commands(Here))
        /\ Works(Commands(Here)[cmd], Here.branch, repo)
        /\ repo' = After(Commands(Here)[cmd], Here.branch, repo)
        /\ stop' = stop /\ outcome' = outcome
    BY <1>0, <1>6 DEF RunCommand, Stepping, Placed, run
  <2> DEFINE c == Commands(Here)[cmd]
  <2>2. c \in {"newBranch", "merge", "switch", "delete"} => c = Here.block
    BY <1>0, <2>1, StepIs
  <2>3. /\ c \in {"newBranch", "merge", "switch", "delete"} => Here.branch \in Branches
        /\ c = "newBranch" => Here.branch \in Makes
    BY <1>0, <2>1, <2>2, StepIs
  <2> HIDE DEF c
  <2>4. repo'.merging = repo.merging /\ repo'.conflict = repo.conflict
    BY <1>0, <2>1, <2>3, AfterEvolves DEF c
  <2> QED BY <2>1, <2>4 DEF Calm
<1>7. CASE Sleep \/ Woken \/ Send \/ PressUndo \/ UndoFails \/ Crash \/ UNCHANGED vars
  BY <1>7 DEF Sleep, Woken, Send, PressUndo, UndoFails, Crash, vars, run, Calm
<1>8. CASE Answer
  <2>1. ~IsOver
    BY <1>0, <1>8 DEF Answer, Placed
  <2>2. CASE AnswerEnd \/ AnswerAbort
    BY <1>1, <2>2 DEF AnswerEnd, AnswerAbort
  <2>3. CASE AnswerContinue \/ AnswerGoOn \/ AnswerSkip
    <3>1. repo' = repo /\ stop.kind # "Conflict"
      BY <2>3 DEF AnswerContinue, AnswerGoOn, AnswerSkip, Offers
    <3> QED BY <1>2, <2>1, <3>1
  <2>4. CASE AnswerOpenMerger
    <3>1. repo' = MergeAborted(repo)
      BY <2>4 DEF AnswerOpenMerger
    <3>2. repo'.merging = NoMerge /\ repo'.conflict = FALSE
      BY <1>0, <3>1, AbortEvolves
    <3> QED BY <3>2 DEF Quiet
  <2>5. CASE AnswerResolved
    <3>1. repo' = Concluded(repo) /\ (~stop.inMerger => ~repo.conflict)
      BY <2>5 DEF AnswerResolved
    <3>2. CASE stop.inMerger
      <4>1. repo' = repo
        BY <3>1, <3>2 DEF Concluded
      <4> QED BY <3>2, <4>1 DEF Conflicts, Quiet
    <3>3. CASE ~stop.inMerger
      <4>1. /\ repo'.conflict = repo.conflict
            /\ repo'.merging \in {NoMerge, repo.merging}
            /\ stop.merge => repo'.merging = NoMerge
        BY <1>0, <3>1, <3>3, ConcludedEvolves
      <4>2. ~stop.merge => repo.merging = NoMerge
        BY <2>1 DEF Conflicts
      <4> QED BY <3>1, <3>3, <4>1, <4>2 DEF Quiet
    <3> QED BY <3>2, <3>3
  <2> QED BY <1>8, <2>2, <2>3, <2>4, <2>5 DEF Answer
<1>9. CASE PressStop
  <2>1. CASE FinishAs("Ended")
    BY <1>1, <2>1
  <2>2. CASE UNCHANGED run
    BY <1>9, <2>2 DEF PressStop, run, Calm
  <2> QED BY <1>9, <2>1, <2>2 DEF PressStop
<1>10. CASE UndoStep
  <2>1. undoing \in 1..8 /\ repo' = PutBack(UndoSteps[undoing], repo) /\ UNCHANGED run
    BY <1>0, <1>10, StepNames DEF UndoStep
  <2>2. repo'.merging \in {NoMerge, repo.merging} /\ (repo'.conflict => repo.conflict)
    BY <1>0, <2>1, UndoGoesOn
  <2> QED BY <2>1, <2>2 DEF Calm, run
<1>11. CASE UndoEnds
  <2>1. CASE FinishAs("Undone")
    BY <1>1, <2>1
  <2>2. CASE outcome' = "Undone" /\ stop' = NoStop
    BY <1>00, <2>2 DEF IsOver
  <2> QED BY <1>11, <2>1, <2>2 DEF UndoEnds
<1>12. CASE Edit
  <2>1. stop' = stop /\ outcome' = outcome
    BY <1>12 DEF Edit, run
  <2>2. CASE Resolve \/ (ChangeIt /\ repo' # MergeAborted(repo))
    <3>1. repo'.merging = repo.merging /\ (repo'.conflict => repo.conflict)
      BY <1>0, <2>2 DEF Resolve, ChangeIt, Repos
    <3> QED BY <2>1, <3>1 DEF Calm
  <2>3. CASE MergeInMerger
    <3>1. /\ Works("merge", stop.source, repo) /\ repo' = After("merge", stop.source, repo)
          /\ stop.source \in Branches
      BY <1>0, <2>3 DEF MergeInMerger, Stopped
    <3>2. repo'.merging = repo.merging /\ repo'.conflict = repo.conflict
      BY <1>0, <3>1, AfterEvolves
    <3> QED BY <2>1, <3>2 DEF Calm
  <2>4. CASE repo' = MergeAborted(repo)
    <3>1. repo'.merging = NoMerge /\ repo'.conflict = FALSE
      BY <1>0, <2>4, AbortEvolves
    <3> QED BY <3>1 DEF Quiet
  <2> QED BY <1>12, <2>2, <2>3, <2>4 DEF Edit
<1>13. CASE CommandConflicts
  BY <1>13
<1> QED BY <1>4, <1>5, <1>6, <1>7, <1>8, <1>9, <1>10, <1>11, <1>12, <1>13
        DEF Next, Thread, Press, Undo

(* So a merge or a conflict is always one that is waited for.              *)
LEMMA ConflictsStay ==
  ASSUME Typed, Conflicts, [Next]_vars
  PROVE  Conflicts'
<1>1. CASE IsOver' /\ ~stop'.inMerger
  BY <1>1 DEF Conflicts
<1>2. CASE Quiet(repo')
  BY <1>2 DEF Conflicts, Quiet
<1>3. CASE stop' = stop /\ outcome' = outcome /\ Calm(repo, repo')
  BY <1>3 DEF Conflicts, Calm, IsOver
<1>4. CASE CommandConflicts
  <2>1. /\ repo \in Repos /\ HasBranch(repo, repo.on) /\ recipe \in Recipes
        /\ at \in 1..(Len(recipe) + 1) /\ at <= Len(recipe) /\ ~IsOver /\ ~Waiting
        /\ Here.block \in {"merge", "pop"} /\ Works(Here.block, Here.branch, repo)
        /\ repo' = Conflicted(Here.block, Here.branch, repo)
    BY <1>4 DEF Typed, TypeOK, Placed, CommandConflicts, Stepping
  <2>2. Here.block = "merge" => Here.branch \in Branches
    BY <2>1, StepIs
  <2>3. repo'.merging = IF Here.block = "merge" THEN Here.branch ELSE repo.merging
    BY <2>1, <2>2, ConflictEvolves
  <2>4. repo.merging = NoMerge
    BY <2>1 DEF Conflicts, Waiting, NoStop
  <2> DEFINE is   == Here.block = "merge"
             from == IF Here.block = "merge" THEN Here.branch ELSE NoBranch
             at0  == IF Here.block = "pop" THEN Head(repo.stash).id ELSE 0
  <2>5. stop' = [NoStop EXCEPT !.kind = "Conflict", !.merge = is, !.source = from, !.stash = at0]
    BY <1>4 DEF CommandConflicts, StopAt
  <2> HIDE DEF is, from, at0
  <2>6. stop'.kind = "Conflict" /\ stop'.merge = is /\ stop'.inMerger = FALSE
    BY <2>5 DEF NoStop
  <2>7. repo'.merging # NoMerge => stop'.merge
    BY <2>3, <2>4, <2>6 DEF is
  <2> QED BY <2>6, <2>7 DEF Conflicts
<1> QED BY <1>1, <1>2, <1>3, <1>4, Calms

(* A stop that asks about a step, and those that do not.                   *)
LEMMA AsksAt ==
  ASSUME NEW kind \in StopKinds
  PROVE  /\ StopOf(kind).kind = kind /\ NoStop.kind = "none"
         /\ AskedHere => Waiting
<1> QED BY PlainStop DEF AskedHere, Waiting, NoStop

(* The run is over, or does not ask and there is nothing that it was asked  *)
(* about and that changed.                                                 *)
LEMMA NothingShown ==
  ASSUME Shown, ~AskedHere', \/ "asked" \notin unseen'
                             \/ unseen' = unseen /\ IsOver'
  PROVE  Shown'
<1> QED BY DEF Shown

(* The thread, the answers and the person keep what was shown.             *)
LEMMA ThreadShows ==
  ASSUME Typed, Shown, Thread
  PROVE  Shown'
<1>0. repo \in Repos /\ repo.tips[repo.on] \in Seq(Commits) /\ Placed /\ NoStop.kind = "none"
  BY DEF Typed, TypeOK, Repos, NoStop
<1>1. CASE TickEnds
  <2>1. CASE \E o \in {"Done", "Ended"} : FinishAs(o)
    <3>1. stop' = NoStop /\ IsOver' /\ unseen' = unseen
      BY <1>1, <2>1 DEF TickEnds, FinishAs, IsOver, past
    <3> QED BY <1>0, <3>1, NothingShown DEF AskedHere
  <2>2. CASE UNCHANGED run
    BY <1>1, <2>2 DEF TickEnds, run, shell, past, Shown, AskedHere, IsOver, MarkOf
  <2> QED BY <1>1, <2>1, <2>2 DEF TickEnds
<1>2. CASE Sleep \/ Woken
  BY <1>2 DEF Sleep, Woken, run, shell, past, Shown, AskedHere, IsOver, MarkOf
<1>3. CASE Tick \/ StepEnds \/ RunCommand \/ CommandFails \/ CommandConflicts \/ NoMessage
  <2>1. /\ live /\ ~IsOver /\ ~Waiting
    BY <1>0, <1>3 DEF Tick, StepEnds, RunCommand, CommandFails, CommandConflicts, NoMessage,
                      Stepping, Placed
  <2>2. "asked" \notin unseen
    BY <1>0, <2>1 DEF Shown, AskedHere, Waiting
  <2>3. unseen' = unseen \/ unseen' = {}
    BY <1>3 DEF Tick, StepEnds, RunCommand, CommandFails, CommandConflicts, NoMessage, StopsAs,
                StopAt
  <2>4. "asked" \notin unseen'
    BY <2>2, <2>3
  <2>5. CASE ~AskedHere'
    BY <2>4, <2>5, NothingShown
  <2>6. CASE AskedHere'
    <3>1. Tick /\ stop' # stop
      <4>1. CASE RunCommand \/ (StepEnds /\ DoneAs("Done"))
        BY <1>0, <2>1, <2>6, <4>1 DEF RunCommand, StepEnds, DoneAs, run, AskedHere, Waiting
      <4>2. CASE \E kind \in {"NotClean", "CheckFailed", "Failed", "PushRejected", "NoMessage"} :
                   StopsAs(kind)
        <5>1. PICK kind \in {"NotClean", "CheckFailed", "Failed", "PushRejected", "NoMessage"} :
                stop' = StopOf(kind)
          BY <4>2 DEF StopsAs, StopAt
        <5>2. kind \in StopKinds
          BY DEF StopKinds
        <5>3. stop'.kind = kind
          BY <5>1, <5>2, AsksAt
        <5> QED BY <2>6, <5>3 DEF AskedHere
      <4>3. CASE CommandConflicts
        <5> DEFINE is   == Here.block = "merge"
                   from == IF Here.block = "merge" THEN Here.branch ELSE NoBranch
                   at0  == IF Here.block = "pop" THEN Head(repo.stash).id ELSE 0
        <5>1. stop' = [NoStop EXCEPT !.kind = "Conflict", !.merge = is, !.source = from, !.stash = at0]
          BY <4>3 DEF CommandConflicts, StopAt
        <5> HIDE DEF is, from, at0
        <5>2. stop'.kind = "Conflict"
          BY <5>1 DEF NoStop
        <5> QED BY <2>6, <5>2 DEF AskedHere
      <4>4. CASE Tick
        BY <1>0, <2>1, <2>6, <4>4 DEF AskedHere, Waiting
      <4> QED BY <1>3, <4>1, <4>2, <4>3, <4>4 DEF StepEnds, CommandFails, NoMessage
    <3>2. mark' = MarkOf(repo) /\ unseen' = {} /\ repo' = repo
      BY <3>1 DEF Tick, StopAt
    <3>3. mark' = MarkOf(repo)'
      BY <3>2 DEF MarkOf
    <3>4. mark'.on = repo'.on /\ mark'.head \in Seq(Commits)
      BY <1>0, <3>2 DEF MarkOf
    <3>5. mark' # NoMark
      <4>1. "head" \in DOMAIN mark' /\ "head" \notin DOMAIN NoMark
        BY <3>2 DEF MarkOf, NoMark
      <4> QED BY <4>1
    <3> QED BY <3>2, <3>3, <3>4, <3>5 DEF Shown
  <2> QED BY <2>5, <2>6
<1> QED BY <1>1, <1>2, <1>3 DEF Thread

LEMMA AnswerShows ==
  ASSUME Typed, Shown, Answer
  PROVE  Shown'
<1>0. /\ live /\ ~IsOver /\ NoStop.kind = "none" /\ StopOf("Changed").kind = "Changed"
      /\ stop \in Stops
  BY PlainStop DEF Answer, Free, Typed, Placed, StopKinds, TypeOK
<1>1. ~AskedHere => "asked" \notin unseen
  BY <1>0 DEF Shown
<1>2. CASE AnswerEnd \/ AnswerAbort
  <2>1. stop' = NoStop /\ IsOver' /\ unseen' = unseen
    BY <1>2 DEF AnswerEnd, AnswerAbort, FinishAs, IsOver, past
  <2> QED BY <1>0, <2>1, NothingShown DEF AskedHere
<1>3. CASE AnswerContinue
  <2>1. CASE Moved
    <3>1. stop' = StopOf("Changed") /\ unseen' = {}
      BY <1>3, <2>1 DEF AnswerContinue, StopAt
    <3> QED BY <1>0, <3>1, NothingShown DEF AskedHere
  <2>2. CASE ~Moved
    <3>1. stop' = NoStop /\ unseen' = unseen /\ AskedHere
      BY <1>3, <2>2 DEF AnswerContinue, GoOnHere, AskedHere
    <3>2. mark = MarkOf(repo)
      BY <1>0, <2>2, <3>1 DEF Shown, Moved
    <3>3. "undone" \in unseen \/ "asked" \notin unseen
      <4>1. mark.head = repo.tips[repo.on] /\ mark.tree = repo.tree
        BY <3>2 DEF MarkOf
      <4>2. Len(repo.tips[repo.on]) \in Nat
        BY DEF Typed, TypeOK, Repos
      <4> QED BY <1>0, <3>1, <4>1, <4>2 DEF Shown
    <3>4. "asked" \notin unseen'
      BY <3>1, <3>3 DEF Shown
    <3> QED BY <1>0, <3>1, <3>4, NothingShown DEF AskedHere
  <2> QED BY <2>1, <2>2
<1>4. CASE AnswerGoOn \/ AnswerSkip \/ AnswerOpenMerger \/ AnswerResolved
  <2>1. stop.kind \notin {"Approve", "Ask"} /\ unseen' = unseen
    BY <1>4 DEF AnswerGoOn, AnswerSkip, AnswerOpenMerger, AnswerResolved, Offers, past
  <2>2. stop' = NoStop \/ stop' = [stop EXCEPT !.inMerger = TRUE]
    BY <1>4 DEF AnswerGoOn, AnswerSkip, AnswerOpenMerger, AnswerResolved, GoOnHere, DoneAs
  <2>3. stop'.kind \notin {"Approve", "Ask"}
    BY <1>0, <2>1, <2>2 DEF Stops
  <2> QED BY <1>1, <2>1, <2>3, NothingShown DEF AskedHere
<1> QED BY <1>2, <1>3, <1>4 DEF Answer

LEMMA EditShows ==
  ASSUME Typed, Conflicts, Shown, Edit
  PROVE  Shown'
<1>0. /\ stop' = stop /\ mark' = mark /\ live' = live /\ outcome' = outcome
      /\ repo \in Repos /\ repo.on \in Branches /\ repo.tips[repo.on] \in Seq(Commits)
      /\ repo.tips \in [Branches -> Seq(Commits)] /\ Placed /\ Stopped
  BY DEF Edit, run, shell, Typed, TypeOK, Repos
<1>1. unseen' = unseen \/ (unseen' = unseen \cup Place /\ "undone" \notin unseen)
  BY DEF Edit, Resolve, MergeInMerger, ChangeIt
<1>2. ("asked" \in Place => AskedHere) /\ "undone" \notin Place
  <2>1. CASE AskedHere
    BY <2>1 DEF Place, AskedHere
  <2>2. CASE ~AskedHere
    <3>1. Place \in {{}, {"running"}}
      BY <2>2 DEF Place, AskedHere
    <3> QED BY <3>1
  <2> QED BY <2>1, <2>2
<1>3. "asked" \in unseen' => "undone" \notin unseen' /\ (IsOver' \/ ~live' \/ AskedHere')
  BY <1>0, <1>1, <1>2 DEF Shown, AskedHere, IsOver
<1>4. CASE ~(live /\ AskedHere)
  BY <1>0, <1>3, <1>4 DEF Shown, AskedHere
<1>5. CASE live /\ AskedHere
  <2>1. ~IsOver /\ stop.kind # "Conflict" /\ Waiting
    BY <1>0, <1>5 DEF AskedHere, Placed, Waiting, NoStop
  <2>2. repo.merging = NoMerge /\ ~repo.conflict /\ ~stop.inMerger
    BY <1>0, <2>1 DEF Conflicts, Stopped
  <2>3. ChangeIt
    BY <2>2 DEF Edit, Resolve, MergeInMerger
  <2> DEFINE whole == repo.tree \cup {Theirs}
  <2>4. \/ Theirs \notin repo.tree /\ repo' = [repo EXCEPT !.tree = whole]
        \/ repo' = [repo EXCEPT !.tree = whole, !.index = whole,
                                !.tips[repo.on] = Append(@, whole)]
    BY <2>2, <2>3 DEF ChangeIt
  <2>5. /\ mark # NoMark /\ mark.head \in Seq(Commits)
        /\ \/ "undone" \in unseen
           \/ /\ mark.on = repo.on
              /\ \/ mark = MarkOf(repo) /\ "asked" \notin unseen
                 \/ Len(repo.tips[repo.on]) > Len(mark.head)
                 \/ Theirs \in repo.tree \ mark.tree
    BY <1>5 DEF Shown
  <2>6. mark = MarkOf(repo) => mark.head = repo.tips[repo.on] /\ mark.tree = repo.tree
    BY DEF MarkOf
  <2>7. "undone" \in unseen => "undone" \in unseen'
    BY <1>1
  <2>8. CASE Theirs \notin repo.tree /\ repo' = [repo EXCEPT !.tree = whole]
    <3>1. repo'.on = repo.on /\ repo'.tips = repo.tips /\ Theirs \in repo'.tree
      BY <1>0, <2>8 DEF Repos
    <3>2. mark = MarkOf(repo) => Theirs \in repo'.tree \ mark.tree
      BY <2>6, <2>8, <3>1
    <3> QED BY <1>0, <1>3, <2>5, <2>7, <2>8, <3>1, <3>2 DEF Shown
  <2>9. CASE repo' = [repo EXCEPT !.tree = whole, !.index = whole,
                                  !.tips[repo.on] = Append(@, whole)]
    <3> DEFINE s == Append(repo.tips[repo.on], whole)
    <3>1. repo'.on = repo.on /\ repo'.tips[repo.on] = s
      BY <1>0, <2>9 DEF Repos
    <3> HIDE DEF whole
    <3>2. Len(s) = Len(repo.tips[repo.on]) + 1 /\ Len(repo.tips[repo.on]) \in Nat
      BY <1>0, AppendProperties
    <3>3. repo'.tree = whole
      BY <1>0, <2>9 DEF Repos
    <3>4. mark = MarkOf(repo) => Len(s) > Len(mark.head)
      BY <2>6, <3>2
    <3>5. Len(mark.head) \in Nat
      BY <2>5
    <3>6. Len(repo.tips[repo.on]) > Len(mark.head) => Len(s) > Len(mark.head)
      BY <3>2, <3>5
    <3>7. Theirs \in repo.tree => Theirs \in repo'.tree
      BY <3>3 DEF whole
    <3> HIDE DEF s
    <3>8. /\ mark # NoMark /\ mark.head \in Seq(Commits)
          /\ \/ "undone" \in unseen'
             \/ /\ mark.on = repo'.on
                /\ \/ Len(repo'.tips[repo'.on]) > Len(mark.head)
                   \/ Theirs \in repo'.tree \ mark.tree
      BY <2>5, <2>7, <3>1, <3>4, <3>6, <3>7
    <3> QED BY <1>0, <1>3, <3>8 DEF Shown
  <2> QED BY <2>4, <2>8, <2>9
<1> QED BY <1>4, <1>5

(* So do all steps.                                                        *)
LEMMA ShownStays ==
  ASSUME Typed, Conflicts, Shown, [Next]_vars
  PROVE  Shown'
<1>0. NoStop.kind = "none"
  BY DEF NoStop
<1>1. CASE Send \/ PressUndo \/ UndoFails \/ UNCHANGED vars
  BY <1>1 DEF Send, PressUndo, UndoFails, vars, run, shell, past, Shown, AskedHere, IsOver, MarkOf
<1>2. CASE PressStop
  <2>1. CASE FinishAs("Ended")
    <3>1. stop' = NoStop /\ IsOver' /\ unseen' = unseen
      BY <1>2, <2>1 DEF PressStop, FinishAs, IsOver, past
    <3> QED BY <1>0, <3>1, NothingShown DEF AskedHere
  <2>2. CASE UNCHANGED run
    BY <1>2, <2>2 DEF PressStop, run, past, Shown, AskedHere, IsOver, MarkOf
  <2> QED BY <1>2, <2>1, <2>2 DEF PressStop
<1>3. CASE UndoStep
  BY <1>3 DEF UndoStep, run, Shown, AskedHere
<1>4. CASE UndoEnds
  <2>1. stop' = NoStop /\ IsOver' /\ unseen' = unseen
    BY <1>4 DEF UndoEnds, FinishAs, IsOver, past
  <2> QED BY <1>0, <2>1, NothingShown DEF AskedHere
<1>5. CASE Crash
  BY <1>5 DEF Crash, Shown
<1> QED BY <1>1, <1>2, <1>3, <1>4, <1>5, ThreadShows, AnswerShows, EditShows
        DEF Next, Press, Undo

(* A step never begins while the person has not been told of a change that  *)
(* someone made while it was asked about.                                  *)
THEOREM ChangesAreTold == Spec => ToldOfChanges
<1>1. Init => Conflicts /\ Shown
  BY PlainStop, StartIs DEF Init, Conflicts, Shown, NoStop, AskedHere
<1>2. Typed /\ Conflicts /\ Shown /\ [Next]_vars => Conflicts' /\ Shown'
  BY ConflictsStay, ShownStays
<1>3. Typed /\ Shown /\ [Next]_vars => [Begins => "asked" \notin unseen]_vars
  <2>1. ASSUME Typed, Shown, [Next]_vars, Begins PROVE "asked" \notin unseen
    BY <2>1, BeginsIs DEF Typed, Placed, Shown, AskedHere, Waiting, NoStop
  <2> QED BY <2>1
<1> QED BY <1>1, <1>2, <1>3, SpecTyped, PTL DEF Spec, ToldOfChanges

-----------------------------------------------------------------------------
(* The restore point.                                                      *)

(* The stashes there are and those there were.                             *)
LEMMA StashesAre ==
  ASSUME NEW r \in Repos
  PROVE  /\ r.stash \in Seq(Stashes) /\ Len(r.stash) \in Nat
         /\ DOMAIN r.stash = 1..Len(r.stash)
         /\ \A i \in 1..Len(r.stash) : r.stash[i] \in Stashes /\ r.stash[i].id \in Nat
<1>1. r.stash \in Seq(Stashes)
  BY DEF Repos
<1>2. \A i \in 1..Len(r.stash) : r.stash[i] \in Stashes
  BY <1>1, ElementOfSeq
<1> QED BY <1>1, <1>2 DEF Stashes

(* Those of the start.                                                     *)
LEMMA StashesWere ==
  /\ \A i \in 1..Len(Start.stash) : Start.stash[i].id <= Start.made
  /\ \A i, k \in 1..Len(Start.stash) : Start.stash[i].id = Start.stash[k].id => i = k
  /\ Start.made \in Nat
<1> QED BY RecipeAssumption, StashesAre, StartIs

(* Places in the last j of n.                                              *)
LEMMA LastOf ==
  ASSUME NEW n \in Nat, NEW j \in Nat, j <= n
  PROVE  /\ \A i \in 1..n : i > n - j => \E k \in 1..j : n - j + k = i
         /\ \A i \in 1..j : n - j + i \in 1..n
         /\ \A i \in 1..n : i > n - j \/ i \in 1..(n - j)
         /\ \A i \in 1..(n - j) : i \in 1..n /\ \A k \in 1..j : n - j + k # i
<1>1. ASSUME NEW i \in 1..n, i > n - j
      PROVE  \E k \in 1..j : n - j + k = i
  <2>1. i \in Int /\ i - (n - j) \in Int /\ 1 <= i - (n - j)
    BY <1>1
  <2>2. i - (n - j) <= j /\ n - j + (i - (n - j)) = i
    OBVIOUS
  <2> QED BY <2>1, <2>2
<1>2. ASSUME NEW i \in 1..j PROVE n - j + i \in 1..n
  OBVIOUS
<1>3. ASSUME NEW i \in 1..n PROVE i > n - j \/ i \in 1..(n - j)
  OBVIOUS
<1>4. ASSUME NEW i \in 1..(n - j) PROVE i \in 1..n /\ \A k \in 1..j : n - j + k # i
  OBVIOUS
<1> QED BY <1>1, <1>2, <1>3, <1>4

(* What is over the stashes that were kept was not there at the start.     *)
LEMMA AddedIs ==
  ASSUME NEW r \in Repos, NEW j \in Nat, Keeps(r, j)
  PROVE  Added(r) = 1..(Len(r.stash) - j)
<1> DEFINE n == Len(r.stash)
           m == Len(Start.stash)
<1>1. /\ n \in Nat /\ m \in Nat /\ DOMAIN r.stash = 1..n /\ DOMAIN Start.stash = 1..m
      /\ \A i \in 1..m : Start.stash[i].id \in Nat
      /\ \A i \in 1..n : r.stash[i].id \in Nat
  BY StashesAre, StartIs
<1>2. /\ j <= n /\ j <= m
      /\ \A i \in 1..j : r.stash[n - j + i] = Start.stash[m - j + i]
      /\ \A i \in 1..(n - j) : r.stash[i].id > Start.made
  BY DEF Keeps
<1>3. Added(r) = {i \in 1..n : \A k \in 1..m : Start.stash[k].id # r.stash[i].id}
  BY <1>1, PointIs DEF Added
<1>4. ASSUME NEW i \in 1..(n - j) PROVE i \in Added(r)
  <2>1. i \in 1..n /\ r.stash[i].id > Start.made /\ r.stash[i].id \in Nat
    BY <1>1, <1>2
  <2>2. ASSUME NEW k \in 1..m PROVE Start.stash[k].id # r.stash[i].id
    <3>1. Start.stash[k].id <= Start.made /\ Start.made \in Nat /\ Start.stash[k].id \in Nat
      BY <1>1, StashesWere
    <3> QED BY <2>1, <3>1
  <2> QED BY <1>3, <2>1, <2>2
<1>5. ASSUME NEW i \in Added(r) PROVE i \in 1..(n - j)
  <2>1. i \in 1..n /\ \A k \in 1..m : Start.stash[k].id # r.stash[i].id
    BY <1>3
  <2>2. CASE i > n - j
    <3>1. PICK k \in 1..j : n - j + k = i
      <4> HIDE DEF n, m
      <4> QED BY <1>1, <1>2, <2>1, <2>2, LastOf
    <3>2. m - j + k \in 1..m
      BY <1>1, <1>2, <3>1, LastOf
    <3>3. r.stash[i] = Start.stash[m - j + k]
      BY <1>2, <3>1
    <3> QED BY <2>1, <3>2, <3>3
  <2> QED BY <1>1, <1>2, <2>1, <2>2, LastOf
<1> QED BY <1>4, <1>5

(* When nothing is over them, those of the start that are gone are those    *)
(* that were over them then.                                               *)
LEMMA LackingIs ==
  ASSUME NEW r \in Repos, Keeps(r, Len(r.stash))
  PROVE  Lacking(r) = 1..(Len(Start.stash) - Len(r.stash))
<1> DEFINE n == Len(r.stash)
           m == Len(Start.stash)
<1>1. n \in Nat /\ m \in Nat /\ DOMAIN r.stash = 1..n /\ DOMAIN Start.stash = 1..m
  BY StashesAre, StartIs
<1>2. n <= m /\ \A i \in 1..n : r.stash[i] = Start.stash[m - n + i]
  <2>1. n <= m /\ \A i \in 1..n : r.stash[n - n + i] = Start.stash[m - n + i]
    BY DEF Keeps
  <2>2. \A i \in 1..n : n - n + i = i
    BY <1>1
  <2> QED BY <2>1, <2>2
<1>3. Lacking(r) = {k \in 1..m : \A i \in 1..n : r.stash[i].id # Start.stash[k].id}
  BY <1>1, PointIs DEF Lacking
<1>4. ASSUME NEW k \in 1..(m - n) PROVE k \in Lacking(r)
  <2>1. k \in 1..m
    BY <1>1, <1>2, LastOf
  <2>2. ASSUME NEW i \in 1..n PROVE r.stash[i].id # Start.stash[k].id
    <3>1. m - n + i \in 1..m /\ m - n + i # k
      <4> HIDE DEF n, m
      <4> QED BY <1>1, <1>2, LastOf
    <3>2. Start.stash[m - n + i].id # Start.stash[k].id
      BY <2>1, <3>1, StashesWere
    <3> QED BY <1>2, <3>2
  <2> QED BY <1>3, <2>1, <2>2
<1>5. ASSUME NEW k \in Lacking(r) PROVE k \in 1..(m - n)
  <2>1. k \in 1..m /\ \A i \in 1..n : r.stash[i].id # Start.stash[k].id
    BY <1>3
  <2>2. CASE k > m - n
    <3>1. PICK i \in 1..n : m - n + i = k
      <4> HIDE DEF n, m
      <4> QED BY <1>1, <1>2, <2>1, <2>2, LastOf
    <3>2. r.stash[i] = Start.stash[k]
      BY <1>2, <3>1
    <3> QED BY <2>1, <3>1, <3>2
  <2> QED BY <1>1, <1>2, <2>1, <2>2, LastOf
<1> QED BY <1>4, <1>5

(* A sequence with one more in front.                                      *)
LEMMA OnTop ==
  ASSUME NEW S, NEW s \in S, NEW t \in Seq(S)
  PROVE  /\ Len(<<s>> \o t) = Len(t) + 1 /\ (<<s>> \o t)[1] = s
         /\ \A i \in 1..Len(t) : (<<s>> \o t)[i + 1] = t[i]
<1> DEFINE one == <<s>>
           n   == Len(t)
<1>1. one \in Seq(S) /\ Len(one) = 1 /\ one[1] = s /\ n \in Nat
  OBVIOUS
<1> HIDE DEF one
<1>2. /\ Len(one \o t) = Len(one) + n
      /\ \A i \in 1..(Len(one) + n) :
           (one \o t)[i] = IF i <= Len(one) THEN one[i] ELSE t[i - Len(one)]
  BY <1>1, ConcatProperties
<1>3. ASSUME NEW i \in 1..n PROVE (one \o t)[i + 1] = t[i]
  <2>1. i + 1 \in 1..(1 + n) /\ ~(i + 1 <= 1) /\ i + 1 - 1 = i
    BY <1>1
  <2> QED BY <1>1, <1>2, <2>1
<1>4. Len(one \o t) = n + 1 /\ (one \o t)[1] = s
  BY <1>1, <1>2
<1> QED BY <1>3, <1>4 DEF one

(* What is kept of a list of a known length.                               *)
LEMMA KeepsBy ==
  ASSUME NEW q, NEW j, NEW n, Len(q.stash) = n, j <= n, j <= Len(Start.stash),
         \A i \in 1..j : q.stash[n - j + i] = Start.stash[Len(Start.stash) - j + i],
         \A i \in 1..(n - j) : q.stash[i].id > Start.made
  PROVE  Keeps(q, j)
<1> QED BY DEF Keeps

(* A command or a person leaves the stashes so.                            *)
LEMMA StashStepKeeps ==
  ASSUME NEW r \in Repos, NEW q \in Repos, StashStep(r, q), r.made >= Start.made,
         NEW j \in Nat, Keeps(r, j)
  PROVE  \E k \in 0..Len(Start.stash) : Keeps(q, k)
<1> DEFINE n == Len(r.stash)
           m == Len(Start.stash)
<1>1. /\ n \in Nat /\ m \in Nat /\ r.stash \in Seq(Stashes) /\ Start.made \in Nat
      /\ r.made \in Nat
  BY StashesAre, StartIs DEF Repos
<1>2. /\ j <= n /\ j <= m
      /\ \A i \in 1..j : r.stash[n - j + i] = Start.stash[m - j + i]
      /\ \A i \in 1..(n - j) : r.stash[i].id > Start.made
  BY DEF Keeps
<1>3. CASE q.stash = r.stash
  <2>1. Keeps(q, j)
    BY <1>3 DEF Keeps
  <2> QED BY <1>1, <1>2, <2>1
<1>4. CASE r.stash # <<>> /\ q.stash = Tail(r.stash)
  <2>1. n \in Nat \ {0} /\ Len(q.stash) = n - 1 /\ \A i \in 1..(n - 1) : q.stash[i] = r.stash[i + 1]
    BY <1>1, <1>4, HeadTailProperties
  <2>2. CASE j < n
    <3>1. ASSUME NEW i \in 1..j PROVE q.stash[n - 1 - j + i] = Start.stash[m - j + i]
      <4>1. n - 1 - j + i \in 1..(n - 1) /\ n - 1 - j + i + 1 = n - j + i
        BY <1>1, <2>1, <2>2
      <4> QED BY <1>2, <2>1, <4>1
    <3>2. ASSUME NEW i \in 1..(n - 1 - j) PROVE q.stash[i].id > Start.made
      <4>1. i \in 1..(n - 1) /\ i + 1 \in 1..(n - j)
        BY <1>1, <2>1, <2>2
      <4>2. q.stash[i] = r.stash[i + 1]
        BY <2>1, <4>1
      <4>3. r.stash[i + 1].id > Start.made
        BY <1>2, <4>1
      <4> QED BY <4>2, <4>3
    <3>3. Keeps(q, j)
      <4>1. j <= n - 1 /\ j <= m
        BY <1>1, <1>2, <2>1, <2>2
      <4>2. \A i \in 1..j : q.stash[n - 1 - j + i] = Start.stash[m - j + i]
        BY <3>1
      <4>3. \A i \in 1..(n - 1 - j) : q.stash[i].id > Start.made
        BY <3>2
      <4>4. Len(q.stash) = n - 1
        BY <2>1
      <4> HIDE DEF n
      <4> QED BY <4>1, <4>2, <4>3, <4>4, KeepsBy
    <3> QED BY <1>1, <1>2, <3>3
  <2>3. CASE ~(j < n)
    <3>1. j = n /\ n - 1 \in Nat /\ n - 1 <= m
      BY <1>1, <1>2, <2>1, <2>3
    <3>2. ASSUME NEW i \in 1..(n - 1)
          PROVE  q.stash[n - 1 - (n - 1) + i] = Start.stash[m - (n - 1) + i]
      <4>0. i \in Int /\ n \in Int /\ m \in Int /\ j = n /\ 1 <= i /\ i <= n - 1
        BY <1>1, <3>1
      <4>1. /\ n - 1 - (n - 1) + i = i /\ i + 1 \in 1..j /\ n - j + (i + 1) = i + 1
            /\ m - (n - 1) + i = m - j + (i + 1)
        <5> HIDE DEF n, m
        <5>1. n - 1 - (n - 1) + i = i
          BY <4>0
        <5>2. i + 1 \in 1..j
          BY <4>0
        <5>3. n - j + (i + 1) = i + 1 /\ m - (n - 1) + i = m - j + (i + 1)
          BY <4>0
        <5> QED BY <5>1, <5>2, <5>3
      <4>2. r.stash[i + 1] = Start.stash[m - j + (i + 1)]
        BY <1>2, <4>1
      <4> QED BY <2>1, <4>1, <4>2
    <3>3. Keeps(q, n - 1)
      <4>1. n - 1 <= Len(q.stash) /\ n - 1 <= m /\ Len(q.stash) - (n - 1) = 0
        BY <1>1, <2>1, <3>1
      <4>2. \A i \in 1..(n - 1) :
              q.stash[Len(q.stash) - (n - 1) + i] = Start.stash[m - (n - 1) + i]
        BY <2>1, <3>2
      <4>3. \A i \in 1..(Len(q.stash) - (n - 1)) : q.stash[i].id > Start.made
        <5>1. \A z : z = 0 => 1..z = {}
          OBVIOUS
        <5> QED BY <4>1, <5>1
      <4> QED BY <4>1, <4>2, <4>3 DEF Keeps
    <3> QED BY <1>1, <3>1, <3>3
  <2> QED BY <2>2, <2>3
<1>5. ASSUME NEW s \in Stashes, s.id > r.made, q.stash = <<s>> \o r.stash
      PROVE  Keeps(q, j)
  <2>1. /\ Len(q.stash) = n + 1 /\ q.stash[1] = s
        /\ \A i \in 1..n : q.stash[i + 1] = r.stash[i]
    BY <1>1, <1>5, OnTop
  <2> DEFINE z == n + 1
  <2>2. ASSUME NEW i \in 1..j PROVE q.stash[z - j + i] = Start.stash[m - j + i]
    <3>1. n - j + i \in 1..n /\ z - j + i = n - j + i + 1
      BY <1>1, <1>2
    <3> QED BY <1>2, <2>1, <3>1
  <2>3. ASSUME NEW i \in 1..(z - j) PROVE q.stash[i].id > Start.made
    <3>1. CASE i = 1
      <4>1. s.id \in Nat
        BY DEF Stashes
      <4> QED BY <1>1, <1>5, <2>1, <3>1, <4>1
    <3>2. CASE i # 1
      <4> DEFINE k == i - 1
      <4>1. k \in 1..(n - j) /\ k \in 1..n /\ k + 1 = i
        BY <1>1, <1>2, <3>2
      <4> HIDE DEF k
      <4>2. q.stash[k + 1] = r.stash[k] /\ r.stash[k].id > Start.made
        BY <1>2, <2>1, <4>1
      <4> QED BY <4>1, <4>2
    <3> QED BY <3>1, <3>2
  <2>4. Len(q.stash) = z /\ j <= z /\ j <= m
    BY <1>1, <1>2, <2>1
  <2>5. \A i \in 1..j : q.stash[z - j + i] = Start.stash[m - j + i]
    BY <2>2
  <2>6. \A i \in 1..(z - j) : q.stash[i].id > Start.made
    BY <2>3
  <2> HIDE DEF z
  <2> QED BY <2>4, <2>5, <2>6, KeepsBy
<1>6. j \in 0..m
  BY <1>1, <1>2
<1>7. ASSUME NEW s \in Stashes, s.id > r.made, q.stash = <<s>> \o r.stash
      PROVE  \E k \in 0..m : Keeps(q, k)
  BY <1>5, <1>6, <1>7
<1> QED BY <1>3, <1>4, <1>7 DEF StashStep

(* The largest of the first numbers.                                       *)
LEMMA LastPlace ==
  ASSUME NEW n \in Nat, NEW d \in Int, d <= n, 1..d # {}
  PROVE  Max(1..d) = d /\ d >= 1
<1>1. d >= 1 /\ (1..d) \in SUBSET (1..n)
  OBVIOUS
<1>2. Max(1..d) \in 1..d /\ \A y \in 1..d : Max(1..d) >= y
  BY <1>1, Largest
<1> QED BY <1>1, <1>2

(* An undo takes away what is over the stashes that were kept, the oldest   *)
(* of it first.                                                            *)
LEMMA DropKeeps ==
  ASSUME NEW r \in Repos, NEW q, NEW j \in Nat, Keeps(r, j),
         q.stash = IF Added(r) = {} THEN r.stash ELSE RemoveAt(r.stash, Max(Added(r)))
  PROVE  Keeps(q, j)
<1> DEFINE n == Len(r.stash)
           m == Len(Start.stash)
           d == n - j
<1>1. /\ n \in Nat /\ m \in Nat /\ r.stash \in Seq(Stashes)
      /\ j <= n /\ j <= m
      /\ \A i \in 1..j : r.stash[n - j + i] = Start.stash[m - j + i]
      /\ \A i \in 1..(n - j) : r.stash[i].id > Start.made
  BY StashesAre, StartIs DEF Keeps
<1>2. CASE Added(r) = {}
  BY <1>2 DEF Keeps
<1>3. CASE Added(r) # {}
  <2>1. Added(r) = 1..d /\ d \in Int /\ d <= n
    BY <1>1, AddedIs
  <2>2. Max(Added(r)) = d /\ d >= 1 /\ d \in 1..n
    <3> HIDE DEF d, n
    <3> QED BY <1>1, <1>3, <2>1, LastPlace
  <2>3. /\ Len(q.stash) = n - 1
        /\ \A i \in 1..(n - 1) : q.stash[i] = IF i < d THEN r.stash[i] ELSE r.stash[i + 1]
    <3>1. q.stash = RemoveAt(r.stash, d)
      BY <1>3, <2>2
    <3> HIDE DEF d
    <3>2. /\ Len(RemoveAt(r.stash, d)) = n - 1
          /\ \A i \in 1..(n - 1) :
               RemoveAt(r.stash, d)[i] = IF i < d THEN r.stash[i] ELSE r.stash[i + 1]
      BY <1>1, <2>2, RemovedAt
    <3> QED BY <3>1, <3>2
  <2>4. ASSUME NEW i \in 1..j PROVE q.stash[n - 1 - j + i] = Start.stash[m - j + i]
    <3>1. i \in Int /\ 1 <= i /\ i <= j /\ n \in Int /\ j \in Int /\ d = n - j /\ d >= 1
      BY <1>1, <2>2
    <3>2. n - 1 - j + i \in 1..(n - 1) /\ ~(n - 1 - j + i < d) /\ n - 1 - j + i + 1 = n - j + i
      <4> HIDE DEF n, d
      <4> QED BY <3>1
    <3>3. q.stash[n - 1 - j + i] = r.stash[n - j + i]
      BY <2>3, <3>2
    <3> QED BY <1>1, <3>3
  <2>5. ASSUME NEW i \in 1..(n - 1 - j) PROVE q.stash[i].id > Start.made
    <3>1. i \in Int /\ 1 <= i /\ i <= n - 1 - j /\ n \in Int /\ j \in Nat /\ d = n - j
      BY <1>1
    <3>2. i \in 1..(n - 1) /\ i < d /\ i \in 1..(n - j)
      <4> HIDE DEF n, d
      <4> QED BY <3>1
    <3> QED BY <1>1, <2>3, <3>2
  <2>6. j <= n - 1
    BY <1>1, <2>2
  <2>7. Len(q.stash) = n - 1 /\ j <= m
    BY <1>1, <2>3
  <2>8. \A i \in 1..j : q.stash[n - 1 - j + i] = Start.stash[m - j + i]
    BY <2>4
  <2>9. \A i \in 1..(n - 1 - j) : q.stash[i].id > Start.made
    BY <2>5
  <2> HIDE DEF n
  <2> QED BY <2>6, <2>7, <2>8, <2>9, KeepsBy
<1> QED BY <1>2, <1>3

(* When nothing is over the stashes that were kept, they are all there are. *)
LEMMA NothingAdded ==
  ASSUME NEW r \in Repos, NEW j \in Nat, Keeps(r, j), Added(r) = {}
  PROVE  j = Len(r.stash)
<1> DEFINE n == Len(r.stash)
<1>1. n \in Nat /\ j <= n /\ 1..(n - j) = {}
  BY StashesAre, AddedIs DEF Keeps
<1>2. ~(1 <= n - j)
  <2>1. 1 <= n - j => 1 \in 1..(n - j)
    BY <1>1
  <2> QED BY <1>1, <2>1
<1> QED BY <1>1, <1>2

(* It stores again what was over them at the start, the oldest first.      *)
LEMMA StoreKeeps ==
  ASSUME NEW r \in Repos, NEW q, Keeps(r, Len(r.stash)),
         q.stash = IF Lacking(r) = {} THEN r.stash
                   ELSE <<Start.stash[Max(Lacking(r))]>> \o r.stash
  PROVE  \E k \in 0..Len(Start.stash) : Keeps(q, k)
<1> DEFINE n == Len(r.stash)
           m == Len(Start.stash)
           d == m - n
<1>1. /\ n \in Nat /\ m \in Nat /\ r.stash \in Seq(Stashes) /\ n <= m
      /\ \A i \in 1..m : Start.stash[i] \in Stashes
      /\ \A i \in 1..n : r.stash[n - n + i] = Start.stash[m - n + i]
  BY StashesAre, StartIs DEF Keeps
<1>2. CASE Lacking(r) = {}
  <2>1. Keeps(q, n)
    BY <1>2 DEF Keeps
  <2> QED BY <1>1, <2>1
<1>3. CASE Lacking(r) # {}
  <2>1. Lacking(r) = 1..d /\ d \in Int /\ d <= m
    <3>1. Lacking(r) = 1..d
      BY LackingIs
    <3>2. n \in Int /\ m \in Int /\ n >= 0
      BY <1>1
    <3>3. d \in Int /\ d <= m
      <4> HIDE DEF n, m
      <4> QED BY <3>2
    <3> QED BY <3>1, <3>3
  <2>2. Max(Lacking(r)) = d /\ d >= 1 /\ d \in 1..m
    <3> HIDE DEF d, m
    <3> QED BY <1>1, <1>3, <2>1, LastPlace
  <2>3. /\ Len(q.stash) = n + 1 /\ q.stash[1] = Start.stash[d]
        /\ \A i \in 1..n : q.stash[i + 1] = r.stash[i]
    <3> DEFINE s == Start.stash[d]
    <3>1. s \in Stashes /\ q.stash = <<s>> \o r.stash
      BY <1>1, <1>3, <2>2
    <3> HIDE DEF s
    <3>2. /\ Len(q.stash) = n + 1 /\ q.stash[1] = s
          /\ \A i \in 1..n : q.stash[i + 1] = r.stash[i]
      <4>1. /\ Len(<<s>> \o r.stash) = n + 1 /\ (<<s>> \o r.stash)[1] = s
            /\ \A i \in 1..n : (<<s>> \o r.stash)[i + 1] = r.stash[i]
        BY <1>1, <3>1, OnTop
      <4> DEFINE t == <<s>> \o r.stash
      <4> HIDE DEF t
      <4> QED BY <3>1, <4>1 DEF t
    <3> QED BY <3>2 DEF s
  <2>4. n + 1 <= m /\ n + 1 \in 0..m
    BY <1>1, <2>2
  <2>5. ASSUME NEW i \in 1..(n + 1)
        PROVE  q.stash[Len(q.stash) - (n + 1) + i] = Start.stash[m - (n + 1) + i]
    <3> DEFINE z == Len(q.stash)
    <3>0. i \in Int /\ n \in Int /\ m \in Int /\ z = n + 1
      BY <1>1, <2>3
    <3>1. i \in Int /\ n \in Int /\ m \in Int /\ z - (n + 1) + i = i
      <4> HIDE DEF n, m, z
      <4> QED BY <3>0
    <3>2. CASE i = 1
      <4>1. m - (n + 1) + i = d
        BY <1>1, <3>2
      <4> QED BY <2>3, <3>1, <3>2, <4>1
    <3>3. CASE i # 1
      <4>1. i - 1 \in 1..n /\ i - 1 + 1 = i
        BY <1>1, <3>3
      <4>2. n - n + (i - 1) = i - 1 /\ m - n + (i - 1) = m - (n + 1) + i
        BY <1>1
      <4>3. q.stash[i] = r.stash[i - 1]
        BY <2>3, <4>1
      <4>4. r.stash[i - 1] = Start.stash[m - (n + 1) + i]
        BY <1>1, <4>1, <4>2
      <4> QED BY <3>1, <4>3, <4>4
    <3> QED BY <3>2, <3>3
  <2>6. Keeps(q, n + 1)
    <3>1. Len(q.stash) - (n + 1) = 0
      BY <1>1, <2>3
    <3>2. \A i \in 1..(Len(q.stash) - (n + 1)) : q.stash[i].id > Start.made
      <4>1. \A z : z = 0 => 1..z = {}
        OBVIOUS
      <4> QED BY <3>1, <4>1
    <3>3. \A i \in 1..(n + 1) : q.stash[Len(q.stash) - (n + 1) + i] = Start.stash[m - (n + 1) + i]
      BY <2>5
    <3>4. n + 1 <= Len(q.stash) /\ n + 1 <= m
      BY <1>1, <2>3, <2>4
    <3> QED BY <3>2, <3>3, <3>4 DEF Keeps
  <2> QED BY <2>4, <2>6
<1> QED BY <1>2, <1>3

(* When nothing of the start is gone either, the list is what it was.      *)
LEMMA NothingLacks ==
  ASSUME NEW r \in Repos, Keeps(r, Len(r.stash)), Lacking(r) = {}
  PROVE  r.stash = Start.stash
<1> DEFINE n == Len(r.stash)
           m == Len(Start.stash)
<1>0. 1..(m - n) = {}
  BY LackingIs
<1>1. /\ n \in Nat /\ m \in Nat /\ n <= m /\ r.stash \in Seq(Stashes)
      /\ Start.stash \in Seq(Stashes) /\ 1..(m - n) = {}
      /\ \A i \in 1..n : r.stash[n - n + i] = Start.stash[m - n + i]
  <2>1. n \in Nat /\ m \in Nat /\ r.stash \in Seq(Stashes) /\ Start.stash \in Seq(Stashes)
    BY StashesAre, StartIs
  <2>2. n <= m /\ \A i \in 1..n : r.stash[n - n + i] = Start.stash[m - n + i]
    BY DEF Keeps
  <2> QED BY <1>0, <2>1, <2>2
<1>2. n = m
  <2> HIDE DEF n, m
  <2>1. n \in Int /\ m \in Int /\ n <= m /\ 1..(m - n) = {}
    BY <1>1
  <2>2. 1 <= m - n => 1 \in 1..(m - n)
    BY <2>1
  <2> QED BY <2>1, <2>2
<1>3. ASSUME NEW i \in 1..n PROVE r.stash[i] = Start.stash[i]
  <2>1. n - n + i = i /\ m - n + i = i
    BY <1>1, <1>2
  <2> QED BY <1>1, <2>1
<1> QED BY <1>1, <1>2, <1>3, SeqEqual

(* An undo takes branches away or puts them back, and brings none.         *)
LEMMA NoOthersStay ==
  ASSUME Typed, NoOthers, [Next]_vars
  PROVE  NoOthers'
<1>0. /\ repo \in Repos /\ HasBranch(repo, repo.on) /\ recipe \in Recipes
      /\ undoing \in 0..9 /\ Back(repo, undoing) /\ Makes' = Makes
  BY StepNames, RecipeStays DEF Typed, TypeOK, Restored
<1>1. \A b \in Branches \ Makes : HasBranch(repo', b) => HasBranch(repo, b) \/ HasBranch(Start, b)
  <2>1. CASE UndoStep
    <3>1. undoing \in 1..8 /\ repo' = PutBack(UndoSteps[undoing], repo)
      BY <1>0, <2>1, StepNames DEF UndoStep
    <3> QED BY <1>0, <3>1, UndoGoesOn
  <2>2. CASE Moves
    BY <2>2 DEF Moves, Evolves
  <2> QED BY <2>1, <2>2, RepoMoves
<1>2. NoOthers' <=> \A b \in Branches \ Makes : ~HasBranch(Start, b) => ~HasBranch(repo', b)
  BY <1>0 DEF NoOthers, HasBranch
<1> QED BY <1>1, <1>2 DEF NoOthers

(* So the last of the start's stashes are always under the run's own.      *)
LEMMA StashedStays ==
  ASSUME Typed, Stashed, [Next]_vars
  PROVE  Stashed'
<1>0. /\ repo \in Repos /\ repo.made \in Nat /\ Start.made \in Nat /\ HasBranch(repo, repo.on)
      /\ repo' \in Repos /\ repo'.made \in Nat /\ repo.made >= Start.made
      /\ recipe \in Recipes /\ undoing \in 0..9 /\ Back(repo, undoing)
  <2>1. /\ repo \in Repos /\ HasBranch(repo, repo.on) /\ recipe \in Recipes
        /\ undoing \in 0..9 /\ Back(repo, undoing)
    BY StepNames DEF Typed, TypeOK, Restored
  <2>2. repo' \in Repos
    BY RepoTyped DEF RepoOK
  <2>3. repo.made \in Nat /\ repo'.made \in Nat
    BY <2>1, <2>2 DEF Repos
  <2> QED BY <2>1, <2>2, <2>3, StartIs DEF Stashed
<1>1. PICK j \in 0..Len(Start.stash) : Keeps(repo, j)
  BY DEF Stashed
<1>2. j \in Nat
  BY StartIs
<1>3. Stashed' <=> repo'.made >= Start.made /\ \E k \in 0..Len(Start.stash) : Keeps(repo', k)
  BY DEF Stashed, Keeps
<1>4. CASE Moves
  <2>1. StashStep(repo, repo') /\ repo'.made >= repo.made
    BY <1>4 DEF Moves, Evolves, StashStep
  <2>2. \E k \in 0..Len(Start.stash) : Keeps(repo', k)
    BY <1>0, <1>1, <1>2, <2>1, StashStepKeeps
  <2> QED BY <1>0, <1>3, <2>1, <2>2
<1>5. CASE UndoStep
  <2>1. undoing \in 1..8 /\ repo' = PutBack(UndoSteps[undoing], repo)
    BY <1>0, <1>5, StepNames DEF UndoStep
  <2>2. /\ repo'.made >= repo.made
        /\ undoing < 7 => repo'.stash = repo.stash
        /\ undoing = 7 => repo'.stash = IF Added(repo) = {} THEN repo.stash
                                        ELSE RemoveAt(repo.stash, Max(Added(repo)))
        /\ undoing = 8 => repo'.stash = IF Lacking(repo) = {} THEN repo.stash
                                        ELSE <<Start.stash[Max(Lacking(repo))]>> \o repo.stash
    BY <1>0, <2>1, UndoGoesOn
  <2>3. \E k \in 0..Len(Start.stash) : Keeps(repo', k)
    <3>1. CASE undoing < 7
      <4>1. Keeps(repo', j)
        BY <1>1, <2>2, <3>1 DEF Keeps
      <4> QED BY <4>1
    <3>2. CASE undoing = 7
      <4>1. Keeps(repo', j)
        BY <1>0, <1>1, <1>2, <2>2, <3>2, DropKeeps
      <4> QED BY <4>1
    <3>3. CASE undoing = 8
      <4>1. Added(repo) = {}
        BY <1>0, <3>3 DEF Back
      <4>2. Keeps(repo, Len(repo.stash))
        BY <1>0, <1>1, <1>2, <4>1, NothingAdded
      <4> QED BY <1>0, <2>2, <3>3, <4>2, StoreKeeps
    <3> QED BY <2>1, <3>1, <3>2, <3>3
  <2> QED BY <1>0, <1>3, <2>2, <2>3
<1> QED BY <1>4, <1>5, RepoMoves

(* What an undo has put back when its steps are behind.                    *)
LEMMA PutBackAll ==
  ASSUME Typed, NoOthers, Stashed
  PROVE  UndoRestores
<1>1. SUFFICES ASSUME undoing > 8
      PROVE  /\ repo.on = Start.on /\ repo.index = Start.index /\ repo.tree = Start.tree
             /\ repo.stash = Start.stash /\ repo.merging = NoMerge /\ ~repo.conflict
             /\ \A b \in Named(Start) \cup Makes : repo.tips[b] = Start.tips[b]
  BY StepNames DEF UndoRestores
<1>2. /\ undoing \in 0..9 /\ Back(repo, undoing) /\ repo \in Repos /\ recipe \in Recipes
      /\ Start.tips \in [Branches -> Seq(Commits)] /\ repo.tips \in [Branches -> Seq(Commits)]
  <2>1. /\ undoing \in 0..9 /\ Back(repo, undoing) /\ repo \in Repos /\ recipe \in Recipes
    BY StepNames DEF Typed, TypeOK, Restored
  <2> QED BY <2>1, StartIs DEF Repos
<1>3. /\ repo.on = Start.on /\ repo.index = Start.index /\ repo.tree = Start.tree
      /\ repo.merging = NoMerge /\ ~repo.conflict /\ Added(repo) = {} /\ Lacking(repo) = {}
      /\ \A b \in TipsOf(Start) : repo.tips[b] = Start.tips[b]
      /\ \A b \in Makes \ TipsOf(Start) : repo.tips[b] = <<>>
  BY <1>1, <1>2 DEF Back
<1>4. repo.stash = Start.stash
  <2>1. PICK j \in 0..Len(Start.stash) : Keeps(repo, j)
    BY DEF Stashed
  <2>2. j \in Nat
    BY StartIs
  <2>3. Keeps(repo, Len(repo.stash))
    BY <1>2, <1>3, <2>1, <2>2, NothingAdded
  <2> QED BY <1>2, <1>3, <2>3, NothingLacks
<1>5. ASSUME NEW b \in Named(Start) \cup Makes PROVE repo.tips[b] = Start.tips[b]
  <2>1. b \in Branches
    BY <1>2, NamedBranches
  <2>2. CASE b \in TipsOf(Start)
    BY <1>3, <2>2
  <2>3. CASE b \in Makes \ TipsOf(Start)
    <3>1. Start.tips[b] = <<>>
      BY <1>2, <2>3, NamedBranches DEF HasBranch
    <3> QED BY <1>3, <2>3, <3>1
  <2>4. CASE b \in Named(Start) /\ b \notin TipsOf(Start) /\ b \notin Makes
    <3>1. ~HasBranch(Start, b)
      BY <2>4 DEF TipsOf
    <3>2. ~HasBranch(repo, b)
      BY <2>1, <2>4, <3>1 DEF NoOthers
    <3> QED BY <3>1, <3>2 DEF HasBranch
  <2> QED BY <2>2, <2>3, <2>4
<1> QED BY <1>3, <1>4, <1>5

(* An undo that comes to its end has put back the restore point: the branch *)
(* checked out, the index, the tree, the branches the recipe names or makes *)
(* and the stashes, whatever ran, failed, was answered or edited before, and *)
(* however often an undo was cut short.                                    *)
THEOREM UndoPutsBack == Spec => []UndoRestores
<1>1. Init => NoOthers /\ Stashed
  <2>1. ASSUME Init PROVE NoOthers
    BY <2>1 DEF Init, NoOthers
  <2>2. ASSUME Init PROVE Stashed
    <3> DEFINE m == Len(Start.stash)
    <3>1. repo = Start /\ m \in Nat /\ Start.made \in Nat
      BY <2>2, StartIs DEF Init
    <3>2. \A i \in 1..(m - m) : Start.stash[i].id > Start.made
      <4>1. m - m = 0
        BY <3>1
      <4>2. \A z : z = 0 => 1..z = {}
        OBVIOUS
      <4> QED BY <4>1, <4>2
    <3>3. Keeps(Start, m) /\ m \in 0..m
      BY <3>1, <3>2 DEF Keeps
    <3> QED BY <3>1, <3>3 DEF Stashed
  <2> QED BY <2>1, <2>2
<1>2. Typed /\ NoOthers /\ Stashed /\ [Next]_vars => NoOthers' /\ Stashed'
  BY NoOthersStay, StashedStays
<1>3. Typed /\ NoOthers /\ Stashed => UndoRestores
  BY PutBackAll
<1> QED BY <1>1, <1>2, <1>3, SpecTyped, PTL DEF Spec

-----------------------------------------------------------------------------
(* What is written.                                                        *)

(* Some numbers have a least one.                                          *)
LEMMA Least ==
  ASSUME NEW D \in SUBSET Nat, D # {}
  PROVE  \E x \in D : \A y \in D : x <= y
<1> DEFINE R == OpToRel(<, Nat)
<1>1. IsWellFoundedOn(R, Nat)
  BY NatLessThanWellFounded
<1>2. \A x, y \in Nat : (<<y, x>> \in R) <=> y < x
  BY DEF OpToRel
<1> HIDE DEF R
<1>3. PICK x \in D : \A y \in D : ~(<<y, x>> \in R)
  BY <1>1, WFMin, Zenon
<1>4. ASSUME NEW y \in D PROVE x <= y
  <2>1. x \in Nat /\ y \in Nat
    OBVIOUS
  <2>2. ~(y < x)
    BY <1>2, <1>3, <2>1
  <2> QED BY <2>1, <2>2
<1> QED BY <1>4

(* The recursion over the steps of a recipe has a function: one as far as   *)
(* a step goes on to the next.                                             *)
LEMMA WrittenIs ==
  ASSUME NEW r, Len(r) \in Nat, NEW out
  PROVE  /\ Written(r, out)[0] = Start
         /\ \A n \in 1..Len(r) :
              Written(r, out)[n] = IF n \in out THEN Written(r, out)[n - 1]
                                   ELSE AllOf(r[n], Written(r, out)[n - 1])
<1> DEFINE Body(g, k) == [n \in 0..k |-> IF n = 0 THEN Start
                                         ELSE IF n \in out THEN g[n - 1]
                                         ELSE AllOf(r[n], g[n - 1])]
           Exists(k) == \E g : g = Body(g, k)
           N == {k \in Nat : ~Exists(k)}
<1>1. Exists(0)
  <2> DEFINE g == [n \in {0} |-> Start]
  <2>1. 0..0 = {0}
    OBVIOUS
  <2>2. g = Body(g, 0)
    BY <2>1
  <2> HIDE DEF g
  <2> QED BY <2>2
<1>2. ASSUME NEW k \in Nat, Exists(k) PROVE Exists(k + 1)
  <2>1. PICK g : g = Body(g, k)
    BY <1>2
  <2> DEFINE h == [n \in 0..(k + 1) |->
                     IF n = k + 1
                     THEN IF n \in out THEN g[k] ELSE AllOf(r[n], g[k])
                     ELSE g[n]]
  <2>2. \A n \in 0..k : g[n] = IF n = 0 THEN Start
                               ELSE IF n \in out THEN g[n - 1] ELSE AllOf(r[n], g[n - 1])
    BY <2>1
  <2>3. \A n \in 0..k : h[n] = g[n]
    OBVIOUS
  <2>4. h[k + 1] = IF k + 1 \in out THEN h[k] ELSE AllOf(r[k + 1], h[k])
    BY <2>3
  <2>5. h = [n \in 0..(k + 1) |-> h[n]]
    OBVIOUS
  <2> HIDE DEF h
  <2>6. ASSUME NEW n \in 0..(k + 1)
        PROVE  h[n] = IF n = 0 THEN Start
                      ELSE IF n \in out THEN h[n - 1] ELSE AllOf(r[n], h[n - 1])
    <3>1. CASE n = k + 1
      <4>1. n # 0 /\ n - 1 = k
        BY <3>1
      <4> QED BY <2>4, <3>1, <4>1
    <3>2. CASE n = 0
      BY <2>2, <2>3, <3>2
    <3>3. CASE n \in 1..k
      <4>1. n \in 0..k /\ n - 1 \in 0..k /\ n # 0
        BY <3>3
      <4>2. h[n] = g[n] /\ h[n - 1] = g[n - 1]
        BY <2>3, <4>1
      <4> QED BY <2>2, <4>1, <4>2
    <3> QED BY <3>1, <3>2, <3>3
  <2>7. h = Body(h, k + 1)
    BY <2>5, <2>6
  <2> HIDE DEF Body
  <2> QED BY <2>7
<1>3. Exists(Len(r))
  <2> HIDE DEF Exists
  <2> SUFFICES ASSUME N # {} PROVE FALSE
    OBVIOUS
  <2>1. PICK k \in N : \A j \in N : k <= j
    <3>1. N \in SUBSET Nat
      OBVIOUS
    <3> HIDE DEF N
    <3> QED BY <3>1, Least
  <2>2. k # 0 /\ k \in Nat
    BY <1>1, <2>1
  <2>3. k - 1 \in Nat /\ ~(k <= k - 1) /\ k - 1 + 1 = k
    BY <2>2
  <2>4. Exists(k - 1)
    BY <2>1, <2>3
  <2>5. Exists(k)
    BY <1>2, <2>3, <2>4
  <2> QED BY <2>1, <2>5
<1> DEFINE W == Written(r, out)
<1>4. W = CHOOSE g : g = Body(g, Len(r))
  BY DEF Written
<1> HIDE DEF W
<1>5. W = Body(W, Len(r))
  <2> HIDE DEF Body
  <2> QED BY <1>3, <1>4
<1>6. \A n \in 0..Len(r) : W[n] = IF n = 0 THEN Start
                                   ELSE IF n \in out THEN W[n - 1] ELSE AllOf(r[n], W[n - 1])
  BY <1>5
<1>7. 0 \in 0..Len(r) /\ \A n \in 1..Len(r) : n \in 0..Len(r) /\ n # 0
  OBVIOUS
<1>8. /\ W[0] = Start
      /\ \A n \in 1..Len(r) :
           W[n] = IF n \in out THEN W[n - 1] ELSE AllOf(r[n], W[n - 1])
  BY <1>6, <1>7
<1> QED BY <1>8 DEF W

(* What is left out after a step makes no difference before it.            *)
LEMMA WrittenAgrees ==
  ASSUME NEW r, Len(r) \in Nat, NEW m \in 0..Len(r), NEW out, NEW more,
         \A n \in 1..m : n \in out <=> n \in more
  PROVE  Written(r, out)[m] = Written(r, more)[m]
<1> DEFINE V == Written(r, out)
           W == Written(r, more)
           N == {n \in 0..m : V[n] # W[n]}
<1>1. /\ V[0] = Start /\ W[0] = Start
      /\ \A n \in 1..Len(r) :
           /\ V[n] = IF n \in out THEN V[n - 1] ELSE AllOf(r[n], V[n - 1])
           /\ W[n] = IF n \in more THEN W[n - 1] ELSE AllOf(r[n], W[n - 1])
  BY WrittenIs
<1> HIDE DEF V, W
<1> SUFFICES ASSUME N # {} PROVE FALSE
  BY DEF V, W
<1>2. PICK n \in N : \A j \in N : n <= j
  <2>1. N \in SUBSET Nat
    OBVIOUS
  <2> HIDE DEF N
  <2> QED BY <2>1, Least
<1>3. n \in 0..m /\ V[n] # W[n] /\ n # 0
  BY <1>1, <1>2
<1>4. n \in 1..m /\ n \in 1..Len(r) /\ n - 1 \in 0..m /\ ~(n <= n - 1)
  BY <1>3
<1>5. V[n - 1] = W[n - 1]
  <2>1. n - 1 \notin N
    <3> HIDE DEF N
    <3> QED BY <1>2, <1>4
  <2> QED BY <1>4, <2>1
<1>6. V[n] = W[n]
  BY <1>1, <1>4, <1>5
<1> QED BY <1>3, <1>6

(* The commands of a step.                                                 *)
LEMMA CommandsAre ==
  ASSUME recipe \in Recipes, at \in 1..(Len(recipe) + 1), at <= Len(recipe)
  PROVE  /\ Here.block = "commit" => Commands(Here) = <<"add", "commit">>
         /\ Here.block \in {"check", "clean"} => Commands(Here) = <<>>
         /\ Here.block \in {"merge", "pop"} => Commands(Here) = <<Here.block>>
         /\ \A k \in 1..Len(Commands(Here)) :
              Commands(Here)[k] = "add" => Here.block = "commit" /\ k = 1
<1> DEFINE cs == Commands(Here)
<1>1. /\ Here.block = "commit" => cs = <<"add", "commit">>
      /\ Here.block \in {"check", "clean"} => cs = <<>>
      /\ Here.block \in {"merge", "pop"} => cs = <<Here.block>>
  BY DEF Commands
<1>2. \/ Here.block = "commit" \/ cs = <<"reset", "commit">> \/ cs = <<>>
      \/ cs = <<Here.block>> /\ Here.block # "add"
  BY StepIs DEF Commands, Blocks
<1> HIDE DEF cs
<1>3. \A k \in 1..Len(cs) : cs[k] = "add" => Here.block = "commit" /\ k = 1
  BY <1>1, <1>2
<1> QED BY <1>1, <1>3 DEF cs

(* Each command of a step runs on what those before it made.               *)
LEMMA FirstOfIs ==
  ASSUME NEW step, NEW r
  PROVE  /\ FirstOf(step, 0, r) = r
         /\ \A k \in 1..2 : FirstOf(step, k, r) =
                              After(Commands(step)[k], step.branch, FirstOf(step, k - 1, r))
<1>1. FirstOf(step, 0, r) = r
  BY DEF FirstOf
<1>2. FirstOf(step, 1, r) = After(Commands(step)[1], step.branch, r)
  BY DEF FirstOf
<1>3. FirstOf(step, 2, r) =
        After(Commands(step)[2], step.branch, After(Commands(step)[1], step.branch, r))
  BY DEF FirstOf
<1>4. 1 - 1 = 0 /\ 2 - 1 = 1 /\ \A k \in 1..2 : k = 1 \/ k = 2
  OBVIOUS
<1> QED BY <1>1, <1>2, <1>3, <1>4

(* What is staged again is what was staged.                                *)
LEMMA StagedAgain ==
  ASSUME NEW r, NEW b, NEW q \in Repos, q = After("add", b, r)
  PROVE  After("add", b, q) = q
<1>1. q = [r EXCEPT !.index = r.tree]
  BY DEF After
<1>2. q.index = q.tree
  BY <1>1 DEF Repos
<1>3. After("add", b, q) = [q EXCEPT !.index = q.tree]
  BY DEF After
<1> QED BY <1>2, <1>3 DEF Repos

(* A pop that conflicted and was resolved is the pop, once its stash goes.  *)
LEMMA PopResolved ==
  ASSUME NEW r \in Repos, NEW b, ~r.conflict, NEW q,
         q = [Conflicted("pop", b, r) EXCEPT !.conflict = FALSE]
  PROVE  /\ q.stash = r.stash /\ q.merging = r.merging
         /\ [q EXCEPT !.stash = Tail(@)] = After("pop", b, r)
<1>1. q = [r EXCEPT !.tree = r.tree \cup Head(r.stash).what, !.conflict = FALSE]
  BY DEF Conflicted, Repos
<1>2. After("pop", b, r) = [r EXCEPT !.tree = r.tree \cup Head(r.stash).what,
                                     !.stash = Tail(r.stash)]
  BY DEF After
<1>3. r.conflict = FALSE
  BY DEF Repos
<1> HIDE DEF Conflicted
<1>4. q.stash = r.stash /\ q.merging = r.merging
  BY <1>1 DEF Repos
<1>5. [q EXCEPT !.stash = Tail(q.stash)] = After("pop", b, r)
  BY <1>1, <1>2, <1>3, <1>4 DEF Repos
<1> QED BY <1>4, <1>5

(* A merge of something new, on a repository that takes it: what comes, the *)
(* branch it goes on and the merge itself.                                 *)
LEMMA MergeIs ==
  ASSUME NEW r \in Repos, HasBranch(r, r.on), NEW b \in Branches, Works("merge", b, r),
         ~(Content(r, b) \subseteq HeadOf(r))
  PROVE  /\ b # r.on /\ r.index = HeadOf(r) /\ r.merging = NoMerge
         /\ After("merge", b, r) =
              [r EXCEPT !.tips = [r.tips EXCEPT ![r.on] = Append(r.tips[r.on],
                                                                 HeadOf(r) \cup Content(r, b))],
                        !.index = HeadOf(r) \cup Content(r, b),
                        !.tree = r.tree \cup (Content(r, b) \ HeadOf(r))]
<1> DEFINE both == HeadOf(r) \cup Content(r, b)
<1>1. both # HeadOf(r)
  OBVIOUS
<1>2. b # r.on
  BY DEF HeadOf
<1>3. After("merge", b, r) =
        [r EXCEPT !.tips[r.on] = IF both = HeadOf(r) THEN @ ELSE Append(@, both),
                  !.index = both, !.tree = @ \cup (Content(r, b) \ HeadOf(r))]
  BY DEF After
<1> HIDE DEF both
<1>4. After("merge", b, r) =
        [r EXCEPT !.tips = [r.tips EXCEPT ![r.on] = Append(r.tips[r.on], both)],
                  !.index = both, !.tree = r.tree \cup (Content(r, b) \ HeadOf(r))]
  BY <1>1, <1>3
<1> QED BY <1>2, <1>4 DEF both, Works

(* Nothing goes on in a repository where nothing did.                      *)
LEMMA NothingGoesOn ==
  ASSUME NEW r \in Repos, r.merging = NoMerge, r.conflict = FALSE, NEW tips, NEW i, NEW t
  PROVE  [r EXCEPT !.tips = tips, !.index = i, !.tree = t, !.merging = NoMerge,
                   !.conflict = FALSE]
           = [r EXCEPT !.tips = tips, !.index = i, !.tree = t]
<1> QED BY DEF Repos

(* A merge that conflicted and was resolved is the merge, once committed.   *)
LEMMA MergeResolved ==
  ASSUME NEW r \in Repos, HasBranch(r, r.on), NEW b \in Branches, Works("merge", b, r),
         ~(Content(r, b) \subseteq HeadOf(r)), ~r.conflict,
         NEW q, q = [Conflicted("merge", b, r) EXCEPT !.conflict = FALSE]
  PROVE  q.merging = b /\ MergeCommitted(q) = After("merge", b, r)
<1> DEFINE came == Content(r, b) \ HeadOf(r)
           both == HeadOf(r) \cup Content(r, b)
           i    == r.index \cup came
           t    == r.tree \cup came
<1>1. q = [r EXCEPT !.index = i, !.tree = t, !.merging = b, !.conflict = FALSE]
  BY DEF Conflicted, Repos
<1>2. i = both /\ r.merging = NoMerge /\ r.conflict = FALSE
  <2>1. r.index = HeadOf(r) /\ r.merging = NoMerge
    BY MergeIs
  <2>2. r.conflict = FALSE
    BY DEF Repos
  <2> QED BY <2>1, <2>2
<1>3. After("merge", b, r) =
        [r EXCEPT !.tips = [r.tips EXCEPT ![r.on] = Append(r.tips[r.on], both)],
                  !.index = both, !.tree = t]
  BY MergeIs
<1> HIDE DEF i, t, both
<1>4. /\ q.merging = b /\ q.on = r.on /\ q.tips = r.tips /\ q.index = i
      /\ q.stash = r.stash
  BY <1>1 DEF Repos
<1>5. MergeCommitted(q) =
        [q EXCEPT !.tips = [r.tips EXCEPT ![r.on] = Append(r.tips[r.on], i)],
                  !.merging = NoMerge]
  BY <1>4 DEF MergeCommitted
<1> DEFINE tips == [r.tips EXCEPT ![r.on] = Append(r.tips[r.on], i)]
<1> HIDE DEF tips
<1>6. MergeCommitted(q) = [q EXCEPT !.tips = tips, !.merging = NoMerge]
  BY <1>5 DEF tips
<1>7. After("merge", b, r) = [r EXCEPT !.tips = tips, !.index = i, !.tree = t]
  BY <1>2, <1>3 DEF tips
<1>8. MergeCommitted(q) = [r EXCEPT !.tips = tips, !.index = i, !.tree = t,
                                    !.merging = NoMerge, !.conflict = FALSE]
  BY <1>1, <1>6 DEF Repos
<1>9. MergeCommitted(q) = After("merge", b, r)
  <2>1. [r EXCEPT !.tips = tips, !.index = i, !.tree = t, !.merging = NoMerge,
                  !.conflict = FALSE]
          = [r EXCEPT !.tips = tips, !.index = i, !.tree = t]
    BY <1>2, NothingGoesOn
  <2> QED BY <1>7, <1>8, <2>1
<1> QED BY <1>4, <1>9

(* A merge that conflicted and was aborted: it is still to be made, and when *)
(* it is made it is the merge; made again, it is the one there is.          *)
LEMMA MergeElsewhere ==
  ASSUME NEW r \in Repos, HasBranch(r, r.on), NEW b \in Branches, Works("merge", b, r),
         ~(Content(r, b) \subseteq HeadOf(r)), ~r.conflict,
         NEW c \in BOOLEAN, NEW p, p = [Conflicted("merge", b, r) EXCEPT !.conflict = c]
  PROVE  /\ MergeAborted(p) = MergeAborted(Conflicted("merge", b, r))
         /\ ~IsMerged(b, MergeAborted(p))
         /\ After("merge", b, MergeAborted(p)) = After("merge", b, r)
         /\ After("merge", b, After("merge", b, r)) = After("merge", b, r)
<1> DEFINE came == Content(r, b) \ HeadOf(r)
           both == HeadOf(r) \cup Content(r, b)
           i    == r.index \cup came
           t    == r.tree \cup came
           u    == t \ came
           q    == MergeAborted(p)
           z    == After("merge", b, r)
<1>1. /\ b # r.on /\ r.index = HeadOf(r) /\ r.merging = NoMerge /\ r.conflict = FALSE
      /\ z = [r EXCEPT !.tips = [r.tips EXCEPT ![r.on] = Append(r.tips[r.on], both)],
                       !.index = both, !.tree = t]
  BY MergeIs DEF Repos
<1>2. p = [r EXCEPT !.index = i, !.tree = t, !.merging = b, !.conflict = c]
  BY DEF Conflicted, Repos
<1>3. Conflicted("merge", b, r) = [r EXCEPT !.index = i, !.tree = t, !.merging = b,
                                            !.conflict = TRUE]
  BY DEF Conflicted
<1>4. /\ HeadOf(r) \in Commits /\ Content(r, b) \in Commits
      /\ r.on \in Branches /\ r.tips \in [Branches -> Seq(Commits)]
  BY LastCommit DEF HeadOf, Works, Repos
<1>5. both \in Commits
  BY <1>4 DEF Commits
<1> DEFINE s == Append(r.tips[r.on], both)
<1>6. s \in Seq(Commits) /\ s # <<>> /\ Last(s) = both
  <2> HIDE DEF both
  <2>1. r.tips[r.on] \in Seq(Commits)
    BY <1>4
  <2>2. /\ s \in Seq(Commits) /\ Len(s) = Len(r.tips[r.on]) + 1
        /\ s[Len(r.tips[r.on]) + 1] = both
    BY <1>5, <2>1, AppendProperties
  <2>3. s # <<>>
    BY <1>5, <2>1
  <2> QED BY <2>2, <2>3 DEF Last
<1>7. /\ q = [r EXCEPT !.index = HeadOf(r), !.tree = u]
      /\ MergeAborted(Conflicted("merge", b, r)) = q
  <2> HIDE DEF i, t, came
  <2>1. \A x : x = [r EXCEPT !.index = i, !.tree = t, !.merging = b, !.conflict = x.conflict]
               => /\ x.on = r.on /\ x.tips = r.tips /\ x.tree = t /\ x.merging = b
    BY DEF Repos
  <2>2. ASSUME NEW d \in BOOLEAN, NEW x,
               x = [r EXCEPT !.index = i, !.tree = t, !.merging = b, !.conflict = d]
        PROVE  MergeAborted(x) = [r EXCEPT !.index = HeadOf(r), !.tree = u]
    <3>1. x.on = r.on /\ x.tips = r.tips /\ x.tree = t /\ x.merging = b
      BY <2>2 DEF Repos
    <3>2. HeadOf(x) = HeadOf(r) /\ Content(x, b) = Content(r, b)
      BY <3>1 DEF HeadOf, Content
    <3>3. MergeAborted(x) = [x EXCEPT !.index = HeadOf(r), !.tree = u, !.merging = NoMerge,
                                      !.conflict = FALSE]
      BY <3>1, <3>2 DEF MergeAborted, came
    <3> HIDE DEF u
    <3> QED BY <1>1, <2>2, <3>3 DEF Repos
  <2> QED BY <1>2, <1>3, <2>2
<1>8. /\ q.on = r.on /\ q.tips = r.tips /\ q.tree = u /\ q.index = HeadOf(r)
      /\ HeadOf(q) = HeadOf(r) /\ Content(q, b) = Content(r, b)
  <2> HIDE DEF q, u
  <2>1. q.on = r.on /\ q.tips = r.tips /\ q.tree = u /\ q.index = HeadOf(r)
    BY <1>7 DEF Repos
  <2> QED BY <2>1 DEF HeadOf, Content
<1>9. ~IsMerged(b, q)
  BY <1>8 DEF IsMerged
<1>10. After("merge", b, q) = z
  <2>1. both # HeadOf(r)
    OBVIOUS
  <2>2. After("merge", b, q) =
          [q EXCEPT !.tips[r.on] = IF both = HeadOf(r) THEN @ ELSE Append(@, both),
                    !.index = both, !.tree = @ \cup came]
    BY <1>8 DEF After
  <2>3. u \cup came = t
    OBVIOUS
  <2> HIDE DEF q, both, came, u, t, z
  <2>4. After("merge", b, q) = [q EXCEPT !.tips = [r.tips EXCEPT ![r.on] = s], !.index = both,
                                         !.tree = t]
    BY <1>8, <2>1, <2>2, <2>3
  <2> DEFINE tips == [r.tips EXCEPT ![r.on] = s]
  <2>5. /\ After("merge", b, q) = [q EXCEPT !.tips = tips, !.index = both, !.tree = t]
        /\ z = [r EXCEPT !.tips = tips, !.index = both, !.tree = t]
    BY <1>1, <2>4
  <2> HIDE DEF tips
  <2> QED BY <1>7, <2>5 DEF Repos
<1>11. After("merge", b, z) = z
  <2> HIDE DEF z, both, t
  <2>1. /\ z.on = r.on /\ z.tips = [r.tips EXCEPT ![r.on] = s]
        /\ z.index = both /\ z.tree = t /\ DOMAIN z = DOMAIN r
    BY <1>1 DEF Repos
  <2>2. HeadOf(z) = both /\ Content(z, b) = Content(r, b)
    <3> HIDE DEF s
    <3>1. z.tips[r.on] = s /\ z.tips[b] = r.tips[b]
      BY <1>1, <1>4, <2>1
    <3> QED BY <1>6, <2>1, <3>1 DEF HeadOf, Content
  <2>3. HeadOf(z) \cup Content(z, b) = both /\ t \cup (Content(z, b) \ HeadOf(z)) = t
    BY <2>2 DEF both
  <2>4. After("merge", b, z) =
          [z EXCEPT !.tips[r.on] = @, !.index = both, !.tree = t]
    BY <2>1, <2>2, <2>3 DEF After
  <2>5. [z.tips EXCEPT ![r.on] = z.tips[r.on]] = z.tips
    BY <1>4, <2>1
  <2>6. After("merge", b, z) = [z EXCEPT !.tips = z.tips, !.index = z.index, !.tree = z.tree]
    BY <2>1, <2>4, <2>5
  <2>7. z = [on |-> z.on, tips |-> z.tips, index |-> z.index, tree |-> z.tree,
             stash |-> z.stash, merging |-> z.merging, conflict |-> z.conflict,
             made |-> z.made]
    BY <1>1 DEF Repos
  <2> QED BY <2>6, <2>7
<1> QED BY <1>7, <1>9, <1>10, <1>11

-----------------------------------------------------------------------------
(* What has been done of the recipe.                                       *)

(* Nobody else changed the repository, and no step that was left out had    *)
(* begun.                                                                  *)
Plain == undoing = 0 /\ ~foreign /\ skips \cap begun = {}

(* Where the repository was when the step began.                           *)
Before == Written(recipe, skips)[at - 1]

(* The command the step is at, or will start again from.                   *)
Progress == IF pc = "run" THEN cmd ELSE resume

(* The commands before that one have run on r; what is to be staged again   *)
(* may be staged.                                                          *)
HasRun(r) ==
  \/ repo = FirstOf(Here, Progress - 1, r)
  \/ Here.block = "commit" /\ Progress = 1 /\ repo = FirstOf(Here, 1, r)

(* A conflict with r, as it came or as it was resolved; or its merge is to  *)
(* be made in Merger, or was made there.                                   *)
InConflict(r) ==
  LET name == IF stop.merge THEN "merge" ELSE "pop" IN
  /\ r \in Repos /\ HasBranch(r, r.on) /\ ~r.conflict
  /\ Here.block = name /\ Works(name, Here.branch, r)
  /\ stop.merge =>
       /\ stop.source = Here.branch
       /\ ~(Content(r, Here.branch) \subseteq HeadOf(r))
  /\ ~stop.merge => stop.stash = Head(r.stash).id
  /\ IF stop.inMerger
       THEN \/ repo = MergeAborted(Conflicted(name, Here.branch, r))
            \/ repo = After(name, Here.branch, r)
       ELSE \E c \in BOOLEAN : repo = [Conflicted(name, Here.branch, r) EXCEPT !.conflict = c]

(* The steps behind have run, and of this one the commands that are behind. *)
Reached ==
  /\ at > Len(recipe) => repo = Before
  /\ at <= Len(recipe) =>
       /\ resume = 1 \/ resume <= Len(Commands(Here))
       /\ pc = "run" => cmd <= Len(Commands(Here)) + 1
       /\ stop.kind = "Conflict" => InConflict(Before)
       /\ stop.kind # "Conflict" => HasRun(Before) /\ (at \notin begun => repo = Before)

(* Only steps behind are left out, and none ahead has begun.               *)
Behindhand == skips \subseteq 1..(at - 1) /\ begun \subseteq 1..at

RanThrough == repo = AsWritten /\ ~repo.conflict

AsFar ==
  /\ Behindhand
  /\ Plain /\ live /\ ~IsOver => Reached
  /\ Plain /\ outcome = "Done" => RanThrough

(* Of what was not plain nothing becomes so, but by an undo that ends; the   *)
(* recipe is the same.                                                     *)
LEMMA PlainWas ==
  ASSUME Typed, [Next]_vars
  PROVE  /\ recipe' = recipe /\ skips \subseteq skips' /\ begun \subseteq begun'
         /\ Plain' => Plain \/ outcome' = "Undone"
         /\ live' => live
<1>0. recipe' = recipe
  BY RecipeStays
<1>1. CASE Thread
  <2>1. skips' = skips /\ begun \subseteq begun' /\ UNCHANGED <<undoing, foreign, live>>
    BY <1>1 DEF Thread, TickEnds, Tick, StepEnds, RunCommand, CommandFails, CommandConflicts,
                NoMessage, Sleep, Woken, shell, told, past
  <2> QED BY <1>0, <2>1 DEF Plain
<1>2. CASE Press
  <2>1. CASE Answer
    <3>1. /\ skips \subseteq skips' /\ begun' = begun /\ UNCHANGED <<undoing, foreign, live>>
      BY <2>1 DEF Answer, AnswerEnd, AnswerContinue, AnswerGoOn, AnswerSkip, AnswerOpenMerger,
                  AnswerResolved, AnswerAbort, Chosen, told, past
    <3> QED BY <1>0, <3>1 DEF Plain
  <2>2. CASE PressStop \/ PressUndo
    <3>1. /\ UNCHANGED <<skips, begun, foreign, live>> /\ undoing' \in {undoing, 1}
      BY <2>2 DEF PressStop, PressUndo, told, past
    <3> QED BY <1>0, <2>2, <3>1 DEF Plain, PressStop, PressUndo
  <2> QED BY <1>2, <2>1, <2>2 DEF Press
<1>3. CASE Send
  BY <1>0, <1>3 DEF Send, Plain, told, past
<1>4. CASE Undo
  <2>1. CASE UndoStep
    <3>1. UNCHANGED <<skips, begun, foreign, live>> /\ undoing' \in {undoing, undoing + 1}
      BY <2>1 DEF UndoStep, told
    <3>2. undoing > 0 /\ undoing \in Nat
      BY <2>1 DEF UndoStep, Typed, TypeOK
    <3>3. undoing' # 0
      BY <3>1, <3>2
    <3> QED BY <1>0, <3>1, <3>3 DEF Plain
  <2>2. CASE UndoFails
    BY <1>0, <2>2 DEF UndoFails, Plain
  <2>3. CASE UndoEnds
    BY <1>0, <2>3 DEF UndoEnds, Plain, FinishAs, told, past
  <2> QED BY <1>4, <2>1, <2>2, <2>3 DEF Undo
<1>5. CASE Edit
  <2>1. UNCHANGED <<skips, begun, undoing, live>> /\ (foreign' = foreign \/ foreign')
    BY <1>5 DEF Edit, Resolve, MergeInMerger, ChangeIt, shell
  <2> QED BY <1>0, <2>1 DEF Plain
<1>6. CASE Crash
  <2>1. undoing \in Nat
    BY DEF Typed, TypeOK
  <2>2. UNCHANGED <<skips, begun>> /\ foreign' = (foreign \/ undoing > 0) /\ ~live'
    BY <1>6 DEF Crash
  <2>3. ASSUME Plain' PROVE Plain
    <3>1. ~foreign /\ ~(undoing > 0)
      BY <2>2, <2>3, Zenon DEF Plain
    <3>2. undoing = 0
      BY <2>1, <3>1
    <3> QED BY <2>2, <2>3, <3>1, <3>2, Zenon DEF Plain
  <2> QED BY <1>0, <2>2, <2>3
<1>7. CASE UNCHANGED vars
  BY <1>0, <1>7 DEF vars, shell, told, past, Plain
<1> QED BY <1>1, <1>2, <1>3, <1>4, <1>5, <1>6, <1>7 DEF Next

(* The step is the one it was.                                             *)
LEMMA SameStep ==
  ASSUME recipe' = recipe, at' = at
  PROVE  /\ Here' = Here /\ Commands(Here)' = Commands(Here)
         /\ skips' = skips => Before' = Before
<1>1. Here' = Here
  BY DEF Here
<1> QED BY <1>1 DEF Before

(* The thread, an answer or the person does nothing the recipe says.        *)
LEMMA NothingDone ==
  ASSUME Reached, recipe' = recipe, at' = at, skips' = skips, begun' = begun, repo' = repo,
         resume' = resume, cmd' = cmd, pc' = "run" <=> pc = "run",
         stop' = stop \/ (stop.kind # "Conflict" /\ stop'.kind # "Conflict")
  PROVE  Reached'
<1>1. Here' = Here /\ Commands(Here)' = Commands(Here) /\ Before' = Before
  BY SameStep
<1>2. Progress' = Progress
  BY DEF Progress
<1>3. HasRun(Before)' = HasRun(Before)
  BY <1>1, <1>2 DEF HasRun
<1>4. stop' = stop => InConflict(Before)' = InConflict(Before)
  BY <1>1 DEF InConflict
<1> QED BY <1>1, <1>3, <1>4 DEF Reached

(* The next step is gone on to, and the repository is where it begins.      *)
LEMMA GoesOn ==
  ASSUME repo' = Before', resume' = 1, stop' = NoStop, pc' # "run"
  PROVE  Reached'
<1>1. Progress' = 1
  BY DEF Progress
<1>2. HasRun(Before)'
  BY <1>1, FirstOfIs DEF HasRun
<1>3. stop'.kind = "none"
  BY DEF NoStop
<1> QED BY <1>2, <1>3 DEF Reached

(* The thread runs what the recipe says.                                   *)
LEMMA ThreadRuns ==
  ASSUME Typed, Conflicts, Behindhand, Reached, live, ~IsOver, undoing = 0, Thread
  PROVE  /\ Behindhand'
         /\ ~IsOver' => Reached'
         /\ outcome' = "Done" => RanThrough'
<1>0. /\ recipe \in Recipes /\ at \in 1..(Len(recipe) + 1) /\ cmd \in 1..3 /\ resume \in 1..2
      /\ Len(recipe) \in Nat /\ outcome = "none" /\ recipe' = recipe
  <2>1. recipe \in Recipes /\ recipe' = recipe
    BY RecipeStays DEF Typed, TypeOK, Next
  <2>2. Len(recipe) \in Nat
    BY <2>1, RecipeAssumption DEF IsRecipe
  <2> QED BY <2>1, <2>2 DEF Typed, TypeOK, IsOver
<1>1. CASE TickEnds
  <2>1. UNCHANGED <<repo, at, skips, begun, resume, cmd>> /\ pc = "tick" /\ pc' # "run"
    BY <1>1 DEF TickEnds, FinishAs, run, past, told
  <2>2. Behindhand'
    BY <2>1 DEF Behindhand
  <2>3. CASE Waiting
    <3>1. stop' = stop /\ outcome' = outcome
      BY <1>0, <1>1, <2>3 DEF TickEnds, IsOver, run
    <3>2. Reached'
      BY <1>0, <2>1, <3>1, NothingDone
    <3> QED BY <1>0, <2>2, <3>1, <3>2
  <2>4. CASE ~Waiting
    <3>1. IsOver' /\ (outcome' = "Done" => at > Len(recipe))
      BY <1>0, <1>1, <2>4 DEF TickEnds, IsOver, FinishAs
    <3>2. ASSUME outcome' = "Done" PROVE RanThrough'
      <4>1. repo = Before /\ at = Len(recipe) + 1
        BY <1>0, <3>1, <3>2 DEF Reached
      <4>2. repo = AsWritten
        BY <1>0, <4>1 DEF Before, AsWritten
      <4>3. AsWritten' = AsWritten
        BY <1>0, <2>1 DEF AsWritten
      <4>4. ~repo.conflict
        BY <1>0, <2>4 DEF Conflicts, IsOver, Waiting, NoStop
      <4> QED BY <2>1, <4>2, <4>3, <4>4 DEF RanThrough
    <3> QED BY <2>2, <3>1, <3>2
  <2> QED BY <2>3, <2>4
<1>2. CASE Tick
  <2>1. /\ UNCHANGED <<repo, at, skips, begun, resume, outcome>> /\ pc = "tick"
        /\ stop = NoStop /\ stop'.kind # "Conflict"
        /\ pc' = "run" => cmd' = resume
    BY <1>2 DEF Tick, Waiting, StopAt, StopOf, NoStop, told
  <2>2. Here' = Here /\ Commands(Here)' = Commands(Here) /\ Before' = Before
    BY <1>0, <2>1, SameStep
  <2>3. Progress' = Progress
    BY <2>1 DEF Progress
  <2>4. stop.kind # "Conflict"
    BY <2>1 DEF NoStop
  <2>5. HasRun(Before)' = HasRun(Before)
    BY <2>1, <2>2, <2>3 DEF HasRun
  <2>6. at <= Len(recipe) => Len(Commands(Here)) \in 0..2
    BY <1>0, StepIs
  <2>7. Reached'
    BY <1>0, <2>1, <2>2, <2>4, <2>5, <2>6 DEF Reached
  <2>8. Behindhand'
    BY <2>1 DEF Behindhand
  <2> QED BY <1>0, <2>1, <2>7, <2>8
<1>3. CASE StepEnds \/ RunCommand \/ CommandFails \/ CommandConflicts \/ NoMessage
  <2>1. pc = "run" /\ at <= Len(recipe) /\ at \in 1..Len(recipe) /\ stop = NoStop
    BY <1>0, <1>3 DEF StepEnds, RunCommand, CommandFails, CommandConflicts, NoMessage, Stepping,
                      Typed, Placed, Waiting
  <2>2. /\ cmd <= Len(Commands(Here)) + 1 /\ HasRun(Before) /\ (at \notin begun => repo = Before)
        /\ resume = 1 \/ resume <= Len(Commands(Here))
    BY <2>1 DEF Reached, NoStop
  <2>3. Len(Commands(Here)) \in 0..2
    BY <1>0, <2>1, StepIs
  <2>4. Progress = cmd
    BY <2>1 DEF Progress
  <2>5. /\ recipe' = recipe /\ at' = at /\ skips' = skips /\ begun' = begun =>
             Here' = Here /\ Commands(Here)' = Commands(Here) /\ Before' = Before
                          /\ (Behindhand => Behindhand')
    BY SameStep DEF Behindhand
  <2>6. CASE StepEnds
    <3>0. /\ cmd > Len(Commands(Here)) /\ repo' = repo /\ skips' = skips /\ begun' = begun
          /\ outcome' = outcome /\ pc' # "run"
      BY <2>6 DEF StepEnds, StopsAs, told
    <3>1. cmd = Len(Commands(Here)) + 1
      BY <1>0, <2>2, <2>3, <3>0
    <3>2. CASE DoneAs("Done")
      <4>1. repo = AllOf(Here, Before)
        <5>1. Progress - 1 = Len(Commands(Here))
          BY <2>3, <2>4, <3>1
        <5>2. ~(Here.block = "commit" /\ Progress = 1)
          <6>1. Here.block = "commit" => Len(Commands(Here)) = 2
            BY <1>0, <2>1, CommandsAre
          <6> QED BY <2>3, <2>4, <3>1, <6>1
        <5> QED BY <2>2, <5>1, <5>2 DEF HasRun, AllOf
      <4>2. at' = at + 1 /\ resume' = 1 /\ stop' = NoStop
        BY <3>2 DEF DoneAs
      <4>3. at \notin skips
        BY <1>0 DEF Behindhand
      <4>4. Before' = AllOf(Here, Before)
        <5>1. Written(recipe, skips)[at] = AllOf(recipe[at], Written(recipe, skips)[at - 1])
          BY <1>0, <2>1, <4>3, WrittenIs
        <5>2. Before' = Written(recipe, skips)[at]
          <6>1. at + 1 - 1 = at
            BY <1>0
          <6> QED BY <1>0, <3>0, <4>2, <6>1 DEF Before
        <5> QED BY <5>1, <5>2 DEF Before, Here
      <4>5. Reached'
        BY <3>0, <4>1, <4>2, <4>4, GoesOn
      <4>6. Behindhand'
        BY <1>0, <3>0, <4>2 DEF Behindhand
      <4> QED BY <1>0, <3>0, <4>5, <4>6
    <3>3. CASE StopsAs("NotClean") \/ StopsAs("CheckFailed")
      <4>1. /\ Here.block \in {"check", "clean"} /\ UNCHANGED <<at, resume>>
        BY <2>6, <3>3 DEF StepEnds, StopsAs, StopAt, StopOf, DoneAs, NoStop
      <4>2. cmd = 1 /\ resume = 1
        <5>1. Len(Commands(Here)) = 0
          BY <1>0, <2>1, <4>1, CommandsAre
        <5> QED BY <1>0, <2>2, <3>1, <5>1
      <4>3. Here' = Here /\ Commands(Here)' = Commands(Here) /\ Before' = Before /\ Behindhand'
        BY <1>0, <2>5, <3>0, <4>1
      <4>4. Progress' = Progress
        BY <2>4, <3>0, <4>1, <4>2 DEF Progress
      <4>5. HasRun(Before)'
        BY <2>2, <3>0, <4>3, <4>4 DEF HasRun
      <4>6. stop'.kind # "Conflict"
        BY <3>3 DEF StopsAs, StopAt, StopOf, NoStop
      <4>7. Reached'
        BY <1>0, <2>1, <2>2, <3>0, <4>1, <4>2, <4>3, <4>5, <4>6 DEF Reached
      <4> QED BY <1>0, <3>0, <4>3, <4>7
    <3> QED BY <2>6, <3>2, <3>3 DEF StepEnds
  <2>7. CASE RunCommand
    <3> DEFINE c == Commands(Here)[cmd]
    <3>1. /\ cmd <= Len(Commands(Here)) /\ repo' = After(c, Here.branch, repo)
          /\ cmd' = cmd + 1 /\ begun' = begun \cup {at}
          /\ UNCHANGED <<at, stop, outcome, resume, skips, pc>>
      BY <2>7 DEF RunCommand, run
    <3>2. cmd \in 1..2 /\ cmd \in 1..Len(Commands(Here))
      BY <1>0, <2>3, <3>1
    <3>3. FirstOf(Here, cmd, Before) = After(c, Here.branch, FirstOf(Here, cmd - 1, Before))
      BY <3>2, FirstOfIs
    <3>4. repo' = FirstOf(Here, cmd, Before)
      <4>1. CASE repo = FirstOf(Here, Progress - 1, Before)
        BY <2>4, <3>1, <3>3, <4>1
      <4>2. CASE Here.block = "commit" /\ Progress = 1 /\ repo = FirstOf(Here, 1, Before)
        <5>1. c = "add" /\ cmd = 1
          BY <1>0, <2>1, <2>4, <4>2, CommandsAre
        <5>2. repo = After("add", Here.branch, Before)
          BY <3>3, <4>2, <5>1, FirstOfIs
        <5>3. repo' = repo
          BY <3>1, <5>1, <5>2, StagedAgain DEF Typed, TypeOK
        <5> QED BY <4>2, <5>1, <5>3
      <4> QED BY <2>2, <4>1, <4>2 DEF HasRun
    <3>5. Here' = Here /\ Commands(Here)' = Commands(Here) /\ Before' = Before
      BY <1>0, <3>1, SameStep
    <3>6. Progress' - 1 = cmd
      BY <1>0, <2>1, <3>1 DEF Progress
    <3>7. HasRun(Before)'
      BY <3>4, <3>5, <3>6 DEF HasRun
    <3>8. at' \in begun' /\ cmd' <= Len(Commands(Here)) + 1
      BY <1>0, <2>3, <3>1
    <3>9. stop'.kind # "Conflict"
      BY <2>1, <3>1 DEF NoStop
    <3> HIDE DEF c
    <3>10. Reached'
      BY <1>0, <2>1, <2>2, <3>1, <3>5, <3>7, <3>8, <3>9 DEF Reached
    <3>11. Behindhand'
      BY <1>0, <2>1, <3>1 DEF Behindhand
    <3> QED BY <1>0, <3>1, <3>10, <3>11
  <2>8. CASE CommandFails
    <3>1. /\ cmd <= Len(Commands(Here)) /\ resume' = StartAgain(cmd) /\ pc' = "told"
          /\ UNCHANGED <<repo, at, outcome, skips, begun>> /\ stop'.kind # "Conflict"
      BY <2>8 DEF CommandFails, StopsAs, StopAt, StopOf, NoStop, told
    <3>2. Here' = Here /\ Commands(Here)' = Commands(Here) /\ Before' = Before /\ Behindhand'
      BY <1>0, <2>5, <3>1
    <3>3. resume' \in 1..cmd
      BY <1>0, <3>1 DEF StartAgain
    <3>4. HasRun(Before)'
      <4>1. CASE resume' = cmd
        <5>1. Progress' = Progress
          BY <2>4, <3>1, <4>1 DEF Progress
        <5> QED BY <2>2, <3>1, <3>2, <5>1 DEF HasRun
      <4>2. CASE resume' # cmd
        <5>1. cmd > 1 /\ Commands(Here)[cmd - 1] = "add" /\ resume' = cmd - 1
          BY <3>1, <4>2 DEF StartAgain
        <5>2. cmd - 1 \in 1..Len(Commands(Here))
          BY <1>0, <2>3, <3>1, <5>1
        <5>3. Here.block = "commit" /\ cmd - 1 = 1
          BY <1>0, <2>1, <5>1, <5>2, CommandsAre
        <5>4. repo = FirstOf(Here, 1, Before)
          BY <2>2, <2>4, <5>3 DEF HasRun
        <5>5. Progress' = 1
          BY <3>1, <5>1, <5>3 DEF Progress
        <5> QED BY <3>1, <3>2, <5>3, <5>4, <5>5 DEF HasRun
      <4> QED BY <4>1, <4>2
    <3>5. Reached'
      BY <1>0, <2>1, <2>2, <2>3, <3>1, <3>2, <3>3, <3>4 DEF Reached
    <3> QED BY <1>0, <3>1, <3>2, <3>5
  <2>9. CASE CommandConflicts
    <3> DEFINE name == Here.block
    <3>1. /\ cmd <= Len(Commands(Here)) /\ name \in {"merge", "pop"}
          /\ Works(name, Here.branch, repo)
          /\ name = "merge" => ~(Content(repo, Here.branch) \subseteq HeadOf(repo))
          /\ repo' = Conflicted(name, Here.branch, repo)
          /\ resume' = StartAgain(cmd) /\ pc' = "told"
          /\ UNCHANGED <<at, outcome, skips, begun>>
          /\ stop' = [NoStop EXCEPT
                        !.kind = "Conflict", !.merge = (name = "merge"),
                        !.source = IF name = "merge" THEN Here.branch ELSE NoBranch,
                        !.stash = IF name = "pop" THEN Head(repo.stash).id ELSE 0]
      BY <2>9 DEF CommandConflicts, StopAt, told
    <3>2. Here' = Here /\ Commands(Here)' = Commands(Here) /\ Before' = Before /\ Behindhand'
      BY <1>0, <2>5, <3>1
    <3>3. cmd = 1
      <4>1. Len(Commands(Here)) = 1
        BY <1>0, <2>1, <3>1, CommandsAre
      <4> QED BY <1>0, <3>1, <4>1
    <3>4. repo = Before
      <4>1. Here.block # "commit" /\ Progress - 1 = 0
        BY <2>4, <3>1, <3>3
      <4> QED BY <2>2, <4>1, FirstOfIs DEF HasRun
    <3>5. repo \in Repos /\ HasBranch(repo, repo.on) /\ ~repo.conflict
      BY <1>0, <2>1 DEF Typed, TypeOK, Conflicts, IsOver, NoStop
    <3>6. name = "merge" => Here.branch \in Branches
      BY <1>0, <2>1, StepIs
    <3>7. stop'.kind = "Conflict" /\ stop'.merge = (name = "merge") /\ stop'.inMerger = FALSE
          /\ (name = "merge" => stop'.source = Here.branch)
          /\ (name = "pop" => stop'.stash = Head(repo.stash).id)
      BY <3>1 DEF NoStop
    <3>8. repo' = [Conflicted(name, Here.branch, repo) EXCEPT !.conflict = TRUE]
      <4> DEFINE q == Conflicted(name, Here.branch, repo)
      <4>1. q \in Repos
        BY <3>1, <3>5, <3>6, ConflictEvolves DEF Evolves
      <4>2. q.conflict = TRUE
        BY <3>1, <3>5 DEF Conflicted, Repos
      <4> HIDE DEF q
      <4>3. [q EXCEPT !.conflict = TRUE] = q
        BY <4>1, <4>2 DEF Repos
      <4> QED BY <3>1, <4>3 DEF q
    <3>9. name = IF stop'.merge THEN "merge" ELSE "pop"
      BY <3>1, <3>7
    <3>10. InConflict(Before)'
      <4>1. \E c \in BOOLEAN :
              repo' = [Conflicted(name, Here.branch, repo) EXCEPT !.conflict = c]
        BY <3>8
      <4>2. stop'.merge <=> name = "merge"
        BY <3>7
      <4> HIDE DEF name
      <4> QED BY <3>1, <3>2, <3>4, <3>5, <3>7, <3>9, <4>1, <4>2 DEF InConflict, name
    <3>11. resume' = 1
      BY <3>1, <3>3 DEF StartAgain
    <3>12. Reached'
      BY <1>0, <2>1, <3>1, <3>2, <3>7, <3>10, <3>11 DEF Reached
    <3> QED BY <1>0, <3>1, <3>2, <3>12
  <2>10. CASE NoMessage
    <3>1. /\ cmd = resume /\ pc' # "run" /\ stop'.kind # "Conflict"
          /\ UNCHANGED <<repo, at, outcome, resume, skips, begun>>
      BY <2>10 DEF NoMessage, StopsAs, StopAt, StopOf, NoStop, told
    <3>2. Here' = Here /\ Commands(Here)' = Commands(Here) /\ Before' = Before /\ Behindhand'
      BY <1>0, <2>5, <3>1
    <3>3. Progress' = Progress
      BY <2>4, <3>1 DEF Progress
    <3>4. HasRun(Before)'
      BY <2>2, <3>1, <3>2, <3>3 DEF HasRun
    <3>5. Reached'
      BY <1>0, <2>1, <2>2, <3>1, <3>2, <3>4 DEF Reached
    <3> QED BY <1>0, <3>1, <3>2, <3>5
  <2> QED BY <1>3, <2>6, <2>7, <2>8, <2>9, <2>10
<1>4. CASE Sleep \/ Woken
  <2>1. /\ UNCHANGED <<repo, at, skips, begun, resume, cmd, stop, outcome>>
        /\ pc # "run" /\ pc' # "run"
    BY <1>4 DEF Sleep, Woken, run, past, told
  <2>2. Reached'
    BY <1>0, <2>1, NothingDone
  <2>3. Behindhand'
    BY <2>1 DEF Behindhand
  <2> QED BY <1>0, <2>1, <2>2, <2>3
<1> QED BY <1>1, <1>2, <1>3, <1>4 DEF Thread

(* An answer leaves the run where it is, gives a step up, or finishes what a *)
(* conflict interrupted.                                                   *)
LEMMA AnswerRuns ==
  ASSUME Typed, Conflicts, Behindhand, Reached, Answer, recipe' = recipe, Plain'
  PROVE  /\ Behindhand'
         /\ ~IsOver' => Reached'
         /\ outcome' # "Done"
<1>0. /\ recipe \in Recipes /\ at \in 1..(Len(recipe) + 1) /\ Len(recipe) \in Nat
      /\ Waiting /\ ~IsOver /\ at <= Len(recipe) /\ at \in 1..Len(recipe) /\ outcome = "none"
      /\ pc # "run"
  <2>1. recipe \in Recipes /\ at \in 1..(Len(recipe) + 1)
    BY DEF Typed, TypeOK
  <2>2. Len(recipe) \in Nat
    BY <2>1, RecipeAssumption DEF IsRecipe
  <2> QED BY <2>1, <2>2 DEF Typed, Placed, Answer, Free, IsOver, Stepping
<1>1. UNCHANGED thread
  BY DEF Answer, AnswerEnd, AnswerContinue, AnswerGoOn, AnswerSkip, AnswerOpenMerger,
         AnswerResolved, AnswerAbort, Chosen
<1>2. pc' = pc /\ cmd' = cmd
  BY <1>1 DEF thread
<1>3. stop.kind # "Conflict" =>
        HasRun(Before) /\ (at \notin begun => repo = Before)
  BY <1>0 DEF Reached
<1>4. CASE AnswerEnd \/ AnswerAbort
  <2>1. outcome' = "Ended" /\ UNCHANGED <<at, skips, begun>>
    BY <1>4 DEF AnswerEnd, AnswerAbort, FinishAs, past, told
  <2> QED BY <2>1 DEF IsOver, Behindhand
<1>5. CASE AnswerContinue \/ AnswerGoOn
  <2>1. /\ UNCHANGED <<repo, at, outcome, resume, skips, begun>>
        /\ stop.kind # "Conflict" /\ stop'.kind # "Conflict"
    BY <1>5 DEF AnswerContinue, AnswerGoOn, GoOnHere, StopAt, StopOf, NoStop, Offers, past, told
  <2>2. Reached'
    BY <1>0, <1>2, <2>1, NothingDone
  <2> QED BY <1>0, <2>1, <2>2 DEF Behindhand
<1>6. CASE AnswerSkip
  <2>1. /\ UNCHANGED <<repo, outcome, begun>> /\ skips' = skips \cup {at}
        /\ at' = at + 1 /\ resume' = 1 /\ stop' = NoStop /\ stop.kind = "Failed"
    BY <1>6 DEF AnswerSkip, DoneAs, Offers
  <2>2. at \notin begun
    BY <2>1 DEF Plain
  <2>3. repo = Before
    BY <1>3, <2>1, <2>2
  <2>4. Written(recipe, skips')[at] = Written(recipe, skips')[at - 1]
    BY <1>0, <2>1, WrittenIs
  <2>5. Written(recipe, skips)[at - 1] = Written(recipe, skips')[at - 1]
    <3>1. at - 1 \in 0..Len(recipe) /\ \A n \in 1..(at - 1) : n \in skips <=> n \in skips'
      BY <1>0, <2>1
    <3> QED BY <1>0, <3>1, WrittenAgrees
  <2>6. Before' = Written(recipe, skips')[at]
    <3>1. at' - 1 = at
      BY <1>0, <2>1
    <3> QED BY <3>1 DEF Before
  <2>7. Reached'
    BY <1>0, <1>2, <2>1, <2>3, <2>4, <2>5, <2>6, GoesOn DEF Before
  <2>8. Behindhand'
    BY <1>0, <2>1 DEF Behindhand
  <2> QED BY <1>0, <2>1, <2>7, <2>8
<1>7. CASE AnswerOpenMerger \/ AnswerResolved
  <2> DEFINE r == Before
             b == Here.branch
  <2>1. stop.kind = "Conflict"
    BY <1>7 DEF AnswerOpenMerger, AnswerResolved, Offers
  <2>2. InConflict(r)
    BY <1>0, <2>1 DEF Reached
  <2> HIDE DEF r
  <2>3. r \in Repos /\ HasBranch(r, r.on) /\ ~r.conflict
    BY <2>2 DEF InConflict
  <2>4. ASSUME stop.merge
        PROVE  /\ Here.block = "merge" /\ b \in Branches /\ Works("merge", b, r)
               /\ ~(Content(r, b) \subseteq HeadOf(r)) /\ stop.source = b
    <3>1. Here.block = "merge" /\ Works("merge", b, r) /\ stop.source = b
          /\ ~(Content(r, b) \subseteq HeadOf(r))
      BY <2>2, <2>4 DEF InConflict
    <3> QED BY <1>0, <3>1, StepIs
  <2>5. stop.merge \in BOOLEAN /\ stop.inMerger \in BOOLEAN /\ (stop.inMerger => stop.merge)
    BY DEF Typed, TypeOK, Stops, Stopped
  <2>6. ASSUME ~stop.inMerger
        PROVE  \E c \in BOOLEAN :
                 repo = [Conflicted(Here.block, b, r) EXCEPT !.conflict = c]
    BY <2>2, <2>6 DEF InConflict
  <2>7. CASE AnswerOpenMerger
    <3>1. /\ repo' = MergeAborted(repo) /\ UNCHANGED <<at, outcome, resume, skips, begun>>
          /\ stop' = [stop EXCEPT !.inMerger = TRUE] /\ stop.merge /\ ~stop.inMerger
      BY <2>7 DEF AnswerOpenMerger, Offers, past, told
    <3>2. Here' = Here /\ Commands(Here)' = Commands(Here) /\ Before' = Before
      BY <3>1, SameStep
    <3>3. /\ stop'.kind = "Conflict" /\ stop'.inMerger /\ stop'.merge = stop.merge
          /\ stop'.source = stop.source /\ stop'.stash = stop.stash
      BY <2>1, <3>1 DEF Typed, TypeOK, Stops
    <3>4. repo' = MergeAborted(Conflicted("merge", b, r))
      BY <2>3, <2>4, <2>6, <3>1, MergeElsewhere
    <3>5. InConflict(Before)'
      <4>1. InConflict(r)'
        BY <2>2, <2>3, <2>4, <3>1, <3>2, <3>3, <3>4 DEF InConflict, r
      <4> QED BY <4>1 DEF r
    <3>6. Reached'
      BY <1>0, <1>2, <3>1, <3>2, <3>3, <3>5 DEF Reached
    <3> QED BY <1>0, <3>1, <3>6 DEF Behindhand
  <2>8. CASE AnswerResolved
    <3>1. /\ repo' = Concluded(repo) /\ UNCHANGED <<outcome, skips, begun>>
          /\ at' = at + 1 /\ resume' = 1 /\ stop' = NoStop
          /\ IF stop.inMerger THEN IsMerged(stop.source, repo) ELSE ~repo.conflict
      BY <2>8 DEF AnswerResolved, DoneAs, past, told
    <3>2. repo' = After(Here.block, b, r)
      <4>1. CASE stop.inMerger
        <5>1. \/ repo = MergeAborted(Conflicted("merge", b, r))
              \/ repo = After("merge", b, r)
          BY <2>2, <2>5, <4>1 DEF InConflict
        <5>2. ~IsMerged(b, MergeAborted(Conflicted("merge", b, r)))
          <6> DEFINE p == [Conflicted("merge", b, r) EXCEPT !.conflict = FALSE]
          <6>1. p = [Conflicted("merge", b, r) EXCEPT !.conflict = FALSE]
            OBVIOUS
          <6> HIDE DEF p
          <6> QED BY <2>3, <2>4, <2>5, <4>1, <6>1, MergeElsewhere
        <5>3. repo = After("merge", b, r)
          BY <2>4, <2>5, <3>1, <4>1, <5>1, <5>2
        <5> QED BY <2>4, <2>5, <3>1, <4>1, <5>3 DEF Concluded
      <4>2. CASE ~stop.inMerger
        <5>1. PICK c \in BOOLEAN : repo = [Conflicted(Here.block, b, r) EXCEPT !.conflict = c]
          BY <2>6, <4>2
        <5>2. c = FALSE
          <6>1. DOMAIN Conflicted(Here.block, b, r) = DOMAIN r /\ "conflict" \in DOMAIN r
            BY <2>3 DEF Conflicted, Repos
          <6>2. repo.conflict = c
            BY <5>1, <6>1
          <6> QED BY <3>1, <4>2, <6>2
        <5>3. CASE stop.merge
          <6>0. repo = [Conflicted("merge", b, r) EXCEPT !.conflict = FALSE]
            BY <2>4, <5>1, <5>2, <5>3
          <6>1. repo.merging = b /\ MergeCommitted(repo) = After("merge", b, r)
            <7>1. /\ b \in Branches /\ Works("merge", b, r)
                  /\ ~(Content(r, b) \subseteq HeadOf(r))
              BY <2>4, <5>3
            <7> QED BY <2>3, <6>0, <7>1, MergeResolved
          <6>2. b # NoMerge
            BY <2>4, <5>3, StartIs
          <6>3. Concluded(repo) = MergeCommitted(repo)
            BY <4>2, <5>3, <6>1, <6>2 DEF Concluded
          <6> QED BY <2>4, <3>1, <5>3, <6>1, <6>3
        <5>4. CASE ~stop.merge
          <6>1. Here.block = "pop" /\ Works("pop", b, r) /\ stop.stash = Head(r.stash).id
            BY <2>2, <5>4 DEF InConflict
          <6>0. repo = [Conflicted("pop", b, r) EXCEPT !.conflict = FALSE]
            BY <5>1, <5>2, <6>1
          <6>2. repo.stash = r.stash /\ [repo EXCEPT !.stash = Tail(@)] = After("pop", b, r)
            BY <2>3, <6>0, PopResolved
          <6>3. repo.stash # <<>> /\ Head(repo.stash).id = stop.stash
            BY <6>1, <6>2 DEF Works
          <6>4. Concluded(repo) = [repo EXCEPT !.stash = Tail(@)]
            BY <4>2, <5>4, <6>3 DEF Concluded
          <6> QED BY <3>1, <6>1, <6>2, <6>4
        <5> QED BY <5>3, <5>4
      <4> QED BY <4>1, <4>2
    <3>3. Commands(Here) = <<Here.block>>
      <4>1. Here.block \in {"merge", "pop"}
        BY <2>2 DEF InConflict
      <4> QED BY <1>0, <4>1, CommandsAre
    <3>4. AllOf(Here, r) = After(Here.block, b, r)
      <4>1. Len(Commands(Here)) = 1 /\ Commands(Here)[1] = Here.block
        BY <3>3
      <4> QED BY <4>1, FirstOfIs DEF AllOf
    <3>5. Before' = AllOf(Here, r)
      <4>1. at \notin skips
        BY <1>0 DEF Behindhand
      <4>2. Written(recipe, skips)[at] = AllOf(Here, r)
        BY <1>0, <4>1, WrittenIs DEF Here, Before, r
      <4>3. at' - 1 = at
        BY <1>0, <3>1
      <4> QED BY <3>1, <4>2, <4>3 DEF Before
    <3>6. Reached'
      BY <1>0, <1>2, <3>1, <3>2, <3>4, <3>5, GoesOn
    <3>7. Behindhand'
      BY <1>0, <3>1 DEF Behindhand
    <3> QED BY <1>0, <3>1, <3>6, <3>7
  <2> QED BY <1>7, <2>7, <2>8
<1> QED BY <1>4, <1>5, <1>6, <1>7 DEF Answer

(* The person resolves a conflict, or makes the merge in Merger.            *)
LEMMA PersonHelps ==
  ASSUME Typed, Conflicts, Reached, Edit, recipe' = recipe, Plain', ~IsOver
  PROVE  Reached'
<1>0. /\ recipe \in Recipes /\ at \in 1..(Len(recipe) + 1) /\ Len(recipe) \in Nat
      /\ repo \in Repos /\ HasBranch(repo, repo.on)
      /\ UNCHANGED <<at, stop, resume, pc, cmd, skips, begun>>
  <2>1. recipe \in Recipes /\ at \in 1..(Len(recipe) + 1)
        /\ repo \in Repos /\ HasBranch(repo, repo.on)
    BY DEF Typed, TypeOK
  <2>2. Len(recipe) \in Nat
    BY <2>1, RecipeAssumption DEF IsRecipe
  <2> QED BY <2>1, <2>2 DEF Edit, run, thread
<1>1. Here' = Here /\ Commands(Here)' = Commands(Here) /\ Before' = Before
  BY <1>0, SameStep
<1>2. Resolve \/ MergeInMerger
  BY DEF Edit, ChangeIt, Plain
<1>3. stop.kind = "Conflict" /\ (MergeInMerger => stop.inMerger) /\ (Resolve => ~stop.inMerger)
  BY <1>2 DEF Resolve, MergeInMerger, Conflicts, Typed, Stopped
<1>4. at <= Len(recipe)
  <2>1. Waiting
    BY <1>3 DEF Waiting, NoStop
  <2> QED BY <2>1 DEF Typed, Placed
<1> DEFINE r == Before
           b == Here.branch
<1>5. InConflict(r)
  BY <1>3, <1>4 DEF Reached
<1> HIDE DEF r
<1>6. r \in Repos /\ HasBranch(r, r.on) /\ ~r.conflict
  BY <1>5 DEF InConflict
<1>7. InConflict(r)'
  <2>1. CASE Resolve
    <3>1. repo' = [repo EXCEPT !.conflict = FALSE] /\ ~stop.inMerger
      BY <1>3, <2>1 DEF Resolve
    <3>2. PICK c \in BOOLEAN : repo = [Conflicted(Here.block, b, r) EXCEPT !.conflict = c]
      BY <1>5, <3>1 DEF InConflict
    <3>3. repo' = [Conflicted(Here.block, b, r) EXCEPT !.conflict = FALSE]
      BY <3>1, <3>2
    <3>4. \E d \in BOOLEAN : repo' = [Conflicted(Here.block, b, r) EXCEPT !.conflict = d]
      BY <3>3
    <3> QED BY <1>0, <1>1, <1>5, <3>1, <3>4 DEF InConflict, r
  <2>2. CASE MergeInMerger
    <3>1. /\ repo' = After("merge", stop.source, repo) /\ stop.inMerger /\ stop.merge
      BY <1>3, <2>2 DEF MergeInMerger, Typed, Stopped
    <3>2. /\ Here.block = "merge" /\ Works("merge", b, r) /\ stop.source = b
          /\ ~(Content(r, b) \subseteq HeadOf(r))
          /\ \/ repo = MergeAborted(Conflicted("merge", b, r))
             \/ repo = After("merge", b, r)
      BY <1>5, <3>1 DEF InConflict
    <3>3. b \in Branches
      BY <1>0, <1>4, <3>2, StepIs
    <3>4. repo' = After("merge", b, r)
      <4> DEFINE p == [Conflicted("merge", b, r) EXCEPT !.conflict = FALSE]
      <4>1. p = [Conflicted("merge", b, r) EXCEPT !.conflict = FALSE]
        OBVIOUS
      <4> HIDE DEF p
      <4>2. /\ MergeAborted(p) = MergeAborted(Conflicted("merge", b, r))
            /\ After("merge", b, MergeAborted(p)) = After("merge", b, r)
            /\ After("merge", b, After("merge", b, r)) = After("merge", b, r)
        BY <1>6, <3>2, <3>3, <4>1, MergeElsewhere
      <4> QED BY <3>1, <3>2, <4>2
    <3> QED BY <1>0, <1>1, <1>5, <3>1, <3>2, <3>4 DEF InConflict, r
  <2> QED BY <1>2, <2>1, <2>2
<1>8. InConflict(Before)' /\ stop'.kind = "Conflict"
  BY <1>0, <1>3, <1>7 DEF r
<1> QED BY <1>0, <1>1, <1>4, <1>8 DEF Reached

(* A step leaves the run as far as it is.                                  *)
LEMMA AsFarStays ==
  ASSUME Typed, Conflicts, AsFar, [Next]_vars
  PROVE  AsFar'
<1>0. /\ recipe' = recipe /\ (Plain' => Plain \/ outcome' = "Undone") /\ (live' => live)
  BY PlainWas
<1>1. undoing \in Nat /\ skips \subseteq DOMAIN recipe /\ at \in 1..(Len(recipe) + 1)
  BY DEF Typed, TypeOK
<1>2. Behindhand
  BY DEF AsFar
<1>3. AsWritten' = AsWritten \/ skips' # skips
  BY <1>0 DEF AsWritten
<1>4. ASSUME UNCHANGED <<repo, at, skips, begun, resume, cmd, stop, outcome>>,
             pc' = "run" <=> pc = "run"
      PROVE  AsFar'
  <2>1. Behindhand'
    BY <1>2, <1>4 DEF Behindhand
  <2>2. ASSUME Plain', live', ~IsOver' PROVE Reached'
    <3>1. Plain /\ live /\ ~IsOver
      BY <1>0, <1>4, <2>2 DEF IsOver
    <3>2. Reached
      BY <3>1 DEF AsFar
    <3> QED BY <1>0, <1>4, <3>2, NothingDone
  <2>3. Plain' /\ outcome' = "Done" => RanThrough'
    BY <1>0, <1>3, <1>4 DEF AsFar, RanThrough
  <2> QED BY <2>1, <2>2, <2>3 DEF AsFar
<1>5. CASE Thread
  <2>1. live /\ undoing' = undoing
    BY <1>5 DEF Typed, Placed, Thread, TickEnds, Tick, StepEnds, RunCommand, CommandFails,
                CommandConflicts, NoMessage, Sleep, Woken, Stepping, shell
  <2>2. CASE IsOver
    <3>1. UNCHANGED <<repo, at, skips, begun, resume, cmd, stop, outcome>>
          /\ pc # "run" /\ pc' # "run"
      BY <1>5, <2>2 DEF Thread, TickEnds, Tick, StepEnds, RunCommand, CommandFails,
                        CommandConflicts, NoMessage, Sleep, Woken, Stepping, Typed, Placed, run,
                        past, told
    <3> QED BY <1>4, <3>1
  <2>3. CASE ~IsOver /\ Plain
    <3>1. Reached /\ undoing = 0
      BY <2>1, <2>3 DEF AsFar, Plain
    <3>2. Behindhand' /\ (~IsOver' => Reached') /\ (outcome' = "Done" => RanThrough')
      BY <1>2, <1>5, <2>1, <2>3, <3>1, ThreadRuns
    <3> QED BY <3>2 DEF AsFar
  <2>4. CASE ~IsOver /\ ~Plain
    <3>1. ~Plain'
      <4>1. outcome' # "Undone"
        BY <1>5, <2>4 DEF Thread, TickEnds, Tick, StepEnds, RunCommand, CommandFails,
                          CommandConflicts, NoMessage, Sleep, Woken, FinishAs, IsOver, run
      <4> QED BY <1>0, <2>4, <4>1
    <3>2. Behindhand'
      <4>1. at' \in {at, at + 1} /\ skips' = skips /\ begun' \in {begun, begun \cup {at}}
        BY <1>5 DEF Thread, TickEnds, Tick, StepEnds, RunCommand, CommandFails,
                    CommandConflicts, NoMessage, Sleep, Woken, FinishAs, StopsAs, DoneAs, run,
                    past, told
      <4> QED BY <1>1, <1>2, <4>1 DEF Behindhand
    <3> QED BY <3>1, <3>2 DEF AsFar
  <2> QED BY <2>2, <2>3, <2>4
<1>6. CASE Press
  <2>1. CASE Answer
    <3>1. live /\ undoing = 0 /\ ~IsOver /\ live' = live
      BY <2>1 DEF Answer, Free, Typed, Placed, AnswerEnd, AnswerContinue, AnswerGoOn, AnswerSkip,
                  AnswerOpenMerger, AnswerResolved, AnswerAbort, Chosen
    <3>2. CASE Plain'
      <4>1. outcome' # "Undone"
        BY <2>1, <3>1 DEF Answer, AnswerEnd, AnswerContinue, AnswerGoOn, AnswerSkip,
                          AnswerOpenMerger, AnswerResolved, AnswerAbort, FinishAs, IsOver
      <4>2. Reached
        BY <1>0, <3>1, <3>2, <4>1 DEF AsFar
      <4>3. Behindhand' /\ (~IsOver' => Reached') /\ outcome' # "Done"
        BY <1>0, <1>2, <2>1, <3>2, <4>2, AnswerRuns
      <4> QED BY <4>3 DEF AsFar
    <3>3. CASE ~Plain'
      <4>1. /\ \/ at' = at /\ skips' = skips
               \/ at' = at + 1 /\ skips' \in {skips, skips \cup {at}}
            /\ begun' = begun
        BY <2>1 DEF Answer, AnswerEnd, AnswerContinue, AnswerGoOn, AnswerSkip, AnswerOpenMerger,
                    AnswerResolved, AnswerAbort, GoOnHere, DoneAs, past, told
      <4>2. Behindhand'
        BY <1>1, <1>2, <4>1 DEF Behindhand
      <4> QED BY <3>3, <4>2 DEF AsFar
    <3> QED BY <3>2, <3>3
  <2>2. CASE PressStop
    <3>1. UNCHANGED <<repo, at, skips, begun, pc, cmd>>
      BY <2>2 DEF PressStop, run, thread, past, told
    <3>2. CASE Free /\ Waiting
      <4>1. outcome' = "Ended"
        BY <2>2, <3>2 DEF PressStop, FinishAs
      <4> QED BY <1>2, <3>1, <4>1 DEF AsFar, IsOver, Behindhand
    <3>3. CASE ~(Free /\ Waiting)
      <4>1. UNCHANGED <<resume, stop, outcome>>
        BY <2>2, <3>3 DEF PressStop, run
      <4> QED BY <1>4, <3>1, <4>1
    <3> QED BY <3>2, <3>3
  <2>3. CASE PressUndo
    <3>1. UNCHANGED <<repo, at, skips, begun, resume, pc, cmd, stop, outcome>>
      BY <2>3 DEF PressUndo, run, thread, past, told
    <3> QED BY <1>4, <3>1
  <2> QED BY <1>6, <2>1, <2>2, <2>3 DEF Press
<1>7. CASE Send
  <2>1. UNCHANGED <<repo, at, skips, begun, resume, pc, cmd, stop, outcome>>
    BY <1>7 DEF Send, run, past, told
  <2> QED BY <1>4, <2>1
<1>8. CASE Undo
  <2>1. UNCHANGED <<at, skips, begun>> /\ undoing > 0
    BY <1>1, <1>8, StepNames DEF Undo, UndoStep, UndoFails, UndoEnds, run, past, told
  <2>2. Behindhand' /\ ~Plain
    BY <1>2, <2>1 DEF Behindhand, Plain
  <2>3. CASE UndoEnds
    <3>1. outcome' = "Undone"
      BY <2>3 DEF UndoEnds, FinishAs
    <3> QED BY <2>2, <3>1 DEF AsFar, IsOver
  <2>4. CASE UndoStep \/ UndoFails
    <3>1. outcome' = outcome
      BY <2>4 DEF UndoStep, UndoFails, run
    <3>2. ~Plain'
      <4>1. CASE UndoStep
        <5>1. undoing' \in {undoing, undoing + 1}
          BY <4>1 DEF UndoStep
        <5> QED BY <1>1, <2>1, <5>1 DEF Plain
      <4>2. CASE UndoFails
        BY <4>2 DEF UndoFails, Plain
      <4> QED BY <2>4, <4>1, <4>2
    <3> QED BY <2>2, <3>2 DEF AsFar
  <2> QED BY <1>8, <2>3, <2>4 DEF Undo
<1>9. CASE Edit
  <2>1. UNCHANGED <<at, skips, begun, resume, pc, cmd, stop, outcome, live>>
    BY <1>9 DEF Edit, run, thread, shell
  <2>2. Behindhand'
    BY <1>2, <2>1 DEF Behindhand
  <2>3. ASSUME Plain', live', ~IsOver' PROVE Reached'
    <3>1. Plain /\ live /\ ~IsOver
      BY <1>0, <2>1, <2>3 DEF IsOver
    <3>2. Reached
      BY <3>1 DEF AsFar
    <3> QED BY <1>0, <1>9, <2>3, <3>1, <3>2, PersonHelps
  <2>4. ASSUME Plain', outcome' = "Done" PROVE RanThrough'
    <3>1. RanThrough /\ IsOver
      BY <1>0, <2>1, <2>4 DEF AsFar, IsOver
    <3>2. ~stop.inMerger
      BY <3>1 DEF Typed, Placed, Waiting, NoStop
    <3>3. FALSE
      BY <1>9, <2>4, <3>1, <3>2 DEF Edit, Resolve, MergeInMerger, ChangeIt, RanThrough, Plain
    <3> QED BY <3>3
  <2> QED BY <2>2, <2>3, <2>4 DEF AsFar
<1>10. CASE Crash
  <2>1. UNCHANGED <<repo, at, skips, begun, outcome>> /\ ~live'
    BY <1>10 DEF Crash
  <2>2. Behindhand'
    BY <1>2, <2>1 DEF Behindhand
  <2>3. Plain' /\ outcome' = "Done" => RanThrough'
    BY <1>0, <1>3, <2>1 DEF AsFar, RanThrough
  <2> QED BY <2>1, <2>2, <2>3 DEF AsFar
<1>11. CASE UNCHANGED vars
  <2>1. UNCHANGED <<repo, at, skips, begun, resume, pc, cmd, stop, outcome>>
    BY <1>11 DEF vars, run, thread, past, told
  <2> QED BY <1>4, <2>1
<1> QED BY <1>5, <1>6, <1>7, <1>8, <1>9, <1>10, <1>11 DEF Next

(* A run that comes to its end has done what its recipe says: each step's   *)
(* commands once and in order, whatever failed and was run again,           *)
(* conflicted and was resolved, or was made in Merger on the way (run.rs).   *)
THEOREM RunsAsWritten == Spec => []RanAsWritten
<1>0. Init => Conflicts
  BY StartIs DEF Init, Conflicts
<1>1. Init => AsFar
  <2> SUFFICES ASSUME Init PROVE AsFar
    OBVIOUS
  <2>2. recipe \in Recipes /\ repo = Start /\ at = 1 /\ skips = {} /\ begun = {}
        /\ stop = NoStop /\ outcome = "none" /\ resume = 1 /\ pc = "tick"
    BY DEF Init
  <2>3. Len(recipe) \in Nat
    BY <2>2, RecipeAssumption DEF IsRecipe
  <2>4. Before = Start
    BY <2>2, <2>3, WrittenIs DEF Before
  <2>5. Progress = 1 /\ stop.kind = "none"
    BY <2>2 DEF Progress, NoStop
  <2>6. HasRun(Before)
    BY <2>2, <2>4, <2>5, FirstOfIs DEF HasRun
  <2>7. Reached
    BY <2>2, <2>4, <2>5, <2>6 DEF Reached
  <2> QED BY <2>2, <2>7 DEF AsFar, Behindhand
<1>2. Typed /\ Conflicts /\ AsFar /\ [Next]_vars => Conflicts' /\ AsFar'
  BY ConflictsStay, AsFarStays
<1>3. AsFar => RanAsWritten
  BY DEF AsFar, RanThrough, RanAsWritten, Untouched, Plain
<1> QED BY <1>0, <1>1, <1>2, <1>3, SpecTyped, PTL DEF Spec

-----------------------------------------------------------------------------
(* A step that is left out.                                                *)

(* No recipe has a step of more than one command.                          *)
OneCommand == \A r \in Recipes : \A i \in DOMAIN r : r[i].block \notin {"commit", "squash"}

(* A step has begun only while it is about to be behind.                    *)
WholeSteps ==
  /\ Behindhand /\ skips \cap begun = {} /\ resume = 1
  /\ live /\ at \in begun => pc = "run" /\ cmd = 2 /\ Commands(Here) # <<>>

LEMMA WholeStepsStay ==
  ASSUME OneCommand, Typed, WholeSteps, [Next]_vars
  PROVE  WholeSteps'
<1>0. /\ recipe' = recipe /\ (live' => live) /\ at \in 1..(Len(recipe) + 1)
      /\ recipe \in Recipes /\ skips \subseteq 1..(at - 1) /\ begun \subseteq 1..at
      /\ cmd \in 1..3 /\ resume = 1
  BY PlainWas DEF Typed, TypeOK, WholeSteps, Behindhand
<1>1. ASSUME UNCHANGED <<at, skips, begun, resume>>, live' => (at \in begun => pc' = pc /\ cmd' = cmd)
      PROVE  WholeSteps'
  BY <1>0, <1>1, SameStep DEF WholeSteps, Behindhand
<1>2. ASSUME at' = at + 1, resume' = 1, begun' = begun, skips' = skips
      PROVE  WholeSteps'
  BY <1>0, <1>2 DEF WholeSteps, Behindhand
<1>3. ASSUME pc = "run", at <= Len(recipe)
      PROVE  /\ Len(Commands(Here)) \in 0..1
             /\ StartAgain(1) = 1
             /\ Here.block \in {"check", "clean"} => Commands(Here) = <<>>
  <2>1. Here.block \notin {"commit", "squash"} /\ at \in DOMAIN recipe
    BY <1>0, <1>3, StepIs DEF OneCommand, Here
  <2> QED BY <2>1 DEF Commands, StartAgain
<1>4. CASE Thread
  <2>1. CASE TickEnds \/ Tick \/ Sleep \/ Woken
    <3>1. UNCHANGED <<at, skips, begun, resume>> /\ pc # "run"
      BY <2>1 DEF TickEnds, Tick, Sleep, Woken, run, past, told
    <3>2. live => at \notin begun
      BY <3>1 DEF WholeSteps
    <3> QED BY <1>0, <1>1, <3>1, <3>2
  <2>2. CASE StepEnds \/ RunCommand \/ CommandFails \/ CommandConflicts \/ NoMessage
    <3>1. pc = "run" /\ at <= Len(recipe) /\ live
      BY <2>2 DEF StepEnds, RunCommand, CommandFails, CommandConflicts, NoMessage, Stepping,
                  Typed, Placed
    <3>2. Len(Commands(Here)) \in 0..1 /\ StartAgain(1) = 1
          /\ (Here.block \in {"check", "clean"} => Commands(Here) = <<>>)
      BY <1>3, <3>1
    <3>3. cmd <= Len(Commands(Here)) => cmd = 1 /\ cmd + 1 = 2 /\ Commands(Here) # <<>>
      <4> DEFINE n == Len(Commands(Here))
      <4>1. Commands(Here) = <<>> => n = 0
        OBVIOUS
      <4>2. n \in 0..1 /\ cmd \in 1..3
        BY <1>0, <3>2
      <4> HIDE DEF n
      <4>3. cmd <= n => cmd = 1 /\ n # 0
        BY <4>2
      <4> QED BY <4>1, <4>3 DEF n
    <3>4. CASE StepEnds
      <4>1. CASE DoneAs("Done")
        <5>1. at' = at + 1 /\ resume' = 1 /\ UNCHANGED <<skips, begun>>
          BY <3>4, <4>1 DEF StepEnds, DoneAs, told
        <5> QED BY <1>2, <5>1
      <4>2. CASE ~DoneAs("Done")
        <5>1. Here.block \in {"check", "clean"} /\ UNCHANGED <<at, skips, begun, resume>>
          BY <3>4, <4>2 DEF StepEnds, told
        <5>2. at \notin begun
          BY <3>1, <3>2, <5>1 DEF WholeSteps
        <5> QED BY <1>0, <1>1, <5>1, <5>2
      <4> QED BY <4>1, <4>2
    <3>5. CASE RunCommand
      <4>1. /\ cmd <= Len(Commands(Here)) /\ cmd' = cmd + 1 /\ begun' = begun \cup {at}
            /\ UNCHANGED <<at, skips, resume, pc>>
        BY <3>5 DEF RunCommand, run
      <4>2. cmd = 1 /\ cmd' = 2 /\ Commands(Here) # <<>>
        BY <1>0, <3>1, <3>3, <4>1
      <4>3. at \notin skips
        BY <1>0
      <4>4. Commands(Here)' # <<>>
        BY <1>0, <4>1, <4>2, SameStep
      <4> QED BY <1>0, <3>1, <4>1, <4>2, <4>3, <4>4 DEF WholeSteps, Behindhand
    <3>6. CASE CommandFails \/ CommandConflicts
      <4>1. /\ cmd <= Len(Commands(Here)) /\ resume' = StartAgain(cmd)
            /\ UNCHANGED <<at, skips, begun>>
        BY <3>6 DEF CommandFails, CommandConflicts, told
      <4>2. cmd = 1
        BY <1>0, <3>3, <4>1
      <4>3. at \notin begun
        BY <3>1, <4>2 DEF WholeSteps
      <4> QED BY <1>0, <1>1, <3>2, <4>1, <4>2, <4>3
    <3>7. CASE NoMessage
      <4>1. cmd = resume /\ UNCHANGED <<at, skips, begun, resume>>
        BY <3>7 DEF NoMessage, told
      <4>2. at \notin begun
        BY <1>0, <3>1, <4>1 DEF WholeSteps
      <4> QED BY <1>1, <4>1, <4>2
    <3> QED BY <2>2, <3>4, <3>5, <3>6, <3>7
  <2> QED BY <1>4, <2>1, <2>2 DEF Thread
<1>5. CASE Press
  <2>1. CASE Answer
    <3>1. live /\ pc # "run" /\ at \notin begun
      BY <2>1 DEF Answer, Free, Stepping, WholeSteps
    <3>2. CASE AnswerSkip
      <4>1. at' = at + 1 /\ resume' = 1 /\ skips' = skips \cup {at} /\ begun' = begun
        BY <3>2 DEF AnswerSkip, DoneAs
      <4> QED BY <1>0, <3>1, <4>1 DEF WholeSteps, Behindhand
    <3>3. CASE AnswerResolved
      BY <1>2, <3>3 DEF AnswerResolved, DoneAs, past, told
    <3>4. CASE AnswerEnd \/ AnswerContinue \/ AnswerGoOn \/ AnswerOpenMerger \/ AnswerAbort
      <4>1. UNCHANGED <<at, skips, begun, resume>>
        BY <3>4 DEF AnswerEnd, AnswerContinue, AnswerGoOn, AnswerOpenMerger, AnswerAbort,
                    GoOnHere, past, told
      <4> QED BY <1>1, <3>1, <4>1
    <3> QED BY <2>1, <3>2, <3>3, <3>4 DEF Answer
  <2>2. CASE PressStop \/ PressUndo
    <3>1. UNCHANGED <<at, skips, begun, resume, pc, cmd>>
      BY <2>2 DEF PressStop, PressUndo, run, thread, past, told
    <3> QED BY <1>1, <3>1
  <2> QED BY <1>5, <2>1, <2>2 DEF Press
<1>6. CASE Send \/ Undo \/ Edit \/ UNCHANGED vars
  <2>1. UNCHANGED <<at, skips, begun, resume, pc, cmd>>
    BY <1>6 DEF Send, Undo, UndoStep, UndoFails, UndoEnds, Edit, vars, run, thread, past, told
  <2> QED BY <1>1, <2>1
<1>7. CASE Crash
  <2>1. UNCHANGED <<at, skips, begun, resume>> /\ ~live'
    BY <1>7 DEF Crash
  <2> QED BY <1>1, <2>1
<1> QED BY <1>4, <1>5, <1>6, <1>7 DEF Next

(* run.rs:172: a step that is skipped is left out; it is where no step of a  *)
(* recipe has more than one command, so that what failed has done nothing.  *)
THEOREM SkipLeavesOut ==
  ASSUME OneCommand
  PROVE  Spec => []SkippedIsLeftOut
<1>1. Init => WholeSteps
  <2> SUFFICES ASSUME Init PROVE WholeSteps
    OBVIOUS
  <2>1. at = 1 /\ skips = {} /\ begun = {} /\ resume = 1
    BY DEF Init
  <2> QED BY <2>1 DEF WholeSteps, Behindhand
<1>2. Typed /\ WholeSteps /\ [Next]_vars => WholeSteps'
  BY WholeStepsStay
<1>3. WholeSteps /\ RanAsWritten => SkippedIsLeftOut
  BY DEF WholeSteps, RanAsWritten, SkippedIsLeftOut
<1> QED BY <1>1, <1>2, <1>3, SpecTyped, RunsAsWritten, PTL DEF Spec

-----------------------------------------------------------------------------
(* The thread and its wakes.                                               *)

(* The thread is gone only from a run that is over; while it sleeps, or is  *)
(* about to, the run waits for the person or a wake is on its way.          *)
GoesOrIsWoken ==
  live =>
    /\ pc = "gone" => IsOver
    /\ pc \in {"told", "asleep"} /\ ~Waiting => wakes + sending > 0

LEMMA GoesOrIsWokenStays ==
  ASSUME Typed, GoesOrIsWoken, [Next]_vars
  PROVE  GoesOrIsWoken'
<1>0. wakes \in Nat /\ sending \in Nat /\ NoStop.kind = "none" /\ (live' => live)
  BY PlainWas DEF Typed, TypeOK, NoStop
<1>1. ASSUME pc' = pc, wakes' + sending' > 0, IsOver => IsOver'
      PROVE  GoesOrIsWoken'
  BY <1>0, <1>1 DEF GoesOrIsWoken
<1>2. ASSUME pc' = pc, wakes' = wakes, sending' = sending, stop' = stop, outcome' = outcome
      PROVE  GoesOrIsWoken'
  BY <1>0, <1>2 DEF GoesOrIsWoken, Waiting, IsOver
<1>3. CASE Thread
  <2>1. CASE TickEnds
    <3>1. \/ pc' = "gone" /\ IsOver'
          \/ pc' = "told" /\ Waiting'
      BY <2>1 DEF TickEnds, FinishAs, IsOver, Waiting, run
    <3> QED BY <3>1 DEF GoesOrIsWoken
  <2>2. CASE Tick
    <3>1. pc' = "run" \/ (pc' = "told" /\ stop'.kind # "none")
      BY <2>2 DEF Tick, StopAt, StopOf, NoStop
    <3> QED BY <1>0, <3>1 DEF GoesOrIsWoken, Waiting
  <2>3. CASE StepEnds \/ CommandFails \/ NoMessage
    <3>1. pc' = "tick" \/ (pc' = "told" /\ stop'.kind # "none")
      BY <2>3 DEF StepEnds, CommandFails, NoMessage, StopsAs, StopAt, StopOf, NoStop
    <3> QED BY <1>0, <3>1 DEF GoesOrIsWoken, Waiting
  <2>4. CASE CommandConflicts
    <3>1. pc' = "told" /\ stop'.kind # "none"
      BY <2>4 DEF CommandConflicts, StopAt, NoStop
    <3> QED BY <1>0, <3>1 DEF GoesOrIsWoken, Waiting
  <2>5. CASE RunCommand \/ Woken
    <3>1. pc' \in {"run", "tick"}
      BY <2>5 DEF RunCommand, Woken, Stepping
    <3> QED BY <3>1 DEF GoesOrIsWoken
  <2>6. CASE Sleep
    <3>1. pc = "told" /\ pc' = "asleep" /\ UNCHANGED <<wakes, sending, stop>>
      BY <2>6 DEF Sleep, run, shell
    <3> QED BY <1>0, <3>1 DEF GoesOrIsWoken, Waiting
  <2> QED BY <1>3, <2>1, <2>2, <2>3, <2>4, <2>5, <2>6 DEF Thread
<1>4. CASE Press
  <2>1. CASE Answer
    <3>1. pc' = pc /\ wakes' = wakes /\ sending' = sending + 1 /\ ~IsOver
      BY <2>1 DEF Answer, AnswerEnd, AnswerContinue, AnswerGoOn, AnswerSkip, AnswerOpenMerger,
                  AnswerResolved, AnswerAbort, Chosen, thread, Typed, Placed
    <3> QED BY <1>0, <1>1, <3>1
  <2>2. CASE PressStop
    <3>1. pc' = pc /\ wakes' = wakes /\ sending' = sending + 1
      BY <2>2 DEF PressStop, thread
    <3>2. IsOver => IsOver'
      BY <2>2 DEF PressStop, Typed, Placed, IsOver, FinishAs, run
    <3> QED BY <1>0, <1>1, <3>1, <3>2
  <2>3. CASE PressUndo
    BY <1>2, <2>3 DEF PressUndo, run, thread
  <2> QED BY <1>4, <2>1, <2>2, <2>3 DEF Press
<1>5. CASE Send
  <2>1. pc' = pc /\ wakes' = wakes + 1 /\ sending > 0 /\ sending' = sending - 1
        /\ outcome' = outcome
    BY <1>5 DEF Send, run
  <2>2. wakes' + sending' > 0
    BY <1>0, <2>1
  <2> QED BY <1>1, <2>1, <2>2 DEF IsOver
<1>6. CASE Undo
  <2>1. CASE UndoStep \/ UndoFails
    BY <1>2, <2>1 DEF UndoStep, UndoFails, run, thread
  <2>2. CASE UndoEnds /\ live
    <3>1. pc' = pc /\ wakes' = wakes /\ sending' = sending + 1 /\ IsOver'
      BY <2>2 DEF UndoEnds, FinishAs, IsOver, thread
    <3> QED BY <1>0, <1>1, <3>1
  <2>3. CASE UndoEnds /\ ~live
    BY <1>0, <2>3 DEF GoesOrIsWoken
  <2> QED BY <1>6, <2>1, <2>2, <2>3 DEF Undo
<1>7. CASE Edit \/ UNCHANGED vars
  BY <1>2, <1>7 DEF Edit, vars, run, thread, shell
<1>8. CASE Crash
  BY <1>8 DEF Crash, GoesOrIsWoken
<1> QED BY <1>3, <1>4, <1>5, <1>6, <1>7, <1>8 DEF Next

(* recipes.rs:604-626: the thread of a run that was answered, stopped or     *)
(* undone is woken, though the answer is taken before it sleeps, while it    *)
(* does, or while it was woken for another.                                *)
THEOREM NoWakeIsLost == Spec => []GoesOrIsWoken
<1>1. Init => GoesOrIsWoken
  BY DEF Init, GoesOrIsWoken
<1>2. Typed /\ GoesOrIsWoken /\ [Next]_vars => GoesOrIsWoken'
  BY GoesOrIsWokenStays
<1> QED BY <1>1, <1>2, SpecTyped, PTL DEF Spec
=============================================================================

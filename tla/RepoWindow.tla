------------------------------ MODULE RepoWindow ------------------------------
(***************************************************************************)
(* The open repository as the window shows it.  The shell keeps one        *)
(* session: a repository, the walk that streams its history and the        *)
(* watcher that says it changed.  The window asks for repositories to be   *)
(* opened and closed, for the walk to be started again and for more of its *)
(* rows, each with a command that runs on a thread of its own; its answer, *)
(* and the events of the walks and of the watchers, come back when they    *)
(* do.                                                                     *)
(*                                                                         *)
(* A command's step is what it does under the session's lock, one look at  *)
(* the repository, or its answer reaching the window.  Answers are not     *)
(* kept in order; the events of one walk are.  A history is its number of  *)
(* rows, a row the walk it came from, and the rows of a walk on their way  *)
(* arrive some at a time.                                                  *)
(* HEAD and the counts, with the reads that refresh them, selection,       *)
(* lanes, recents, tabs and the choice of order and refs are left out, and *)
(* so are hook records and a platform that cannot watch.                   *)
(*                                                                         *)
(* Source: src-tauri/src/commands.rs, graph_worker.rs, watch.rs and        *)
(* src/lib/repo.svelte.ts, src/lib/graph/store.svelte.ts.                  *)
(***************************************************************************)
EXTENDS Integers, Sequences

CONSTANTS
  Repos,        \* the repositories that can be opened
  None,         \* no repository
  Calls,        \* bound: commands on their way at once, as numbers from 1
  Length,       \* [0..MaxMoves -> rows of the history after so many changes]
  Batch,        \* BATCH
  FirstWindow,  \* FIRST_WINDOW
  NextWindow,   \* NEXT_WINDOW
  Prefetch,     \* PREFETCH
  Endless,      \* other programs may write files, not refs, for ever
  MaxMoves,     \* bound: what the person and other programs do besides
  MaxTokens,    \* bound: walks
  MaxRows       \* bound: rows of a history

ASSUME WindowAssumption ==
  /\ None \notin Repos
  /\ Endless \in BOOLEAN /\ MaxMoves \in Nat /\ MaxTokens \in Nat \ {0}
  /\ MaxRows \in Nat /\ Length \in [0..MaxMoves -> 0..MaxRows]
  /\ Calls \subseteq Nat \ {0}
  /\ {Batch, FirstWindow, NextWindow} \subseteq Nat \ {0}
  /\ Prefetch \in Nat

Tickets == 1..MaxMoves
Tokens == 1..MaxTokens
Requests == {"rows", "reloaded", "chosen"}

VARIABLES
  disk,      \* [Repos -> how often its refs were changed]
  moves,
  \* the shell
  session,   \* the open repository, NoSession when there is none
  lock,      \* the command that holds the session's lock while it joins, or 0
  opened,    \* the latest ticket
  made,      \* the latest token
  settled,   \* history: the latest ticket that was installed, or closed with
  walk,      \* [Tokens -> the walk's worker]
  watch,     \* [Tickets -> the watcher started by that open]
  \* between the shell and the window
  calls,     \* [Calls -> the command]
  heard,     \* [Tokens -> rows of the walk that reached the window]
  word,      \* [Tokens -> how the walk ended, while that is on its way]
  changed,   \* how many repo-changed events are on their way
  \* the window
  asked,     \* opens and closes asked for
  shown,     \* info is that of a repository
  token,     \* the walk whose rows are taken, or 0
  timer,     \* a refresh is due
  rows,      \* [1..MaxRows -> the walk of the row shown there, or 0]
  requested,
  complete,
  pendingReset,
  error      \* the graph shows an error

disks  == <<disk, moves>>
shell  == <<session, lock, opened, made, settled>>
graph  == <<rows, requested, complete, pendingReset, error>>
window == <<asked, shown, token, timer, graph>>
events == <<heard, word, changed>>
vars   == <<disks, shell, walk, watch, calls, events, window>>

-------------------------------------------------------------------------------
Smaller(m, n) == IF m <= n THEN m ELSE n
Larger(m, n) == IF m >= n THEN m ELSE n

NoSession == [ticket |-> 0, repo |-> None, token |-> 0]
NoWalk == [pc |-> "none", repo |-> None, seen |-> 0, at |-> 0, budget |-> 0,
           asks |-> <<>>, stop |-> FALSE]
NoWatch == [pc |-> "none", repo |-> None, heard |-> {}, pending |-> {},
            stop |-> FALSE]
Free == [pc |-> "free", kind |-> "none", mine |-> 0, repo |-> None,
         ticket |-> 0, token |-> 0, count |-> 0, old |-> NoSession]

Room == \E c \in Calls : calls[c] = Free

\* cs, and a call on a thread of its own; the threads are alike.
And(cs, call) == [cs EXCEPT ![CHOOSE c \in Calls : cs[c] = Free] = call]

AskFor(kind) == [Free EXCEPT !.pc = "asked", !.kind = kind]
AskRows(kind, t, n) == [AskFor(kind) EXCEPT !.token = t, !.count = n]

At(c, kind, pc) == calls[c].kind = kind /\ calls[c].pc = pc
Goto(c, pc) == calls' = [calls EXCEPT ![c].pc = pc]

Alive(worker) == worker.pc \notin {"none", "ended"}

\* Dropping a session, or the walk of one: its threads are told to stop.
Stopping(s) ==
  /\ walk' = [t \in Tokens |->
                IF t = s.token THEN [walk[t] EXCEPT !.stop = TRUE] ELSE walk[t]]
  /\ watch' = [k \in Tickets |->
                 IF k = s.ticket THEN [watch[k] EXCEPT !.stop = TRUE]
                                 ELSE watch[k]]

\* Those threads have ended.
Gone(s) ==
  /\ s.token \in Tokens => ~Alive(walk[s.token])
  /\ s.ticket \in Tickets => ~Alive(watch[s.ticket])

NewWalk(r) == [NoWalk EXCEPT !.pc = "idle", !.repo = r]

Init ==
  /\ disk = [r \in Repos |-> 0] /\ moves = 0
  /\ session = NoSession /\ lock = 0
  /\ opened = 0 /\ made = 0 /\ settled = 0
  /\ walk = [t \in Tokens |-> NoWalk]
  /\ watch = [k \in Tickets |-> NoWatch]
  /\ calls = [c \in Calls |-> Free]
  /\ heard = [t \in Tokens |-> 0] /\ word = [t \in Tokens |-> "none"]
  /\ changed = 0
  /\ asked = 0 /\ shown = FALSE /\ token = 0 /\ timer = FALSE
  /\ rows = [i \in 1..MaxRows |-> 0]
  /\ requested = 0
  /\ complete = FALSE /\ pendingReset = FALSE /\ error = FALSE

-------------------------------------------------------------------------------
(* Opening and closing, in the shell.                                      *)

TakeTicket(c) ==
  /\ At(c, "open", "asked")
  /\ opened' = opened + 1
  /\ calls' = [calls EXCEPT ![c].pc = "reading", ![c].ticket = opened + 1]
  /\ UNCHANGED <<disks, session, lock, made, settled, walk, watch, events, window>>

ReadRepository(c) ==
  /\ At(c, "open", "reading")
  /\ Goto(c, "starting") \/ Goto(c, "refused")
  /\ UNCHANGED <<disks, shell, walk, watch, events, window>>

StartWorkers(c) ==
  LET call == calls[c] IN
  /\ At(c, "open", "starting") /\ made < MaxTokens
  /\ made' = made + 1
  /\ walk' = [walk EXCEPT ![made + 1] = NewWalk(call.repo)]
  /\ watch' = [watch EXCEPT ![call.ticket] =
                 [NoWatch EXCEPT !.pc = "waiting", !.repo = call.repo]]
  /\ calls' = [calls EXCEPT ![c].pc = "installing", ![c].token = made + 1]
  /\ UNCHANGED <<disks, session, lock, opened, settled, events, window>>

\* Seeded fault: nobody looks at the ticket.
OvertakenNever(call) == FALSE

Overtaken(call) == opened # call.ticket

\* The session replaced is dropped, and its threads joined, under the lock.
InstallSession(c) ==
  LET call == calls[c] IN
  /\ At(c, "open", "installing") /\ lock = 0
  /\ ~Overtaken(call)
  /\ session' = [ticket |-> call.ticket, repo |-> call.repo, token |-> call.token]
  /\ settled' = Larger(settled, call.ticket)
  /\ Stopping(session)
  /\ lock' = c
  /\ calls' = [calls EXCEPT ![c].pc = "joining", ![c].old = session]
  /\ UNCHANGED <<disks, opened, made, events, window>>

\* Seeded fault: the threads it started run on.
SupersedeOnly(c) ==
  /\ At(c, "open", "installing") /\ lock = 0
  /\ Overtaken(calls[c])
  /\ Goto(c, "dropping")
  /\ UNCHANGED <<disks, shell, walk, watch, events, window>>

\* Overtaken: the threads it started are joined after the lock is let go.
Supersede(c) ==
  LET call == calls[c] IN
  /\ At(c, "open", "installing") /\ lock = 0
  /\ Overtaken(call)
  /\ Stopping(call)
  /\ Goto(c, "dropping")
  /\ UNCHANGED <<disks, shell, events, window>>

Dropped(c) ==
  /\ At(c, "open", "dropping")
  /\ Gone(calls[c])
  /\ Goto(c, "refused")
  /\ UNCHANGED <<disks, shell, walk, watch, events, window>>

CloseRepo(c) ==
  /\ At(c, "close", "asked") /\ lock = 0
  /\ opened' = opened + 1
  /\ settled' = Larger(settled, opened + 1)
  /\ session' = NoSession
  /\ Stopping(session)
  /\ lock' = c
  /\ calls' = [calls EXCEPT ![c].pc = "joining", ![c].old = session]
  /\ UNCHANGED <<disks, made, events, window>>

\* What was replaced has been joined, and the lock is let go.
Joined(c) ==
  /\ calls[c].pc = "joining"
  /\ Gone(calls[c].old)
  /\ lock' = 0
  /\ Goto(c, "done")
  /\ UNCHANGED <<disks, session, opened, made, settled, walk, watch, events, window>>

-------------------------------------------------------------------------------
(* The walk, in the shell.                                                 *)

\* graph_restart, graph_order and graph_visibility: the walk alone is joined.
RestartWalk(c) ==
  /\ \E kind \in {"reload", "choose"} : At(c, kind, "asked")
  /\ lock = 0
  /\ \/ /\ session = NoSession
        /\ Goto(c, "refused")
        /\ UNCHANGED <<session, lock, made, walk, watch>>
     \/ /\ session # NoSession /\ made < MaxTokens
        /\ made' = made + 1
        /\ session' = [session EXCEPT !.token = made + 1]
        /\ walk' = [walk EXCEPT ![made + 1] = NewWalk(session.repo),
                                ![session.token].stop = TRUE]
        /\ lock' = c
        /\ calls' = [calls EXCEPT ![c].pc = "joining", ![c].token = made + 1,
                                  ![c].old = [session EXCEPT !.ticket = 0]]
        /\ UNCHANGED watch
  /\ UNCHANGED <<disks, opened, settled, events, window>>

\* A request for a walk that was replaced is stale, and no error; one that has
\* ended has nothing to deliver.
GraphRequest(c) ==
  LET call == calls[c]
      t == call.token
  IN
  /\ call.kind \in Requests /\ call.pc = "asked"
  /\ lock = 0
  /\ calls' = [calls EXCEPT ![c] =
                 IF session = NoSession THEN [call EXCEPT !.pc = "refused"]
                                        ELSE Free]
  /\ walk' = IF session # NoSession /\ session.token = t /\ Alive(walk[t])
             THEN [walk EXCEPT ![t].asks = Append(@, call.count)]
             ELSE walk
  /\ UNCHANGED <<disks, shell, watch, events, window>>

-------------------------------------------------------------------------------
(* The walk's worker.  Stop is the last it is sent.                        *)

\* It touches the repository at the first request, and sleeps between them.
Wake(t) ==
  /\ walk[t].pc \in {"idle", "asleep"}
  /\ walk[t].asks # <<>>
  /\ walk' = [walk EXCEPT
       ![t].pc = "walking",
       ![t].seen = IF walk[t].pc = "idle" THEN disk[walk[t].repo] ELSE @,
       ![t].budget = Head(walk[t].asks),
       ![t].asks = Tail(@)]
  /\ UNCHANGED <<disks, shell, watch, calls, events, window>>

\* The next rows that are sent together: a batch, or what is left of the
\* request or of the history.
Advance(t) ==
  LET w == walk[t]
      left == Length[w.seen] - w.at
      n == Smaller(Batch, Smaller(w.budget, left))
  IN
  /\ w.pc = "walking"
  /\ left > 0
  /\ walk' = [walk EXCEPT
       ![t].at = @ + n,
       ![t].budget = @ - n,
       ![t].pc = IF w.budget = n THEN "asleep" ELSE @]
  /\ UNCHANGED <<disks, shell, watch, calls, events, window>>

\* The end of the history, or of what can be read of it.
EndWalk(t) ==
  /\ walk[t].pc = "walking"
  /\ \/ /\ walk[t].at = Length[walk[t].seen]
        /\ word' = [word EXCEPT ![t] = "whole"]
     \/ word' = [word EXCEPT ![t] = "failed"]
  /\ walk' = [walk EXCEPT ![t].pc = "ended", ![t].budget = 0, ![t].asks = <<>>]
  /\ UNCHANGED <<disks, shell, watch, calls, heard, changed, window>>

\* A walk that never started ends without a word.
StopWalk(t) ==
  /\ walk[t].pc \in {"idle", "asleep"}
  /\ walk[t].stop /\ walk[t].asks = <<>>
  /\ walk' = [walk EXCEPT ![t].pc = "ended"]
  /\ word' = [word EXCEPT ![t] = IF walk[t].pc = "idle" THEN @ ELSE "stopped"]
  /\ UNCHANGED <<disks, shell, watch, calls, heard, changed, window>>

-------------------------------------------------------------------------------
(* The watcher: what is written is told of once it has been quiet.  It     *)
(* looks whether to stop only while it waits.  An event that tells of      *)
(* files alone refreshes the counts, and is left out.                      *)

Heard(r, kinds) ==
  watch' = [k \in Tickets |->
              IF watch[k].repo = r /\ Alive(watch[k])
              THEN [watch[k] EXCEPT !.heard = @ \union kinds]
              ELSE watch[k]]

\* Seeded fault: only the last event of a burst is told of.
CollectLast(k) ==
  /\ watch[k].pc \in {"waiting", "collecting"}
  /\ watch[k].heard # {}
  /\ watch' = [watch EXCEPT ![k].pc = "collecting", ![k].heard = {},
                            ![k].pending = watch[k].heard]
  /\ UNCHANGED <<disks, shell, walk, calls, events, window>>

\* The first event of a burst, or another one of it.
Collect(k) ==
  /\ watch[k].pc \in {"waiting", "collecting"}
  /\ watch[k].heard # {}
  /\ watch' = [watch EXCEPT ![k].pc = "collecting", ![k].heard = {},
                            ![k].pending = @ \union watch[k].heard]
  /\ UNCHANGED <<disks, shell, walk, calls, events, window>>

Quiet(k) ==
  /\ watch[k].pc = "collecting" /\ watch[k].heard = {}
  /\ watch' = [watch EXCEPT ![k].pc = "waiting", ![k].pending = {}]
  /\ changed' = IF "refs" \in watch[k].pending THEN changed + 1 ELSE changed
  /\ UNCHANGED <<disks, shell, walk, calls, heard, word, window>>

StopWatch(k) ==
  /\ watch[k].pc = "waiting" /\ watch[k].stop
  /\ watch' = [watch EXCEPT ![k].pc = "ended", ![k].heard = {}]
  /\ UNCHANGED <<disks, shell, walk, calls, events, window>>

\* Git, here or elsewhere, moves a ref.
Change(r) ==
  /\ moves < MaxMoves
  /\ moves' = moves + 1
  /\ disk' = [disk EXCEPT ![r] = @ + 1]
  /\ Heard(r, {"refs"})
  /\ UNCHANGED <<shell, walk, calls, events, window>>

\* Something else is written, in the repository or its files.
Write(r) ==
  /\ Endless \/ moves < MaxMoves
  /\ moves' = IF Endless THEN moves ELSE moves + 1
  /\ Heard(r, {"files"})
  /\ UNCHANGED <<disk, shell, walk, calls, events, window>>

-------------------------------------------------------------------------------
(* The window.                                                             *)

\* The handler of each answer and event is run to its end: there is a thread
\* for what it asks for.
Reset ==
  /\ rows' = [i \in 1..MaxRows |-> 0]
  /\ complete' = FALSE /\ pendingReset' = FALSE /\ error' = FALSE

\* restart: the rows go, and the first of the walk t, if any, are asked for.
ShowWalk(cs, t) ==
  /\ token' = t
  /\ Reset
  /\ requested' = IF t = 0 THEN 0 ELSE FirstWindow
  /\ calls' = IF t = 0 THEN cs ELSE And(cs, AskRows("rows", t, FirstWindow))

\* Seeded fault: the rows that are kept are never taken down.
AdoptBeside(cs, t, kind) ==
  /\ token' = t
  /\ error' = FALSE
  /\ requested' = FirstWindow
  /\ calls' = And(cs, AskRows(kind, t, FirstWindow))
  /\ UNCHANGED <<rows, complete, pendingReset>>

\* adopt: the rows stay until the walk t delivers.
Adopt(cs, t, kind) ==
  /\ token' = t
  /\ pendingReset' = TRUE /\ error' = FALSE
  /\ requested' = FirstWindow
  /\ calls' = And(cs, AskRows(kind, t, FirstWindow))
  /\ UNCHANGED <<rows, complete>>

OpenRepo(r) ==
  /\ moves < MaxMoves /\ Room
  /\ moves' = moves + 1
  /\ asked' = asked + 1
  /\ calls' = And(calls, [AskFor("open") EXCEPT !.repo = r, !.mine = asked + 1])
  /\ UNCHANGED <<disk, shell, walk, watch, events, shown, token, timer, graph>>

Close ==
  /\ moves < MaxMoves /\ Room
  /\ moves' = moves + 1
  /\ asked' = asked + 1
  /\ calls' = And(calls, [AskFor("close") EXCEPT !.mine = asked + 1])
  /\ UNCHANGED <<disk, shell, walk, watch, events, shown, token, timer, graph>>

\* Another order, or other refs.
Choose ==
  /\ moves < MaxMoves /\ Room
  /\ shown
  /\ moves' = moves + 1
  /\ calls' = And(calls, AskFor("choose"))
  /\ UNCHANGED <<disk, shell, walk, watch, events, window>>

\* The last row on screen is near the end of what was asked for.
Ensure ==
  /\ Room
  /\ token # 0 /\ ~complete
  /\ \E i \in 1..MaxRows : rows[i] # 0 /\ i - 1 + Prefetch >= requested
  /\ requested' = requested + NextWindow
  /\ calls' = And(calls, AskRows("rows", token, NextWindow))
  /\ UNCHANGED <<disks, shell, walk, watch, events, asked, shown, token, timer,
                 rows, complete, pendingReset, error>>

\* An answer is taken only if nothing was asked for since.
OpenAnswered(c) ==
  LET call == calls[c]
      cs == [calls EXCEPT ![c] = Free]
  IN
  /\ call.kind = "open" /\ call.pc \in {"done", "refused"}
  /\ \/ /\ call.mine # asked
        /\ calls' = cs
        /\ UNCHANGED <<shown, token, graph>>
     \/ /\ call.mine = asked /\ call.pc = "done"
        /\ shown' = TRUE
        /\ ShowWalk(cs, call.token)
     \/ /\ call.mine = asked /\ call.pc = "refused"
        /\ shown' = FALSE /\ token' = 0
        /\ calls' = cs
        /\ UNCHANGED graph
  /\ UNCHANGED <<disks, shell, walk, watch, events, asked, timer>>

CloseAnswered(c) ==
  LET cs == [calls EXCEPT ![c] = Free] IN
  /\ At(c, "close", "done")
  /\ IF calls[c].mine = asked
     THEN shown' = FALSE /\ ShowWalk(cs, 0)
     ELSE calls' = cs /\ UNCHANGED <<shown, token, graph>>
  /\ UNCHANGED <<disks, shell, walk, watch, events, asked, timer>>

\* Only a reload catches its error: it is the graph's.
RestartAnswered(c) ==
  LET call == calls[c]
      cs == [calls EXCEPT ![c] = Free]
  IN
  /\ call.kind \in {"reload", "choose"} /\ call.pc \in {"done", "refused"}
  /\ IF call.pc = "done"
     THEN Adopt(cs, call.token, IF call.kind = "reload" THEN "reloaded" ELSE "chosen")
     ELSE /\ pendingReset' = (pendingReset /\ call.kind = "choose")
          /\ error' = (error \/ call.kind = "reload")
          /\ calls' = cs
          /\ UNCHANGED <<token, rows, requested, complete>>
  /\ UNCHANGED <<disks, shell, walk, watch, events, asked, shown, timer>>

RequestRefused(c) ==
  LET kind == calls[c].kind IN
  /\ kind \in Requests /\ calls[c].pc = "refused"
  /\ pendingReset' = (pendingReset /\ kind # "reloaded")
  /\ error' = (error \/ kind # "chosen")
  /\ calls' = [calls EXCEPT ![c] = Free]
  /\ UNCHANGED <<disks, shell, walk, watch, events, asked, shown, token, timer,
                 rows, requested, complete>>

\* A ref that moved is waited for a little longer.
RepoChanged ==
  /\ changed > 0
  /\ changed' = changed - 1
  /\ timer' = TRUE
  /\ UNCHANGED <<disks, shell, walk, watch, calls, heard, word, asked, shown, token, graph>>

TimerFires ==
  /\ timer /\ Room
  /\ timer' = FALSE
  /\ calls' = And(calls, AskFor("reload"))
  /\ UNCHANGED <<disks, shell, walk, watch, events, asked, shown, token, graph>>

\* Events of a walk that is not the window's are dropped.  The first of a walk
\* that was adopted take the place of the rows that were kept.
RowsArrive(t) ==
  LET kept == IF pendingReset THEN [i \in 1..MaxRows |-> 0] ELSE rows IN
  /\ \E n \in 1..Batch :
       /\ heard[t] + n <= walk[t].at
       /\ heard' = [heard EXCEPT ![t] = @ + n]
       /\ rows' = IF t # token THEN rows
                  ELSE [i \in 1..MaxRows |->
                          IF i \in heard[t] + 1 .. heard[t] + n THEN t ELSE kept[i]]
  /\ complete' = (complete /\ (t = token => ~pendingReset))
  /\ pendingReset' = (pendingReset /\ t # token)
  /\ UNCHANGED <<disks, shell, walk, watch, calls, word, changed, asked, shown, token,
                 timer, requested, error>>

DoneArrives(t) ==
  /\ word[t] # "none" /\ heard[t] = walk[t].at
  /\ word' = [word EXCEPT ![t] = "none"]
  /\ IF t = token
     THEN /\ rows' = IF pendingReset THEN [i \in 1..MaxRows |-> 0] ELSE rows
          /\ pendingReset' = FALSE
          /\ complete' = (word[t] = "whole")
          /\ error' = (error \/ word[t] = "failed")
     ELSE UNCHANGED <<rows, complete, pendingReset, error>>
  /\ UNCHANGED <<disks, shell, walk, watch, calls, heard, changed, asked, shown, token,
                 timer, requested>>

-------------------------------------------------------------------------------
Person == \/ \E r \in Repos : OpenRepo(r)
          \/ Close
          \/ Choose
          \/ Ensure

Elsewhere == \E r \in Repos : Change(r) \/ Write(r)

Command(c) ==
  \/ TakeTicket(c) \/ ReadRepository(c) \/ StartWorkers(c)
  \/ InstallSession(c) \/ Supersede(c) \/ Dropped(c)
  \/ CloseRepo(c) \/ Joined(c)
  \/ RestartWalk(c) \/ GraphRequest(c)

Answered(c) ==
  \/ OpenAnswered(c) \/ CloseAnswered(c)
  \/ RestartAnswered(c) \/ RequestRefused(c)

Worker(t) == Wake(t) \/ Advance(t) \/ EndWalk(t) \/ StopWalk(t)

Watcher(k) == Collect(k) \/ Quiet(k) \/ StopWatch(k)

Arrival == \/ \E t \in Tokens : RowsArrive(t) \/ DoneArrives(t)
           \/ RepoChanged
           \/ TimerFires

Next ==
  \/ Person \/ Elsewhere \/ Arrival
  \/ \E c \in Calls : Command(c) \/ Answered(c)
  \/ \E t \in Tokens : Worker(t)
  \/ \E k \in Tickets : Watcher(k)

Spec == Init /\ [][Next]_vars

\* Every thread is scheduled and the window runs its handlers.  No command asks
\* for another, so the lock's waiters are few and each gets it in the end.
Fairness ==
  /\ \A c \in Calls : WF_vars(Command(c) \/ Answered(c))
  /\ \A t \in Tokens : WF_vars(Worker(t))
  /\ \A k \in Tickets : WF_vars(Watcher(k))
  /\ WF_vars(Arrival)

FairSpec == Spec /\ Fairness

-------------------------------------------------------------------------------
Sessions == [ticket : Nat, repo : Repos \union {None}, token : Tokens \union {0}]
Walks == [pc : {"none", "idle", "walking", "asleep", "ended"},
          repo : Repos \union {None}, seen : 0..MaxMoves, at : Nat, budget : Nat,
          asks : Seq(Nat), stop : BOOLEAN]
Watches == [pc : {"none", "waiting", "collecting", "ended"},
            repo : Repos \union {None}, heard : SUBSET {"refs", "files"},
            pending : SUBSET {"refs", "files"}, stop : BOOLEAN]
Commands == [pc : {"free", "asked", "reading", "starting", "installing",
                   "dropping", "joining", "done", "refused"},
             kind : {"none", "open", "close", "reload", "choose"} \union Requests,
             mine : Nat, repo : Repos \union {None}, ticket : Nat,
             token : Tokens \union {0}, count : Nat, old : Sessions]

TypeOK ==
  /\ moves \in 0..MaxMoves /\ disk \in [Repos -> 0..moves]
  /\ session \in Sessions /\ lock \in Calls \union {0}
  /\ opened \in Nat /\ made \in 0..MaxTokens /\ settled \in Nat
  /\ walk \in [Tokens -> Walks]
  /\ watch \in [Tickets -> Watches]
  /\ calls \in [Calls -> Commands]
  /\ heard \in [Tokens -> Nat]
  /\ word \in [Tokens -> {"none", "whole", "stopped", "failed"}]
  /\ changed \in Nat
  /\ asked \in Nat
  /\ shown \in BOOLEAN /\ token \in Tokens \union {0} /\ timer \in BOOLEAN
  /\ rows \in [1..MaxRows -> Tokens \union {0}]
  /\ requested \in Nat
  /\ complete \in BOOLEAN /\ pendingReset \in BOOLEAN /\ error \in BOOLEAN

\* The repository that is open is that of the last open or close that took
\* effect, in the order they were asked for: an open that was overtaken never
\* takes the place of a later one, or reopens what was closed since.
LatestStands == session # NoSession => session.ticket = settled

\* Only the open repository is walked and watched: any other walk or watcher
\* has been told to stop, or belongs to an open that has not been decided.
NothingLeftRunning ==
  LET opening == {c \in Calls : At(c, "open", "installing")} IN
  /\ \A t \in Tokens : Alive(walk[t]) /\ ~walk[t].stop =>
       \/ session.token = t
       \/ \E c \in opening : calls[c].token = t
  /\ \A k \in Tickets : Alive(watch[k]) /\ ~watch[k].stop =>
       \/ session.ticket = k
       \/ \E c \in opening : calls[c].ticket = k

FirstRows(t, n) == [i \in 1..MaxRows |-> IF i <= n THEN t ELSE 0]

\* Unless the graph shows an error or waits for a walk, the rows it shows are
\* those of one walk, from the first and without a gap: the walk the window
\* follows, if it does.  When it says so they are all its rows.
ShownIsOneWalk ==
  ~error /\ ~pendingReset =>
    \E t \in Tokens : \E n \in 0..walk[t].at :
      /\ rows = FirstRows(t, n)
      /\ token \in {t, 0}
      /\ complete => n = Length[walk[t].seen]

\* Other programs stop writing.
WritingEnds == <>[](\A k \in Tickets : watch[k].heard = {})

\* The rows are those of the open repository as it is.
Fresh ==
  \/ error
  \/ /\ ~pendingReset
     /\ walk[token].seen = disk[session.repo]
     /\ walk[token].pc # "idle"
     /\ \A i \in 1..MaxRows : rows[i] \in {0, token}
     /\ rows[1] = token \/ complete

\* Once nothing is written any more, every command comes to be answered, and a
\* window that follows the walk of the open repository to show its history as
\* it is, whatever changed while it was read.
CatchesUp ==
  WritingEnds =>
    <>[](/\ \A c \in Calls : calls[c] = Free
         /\ session # NoSession /\ token = session.token => Fresh)

\* What the watcher says of itself, that dropping it stops it and joins its
\* thread, and a session with it: every command comes to an end, whoever
\* writes.
CommandsEnd == []<>(\A c \in Calls : calls[c] = Free)

\* What the shell says of its tickets, that an open a close overtook cannot open
\* again what was just closed: after a close, an open is installed only while the
\* last that was asked for is on its way, or is itself that one.
ClosedStaysClosed ==
  [][\A c \in Calls :
       /\ InstallSession(c)
       /\ session = NoSession /\ settled # 0 /\ settled = calls[c].ticket - 1
       => \E d \in Calls : calls[d].mine = asked]_vars

\* What the graph says of its tokens, that dropping the events of a stale one
\* makes it safe to start the walk again: a window that follows a walk comes to
\* follow that of the session.
FollowsTheSession ==
  <>[](session # NoSession /\ token # 0 => token = session.token)

===============================================================================

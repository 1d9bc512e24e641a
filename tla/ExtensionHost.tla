----------------------------- MODULE ExtensionHost -----------------------------
(***************************************************************************)
(* The host of one extension: requests start its worker when it does not   *)
(* run, and begin an operation on it; the worker completes it, or it is    *)
(* cancelled, times out, is stopped with the extension, or ends with the   *)
(* worker.  The threads are those of the requests, the reader of each      *)
(* worker, the supervisor, and the person's stop, which the slot's, the    *)
(* start's and the operations' locks keep apart.                           *)
(*                                                                         *)
(* A worker is named by its session.  A step is one lock section, or one   *)
(* answer of the worker.  Packages, grants, handles, findings, panels, the *)
(* provider check and shutting down are left out: the program does not     *)
(* change while it is followed, and neither does the repository.           *)
(*                                                                         *)
(* Source: crates/spagitty-extensions/src/host.rs, operations.rs and       *)
(* worker.rs.                                                              *)
(***************************************************************************)
EXTENDS Integers, Sequences, FiniteSets

CONSTANTS
  Requests,     \* the requests, each of which may begin one operation
  None,         \* no request
  Limit,        \* MAX_PER_EXTENSION
  CrashLimit,   \* CRASH_LIMIT
  MaxSessions,  \* bound: workers that are started
  MaxDeaths,    \* bound: workers that die by themselves
  MaxPresses    \* bound: stops and cancels

ASSUME HostAssumption ==
  /\ None \notin Requests
  /\ Limit \in Nat \ {0} /\ CrashLimit \in Nat \ {0}
  /\ MaxSessions \in Nat /\ MaxDeaths \in Nat /\ MaxPresses \in Nat

Sessions == 1..MaxSessions
NoSession == 0

VARIABLES
  enabled,
  \* the slot
  run, session,
  worker,    \* the session of the worker it holds, NoSession when it holds none
  crashes,
  \* the workers
  made,      \* how many sessions there were
  proc,      \* [Sessions -> where the worker and its reader are]
  closing,   \* [Sessions -> it was told, or made, to end]
  reading,   \* [Sessions -> the operation whose completion the reader is at]
  taken,     \* [Sessions -> operations the reader took to end them]
  \* the requests
  startLock,
  pc, mine,  \* [Requests -> the session it was given]
  \* the operations
  running,
  cancelled, \* those that were asked to stop
  ended,     \* history: [Requests -> how it ended, each time it did]
  \* the other threads
  stopper, keeper,
  deaths, presses

slot   == <<run, session, worker, crashes>>
procs  == <<made, proc, closing, reading, taken>>
asking == <<startLock, pc, mine>>
ops    == <<running, cancelled, ended>>
others == <<stopper, keeper>>
bounds == <<deaths, presses>>
vars   == <<enabled, slot, procs, asking, ops, others, bounds>>

NoStop   == [pc |-> "idle", session |-> NoSession, worker |-> NoSession, purpose |-> "none"]
NoExpiry == [pc |-> "idle", op |-> None, worker |-> NoSession]

Init ==
  /\ enabled = TRUE
  /\ run = "Idle" /\ session = NoSession /\ worker = NoSession /\ crashes = 0
  /\ made = 0 /\ proc = [s \in Sessions |-> "none"] /\ closing = [s \in Sessions |-> FALSE]
  /\ reading = [s \in Sessions |-> None] /\ taken = [s \in Sessions |-> {}]
  /\ startLock = None /\ pc = [r \in Requests |-> "idle"]
  /\ mine = [r \in Requests |-> NoSession]
  /\ running = {} /\ cancelled = {} /\ ended = [r \in Requests |-> <<>>]
  /\ stopper = NoStop /\ keeper = NoExpiry
  /\ deaths = 0 /\ presses = 0

-----------------------------------------------------------------------------
IsAlive(s) == s # NoSession /\ proc[s] = "up"
\* Where a request has its worker.
Holding == {"attach", "initialize", "activated", "insert", "send", "asked"}
Goes(r, from, to) == pc[r] = from /\ pc' = [pc EXCEPT ![r] = to]

\* Seeded fault: what the worker says wins over the cancel.
EndedAsSaid(o, r, how) == [o EXCEPT ![r] = Append(@, how)]

\* How an operation that is taken from the running ones is concluded.
Concluded(o, r, how) ==
  [o EXCEPT ![r] = Append(@, IF how = "completed" /\ r \in cancelled THEN "cancelled" ELSE how)]

ConcludedAll(o, rs, how) ==
  [r \in Requests |-> IF r \in rs THEN Append(o[r], how) ELSE o[r]]

\* Seeded fault: it is concluded whether or not it is still there.
FinishedAnyway(r, how) == running' = running \ {r} /\ ended' = Concluded(ended, r, how)

\* finish: r is handed to exactly one caller, who concludes it.
FinishAs(r, how) ==
  IF r \in running
    THEN running' = running \ {r} /\ ended' = Concluded(ended, r, how)
    ELSE UNCHANGED <<running, ended>>

-----------------------------------------------------------------------------
(* A request: a command, or a review.                                      *)
\* It is let through once more before the start lock; what is refused there
\* is a request that was never made.
Count(r) ==
  /\ enabled /\ Cardinality(running) < Limit
  /\ Goes(r, "idle", "queued")
  /\ UNCHANGED <<enabled, slot, procs, startLock, mine, ops, others, bounds>>

Waits == run = "Failed" /\ crashes >= CrashLimit

\* The start lock is taken: the worker runs, or is started, or is not started
\* again before a person restarts it.
EnsureActive(r) ==
  /\ pc[r] = "queued" /\ startLock = None
  /\ \/ /\ run = "Active" /\ IsAlive(worker)
        /\ mine' = [mine EXCEPT ![r] = session]
        /\ Goes(r, "queued", "insert")
        /\ UNCHANGED <<slot, made, startLock>>
     \/ /\ ~(run = "Active" /\ IsAlive(worker)) /\ Waits
        /\ Goes(r, "queued", "done")
        /\ UNCHANGED <<slot, made, startLock, mine>>
     \/ /\ ~(run = "Active" /\ IsAlive(worker)) /\ ~Waits /\ made < MaxSessions
        /\ made' = made + 1 /\ session' = made + 1 /\ run' = "Starting"
        /\ mine' = [mine EXCEPT ![r] = made + 1]
        /\ startLock' = r
        /\ Goes(r, "queued", "spawn")
        /\ UNCHANGED <<worker, crashes>>
  /\ UNCHANGED <<enabled, proc, closing, reading, taken, ops, others, bounds>>

Spawn(r) ==
  /\ \/ Goes(r, "spawn", "attach") /\ proc' = [proc EXCEPT ![mine[r]] = "up"]
     \/ Goes(r, "spawn", "failed") /\ UNCHANGED proc
  /\ UNCHANGED <<enabled, slot, made, closing, reading, taken, startLock, mine, ops, others,
                 bounds>>

Attach(r) ==
  /\ Goes(r, "attach", "initialize")
  /\ worker' = mine[r]
  /\ UNCHANGED <<enabled, run, session, crashes, procs, startLock, mine, ops, others, bounds>>

\* The handshake, then the activation: answered, or it fails, is not understood
\* or takes too long, and the worker is ended.
Handshake(r) ==
  /\ \/ /\ IsAlive(mine[r])
        /\ Goes(r, "initialize", "activated")
        /\ UNCHANGED closing
     \/ /\ Goes(r, "initialize", "failed")
        /\ closing' = [closing EXCEPT ![mine[r]] = TRUE]
  /\ UNCHANGED <<enabled, slot, made, proc, reading, taken, startLock, mine, ops, others,
                 bounds>>

Activated(r) ==
  /\ Goes(r, "activated", "insert")
  /\ startLock' = None
  /\ run' = IF session = mine[r] THEN "Active" ELSE run
  /\ UNCHANGED <<enabled, session, worker, crashes, procs, mine, ops, others, bounds>>

\* Seeded fault: the slot keeps the worker it had.
FailStartOnly(r) ==
  /\ Goes(r, "failed", "done")
  /\ startLock' = None
  /\ IF session = mine[r] /\ run # "Failed" THEN run' = "Failed" /\ crashes' = crashes + 1
     ELSE UNCHANGED <<run, crashes>>
  /\ UNCHANGED <<enabled, session, worker, procs, mine, ops, others, bounds>>

\* The start has failed, if the reader has not said so first.
FailStart(r) ==
  /\ Goes(r, "failed", "done")
  /\ startLock' = None
  /\ IF session = mine[r] /\ run # "Failed"
       THEN run' = "Failed" /\ crashes' = crashes + 1 /\ worker' = NoSession
       ELSE UNCHANGED <<run, crashes, worker>>
  /\ UNCHANGED <<enabled, session, procs, mine, ops, others, bounds>>

Insert(r) ==
  /\ Goes(r, "insert", "send")
  /\ running' = running \cup {r}
  /\ UNCHANGED <<enabled, slot, procs, startLock, mine, cancelled, ended, others,
                 bounds>>

\* The worker is asked, or it is gone; it accepts, refuses or says nothing.
Send(r) ==
  /\ \/ IsAlive(mine[r]) /\ Goes(r, "send", "asked") /\ UNCHANGED <<running, ended>>
     \/ ~IsAlive(mine[r]) /\ Goes(r, "send", "done") /\ FinishAs(r, "failed")
  /\ UNCHANGED <<enabled, slot, procs, startLock, mine, cancelled, others, bounds>>

Answered(r) ==
  /\ Goes(r, "asked", "done")
  /\ FinishAs(r, "failed") \/ (IsAlive(mine[r]) /\ UNCHANGED <<running, ended>>)
  /\ UNCHANGED <<enabled, slot, procs, startLock, mine, cancelled, others, bounds>>

Request(r) ==
  \/ Count(r) \/ EnsureActive(r) \/ Spawn(r) \/ Attach(r) \/ Handshake(r)
  \/ Activated(r) \/ FailStart(r) \/ Insert(r) \/ Send(r) \/ Answered(r)

-----------------------------------------------------------------------------
(* A worker and its reader.                                                *)
Current(s) == session = s /\ run \in {"Starting", "Active"}

\* The worker says that an operation is complete, for the first time or again;
\* one that is not running, or not the worker's, is left alone.
Completes(s, r) ==
  /\ proc[s] = "up" /\ reading[s] = None /\ mine[r] = s /\ pc[r] \in {"asked", "done"}
  /\ Current(s) /\ r \in running
  /\ reading' = [reading EXCEPT ![s] = r]
  /\ UNCHANGED <<enabled, slot, made, proc, closing, taken, asking, ops, others, bounds>>

Complete(s) ==
  /\ reading[s] # None
  /\ FinishAs(reading[s], "completed")
  /\ reading' = [reading EXCEPT ![s] = None]
  /\ UNCHANGED <<enabled, slot, made, proc, closing, taken, asking, cancelled, others, bounds>>

\* Who holds a worker: the slot, a request, the person's stop, the supervisor.
Holds(s) ==
  \/ s \in {worker, stopper.worker, keeper.worker}
  \/ \E r \in Requests : mine[r] = s /\ pc[r] \in Holding

\* It was told to end, or made to: one nobody holds any longer is ended with
\* its tree.
IsEnded(s) == closing[s] \/ ~Holds(s)

\* The process is gone: it was ended, or it died.
Exit(s) ==
  /\ proc[s] = "up" /\ reading[s] = None
  /\ IF IsEnded(s) THEN UNCHANGED deaths ELSE deaths < MaxDeaths /\ deaths' = deaths + 1
  /\ proc' = [proc EXCEPT ![s] = "gone"]
  /\ UNCHANGED <<enabled, slot, made, closing, reading, taken, asking, ops, others, presses>>

\* Its reader says so; another session's slot is left alone.
Disconnected(s) ==
  /\ proc[s] = "gone" /\ session = s
  /\ proc' = [proc EXCEPT ![s] = "taking"]
  /\ worker' = NoSession
  /\ IF run \in {"Stopping", "Idle"} THEN run' = "Idle" /\ UNCHANGED crashes
     ELSE run' = "Failed" /\ crashes' = crashes + 1
  /\ UNCHANGED <<enabled, session, made, closing, reading, taken, asking, ops, others, bounds>>

\* It takes every operation there is, and puts back what is another session's.
TakeAll(s) ==
  /\ proc[s] = "taking" /\ proc' = [proc EXCEPT ![s] = "putting"]
  /\ taken' = [taken EXCEPT ![s] = running] /\ running' = {}
  /\ UNCHANGED <<enabled, slot, made, closing, reading, asking, cancelled, ended, others, bounds>>

\* Seeded fault: what is another session's is not put back.
PutNone(s, r) == UNCHANGED running

Put(s, r) == running' = running \cup {r}

EndOrPutBack(s) ==
  /\ proc[s] = "putting"
  /\ \E r \in taken[s] :
       /\ taken' = [taken EXCEPT ![s] = @ \ {r}]
       /\ IF mine[r] = s
            THEN ended' = Concluded(ended, r, "failed") /\ UNCHANGED running
            ELSE Put(s, r) /\ UNCHANGED ended
  /\ UNCHANGED <<enabled, slot, made, proc, closing, reading, asking, cancelled, others, bounds>>

Reader(s) == Complete(s) \/ Disconnected(s) \/ TakeAll(s) \/ EndOrPutBack(s)

-----------------------------------------------------------------------------
(* The person: disables the extension, restarts it, enables it again, or   *)
(* cancels an operation.                                                   *)
StopFor(purpose) ==
  /\ stopper.pc = "idle"
  /\ IF worker = NoSession
       THEN /\ run' = IF session = NoSession THEN run ELSE "Idle"
            /\ stopper' = [NoStop EXCEPT !.pc = "after", !.purpose = purpose]
       ELSE /\ run' = "Stopping"
            /\ stopper' = [pc |-> "finish", session |-> session, worker |-> worker,
                           purpose |-> purpose]
  /\ UNCHANGED <<enabled, session, worker, crashes, ops>>

Enable == ~enabled /\ enabled' = TRUE /\ UNCHANGED <<slot, ops, stopper, presses>>

Cancel ==
  /\ \E r \in running \ cancelled : cancelled' = cancelled \cup {r}
  /\ UNCHANGED <<enabled, slot, running, ended, stopper>>

Person ==
  /\ \/ /\ presses < MaxPresses /\ presses' = presses + 1
        /\ StopFor("disable") \/ StopFor("restart") \/ Cancel
     \/ Enable
  /\ UNCHANGED <<procs, asking, keeper, deaths>>

Stopping(from, to) == stopper.pc = from /\ stopper' = [stopper EXCEPT !.pc = to]

\* All its operations are cancelled, whichever session they are of.
StopFinish ==
  /\ Stopping("finish", "close")
  /\ ended' = ConcludedAll(ended, running, "cancelled")
  /\ running' = {}
  /\ UNCHANGED <<enabled, slot, procs, asking, cancelled, keeper, bounds>>

\* It is asked to deactivate and to exit, and is ended if it has not.
StopClose ==
  /\ Stopping("close", "last")
  /\ closing' = [closing EXCEPT ![stopper.worker] = TRUE]
  /\ UNCHANGED <<enabled, slot, made, proc, reading, taken, asking, ops, keeper, bounds>>

StopLast ==
  /\ Stopping("last", "after")
  /\ IF session = stopper.session THEN worker' = NoSession /\ run' = "Idle"
     ELSE UNCHANGED <<worker, run>>
  /\ UNCHANGED <<enabled, session, crashes, procs, asking, ops, keeper, bounds>>

\* What it was stopped for.
StopAfter ==
  /\ stopper.pc = "after" /\ stopper' = NoStop
  /\ IF stopper.purpose = "disable"
       THEN enabled' = FALSE /\ UNCHANGED <<run, crashes>>
       ELSE crashes' = 0 /\ run' = "Idle" /\ UNCHANGED enabled
  /\ UNCHANGED <<session, worker, procs, asking, ops, keeper, bounds>>

Stopper == StopFinish \/ StopClose \/ StopLast \/ StopAfter

-----------------------------------------------------------------------------
(* The supervisor ends what takes too long: what was cancelled after a     *)
(* grace, and everything else when it is quiet or past its deadline.       *)
Expire ==
  /\ keeper.pc = "idle"
  /\ \E r \in running :
       /\ running' = running \ {r}
       /\ keeper' = [NoExpiry EXCEPT !.pc = "conclude", !.op = r]
  /\ UNCHANGED <<enabled, slot, procs, asking, cancelled, ended, stopper, bounds>>

\* A cancel that came after it had looked is not one it waited a grace for.
ConcludeExpired ==
  /\ keeper.pc = "conclude"
  /\ \E late \in {FALSE, keeper.op \in cancelled} :
       /\ ended' = Concluded(ended, keeper.op, IF late THEN "cancelled" ELSE "failed")
       /\ keeper' = IF late /\ worker # NoSession
                      THEN [pc |-> "kill", op |-> None, worker |-> worker] ELSE NoExpiry
  /\ UNCHANGED <<enabled, slot, procs, asking, running, cancelled, stopper, bounds>>

\* What did not stop when asked is ended with its tree; that is no crash when
\* it was the worker's only operation.
Kill ==
  /\ keeper.pc = "kill" /\ keeper' = NoExpiry
  /\ run' = IF running = {} THEN "Stopping" ELSE run
  /\ closing' = [closing EXCEPT ![keeper.worker] = TRUE]
  /\ UNCHANGED <<enabled, session, worker, crashes, made, proc, reading, taken, asking, ops,
                 stopper, bounds>>

Keeper == Expire \/ ConcludeExpired \/ Kill

Next ==
  \/ \E r \in Requests : Request(r)
  \/ \E s \in Sessions : Reader(s) \/ Exit(s) \/ \E r \in Requests : Completes(s, r)
  \/ Person \/ Stopper \/ Keeper

Spec == Init /\ [][Next]_vars

\* The readers, the person's stop and the supervisor run, and a worker that was
\* ended exits; a request waits for no answer longer than its timeout.  Nothing
\* says that a worker completes what it was asked.
FairSpec ==
  /\ Spec
  /\ \A s \in Sessions : WF_vars(Reader(s)) /\ WF_vars(IsEnded(s) /\ Exit(s))
  /\ WF_vars(Stopper) /\ WF_vars(Keeper)
  /\ \A r \in Requests : WF_vars(pc[r] # "idle" /\ Request(r))
  /\ \A r \in Requests : SF_vars(keeper.pc = "idle" /\ r \in running /\ Expire)

-----------------------------------------------------------------------------
(* Properties.                                                             *)
Endings == {"completed", "cancelled", "failed"}
Runs == {"Idle", "Starting", "Active", "Stopping", "Failed"}
Session == {NoSession} \cup Sessions
Pcs == {"idle", "queued", "spawn", "attach", "initialize", "activated", "failed", "insert",
        "send", "asked", "done"}
Procs == {"none", "up", "gone", "taking", "putting"}
Stop ==
  [pc : {"idle", "finish", "close", "last", "after"}, session : Session, worker : Session,
   purpose : {"none", "disable", "restart"}]
Expiry == [pc : {"idle", "conclude", "kill"}, op : Requests \cup {None}, worker : Session]

TypeOK ==
  /\ enabled \in BOOLEAN
  /\ run \in Runs /\ session \in Session /\ worker \in Session /\ crashes \in Nat
  /\ made \in Session
  /\ proc \in [Sessions -> Procs]
  /\ closing \in [Sessions -> BOOLEAN] /\ reading \in [Sessions -> Requests \cup {None}]
  /\ taken \in [Sessions -> SUBSET Requests]
  /\ startLock \in Requests \cup {None}
  /\ pc \in [Requests -> Pcs]
  /\ mine \in [Requests -> Session]
  /\ running \subseteq Requests /\ cancelled \subseteq Requests
  /\ ended \in [Requests -> Seq(Endings)]
  /\ stopper \in Stop /\ keeper \in Expiry
  /\ deaths \in Nat /\ presses \in Nat

\* An operation somebody holds: the running ones, a reader, the supervisor.
Held(r) ==
  \/ r \in running
  \/ \E s \in Sessions : r \in taken[s]
  \/ keeper.pc = "conclude" /\ keeper.op = r

\* An operation ends once, and one that is still held has not ended.
EndsOnce ==
  \A r \in Requests : Len(ended[r]) <= 1 /\ (Held(r) => ended[r] = <<>>)

\* What was cancelled in time is never reported complete.
CancelSticks == \A r \in Requests : ended[r] = <<"completed">> => r \notin cancelled

\* The slot holds the worker of an older session only while the next one is
\* being started: a worker that a person could no longer stop ends.
NoStaleWorker ==
  worker \notin {NoSession, session} =>
    \E r \in Requests :
      startLock = r /\ mine[r] = session /\ pc[r] \in {"spawn", "attach", "failed"}

Life ==
  [r \in Requests |->
    IF ended[r] # <<>> THEN ended[r][1] ELSE IF Held(r) THEN "running" ELSE "new"]

\* The host keeps the promise of an operation's life.
Abstract == INSTANCE OperationLife WITH life <- Life
Promised == Abstract!Spec

\* docs/extensions/using.md:72: it is after three crashes that an extension
\* waits; one failed session is one crash.
CrashesAreCounted == crashes <= made
=============================================================================

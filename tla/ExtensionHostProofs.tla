-------------------------- MODULE ExtensionHostProofs --------------------------
(***************************************************************************)
(* What the extension host promises of its operations and of its worker,   *)
(* proved for any number of requests, sessions, deaths and presses, and    *)
(* for every limit.                                                        *)
(***************************************************************************)
EXTENDS ExtensionHost, TLAPS

-----------------------------------------------------------------------------
(* Types. *)

LEMMA Numbers == /\ MaxSessions \in Nat /\ None \notin Requests
                 /\ Sessions \subseteq Session /\ NoSession \in Session
BY HostAssumption DEF Session, Sessions, NoSession

(* Whatever an operation ends with, it is one of the endings.              *)
LEMMA ConcludedTyped ==
  ASSUME ended \in [Requests -> Seq(Endings)], NEW r \in Requests, NEW how \in Endings
  PROVE  Concluded(ended, r, how) \in [Requests -> Seq(Endings)]
<1>1. \A e \in Endings : Append(ended[r], e) \in Seq(Endings)
  OBVIOUS
<1>2. (IF how = "completed" /\ r \in cancelled THEN "cancelled" ELSE how) \in Endings
  BY DEF Endings
<1> QED BY <1>1, <1>2 DEF Concluded

LEMMA FinishTyped ==
  ASSUME TypeOK, NEW r \in Requests, NEW how \in Endings, FinishAs(r, how)
  PROVE  running' \subseteq Requests /\ ended' \in [Requests -> Seq(Endings)]
<1>1. running \subseteq Requests /\ ended \in [Requests -> Seq(Endings)]
  BY DEF TypeOK
<1> QED BY <1>1, ConcludedTyped DEF FinishAs

(* The records of the stop and of the supervisor when they have nothing to do. *)
LEMMA Resting == NoStop \in Stop /\ NoExpiry \in Expiry
BY Numbers DEF NoStop, NoExpiry, Stop, Expiry

LEMMA InitTyped == ASSUME Init PROVE TypeOK
<1>1. \A r \in Requests : <<>> \in Seq(Endings)
  OBVIOUS
<1>2. ended \in [Requests -> Seq(Endings)] /\ running \subseteq Requests /\ cancelled \subseteq Requests
  BY <1>1 DEF Init
<1>3. stopper \in Stop /\ keeper \in Expiry
  BY Resting DEF Init
<1>4. /\ proc \in [Sessions -> Procs] /\ closing \in [Sessions -> BOOLEAN]
      /\ reading \in [Sessions -> Requests \cup {None}] /\ taken \in [Sessions -> SUBSET Requests]
  BY DEF Init, Procs
<1>5. pc \in [Requests -> Pcs] /\ mine \in [Requests -> Session]
  BY Numbers DEF Init, Pcs
<1>6. enabled \in BOOLEAN /\ run \in Runs /\ crashes \in Nat /\ deaths \in Nat /\ presses \in Nat
  BY DEF Init, Runs
<1>7. session \in Session /\ worker \in Session /\ made \in Session /\ NoSession = 0
      /\ startLock \in Requests \cup {None}
  BY Numbers DEF Init, NoSession
<1> QED BY <1>2, <1>3, <1>4, <1>5, <1>6, <1>7 DEF TypeOK

(* Every step of a request keeps the types.                                *)
LEMMA RequestTyped ==
  ASSUME TypeOK, NEW r \in Requests, Request(r)
  PROVE  TypeOK'
<1>a. /\ pc \in [Requests -> Pcs] /\ mine[r] \in Session
      /\ \A p \in Pcs : [pc EXCEPT ![r] = p] \in [Requests -> Pcs]
  BY DEF TypeOK
<1>b. {"idle", "queued", "spawn", "attach", "initialize", "activated", "failed", "insert",
       "send", "asked", "done"} \subseteq Pcs
  BY DEF Pcs
<1> USE <1>a, <1>b
<1>1. CASE Count(r)
  BY <1>1 DEF Count, Goes, TypeOK, slot, procs, ops, others, bounds
<1>2. CASE EnsureActive(r)
  <2>1. \/ /\ mine' = [mine EXCEPT ![r] = session] /\ UNCHANGED <<slot, made, startLock>>
        \/ UNCHANGED <<slot, made, startLock, mine>>
        \/ /\ made < MaxSessions /\ made' = made + 1 /\ session' = made + 1
           /\ run' = "Starting" /\ mine' = [mine EXCEPT ![r] = made + 1] /\ startLock' = r
           /\ UNCHANGED <<worker, crashes>>
    BY <1>2 DEF EnsureActive
  <2>2. made < MaxSessions => made + 1 \in Session
    BY Numbers DEF TypeOK, Session, Sessions, NoSession
  <2>3. /\ run' \in Runs /\ session' \in Session /\ worker' \in Session /\ crashes' \in Nat
        /\ made' \in Session /\ startLock' \in Requests \cup {None}
        /\ mine' \in [Requests -> Session]
    BY <2>1, <2>2 DEF TypeOK, Runs, slot
  <2>4. pc' \in [Requests -> Pcs]
    BY <1>2 DEF EnsureActive, Goes
  <2> QED BY <1>2, <2>3, <2>4 DEF EnsureActive, TypeOK, ops, others, bounds
<1>3. CASE Spawn(r)
  <2>1. proc' \in [Sessions -> Procs]
    BY <1>3 DEF Spawn, TypeOK, Procs
  <2>2. pc' \in [Requests -> Pcs]
    BY <1>3 DEF Spawn, Goes
  <2> QED BY <1>3, <2>1, <2>2 DEF Spawn, TypeOK, slot, ops, others, bounds
<1>4. CASE Attach(r)
  BY <1>4 DEF Attach, Goes, TypeOK, procs, ops, others, bounds
<1>5. CASE Handshake(r)
  BY <1>5 DEF Handshake, Goes, TypeOK, slot, ops, others, bounds
<1>6. CASE Activated(r)
  BY <1>6 DEF Activated, Goes, TypeOK, Runs, procs, ops, others, bounds
<1>7. CASE FailStart(r)
  BY <1>7, Numbers DEF FailStart, Goes, TypeOK, Runs, procs, ops, others, bounds
<1>8. CASE Insert(r)
  BY <1>8 DEF Insert, Goes, TypeOK, slot, procs, others, bounds
<1>9. CASE Send(r) \/ Answered(r)
  <2>1. "failed" \in Endings
    BY DEF Endings
  <2>2. running' \subseteq Requests /\ ended' \in [Requests -> Seq(Endings)]
    BY <1>9, <2>1, FinishTyped DEF Send, Answered, TypeOK
  <2> QED BY <1>9, <2>2 DEF Send, Answered, Goes, TypeOK, slot, procs, others, bounds
<1> QED BY <1>1, <1>2, <1>3, <1>4, <1>5, <1>6, <1>7, <1>8, <1>9 DEF Request

(* So does every step of a worker and its reader.                          *)
LEMMA WorkerTyped ==
  ASSUME TypeOK, NEW s \in Sessions,
         Reader(s) \/ Exit(s) \/ \E r \in Requests : Completes(s, r)
  PROVE  TypeOK'
<1>a. /\ \A p \in Procs : [proc EXCEPT ![s] = p] \in [Sessions -> Procs]
      /\ {"gone", "taking", "putting"} \subseteq Procs
  BY DEF TypeOK, Procs
<1> USE <1>a
<1>1. CASE Complete(s)
  <2>1. reading[s] \in Requests /\ "completed" \in Endings
    BY <1>1 DEF Complete, TypeOK, Endings
  <2>2. running' \subseteq Requests /\ ended' \in [Requests -> Seq(Endings)]
    BY <1>1, <2>1, FinishTyped DEF Complete
  <2> QED BY <1>1, <2>2 DEF Complete, TypeOK, slot, asking, others, bounds
<1>2. CASE Disconnected(s)
  <2>1. run' \in Runs /\ crashes' \in Nat
    BY <1>2 DEF Disconnected, TypeOK, Runs
  <2> QED BY <1>2, <2>1, Numbers DEF Disconnected, TypeOK, asking, ops, others, bounds
<1>3. CASE TakeAll(s)
  BY <1>3 DEF TakeAll, TypeOK, slot, asking, others, bounds
<1>4. CASE EndOrPutBack(s)
  <2>1. PICK r \in taken[s] :
          /\ taken' = [taken EXCEPT ![s] = @ \ {r}]
          /\ IF mine[r] = s
               THEN ended' = Concluded(ended, r, "failed") /\ UNCHANGED running
               ELSE Put(s, r) /\ UNCHANGED ended
    BY <1>4 DEF EndOrPutBack
  <2>2. r \in Requests /\ "failed" \in Endings
    BY DEF TypeOK, Endings
  <2>3. running' \subseteq Requests /\ ended' \in [Requests -> Seq(Endings)]
    BY <2>1, <2>2, ConcludedTyped DEF TypeOK, Put
  <2>4. taken' \in [Sessions -> SUBSET Requests]
    BY <2>1 DEF TypeOK
  <2> QED BY <1>4, <2>3, <2>4 DEF EndOrPutBack, TypeOK, slot, asking, others, bounds
<1>5. CASE Exit(s)
  <2>1. proc' \in [Sessions -> Procs] /\ deaths' \in Nat
    BY <1>5 DEF Exit, TypeOK
  <2> QED BY <1>5, <2>1 DEF Exit, TypeOK, slot, asking, ops, others
<1>6. CASE \E r \in Requests : Completes(s, r)
  BY <1>6 DEF Completes, TypeOK, slot, asking, ops, others, bounds
<1> QED BY <1>1, <1>2, <1>3, <1>4, <1>5, <1>6 DEF Reader

(* And every step of the person, of a stop and of the supervisor.          *)
LEMMA OthersTyped ==
  ASSUME TypeOK, Person \/ Stopper \/ Keeper
  PROVE  TypeOK'
<1>1. CASE Person
  <2>1. ASSUME NEW purpose \in {"disable", "restart"}, StopFor(purpose)
        PROVE  /\ run' \in Runs
               /\ stopper' \in Stop
               /\ UNCHANGED <<enabled, session, worker, crashes, ops>>
    <3>1. run \in Runs /\ run' \in {run, "Idle", "Stopping"} /\ session \in Session /\ worker \in Session
      BY <2>1 DEF StopFor, TypeOK
    <3>2. [NoStop EXCEPT !.pc = "after", !.purpose = purpose] \in Stop
      BY Numbers DEF NoStop, Stop
    <3>3. [pc |-> "finish", session |-> session, worker |-> worker, purpose |-> purpose] \in Stop
      BY <3>1 DEF Stop
    <3> QED BY <2>1, <3>1, <3>2, <3>3 DEF StopFor, Runs
  <2>2. cancelled' \subseteq Requests \/ ~Cancel
    BY DEF Cancel, TypeOK
  <2>3. CASE Enable
    BY <1>1, <2>3 DEF Person, Enable, TypeOK, slot, procs, asking, ops
  <2>4. CASE Cancel
    BY <1>1, <2>2, <2>4 DEF Person, Enable, Cancel, TypeOK, slot, procs, asking
  <2>5. CASE StopFor("disable") \/ StopFor("restart")
    BY <1>1, <2>1, <2>5 DEF Person, Enable, TypeOK, procs, asking, ops
  <2> QED BY <1>1, <2>3, <2>4, <2>5 DEF Person
<1>s. \A p \in {"finish", "close", "last", "after"} : [stopper EXCEPT !.pc = p] \in Stop
  BY DEF TypeOK, Stop
<1>2. CASE StopFinish
  <2>1. ended' \in [Requests -> Seq(Endings)]
    <3>1. \A r \in Requests : Append(ended[r], "cancelled") \in Seq(Endings)
      BY DEF TypeOK, Endings
    <3> QED BY <1>2, <3>1 DEF StopFinish, ConcludedAll, TypeOK
  <2> QED BY <1>2, <1>s, <2>1 DEF StopFinish, Stopping, TypeOK, slot, procs, asking, bounds
<1>3. CASE StopClose
  BY <1>3, <1>s DEF StopClose, Stopping, TypeOK, slot, asking, ops, bounds
<1>4. CASE StopLast
  BY <1>4, <1>s, Numbers DEF StopLast, Stopping, TypeOK, Runs, procs, asking, ops, bounds
<1>5. CASE StopAfter
  <2>1. stopper' \in Stop /\ run' \in Runs /\ crashes' \in Nat
    BY <1>5, Resting DEF StopAfter, TypeOK, Runs
  <2>2. enabled' \in BOOLEAN
    BY <1>5 DEF StopAfter, TypeOK
  <2> QED BY <1>5, <2>1, <2>2 DEF StopAfter, TypeOK, procs, asking, ops, bounds
<1>6. CASE Expire
  <2>1. PICK r \in running :
          /\ running' = running \ {r}
          /\ keeper' = [NoExpiry EXCEPT !.pc = "conclude", !.op = r]
    BY <1>6 DEF Expire
  <2>2. keeper' \in Expiry
    BY <2>1, Numbers DEF NoExpiry, Expiry, TypeOK
  <2> QED BY <1>6, <2>1, <2>2 DEF Expire, TypeOK, slot, procs, asking, bounds
<1>7. CASE ConcludeExpired
  <2>1. PICK late \in {FALSE, keeper.op \in cancelled} :
          /\ ended' = Concluded(ended, keeper.op, IF late THEN "cancelled" ELSE "failed")
          /\ keeper' = IF late /\ worker # NoSession
                         THEN [pc |-> "kill", op |-> None, worker |-> worker] ELSE NoExpiry
    BY <1>7 DEF ConcludeExpired
  <2>2. ended' \in [Requests -> Seq(Endings)]
    <3>1. CASE keeper.op \in Requests
      BY <2>1, <3>1, ConcludedTyped DEF TypeOK, Endings
    <3>2. CASE keeper.op \notin Requests
      BY <2>1, <3>2 DEF Concluded, TypeOK
    <3> QED BY <3>1, <3>2
  <2>3. keeper' \in Expiry
    <3>1. worker \in Session
      BY DEF TypeOK
    <3>2. [pc |-> "kill", op |-> None, worker |-> worker] \in Expiry
      BY <3>1 DEF Expiry
    <3> QED BY <2>1, <3>2, Resting
  <2> QED BY <1>7, <2>2, <2>3 DEF ConcludeExpired, TypeOK, slot, procs, asking, bounds
<1>8. CASE Kill
  BY <1>8, Resting DEF Kill, TypeOK, Runs, asking, ops, bounds
<1> QED BY <1>1, <1>2, <1>3, <1>4, <1>5, <1>6, <1>7, <1>8 DEF Stopper, Keeper

LEMMA StepTyped == ASSUME TypeOK, [Next]_vars PROVE TypeOK'
<1>1. CASE UNCHANGED vars
  BY <1>1 DEF vars, TypeOK, slot, procs, asking, ops, others, bounds
<1> QED BY <1>1, RequestTyped, WorkerTyped, OthersTyped DEF Next

(* The host's state always has its types (slot, operations, worker).       *)
THEOREM HostTyped == Spec => []TypeOK
<1> QED BY InitTyped, StepTyped, PTL DEF Spec

-----------------------------------------------------------------------------
(* The slot. *)

(* A request that is starting a worker holds the start lock.               *)
Starting == {"spawn", "attach", "initialize", "activated", "failed"}

(* Why a worker is never a stale one: only the request that holds the start *)
(* lock changes the session, and until the worker of that session is        *)
(* attached, or the start has failed, the slot may hold the one before;     *)
(* a slot that failed has let go of the worker it had.                     *)
SlotInv ==
  /\ \A r \in Requests : pc[r] \in Starting <=> startLock = r
  /\ \A r \in Requests : pc[r] \in Starting => mine[r] = session
  /\ \A r \in Requests : pc[r] = "spawn" => mine[r] \in Sessions /\ proc[mine[r]] = "none"
  /\ session <= made /\ \A s \in Sessions : s > made => proc[s] = "none"
  /\ run = "Failed" => worker \in {NoSession, session}
  /\ NoStaleWorker

LEMMA SlotInit == ASSUME Init PROVE SlotInv
<1>1. (\A r \in Requests : startLock # r) /\ session <= made
  BY Numbers DEF Init, NoSession
<1> QED BY <1>1 DEF Init, SlotInv, NoStaleWorker, Starting

(* Nothing but a request gives the slot a worker or a session.             *)
LEMMA SlotKept ==
  ASSUME SlotInv, UNCHANGED <<session, made, startLock, pc, mine>>,
         worker' \in {worker, NoSession}, run' = "Failed" => run = "Failed" \/ worker' = NoSession,
         \A s \in Sessions : proc[s] = "none" => proc'[s] = "none"
  PROVE  SlotInv'
BY DEF SlotInv, NoStaleWorker

(* What a request does with it. *)
LEMMA SlotRequest ==
  ASSUME TypeOK, SlotInv, NEW q \in Requests, Request(q)
  PROVE  SlotInv'
<1>a. pc \in [Requests -> Pcs] /\ mine \in [Requests -> Session] /\ proc \in [Sessions -> Procs]
      /\ q # None /\ NoSession = 0
  BY Numbers DEF TypeOK, NoSession
<1> USE <1>a
<1>1. CASE Count(q) \/ Insert(q) \/ Send(q) \/ Answered(q)
  <2>1. /\ pc[q] \notin Starting /\ pc'[q] \notin Starting /\ pc'[q] # "spawn"
        /\ \A r \in Requests : r # q => pc'[r] = pc[r]
        /\ UNCHANGED <<slot, made, proc, startLock, mine>>
    BY <1>1 DEF Count, Insert, Send, Answered, Goes, Starting, procs
  <2>2. startLock # q
    BY <2>1 DEF SlotInv
  <2> QED BY <2>1, <2>2 DEF SlotInv, NoStaleWorker, slot, Starting
<1>2. CASE EnsureActive(q)
  <2>1. pc[q] = "queued" /\ startLock = None /\ proc' = proc
    BY <1>2 DEF EnsureActive
  <2>2. \A r \in Requests : pc[r] \notin Starting /\ r # None
    BY <2>1, Numbers DEF SlotInv
  <2>3. worker \in {NoSession, session}
    BY <2>1, <2>2 DEF SlotInv, NoStaleWorker
  <2>4. CASE UNCHANGED <<slot, made, startLock>> /\ pc' \in {[pc EXCEPT ![q] = p] : p \in {"insert", "done"}}
    <3>1. \A r \in Requests : pc'[r] \notin Starting /\ pc'[r] # "spawn"
      BY <2>2, <2>4 DEF Starting
    <3> QED BY <2>1, <2>2, <2>3, <2>4, <3>1 DEF SlotInv, NoStaleWorker, slot
  <2>5. CASE /\ made < MaxSessions /\ made' = made + 1 /\ session' = made + 1 /\ run' = "Starting"
             /\ mine' = [mine EXCEPT ![q] = made + 1] /\ startLock' = q
             /\ pc' = [pc EXCEPT ![q] = "spawn"] /\ UNCHANGED <<worker, crashes>>
    <3>1. made + 1 \in Sessions /\ made + 1 > made /\ proc[made + 1] = "none"
      BY <2>5, Numbers DEF TypeOK, Session, Sessions, SlotInv
    <3>2. \A s \in Sessions : s > made + 1 => s > made
      BY Numbers DEF TypeOK, Session, Sessions
    <3>3. \A r \in Requests : r # q => pc'[r] \notin Starting /\ pc'[r] # "spawn" /\ startLock' # r
      BY <2>2, <2>5 DEF Starting
    <3>4. /\ pc'[q] = "spawn" /\ pc'[q] \in Starting /\ startLock' = q /\ mine'[q] = session'
          /\ session' = made + 1 /\ session' <= made'
      BY <2>5, Numbers DEF Starting, TypeOK, Session, Sessions
    <3>5. NoStaleWorker'
      BY <3>4 DEF NoStaleWorker
    <3> QED BY <2>1, <2>5, <3>1, <3>2, <3>3, <3>4, <3>5 DEF SlotInv
  <2> QED BY <1>2, <2>4, <2>5 DEF EnsureActive, Goes
<1>3. CASE Spawn(q) \/ Attach(q) \/ Handshake(q)
  <2>1. /\ pc[q] \in Starting /\ pc'[q] \in Starting /\ pc'[q] # "spawn"
        /\ \A r \in Requests : r # q => pc'[r] = pc[r]
        /\ UNCHANGED <<run, session, made, startLock, mine>>
    BY <1>3 DEF Spawn, Attach, Handshake, Goes, Starting, slot, procs
  <2>2. startLock = q /\ mine[q] = session /\ \A r \in Requests : r # q => pc[r] \notin Starting
    BY <2>1 DEF SlotInv
  <2>3. \A r \in Requests : (pc'[r] \in Starting <=> startLock' = r) /\ pc'[r] # "spawn"
    BY <2>1, <2>2 DEF Starting
  <2>4. \A r \in Requests : pc'[r] \in Starting => mine'[r] = session'
    BY <2>1, <2>2, <2>3
  <2>5. session' <= made' /\ \A s \in Sessions : s > made' => proc'[s] = "none"
    <3>1. CASE Spawn(q)
      <4>1. mine[q] \in Sessions /\ proc[mine[q]] = "none"
        BY <3>1 DEF Spawn, Goes, SlotInv
      <4>2. ~(mine[q] > made)
        BY <2>2, Numbers DEF SlotInv, TypeOK, Session, Sessions
      <4> QED BY <2>1, <3>1, <4>1, <4>2 DEF Spawn, SlotInv
    <3>2. CASE Attach(q) \/ Handshake(q)
      BY <2>1, <3>2 DEF Attach, Handshake, procs, SlotInv
    <3> QED BY <1>3, <3>1, <3>2
  <2>6. NoStaleWorker' /\ (run' = "Failed" => worker' \in {NoSession, session'})
    <3>1. CASE Spawn(q)
      <4>1. pc'[q] \in {"attach", "failed"} /\ worker' = worker
        BY <3>1 DEF Spawn, Goes, slot
      <4> QED BY <2>1, <2>2, <4>1 DEF NoStaleWorker, SlotInv
    <3>2. CASE Attach(q)
      <4>1. worker' = session'
        BY <2>1, <2>2, <3>2 DEF Attach
      <4> QED BY <4>1 DEF NoStaleWorker
    <3>3. CASE Handshake(q)
      <4>1. pc[q] = "initialize" /\ worker' = worker
        BY <3>3 DEF Handshake, Goes, slot
      <4>2. worker \in {NoSession, session}
        BY <2>2, <4>1 DEF SlotInv, NoStaleWorker
      <4> QED BY <2>1, <4>1, <4>2 DEF NoStaleWorker
    <3> QED BY <1>3, <3>1, <3>2, <3>3
  <2> QED BY <2>3, <2>4, <2>5, <2>6 DEF SlotInv
<1>4. CASE Activated(q) \/ FailStart(q)
  <2>1. /\ pc[q] \in Starting /\ pc'[q] \notin Starting /\ pc'[q] # "spawn"
        /\ \A r \in Requests : r # q => pc'[r] = pc[r]
        /\ startLock' = None /\ UNCHANGED <<session, made, mine, proc>>
    BY <1>4 DEF Activated, FailStart, Goes, Starting, procs
  <2>2. startLock = q /\ mine[q] = session /\ \A r \in Requests : r # q => pc[r] \notin Starting
    BY <2>1 DEF SlotInv
  <2>3. \A r \in Requests : pc'[r] \notin Starting /\ startLock' # r /\ pc'[r] # "spawn"
    BY <2>1, <2>2, Numbers DEF Starting
  <2>4. worker' \in {NoSession, session}
    <3>1. CASE Activated(q)
      <4>1. pc[q] = "activated" /\ worker' = worker
        BY <3>1 DEF Activated, Goes
      <4> QED BY <2>2, <4>1 DEF SlotInv, NoStaleWorker
    <3>2. CASE FailStart(q)
      BY <2>2, <3>2 DEF FailStart, SlotInv
    <3> QED BY <1>4, <3>1, <3>2
  <2> QED BY <2>1, <2>3, <2>4 DEF SlotInv, NoStaleWorker
<1> QED BY <1>1, <1>2, <1>3, <1>4 DEF Request

(* A worker that is gone, a stop and the supervisor only let go of it.     *)
LEMMA SlotOthers ==
  ASSUME TypeOK, SlotInv,
         \/ \E s \in Sessions : Reader(s) \/ Exit(s) \/ \E r \in Requests : Completes(s, r)
         \/ Person \/ Stopper \/ Keeper
  PROVE  SlotInv'
<1>1. ASSUME NEW s \in Sessions, Reader(s) \/ Exit(s) \/ \E r \in Requests : Completes(s, r)
      PROVE  SlotInv'
  <2>1. UNCHANGED <<session, made, startLock, pc, mine>>
    BY <1>1 DEF Reader, Complete, Disconnected, TakeAll, EndOrPutBack, Exit, Completes, slot, asking
  <2>2. worker' \in {worker, NoSession} /\ (run' = "Failed" => run = "Failed" \/ worker' = NoSession)
    BY <1>1 DEF Reader, Complete, Disconnected, TakeAll, EndOrPutBack, Exit, Completes, slot
  <2>3. \A u \in Sessions : proc[u] = "none" => proc'[u] = "none"
    BY <1>1 DEF Reader, Complete, Disconnected, TakeAll, EndOrPutBack, Exit, Completes, TypeOK
  <2> QED BY <2>1, <2>2, <2>3, SlotKept
<1>2. CASE Person
  <2>1. UNCHANGED <<session, made, startLock, pc, mine, worker, proc>>
    BY <1>2 DEF Person, StopFor, Enable, Cancel, slot, procs, asking
  <2>2. run' = "Failed" => run = "Failed"
    BY <1>2 DEF Person, StopFor, Enable, Cancel, slot
  <2> QED BY <2>1, <2>2, SlotKept
<1>3. CASE Stopper \/ Keeper
  <2>1. UNCHANGED <<session, made, startLock, pc, mine, proc>>
    BY <1>3 DEF Stopper, StopFinish, StopClose, StopLast, StopAfter, Keeper, Expire,
                ConcludeExpired, Kill, slot, procs, asking
  <2>2. worker' \in {worker, NoSession} /\ (run' = "Failed" => run = "Failed")
    BY <1>3 DEF Stopper, StopFinish, StopClose, StopLast, StopAfter, Keeper, Expire,
                ConcludeExpired, Kill, slot
  <2> QED BY <2>1, <2>2, SlotKept
<1> QED BY <1>1, <1>2, <1>3

LEMMA SlotStep == ASSUME TypeOK, SlotInv, [Next]_vars PROVE SlotInv'
<1>1. CASE UNCHANGED vars
  BY <1>1, SlotKept DEF vars, slot, procs, asking
<1> QED BY <1>1, SlotRequest, SlotOthers DEF Next

(* The slot holds the worker of an older session only while the next one is *)
(* being started, so a worker that runs is one a person can stop            *)
(* (ensure_active, start_worker, disconnected, stop).                      *)
THEOREM WorkerIsCurrent == Spec => []NoStaleWorker
<1>1. Init => TypeOK /\ SlotInv
  BY InitTyped, SlotInit
<1>2. (TypeOK /\ SlotInv) /\ [Next]_vars => (TypeOK /\ SlotInv)'
  BY StepTyped, SlotStep
<1>3. SlotInv => NoStaleWorker
  BY DEF SlotInv
<1> QED BY <1>1, <1>2, <1>3, PTL DEF Spec

-----------------------------------------------------------------------------
(* Operations. *)

(* What holds an operation holds it alone: the running ones, the reader of  *)
(* one worker, or the supervisor.                                          *)
Apart ==
  /\ \A s \in Sessions : proc[s] # "putting" => taken[s] = {}
  /\ keeper.pc # "conclude" => keeper.op = None
  /\ \A s \in Sessions : \A r \in taken[s] : r \notin running /\ keeper.op # r
  /\ \A s, u \in Sessions : \A r \in taken[s] : r \in taken[u] => s = u
  /\ keeper.op \notin running

(* What a step does with an operation: nothing, or it ends it, if not with  *)
(* what a cancel forbids, or it starts it.                                 *)
Stays(r)  == ended'[r] = ended[r] /\ (Held(r)' <=> Held(r))
Ends(r)   == /\ Held(r) /\ ~Held(r)' /\ cancelled' = cancelled
             /\ \E e \in Endings : /\ ended'[r] = Append(ended[r], e)
                                   /\ e = "completed" => r \notin cancelled
Starts(r) == ended'[r] = ended[r] /\ Held(r)' /\ pc[r] = "insert" /\ pc'[r] = "send"

Fate ==
  \/ \A r \in Requests : Stays(r) \/ Ends(r)
  \/ \E r \in Requests : Starts(r) /\ \A q \in Requests \ {r} : Stays(q)

(* What takes an operation from nobody and gives it to nobody.             *)
LEMMA Untouched ==
  ASSUME Apart, UNCHANGED <<running, taken, keeper, ended>>,
         \A s \in Sessions : proc[s] = "putting" => proc'[s] = "putting"
  PROVE  Apart' /\ Fate
BY DEF Apart, Fate, Stays, Held

(* How an operation that is taken ends.                                    *)
LEMMA Concluding ==
  ASSUME TypeOK, NEW r \in Requests, NEW how \in Endings,
         ended' = Concluded(ended, r, how)
  PROVE  /\ \A q \in Requests : q # r => ended'[q] = ended[q]
         /\ \E e \in Endings : /\ ended'[r] = Append(ended[r], e)
                               /\ e = "completed" => r \notin cancelled
<1>1. ended \in [Requests -> Seq(Endings)]
  BY DEF TypeOK
<1>2. CASE how = "completed" /\ r \in cancelled
  BY <1>1, <1>2 DEF Concluded, Endings
<1>3. CASE ~(how = "completed" /\ r \in cancelled)
  BY <1>1, <1>3 DEF Concluded
<1> QED BY <1>2, <1>3

LEMMA Finishing ==
  ASSUME TypeOK, Apart, NEW r \in Requests, NEW how \in Endings, FinishAs(r, how),
         UNCHANGED <<cancelled, taken, proc, keeper>>
  PROVE  Apart' /\ Fate
<1>1. CASE r \notin running
  BY <1>1, Untouched DEF FinishAs
<1>2. CASE r \in running
  <2>1. running' = running \ {r} /\ ended' = Concluded(ended, r, how)
    BY <1>2 DEF FinishAs
  <2>2. Apart'
    BY <2>1 DEF Apart
  <2>3. \A q \in Requests : q # r => Stays(q)
    BY <2>1, Concluding DEF Stays, Held
  <2>4. Held(r) /\ ~Held(r)'
    BY <1>2, <2>1 DEF Held, Apart
  <2>5. Ends(r)
    BY <2>1, <2>4, Concluding DEF Ends
  <2> QED BY <2>2, <2>3, <2>5 DEF Fate
<1> QED BY <1>1, <1>2

(* A request starts its operation, or finds that it could not.             *)
LEMMA RequestFate ==
  ASSUME TypeOK, SlotInv, Apart, NEW r \in Requests, Request(r),
         pc[r] = "insert" => ~Held(r)
  PROVE  Apart' /\ Fate
<1>1. CASE Insert(r)
  <2>1. running' = running \cup {r} /\ UNCHANGED <<ended, taken, keeper, proc>>
    BY <1>1 DEF Insert, procs, others
  <2>2. ~Held(r) /\ pc[r] = "insert" /\ pc'[r] = "send"
    BY <1>1 DEF Insert, Goes, TypeOK
  <2>3. keeper.op # r
    BY <2>2, Numbers DEF Apart, Held
  <2>4. Apart'
    BY <2>1, <2>2, <2>3 DEF Apart, Held
  <2>5. \A q \in Requests : q # r => Stays(q)
    BY <2>1 DEF Stays, Held
  <2>6. Starts(r)
    BY <2>1, <2>2 DEF Starts, Held
  <2> QED BY <2>4, <2>5, <2>6 DEF Fate
<1>2. CASE Send(r) \/ Answered(r)
  <2>1. FinishAs(r, "failed") \/ UNCHANGED <<running, ended>>
    BY <1>2 DEF Send, Answered
  <2>2. UNCHANGED <<cancelled, taken, proc, keeper>>
    BY <1>2 DEF Send, Answered, procs, others
  <2>3. "failed" \in Endings
    BY DEF Endings
  <2> QED BY <2>1, <2>2, <2>3, Finishing, Untouched
<1>3. CASE Spawn(r)
  <2>1. UNCHANGED <<running, taken, keeper, ended>>
    BY <1>3 DEF Spawn, ops, others
  <2>2. proc[mine[r]] = "none" /\ proc \in [Sessions -> Procs]
    BY <1>3 DEF Spawn, Goes, SlotInv, TypeOK
  <2>3. \A s \in Sessions : proc[s] = "putting" => proc'[s] = "putting"
    BY <1>3, <2>2 DEF Spawn
  <2> QED BY <2>1, <2>3, Untouched
<1>4. CASE Count(r) \/ EnsureActive(r) \/ Attach(r) \/ Handshake(r) \/ Activated(r) \/ FailStart(r)
  <2>1. UNCHANGED <<running, taken, keeper, ended, proc>>
    BY <1>4 DEF Count, EnsureActive, Attach, Handshake, Activated, FailStart, ops, others, procs
  <2> QED BY <2>1, Untouched
<1> QED BY <1>1, <1>2, <1>3, <1>4 DEF Request

(* A reader completes one, or takes them all and ends what is its worker's. *)
LEMMA WorkerFate ==
  ASSUME TypeOK, Apart, NEW s \in Sessions,
         Reader(s) \/ Exit(s) \/ \E r \in Requests : Completes(s, r)
  PROVE  Apart' /\ Fate
<1>a. proc \in [Sessions -> Procs] /\ taken \in [Sessions -> SUBSET Requests]
  BY DEF TypeOK
<1>1. CASE Complete(s)
  <2>1. reading[s] \in Requests /\ "completed" \in Endings
    BY <1>1 DEF Complete, TypeOK, Endings
  <2> QED BY <1>1, <2>1, Finishing DEF Complete, others
<1>2. CASE TakeAll(s)
  <2>1. /\ taken' = [taken EXCEPT ![s] = running] /\ running' = {} /\ taken[s] = {}
        /\ proc' = [proc EXCEPT ![s] = "putting"] /\ UNCHANGED <<keeper, ended>>
    BY <1>2 DEF TakeAll, others, Apart
  <2>2. Apart'
    BY <1>a, <2>1 DEF Apart
  <2>3. \A r \in Requests : Stays(r)
    BY <1>a, <2>1 DEF Stays, Held
  <2> QED BY <2>2, <2>3 DEF Fate
<1>3. CASE EndOrPutBack(s)
  <2>1. PICK r \in taken[s] :
          /\ taken' = [taken EXCEPT ![s] = @ \ {r}]
          /\ IF mine[r] = s
               THEN ended' = Concluded(ended, r, "failed") /\ UNCHANGED running
               ELSE Put(s, r) /\ UNCHANGED ended
    BY <1>3 DEF EndOrPutBack
  <2>2. /\ r \in Requests /\ "failed" \in Endings
        /\ r \notin running /\ keeper.op # r /\ \A u \in Sessions : r \in taken[u] => u = s
        /\ UNCHANGED <<proc, keeper, cancelled>>
    BY <1>a, <1>3 DEF EndOrPutBack, Apart, Endings, others
  <2>3. \A q \in Requests : q # r => \A u \in Sessions : q \in taken'[u] <=> q \in taken[u]
    BY <1>a, <2>1
  <2>4. \A u \in Sessions : taken'[u] \subseteq taken[u] /\ r \notin taken'[u]
    BY <1>a, <2>1, <2>2
  <2>5. CASE mine[r] = s
    <3>1. running' = running /\ ended' = Concluded(ended, r, "failed")
      BY <2>1, <2>5
    <3>2. Apart'
      BY <2>2, <2>4, <3>1 DEF Apart
    <3>3. \A q \in Requests : q # r => Stays(q)
      BY <2>2, <2>3, <3>1, Concluding DEF Stays, Held
    <3>4. Held(r) /\ ~Held(r)'
      BY <2>2, <2>4, <3>1 DEF Held
    <3>5. Ends(r)
      BY <2>2, <3>1, <3>4, Concluding DEF Ends
    <3> QED BY <3>2, <3>3, <3>5 DEF Fate
  <2>6. CASE mine[r] # s
    <3>1. running' = running \cup {r} /\ ended' = ended
      BY <2>1, <2>6 DEF Put
    <3>2. Apart'
      BY <2>2, <2>4, <3>1 DEF Apart
    <3>3. \A q \in Requests : Stays(q)
      BY <2>2, <2>3, <3>1 DEF Stays, Held
    <3> QED BY <3>2, <3>3 DEF Fate
  <2> QED BY <2>5, <2>6
<1>4. CASE Disconnected(s) \/ Exit(s) \/ \E r \in Requests : Completes(s, r)
  <2>1. UNCHANGED <<running, taken, keeper, ended>>
    BY <1>4 DEF Disconnected, Exit, Completes, ops, others
  <2>2. \A u \in Sessions : proc[u] = "putting" => proc'[u] = "putting"
    BY <1>a, <1>4 DEF Disconnected, Exit, Completes
  <2> QED BY <2>1, <2>2, Untouched
<1> QED BY <1>1, <1>2, <1>3, <1>4 DEF Reader

(* A stop ends every one that runs, the supervisor one that it took.       *)
LEMMA OthersFate ==
  ASSUME TypeOK, Apart, Person \/ Stopper \/ Keeper
  PROVE  Apart' /\ Fate
<1>1. CASE Person \/ StopClose \/ StopLast \/ StopAfter
  <2>1. UNCHANGED <<running, taken, keeper, ended, proc>>
    BY <1>1 DEF Person, StopFor, Enable, Cancel, StopClose, StopLast, StopAfter, ops, procs
  <2> QED BY <2>1, Untouched
<1>2. CASE StopFinish
  <2>1. /\ ended' = ConcludedAll(ended, running, "cancelled") /\ running' = {}
        /\ UNCHANGED <<taken, proc, keeper, cancelled>>
    BY <1>2 DEF StopFinish, procs
  <2>2. Apart'
    BY <2>1 DEF Apart
  <2>3. \A r \in Requests : r \notin running => Stays(r)
    BY <2>1 DEF Stays, Held, ConcludedAll
  <2>4. \A r \in running : Held(r) /\ ~Held(r)' /\ r \in Requests
    BY <2>1 DEF Held, Apart, TypeOK
  <2>5. \A r \in running : Ends(r)
    BY <2>1, <2>4 DEF Ends, ConcludedAll, Endings
  <2> QED BY <2>2, <2>3, <2>5 DEF Fate
<1>3. CASE Expire
  <2>1. PICK r \in running :
          /\ running' = running \ {r}
          /\ keeper' = [NoExpiry EXCEPT !.pc = "conclude", !.op = r]
    BY <1>3 DEF Expire
  <2>2. /\ keeper'.pc = "conclude" /\ keeper'.op = r /\ keeper.pc = "idle"
        /\ UNCHANGED <<taken, proc, ended>>
    BY <1>3, <2>1 DEF Expire, NoExpiry, procs
  <2>3. Apart'
    BY <2>1, <2>2 DEF Apart
  <2>4. \A q \in Requests : Stays(q)
    BY <2>1, <2>2 DEF Stays, Held
  <2> QED BY <2>3, <2>4 DEF Fate
<1>4. CASE ConcludeExpired
  <2>1. PICK late \in {FALSE, keeper.op \in cancelled} :
          /\ ended' = Concluded(ended, keeper.op, IF late THEN "cancelled" ELSE "failed")
          /\ keeper' = IF late /\ worker # NoSession
                         THEN [pc |-> "kill", op |-> None, worker |-> worker] ELSE NoExpiry
    BY <1>4 DEF ConcludeExpired
  <2>2. /\ keeper'.pc # "conclude" /\ keeper'.op = None /\ keeper.pc = "conclude"
        /\ UNCHANGED <<running, taken, proc, cancelled>>
    BY <1>4, <2>1 DEF ConcludeExpired, NoExpiry, procs
  <2>3. running \subseteq Requests /\ taken \in [Sessions -> SUBSET Requests]
    BY DEF TypeOK
  <2>4. Apart'
    BY <2>2, <2>3, Numbers DEF Apart
  <2>5. ASSUME NEW r \in Requests, r = keeper.op PROVE Apart' /\ Fate
    <3>1. Held(r) /\ ~Held(r)'
      BY <2>2, <2>5 DEF Held, Apart
    <3>2. \A q \in Requests : q # r => Stays(q)
      BY <2>1, <2>2, <2>5, Concluding DEF Stays, Held, Endings
    <3>3. Ends(r)
      BY <2>1, <2>2, <2>5, <3>1, Concluding DEF Ends, Endings
    <3> QED BY <2>4, <3>2, <3>3 DEF Fate
  <2>6. CASE keeper.op \notin Requests
    <3>1. ended' = ended
      BY <2>1, <2>6 DEF Concluded, TypeOK
    <3> QED BY <2>2, <2>4, <2>6, <3>1 DEF Fate, Stays, Held
  <2> QED BY <2>5, <2>6
<1>5. CASE Kill
  <2>1. /\ keeper.pc = "kill" /\ keeper'.pc = "idle" /\ keeper'.op = None
        /\ UNCHANGED <<running, taken, proc, ended>>
    BY <1>5 DEF Kill, NoExpiry, ops
  <2>2. running \subseteq Requests /\ taken \in [Sessions -> SUBSET Requests]
    BY DEF TypeOK
  <2>3. Apart'
    BY <2>1, <2>2, Numbers DEF Apart
  <2> QED BY <2>1, <2>3 DEF Fate, Stays, Held
<1> QED BY <1>1, <1>2, <1>3, <1>4, <1>5 DEF Stopper, Keeper

-----------------------------------------------------------------------------
(* What the host never does. *)

(* A request that has not begun its operation.                             *)
Before == {"idle", "queued", "spawn", "attach", "initialize", "activated", "failed", "insert"}

NotYet == \A r \in Requests : pc[r] \in Before => ended[r] = <<>> /\ ~Held(r)

(* The inductive invariant: an operation that has not begun is nobody's, so  *)
(* that it is begun once; what is begun has one holder until it ends.       *)
HostInv == TypeOK /\ SlotInv /\ Apart /\ NotYet /\ EndsOnce /\ CancelSticks

LEMMA HostInvInit == ASSUME Init PROVE HostInv
<1>1. TypeOK /\ SlotInv
  BY InitTyped, SlotInit
<1>2. /\ \A s \in Sessions : taken[s] = {}
      /\ keeper.pc = "idle" /\ keeper.op = None /\ running = {} /\ \A r \in Requests : ended[r] = <<>>
  BY DEF Init, NoExpiry
<1>3. Apart /\ \A r \in Requests : ~Held(r)
  BY <1>2 DEF Apart, Held
<1> QED BY <1>1, <1>2, <1>3 DEF HostInv, NotYet, EndsOnce, CancelSticks

(* A request goes on, and begins its operation once.                       *)
LEMMA GoesOn ==
  ASSUME TypeOK, [Next]_vars, NEW r \in Requests, pc'[r] \in Before
  PROVE  pc[r] \in Before
<1>1. ASSUME NEW q \in Requests, Request(q) PROVE pc[r] \in Before
  BY <1>1 DEF Request, Count, EnsureActive, Spawn, Attach, Handshake, Activated, FailStart, Insert,
              Send, Answered, Goes, Before, TypeOK
<1>2. ASSUME NEW s \in Sessions, Reader(s) \/ Exit(s) \/ \E q \in Requests : Completes(s, q)
      PROVE  pc' = pc
  BY <1>2 DEF Reader, Complete, Disconnected, TakeAll, EndOrPutBack, Exit, Completes, asking
<1>3. ASSUME Person \/ Stopper \/ Keeper \/ UNCHANGED vars PROVE pc' = pc
  BY <1>3 DEF Person, Stopper, StopFinish, StopClose, StopLast, StopAfter, Keeper, Expire,
              ConcludeExpired, Kill, asking, vars
<1> QED BY <1>1, <1>2, <1>3 DEF Next

(* Who is asked to cancel is running.                                      *)
LEMMA Cancelling ==
  ASSUME [Next]_vars
  PROVE  cancelled' \subseteq cancelled \cup running
<1>1. ASSUME NEW q \in Requests, Request(q) PROVE cancelled' = cancelled
  BY <1>1 DEF Request, Count, EnsureActive, Spawn, Attach, Handshake, Activated, FailStart, Insert,
              Send, Answered, ops
<1>2. ASSUME NEW s \in Sessions, Reader(s) \/ Exit(s) \/ \E q \in Requests : Completes(s, q)
      PROVE  cancelled' = cancelled
  BY <1>2 DEF Reader, Complete, Disconnected, TakeAll, EndOrPutBack, Exit, Completes, ops
<1>3. ASSUME Stopper \/ Keeper \/ UNCHANGED vars PROVE cancelled' = cancelled
  BY <1>3 DEF Stopper, StopFinish, StopClose, StopLast, StopAfter, Keeper, Expire,
              ConcludeExpired, Kill, ops, vars
<1>4. ASSUME Person PROVE cancelled' \subseteq cancelled \cup running
  BY <1>4 DEF Person, StopFor, Enable, Cancel, ops
<1> QED BY <1>1, <1>2, <1>3, <1>4 DEF Next

LEMMA HostFate == ASSUME HostInv, [Next]_vars PROVE Apart' /\ Fate
<1>1. TypeOK /\ SlotInv /\ Apart /\ \A r \in Requests : pc[r] = "insert" => ~Held(r)
  BY DEF HostInv, NotYet, Before
<1>2. CASE UNCHANGED vars
  <2>1. UNCHANGED <<running, taken, keeper, ended, proc>>
    BY <1>2 DEF vars, ops, procs, others
  <2> QED BY <1>1, <2>1, Untouched
<1> QED BY <1>1, <1>2, RequestFate, WorkerFate, OthersFate DEF Next

LEMMA HostInvStep == ASSUME HostInv, [Next]_vars PROVE HostInv'
<1>1. TypeOK /\ SlotInv /\ Apart /\ NotYet /\ EndsOnce /\ CancelSticks
  BY DEF HostInv
<1>2. TypeOK' /\ SlotInv' /\ Apart' /\ Fate
  BY <1>1, StepTyped, SlotStep, HostFate
<1>3. ended \in [Requests -> Seq(Endings)]
  BY <1>1 DEF TypeOK
<1>4. NotYet'
  <2> SUFFICES ASSUME NEW r \in Requests, pc'[r] \in Before PROVE ended'[r] = <<>> /\ ~Held(r)'
    BY DEF NotYet
  <2>1. ended[r] = <<>> /\ ~Held(r)
    BY <1>1, GoesOn DEF NotYet
  <2>2. ~Starts(r) /\ ~Ends(r)
    BY <2>1 DEF Starts, Ends, Before
  <2> QED BY <1>2, <2>1, <2>2 DEF Fate, Stays
<1>5. ASSUME NEW r \in Requests
      PROVE  /\ Len(ended'[r]) <= 1 /\ (Held(r)' => ended'[r] = <<>>)
             /\ ended'[r] = <<"completed">> => r \notin cancelled'
  <2>1. CASE Stays(r)
    <3>1. r \in running => Held(r)
      BY DEF Held
    <3>2. ended'[r] = ended[r] /\ (ended[r] = <<"completed">> => ended[r] # <<>>)
      BY <2>1 DEF Stays
    <3> QED BY <1>1, <2>1, <3>1, <3>2, Cancelling DEF EndsOnce, CancelSticks, Stays
  <2>2. CASE Ends(r)
    <3>1. ended[r] = <<>>
      BY <1>1, <2>2 DEF Ends, EndsOnce
    <3>2. PICK e \in Endings : /\ ended'[r] = Append(ended[r], e)
                               /\ e = "completed" => r \notin cancelled
      BY <2>2 DEF Ends
    <3>3. ended'[r] = <<e>>
      BY <3>1, <3>2
    <3> QED BY <2>2, <3>2, <3>3 DEF Ends
  <2>3. CASE Starts(r)
    <3>1. ended'[r] = <<>>
      BY <1>1, <2>3 DEF Starts, NotYet, Before
    <3> QED BY <3>1
  <2> QED BY <1>2, <2>1, <2>2, <2>3 DEF Fate
<1> QED BY <1>2, <1>4, <1>5 DEF HostInv, EndsOnce, CancelSticks

(* However the answers of a worker, its end, its timeout, a cancel and a    *)
(* stop race, an operation ends once, and who still holds one is not        *)
(* holding what has ended (finish, take_all, cancel_all, expire).          *)
THEOREM OperationEndsOnce == Spec => []EndsOnce
<1>1. HostInv => EndsOnce
  BY DEF HostInv
<1> QED BY <1>1, HostInvInit, HostInvStep, PTL DEF Spec

(* What was cancelled while it ran is never reported complete (finish).    *)
THEOREM CancelHolds == Spec => []CancelSticks
<1>1. HostInv => CancelSticks
  BY DEF HostInv
<1> QED BY <1>1, HostInvInit, HostInvStep, PTL DEF Spec

-----------------------------------------------------------------------------
(* The promise. *)

(* The promise of an operation's life but for its end: whatever the host    *)
(* does is a step of it, or none.  That every operation ends is beyond the  *)
(* prover.                                                                 *)
SafelyPromised == Abstract!Init /\ [][Abstract!Next]_Life

LEMMA PromisedInit == ASSUME Init PROVE Abstract!Init
<1>1. \A r \in Requests : ended[r] = <<>> /\ ~Held(r)
  BY DEF Init, Held, NoExpiry
<1> QED BY <1>1 DEF Abstract!Init, Life

(* How an operation's life shows in the host.                              *)
LEMMA Living ==
  ASSUME HostInv, NEW r \in Requests
  PROVE  /\ Life[r] \in {"new", "running"} \cup Endings
         /\ Held(r) => Life[r] = "running"
         /\ (ended[r] = <<>> /\ ~Held(r)) => Life[r] = "new"
<1>1. ended[r] \in Seq(Endings) /\ (Held(r) => ended[r] = <<>>)
  BY DEF HostInv, TypeOK, EndsOnce
<1>2. ended[r] # <<>> => ended[r][1] \in Endings
  BY <1>1
<1> QED BY <1>1, <1>2 DEF Life

LEMMA PromisedStep == ASSUME HostInv, [Next]_vars PROVE [Abstract!Next]_Life
<1>1. HostInv' /\ Fate
  BY HostInvStep, HostFate
<1>2. \A r \in Requests : Life'[r] \in {"new", "running"} \cup Endings
  <2>1. ended' \in [Requests -> Seq(Endings)]
    BY <1>1 DEF HostInv, TypeOK
  <2>2. \A r \in Requests : ended'[r] # <<>> => ended'[r][1] \in Endings
    BY <2>1
  <2> QED BY <2>2 DEF Life
<1>3. \A r \in Requests : Stays(r) => Life'[r] = Life[r]
  BY DEF Stays, Life
<1>4. ASSUME NEW r \in Requests, Ends(r)
      PROVE  Life[r] = "running" /\ Life'[r] \in Endings
  <2>1. ended[r] = <<>> /\ Life[r] = "running"
    BY <1>4, Living DEF Ends, HostInv, EndsOnce
  <2>2. PICK e \in Endings : ended'[r] = Append(ended[r], e)
    BY <1>4 DEF Ends
  <2>3. ended'[r] = <<e>>
    BY <2>1, <2>2
  <2> QED BY <2>1, <2>3 DEF Life
<1>5. CASE \A r \in Requests : Stays(r) \/ Ends(r)
  <2>1. Abstract!EndSeveral
    BY <1>1, <1>2, <1>3, <1>4, <1>5 DEF Abstract!EndSeveral, Abstract!Endings, Endings, Fate, Life
  <2> QED BY <2>1 DEF Abstract!Next
<1>6. ASSUME NEW r \in Requests, Starts(r), \A q \in Requests \ {r} : Stays(q)
      PROVE  Abstract!Next
  <2>1. Life[r] = "new" /\ Life'[r] = "running"
    <3>1. ended[r] = <<>> /\ ~Held(r)
      BY <1>6 DEF Starts, HostInv, NotYet, Before
    <3>2. ended'[r] = <<>> /\ Held(r)'
      BY <1>6, <3>1 DEF Starts
    <3> QED BY <3>1, <3>2 DEF Life
  <2>2. Life' = [Life EXCEPT ![r] = "running"]
    BY <2>1, <1>3, <1>6 DEF Life
  <2> QED BY <2>1, <2>2 DEF Abstract!Next, Abstract!Start
<1> QED BY <1>1, <1>5, <1>6 DEF Fate

(* The host implements the promise of an operation's life, its safety.     *)
THEOREM HostKeepsPromise == Spec => SafelyPromised
<1>1. Init => Abstract!Init
  BY PromisedInit
<1>2. HostInv /\ [Next]_vars => [Abstract!Next]_Life
  BY PromisedStep
<1> QED BY <1>1, <1>2, HostInvInit, HostInvStep, PTL DEF Spec, SafelyPromised
=============================================================================

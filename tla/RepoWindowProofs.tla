--------------------------- MODULE RepoWindowProofs ---------------------------
(***************************************************************************)
(* What the window and the shell keep, proved for any number of            *)
(* repositories, commands, walks and changes, and for every window, batch  *)
(* and history.                                                            *)
(***************************************************************************)
EXTENDS RepoWindow, TLAPS

-----------------------------------------------------------------------------
(* Types. *)

\* What is opened, walked or on its way is one of the repositories.
Placed ==
  /\ \A t \in Tokens : walk[t].pc = "idle" => walk[t].repo \in Repos
  /\ \A c \in Calls : calls[c].kind = "open" => calls[c].repo \in Repos
  /\ session = NoSession \/ session.repo \in Repos

Typed == TypeOK /\ Placed

LEMMA Numbers ==
  /\ MaxMoves \in Nat /\ MaxTokens \in Nat \ {0} /\ MaxRows \in Nat
  /\ Batch \in Nat \ {0} /\ FirstWindow \in Nat /\ NextWindow \in Nat
  /\ Length \in [0..MaxMoves -> 0..MaxRows]
  /\ 0 \notin Calls /\ None \notin Repos
BY WindowAssumption

LEMMA Nothings ==
  /\ NoSession \in Sessions /\ NoWalk \in Walks /\ NoWatch \in Watches
  /\ Free \in Commands
  /\ \A r \in Repos : NewWalk(r) \in Walks /\ NewWalk(r).pc = "idle"
                      /\ NewWalk(r).repo = r /\ NewWalk(r).at = 0
                      /\ NewWalk(r).asks = <<>>
<1>1. NoSession \in Sessions
  BY DEF NoSession, Sessions
<1>2. <<>> \in Seq(Nat)
  OBVIOUS
<1>3. NoWalk \in Walks
  BY <1>2, Numbers DEF NoWalk, Walks
<1>4. NoWatch \in Watches
  BY DEF NoWatch, Watches
<1>5. Free \in Commands
  BY <1>1 DEF Free, Commands
<1>6. ASSUME NEW r \in Repos
      PROVE  NewWalk(r) \in Walks /\ NewWalk(r).pc = "idle"
             /\ NewWalk(r).repo = r /\ NewWalk(r).at = 0 /\ NewWalk(r).asks = <<>>
  BY <1>3 DEF NewWalk, Walks, NoWalk
<1> QED BY <1>1, <1>3, <1>4, <1>5, <1>6

(* What is asked for is a command. *)
LEMMA AskTyped ==
  /\ \A kind \in {"open", "close", "reload", "choose"} \union Requests :
       AskFor(kind) \in Commands
  /\ \A kind \in Requests, t \in Tokens \union {0}, n \in Nat :
       AskRows(kind, t, n) \in Commands
  /\ \A r \in Repos, n \in Nat :
       [AskFor("open") EXCEPT !.repo = r, !.mine = n] \in Commands
  /\ \A n \in Nat : [AskFor("close") EXCEPT !.mine = n] \in Commands
BY Nothings DEF AskFor, AskRows, Commands, Free

(* A call that is made takes the place of a free one. *)
LEMMA AndIs ==
  ASSUME NEW cs \in [Calls -> Commands], NEW call \in Commands,
         \E c \in Calls : cs[c] = Free
  PROVE  \E d \in Calls : cs[d] = Free /\ And(cs, call) = [cs EXCEPT ![d] = call]
BY DEF And

LEMMA AndTyped ==
  ASSUME NEW cs \in [Calls -> Commands], NEW call \in Commands,
         \E c \in Calls : cs[c] = Free,
         \A c \in Calls : cs[c].kind = "open" => cs[c].repo \in Repos,
         call.kind = "open" => call.repo \in Repos
  PROVE  /\ And(cs, call) \in [Calls -> Commands]
         /\ \A c \in Calls : And(cs, call)[c].kind = "open" => And(cs, call)[c].repo \in Repos
<1>1. PICK d \in Calls : And(cs, call) = [cs EXCEPT ![d] = call]
  BY AndIs
<1> QED BY <1>1

LEMMA InitTyped == ASSUME Init PROVE Typed
<1>1. moves \in 0..MaxMoves /\ disk \in [Repos -> 0..moves]
  BY Numbers DEF Init
<1>2. /\ session \in Sessions /\ lock \in Calls \union {0}
      /\ opened \in Nat /\ made \in 0..MaxTokens /\ settled \in Nat
  BY Numbers, Nothings DEF Init
<1>3. walk \in [Tokens -> Walks] /\ watch \in [Tickets -> Watches]
  BY Nothings DEF Init
<1>4. calls \in [Calls -> Commands]
  BY Nothings DEF Init
<1>5. /\ heard \in [Tokens -> Nat]
      /\ word \in [Tokens -> {"none", "whole", "stopped", "failed"}]
  BY DEF Init
<1>6. /\ changed \in Nat /\ asked \in Nat /\ shown \in BOOLEAN
      /\ token \in Tokens \union {0} /\ timer \in BOOLEAN
      /\ rows \in [1..MaxRows -> Tokens \union {0}] /\ requested \in Nat
      /\ complete \in BOOLEAN /\ pendingReset \in BOOLEAN /\ error \in BOOLEAN
  BY DEF Init
<1>7. TypeOK
  BY <1>1, <1>2, <1>3, <1>4, <1>5, <1>6 DEF TypeOK
<1>8. Placed
  BY DEF Init, Placed, NoWalk, Free
<1> QED BY <1>7, <1>8 DEF Typed

(* Telling the threads of a session to stop keeps what they are.           *)
LEMMA StoppingKeeps ==
  ASSUME TypeOK, NEW s, Stopping(s)
  PROVE  /\ walk' \in [Tokens -> Walks] /\ watch' \in [Tickets -> Watches]
         /\ \A t \in Tokens : walk'[t] = [walk[t] EXCEPT !.stop = walk'[t].stop]
         /\ \A t \in Tokens : walk[t].stop => walk'[t].stop
         /\ \A k \in Tickets : watch'[k] = [watch[k] EXCEPT !.stop = watch'[k].stop]
         /\ \A k \in Tickets : watch[k].stop => watch'[k].stop
<1>1. \A w \in Walks : [w EXCEPT !.stop = TRUE] \in Walks /\ w = [w EXCEPT !.stop = w.stop]
  BY DEF Walks
<1>2. \A w \in Watches : [w EXCEPT !.stop = TRUE] \in Watches /\ w = [w EXCEPT !.stop = w.stop]
  BY DEF Watches
<1>3. walk \in [Tokens -> Walks] /\ watch \in [Tickets -> Watches]
  BY DEF TypeOK
<1>4. \A t \in Tokens : walk'[t] \in {walk[t], [walk[t] EXCEPT !.stop = TRUE]}
  BY DEF Stopping
<1>5. \A k \in Tickets : watch'[k] \in {watch[k], [watch[k] EXCEPT !.stop = TRUE]}
  BY DEF Stopping
<1>6. \A w \in Walks : [w EXCEPT !.stop = TRUE].stop = TRUE
  BY DEF Walks
<1>7. \A w \in Watches : [w EXCEPT !.stop = TRUE].stop = TRUE
  BY DEF Watches
<1>8. walk' \in [Tokens -> Walks]
  BY <1>1, <1>3, <1>4 DEF Stopping
<1>9. watch' \in [Tickets -> Watches]
  BY <1>2, <1>3, <1>5 DEF Stopping
<1>10. \A t \in Tokens : walk'[t] = [walk[t] EXCEPT !.stop = walk'[t].stop]
  BY <1>1, <1>3, <1>4, <1>6
<1>11. \A k \in Tickets : watch'[k] = [watch[k] EXCEPT !.stop = watch'[k].stop]
  BY <1>2, <1>3, <1>5, <1>7
<1>12. \A t \in Tokens : walk[t].stop => walk'[t].stop
  BY <1>3, <1>4, <1>6
<1>13. \A k \in Tickets : watch[k].stop => watch'[k].stop
  BY <1>3, <1>5, <1>7
<1> QED BY <1>8, <1>9, <1>10, <1>11, <1>12, <1>13

(* The types, by what they are of. *)
DisksOK == moves \in 0..MaxMoves /\ disk \in [Repos -> 0..moves]
ShellOK == /\ session \in Sessions /\ lock \in Calls \union {0}
           /\ opened \in Nat /\ made \in 0..MaxTokens /\ settled \in Nat
EventsOK == /\ heard \in [Tokens -> Nat]
            /\ word \in [Tokens -> {"none", "whole", "stopped", "failed"}]
            /\ changed \in Nat
GraphOK == /\ rows \in [1..MaxRows -> Tokens \union {0}] /\ requested \in Nat
           /\ complete \in BOOLEAN /\ pendingReset \in BOOLEAN /\ error \in BOOLEAN
WindowOK == /\ asked \in Nat /\ shown \in BOOLEAN
            /\ token \in Tokens \union {0} /\ timer \in BOOLEAN
            /\ GraphOK
WorkersOK == walk \in [Tokens -> Walks] /\ watch \in [Tickets -> Watches]

LEMMA Parts ==
  TypeOK <=> /\ DisksOK /\ ShellOK /\ WorkersOK /\ calls \in [Calls -> Commands]
             /\ EventsOK /\ WindowOK
BY DEF TypeOK, DisksOK, ShellOK, WorkersOK, EventsOK, WindowOK, GraphOK

LEMMA PartsNext ==
  ASSUME DisksOK', ShellOK', WorkersOK', (calls \in [Calls -> Commands])', EventsOK', WindowOK'
  PROVE  TypeOK'
BY DEF TypeOK, DisksOK, ShellOK, WorkersOK, EventsOK, WindowOK, GraphOK

LEMMA PartsKept ==
  ASSUME TypeOK
  PROVE  /\ UNCHANGED disks => DisksOK'
         /\ UNCHANGED shell => ShellOK'
         /\ UNCHANGED <<walk, watch>> => WorkersOK'
         /\ UNCHANGED calls => (calls \in [Calls -> Commands])'
         /\ UNCHANGED events => EventsOK'
         /\ UNCHANGED graph => GraphOK'
         /\ UNCHANGED window => WindowOK'
BY DEF TypeOK, disks, shell, events, graph, window,
       DisksOK, ShellOK, WorkersOK, EventsOK, WindowOK, GraphOK

(* What stays placed when no walk starts and no call is made.              *)
LEMMA PlacedKept ==
  ASSUME Placed, TypeOK,
         \A t \in Tokens : walk'[t].pc = "idle" =>
            walk[t].pc = "idle" /\ walk'[t].repo = walk[t].repo,
         \A c \in Calls : calls'[c].kind = "open" =>
            calls[c].kind = "open" /\ calls'[c].repo = calls[c].repo,
         \/ session' \in {NoSession, session}
         \/ session # NoSession /\ session'.repo = session.repo
  PROVE  Placed'
<1>1. \A t \in Tokens : walk'[t].pc = "idle" => walk'[t].repo \in Repos
  BY DEF Placed
<1>2. \A c \in Calls : calls'[c].kind = "open" => calls'[c].repo \in Repos
  BY DEF Placed
<1>3. session' = NoSession \/ session'.repo \in Repos
  BY DEF Placed
<1> QED BY <1>1, <1>2, <1>3 DEF Placed

LEMMA CommandTyped ==
  ASSUME Typed, NEW c \in Calls, Command(c)
  PROVE  Typed'
<1> USE DEF Typed
<1>p. /\ calls \in [Calls -> Commands] /\ calls[c] \in Commands
      /\ session \in Sessions /\ opened \in Nat /\ made \in 0..MaxTokens /\ settled \in Nat
      /\ walk \in [Tokens -> Walks] /\ watch \in [Tickets -> Watches]
  BY DEF TypeOK
<1>q. /\ calls[c].ticket \in Nat /\ calls[c].token \in Tokens \union {0}
      /\ calls[c].repo \in Repos \union {None}
  BY <1>p DEF Commands
<1>1. CASE TakeTicket(c)
  <2>1. calls' \in [Calls -> Commands]
    <3>1. opened + 1 \in Nat
      BY <1>p
    <3>2. [calls[c] EXCEPT !.pc = "reading", !.ticket = opened + 1] \in Commands
      BY <1>p, <3>1 DEF Commands
    <3>3. calls' = [calls EXCEPT ![c] = [calls[c] EXCEPT !.pc = "reading", !.ticket = opened + 1]]
      BY <1>1, <1>p DEF TakeTicket, Commands
    <3> QED BY <1>p, <3>2, <3>3
  <2>2. ShellOK'
    BY <1>1, <1>p DEF TakeTicket, ShellOK, TypeOK
  <2>3. TypeOK'
    BY <1>1, <2>1, <2>2, PartsNext, PartsKept DEF TakeTicket, WorkersOK
  <2>4. Placed'
    BY <1>1, <1>p, PlacedKept DEF TakeTicket
  <2> QED BY <2>3, <2>4
<1>2. CASE ReadRepository(c)
  <2>1. calls' \in [Calls -> Commands]
    BY <1>2, <1>p DEF ReadRepository, Goto, Commands
  <2>2. TypeOK'
    BY <1>2, <2>1, PartsNext, PartsKept DEF ReadRepository
  <2>3. Placed'
    BY <1>2, <1>p, PlacedKept DEF ReadRepository, Goto, shell, Commands
  <2> QED BY <2>2, <2>3
<1>3. CASE StartWorkers(c)
  <2>1. calls[c].repo \in Repos /\ made + 1 \in Tokens /\ made' = made + 1
    BY <1>3, <1>p, Numbers DEF StartWorkers, Placed, At, Tokens
  <2>2. calls' \in [Calls -> Commands]
    BY <1>3, <1>p, <2>1 DEF StartWorkers, Commands
  <2>3. [NoWatch EXCEPT !.pc = "waiting", !.repo = calls[c].repo] \in Watches
    BY <2>1 DEF NoWatch, Watches
  <2>4. WorkersOK'
    BY <1>3, <1>p, <2>1, <2>3, Nothings DEF StartWorkers, WorkersOK
  <2>5. ShellOK'
    BY <1>3, <1>p, <2>1, Numbers DEF StartWorkers, ShellOK, TypeOK, Tokens
  <2>6. TypeOK'
    BY <1>3, <2>2, <2>4, <2>5, PartsNext, PartsKept DEF StartWorkers
  <2>7. \A t \in Tokens : walk'[t].pc = "idle" => walk'[t].repo \in Repos
    BY <1>3, <1>p, <2>1, Nothings DEF StartWorkers, Placed
  <2>8. \A d \in Calls : calls'[d].kind = "open" => calls'[d].repo \in Repos
    BY <1>3, <1>p, <2>1 DEF StartWorkers, Placed
  <2>9. Placed'
    BY <1>3, <2>7, <2>8 DEF StartWorkers, Placed
  <2> QED BY <2>6, <2>9
<1>4. CASE InstallSession(c)
  <2>1. calls' \in [Calls -> Commands]
    BY <1>4, <1>p DEF InstallSession, Commands
  <2>2. /\ walk' \in [Tokens -> Walks] /\ watch' \in [Tickets -> Watches]
        /\ \A t \in Tokens : walk'[t] = [walk[t] EXCEPT !.stop = walk'[t].stop]
    BY <1>4, StoppingKeeps DEF InstallSession
  <2>3. session' \in Sessions
    BY <1>4, <1>q DEF InstallSession, Sessions
  <2>4. ShellOK'
    BY <1>4, <1>p, <1>q, <2>3 DEF InstallSession, ShellOK, Larger
  <2>5. TypeOK'
    BY <1>4, <2>1, <2>2, <2>4, PartsNext, PartsKept DEF InstallSession, WorkersOK
  <2>6. calls[c].repo \in Repos
    BY <1>4 DEF InstallSession, Placed, At
  <2>7. \A t \in Tokens : walk'[t].pc = walk[t].pc /\ walk'[t].repo = walk[t].repo
    BY <1>p, <2>2 DEF Walks
  <2>8. \A d \in Calls : calls'[d].kind = calls[d].kind /\ calls'[d].repo = calls[d].repo
    BY <1>4, <1>p DEF InstallSession, Commands
  <2>9. Placed'
    BY <1>4, <2>6, <2>7, <2>8 DEF InstallSession, Placed
  <2> QED BY <2>5, <2>9
<1>5. CASE Supersede(c)
  <2>1. calls' \in [Calls -> Commands]
    BY <1>5, <1>p DEF Supersede, Goto, Commands
  <2>2. /\ walk' \in [Tokens -> Walks] /\ watch' \in [Tickets -> Watches]
        /\ \A t \in Tokens : walk'[t] = [walk[t] EXCEPT !.stop = walk'[t].stop]
    BY <1>5, StoppingKeeps DEF Supersede
  <2>3. TypeOK'
    BY <1>5, <2>1, <2>2, PartsNext, PartsKept DEF Supersede, WorkersOK
  <2>4. \A t \in Tokens : walk'[t].pc = walk[t].pc /\ walk'[t].repo = walk[t].repo
    BY <1>p, <2>2 DEF Walks
  <2>5. \A d \in Calls : calls'[d].kind = calls[d].kind /\ calls'[d].repo = calls[d].repo
    BY <1>5, <1>p DEF Supersede, Goto, Commands
  <2>6. Placed'
    BY <1>5, <2>4, <2>5, PlacedKept DEF Supersede, shell
  <2> QED BY <2>3, <2>6
<1>6. CASE Dropped(c)
  <2>1. calls' \in [Calls -> Commands]
    BY <1>6, <1>p DEF Dropped, Goto, Commands
  <2>2. TypeOK'
    BY <1>6, <2>1, PartsNext, PartsKept DEF Dropped
  <2>3. Placed'
    BY <1>6, <1>p, PlacedKept DEF Dropped, Goto, shell
  <2> QED BY <2>2, <2>3
<1>7. CASE CloseRepo(c)
  <2>1. calls' \in [Calls -> Commands]
    BY <1>7, <1>p DEF CloseRepo, Commands
  <2>2. /\ walk' \in [Tokens -> Walks] /\ watch' \in [Tickets -> Watches]
        /\ \A t \in Tokens : walk'[t] = [walk[t] EXCEPT !.stop = walk'[t].stop]
    BY <1>7, StoppingKeeps DEF CloseRepo
  <2>3. ShellOK'
    BY <1>7, <1>p, Nothings DEF CloseRepo, ShellOK, Larger
  <2>4. TypeOK'
    BY <1>7, <2>1, <2>2, <2>3, PartsNext, PartsKept DEF CloseRepo, WorkersOK
  <2>5. \A t \in Tokens : walk'[t].pc = walk[t].pc /\ walk'[t].repo = walk[t].repo
    BY <1>p, <2>2 DEF Walks
  <2>6. \A d \in Calls : calls'[d].kind = calls[d].kind /\ calls'[d].repo = calls[d].repo
    BY <1>7, <1>p DEF CloseRepo, Commands
  <2>7. Placed'
    BY <1>7, <2>5, <2>6, PlacedKept DEF CloseRepo
  <2> QED BY <2>4, <2>7
<1>8. CASE Joined(c)
  <2>1. calls' \in [Calls -> Commands]
    BY <1>8, <1>p DEF Joined, Goto, Commands
  <2>2. ShellOK'
    BY <1>8, <1>p DEF Joined, ShellOK
  <2>3. TypeOK'
    BY <1>8, <2>1, <2>2, PartsNext, PartsKept DEF Joined
  <2>4. Placed'
    BY <1>8, <1>p, PlacedKept DEF Joined, Goto
  <2> QED BY <2>3, <2>4
<1>9. CASE RestartWalk(c)
  <2>1. CASE session = NoSession /\ Goto(c, "refused") /\ UNCHANGED <<session, lock, made, walk, watch>>
    <3>1. calls' \in [Calls -> Commands]
      BY <2>1, <1>p DEF Goto, Commands
    <3>2. UNCHANGED <<disks, shell, walk, watch, events, window>>
      BY <1>9, <2>1 DEF RestartWalk, shell
    <3>3. TypeOK'
      BY <3>1, <3>2, PartsNext, PartsKept
    <3>4. Placed'
      BY <2>1, <1>p, PlacedKept DEF Goto
    <3> QED BY <3>3, <3>4
  <2>2. CASE session # NoSession /\ made < MaxTokens
    <3>1. made + 1 \in Tokens /\ session.repo \in Repos
      BY <2>2, <1>p, Numbers DEF Tokens, Placed
    <3>2. /\ made' = made + 1 /\ lock' = c
          /\ session' = [session EXCEPT !.token = made + 1]
          /\ walk' = [walk EXCEPT ![made + 1] = NewWalk(session.repo),
                                  ![session.token].stop = TRUE]
          /\ calls' = [calls EXCEPT ![c].pc = "joining", ![c].token = made + 1,
                                    ![c].old = [session EXCEPT !.ticket = 0]]
          /\ UNCHANGED <<watch, disks, opened, settled, events, window>>
      BY <1>9, <2>2 DEF RestartWalk
    <3>3. /\ [session EXCEPT !.ticket = 0] \in Sessions
          /\ session' \in Sessions /\ session' # NoSession /\ session'.repo = session.repo
      BY <1>p, <3>1, <3>2, Numbers DEF Sessions, NoSession
    <3>4. calls' \in [Calls -> Commands]
      BY <1>p, <3>1, <3>2, <3>3 DEF Commands
    <3>5. \A w \in Walks : /\ [w EXCEPT !.stop = TRUE] \in Walks
                           /\ [w EXCEPT !.stop = TRUE].pc = w.pc
                           /\ [w EXCEPT !.stop = TRUE].repo = w.repo
      BY DEF Walks
    <3>6. \A t \in Tokens : /\ walk'[t] \in Walks
                            /\ \/ walk'[t].pc = walk[t].pc /\ walk'[t].repo = walk[t].repo
                               \/ walk'[t].repo \in Repos
      BY <1>p, <3>1, <3>2, <3>5, Nothings
    <3>7. WorkersOK'
      BY <1>p, <3>2, <3>6 DEF WorkersOK
    <3>8. ShellOK'
      BY <1>p, <2>2, <3>2, <3>3, Numbers DEF ShellOK, Tokens
    <3>9. TypeOK'
      BY <3>2, <3>4, <3>7, <3>8, PartsNext, PartsKept
    <3>10. \A d \in Calls : calls'[d].kind = calls[d].kind /\ calls'[d].repo = calls[d].repo
      BY <1>p, <3>2 DEF Commands
    <3>11. Placed'
      BY <3>1, <3>3, <3>6, <3>10 DEF Placed
    <3> QED BY <3>9, <3>11
  <2> QED BY <1>9, <2>1, <2>2 DEF RestartWalk
<1>10. CASE GraphRequest(c)
  <2>1. [calls[c] EXCEPT !.pc = "refused"] \in Commands
    BY <1>p DEF Commands
  <2>2. calls' \in [Calls -> Commands]
    BY <1>10, <1>p, <2>1, Nothings DEF GraphRequest
  <2>3. calls[c].count \in Nat /\ calls[c].kind \in Requests
    BY <1>10, <1>p DEF GraphRequest, Commands
  <2>4. \A w \in Walks : /\ [w EXCEPT !.asks = Append(w.asks, calls[c].count)] \in Walks
                         /\ [w EXCEPT !.asks = Append(w.asks, calls[c].count)].pc = w.pc
                         /\ [w EXCEPT !.asks = Append(w.asks, calls[c].count)].repo = w.repo
    <3>1. \A q \in Seq(Nat) : Append(q, calls[c].count) \in Seq(Nat)
      BY <2>3
    <3> QED BY <3>1 DEF Walks
  <2>5. walk' = walk \/ walk' = [walk EXCEPT ![calls[c].token].asks = Append(@, calls[c].count)]
    BY <1>10 DEF GraphRequest
  <2>6. \A t \in Tokens : walk'[t] \in Walks /\ walk'[t].pc = walk[t].pc /\ walk'[t].repo = walk[t].repo
    <3>1. CASE walk' = walk
      BY <1>p, <3>1
    <3>2. CASE walk' = [walk EXCEPT ![calls[c].token].asks = Append(@, calls[c].count)]
      <4> TAKE t \in Tokens
      <4>1. walk[t] \in Walks
        BY <1>p
      <4>2. walk'[t] \in {walk[t], [walk[t] EXCEPT !.asks = Append(walk[t].asks, calls[c].count)]}
        BY <1>p, <3>2
      <4> QED BY <2>4, <4>1, <4>2
    <3> QED BY <2>5, <3>1, <3>2
  <2>7. WorkersOK'
    BY <1>10, <1>p, <2>5, <2>6 DEF GraphRequest, WorkersOK
  <2>8. TypeOK'
    BY <1>10, <2>2, <2>7, PartsNext, PartsKept DEF GraphRequest
  <2>9. \A d \in Calls : calls'[d].kind = "open" => calls[d].kind = "open" /\ calls'[d].repo = calls[d].repo
    BY <1>10, <1>p, <2>1, <2>3 DEF GraphRequest, Commands, Free, Requests
  <2>10. Placed'
    BY <1>10, <2>6, <2>9, PlacedKept DEF GraphRequest, shell
  <2> QED BY <2>8, <2>10
<1> QED BY <1>1, <1>2, <1>3, <1>4, <1>5, <1>6, <1>7, <1>8, <1>9, <1>10 DEF Command

(* The window asks the shell for one thing at a time. *)
LEMMA AskedTyped ==
  ASSUME Typed, NEW cs \in [Calls -> Commands], NEW call \in Commands,
         \E c \in Calls : cs[c] = Free,
         \A c \in Calls : cs[c].kind = "open" => cs[c].repo \in Repos,
         call.kind = "open" => call.repo \in Repos,
         calls' = And(cs, call),
         UNCHANGED <<shell, walk, watch>>
  PROVE  /\ (calls \in [Calls -> Commands])' /\ ShellOK' /\ WorkersOK'
         /\ Placed'
<1>1. /\ calls' \in [Calls -> Commands]
      /\ \A c \in Calls : calls'[c].kind = "open" => calls'[c].repo \in Repos
  BY AndTyped
<1>2. ShellOK' /\ WorkersOK'
  BY PartsKept DEF Typed
<1>3. Placed'
  BY <1>1 DEF Typed, Placed, shell
<1> QED BY <1>1, <1>2, <1>3

(* An answer frees its call. *)
LEMMA FreedTyped ==
  ASSUME Typed, NEW c \in Calls
  PROVE  /\ [calls EXCEPT ![c] = Free] \in [Calls -> Commands]
         /\ \E d \in Calls : [calls EXCEPT ![c] = Free][d] = Free
         /\ \A d \in Calls : [calls EXCEPT ![c] = Free][d].kind = "open" =>
              [calls EXCEPT ![c] = Free][d].repo \in Repos
<1>1. calls \in [Calls -> Commands] /\ Free.kind = "none"
  BY DEF Typed, TypeOK, Free
<1> QED BY <1>1, Nothings DEF Typed, Placed

LEMMA ResetTyped ==
  ASSUME Reset
  PROVE  /\ rows' \in [1..MaxRows -> Tokens \union {0}]
         /\ complete' \in BOOLEAN /\ pendingReset' \in BOOLEAN /\ error' \in BOOLEAN
BY DEF Reset

LEMMA PersonTyped ==
  ASSUME Typed, Person
  PROVE  Typed'
<1>p. /\ calls \in [Calls -> Commands] /\ moves \in 0..MaxMoves /\ disk \in [Repos -> 0..moves]
      /\ asked \in Nat /\ requested \in Nat /\ token \in Tokens \union {0}
      /\ MaxMoves \in Nat
  BY Numbers DEF Typed, TypeOK
<1>q. \A c \in Calls : calls[c].kind = "open" => calls[c].repo \in Repos
  BY DEF Typed, Placed
<1>m. ASSUME moves < MaxMoves, moves' = moves + 1, disk' = disk
      PROVE  DisksOK'
  <2>1. moves' \in 0..MaxMoves /\ moves < moves'
    BY <1>m, <1>p
  <2>2. disk \in [Repos -> 0..moves']
    BY <2>1, <1>p
  <2> QED BY <2>1, <2>2, <1>m DEF DisksOK
<1>k. TypeOK
  BY DEF Typed
<1>1. ASSUME NEW r \in Repos, OpenRepo(r)
      PROVE  Typed'
  <2>1. [AskFor("open") EXCEPT !.repo = r, !.mine = asked + 1] \in Commands
    <3>1. asked + 1 \in Nat
      BY <1>p
    <3> QED BY <3>1, Nothings DEF AskFor, Free, Commands
  <2>2. [AskFor("open") EXCEPT !.repo = r, !.mine = asked + 1].repo = r
    BY DEF AskFor, Free
  <2>3. (calls \in [Calls -> Commands])' /\ ShellOK' /\ WorkersOK' /\ Placed'
    BY <1>1, <1>p, <1>q, <2>1, <2>2, AskedTyped DEF OpenRepo, Room
  <2>4. WindowOK'
    BY <1>1, <1>k, <1>p, PartsKept DEF OpenRepo, WindowOK, TypeOK, graph
  <2>5. DisksOK' /\ EventsOK'
    BY <1>1, <1>k, <1>m, PartsKept DEF OpenRepo
  <2> QED BY <2>3, <2>4, <2>5, PartsNext DEF Typed
<1>2. CASE Close
  <2>1. /\ [AskFor("close") EXCEPT !.mine = asked + 1] \in Commands
        /\ [AskFor("close") EXCEPT !.mine = asked + 1].kind = "close"
    <3>1. asked + 1 \in Nat
      BY <1>p
    <3> QED BY <3>1, Nothings DEF AskFor, Free, Commands
  <2>3. (calls \in [Calls -> Commands])' /\ ShellOK' /\ WorkersOK' /\ Placed'
    BY <1>2, <1>p, <1>q, <2>1, AskedTyped DEF Close, Room
  <2>4. WindowOK'
    BY <1>2, <1>k, <1>p, PartsKept DEF Close, WindowOK, TypeOK, graph
  <2>5. DisksOK' /\ EventsOK'
    BY <1>2, <1>k, <1>m, PartsKept DEF Close
  <2> QED BY <2>3, <2>4, <2>5, PartsNext DEF Typed
<1>3. CASE Choose
  <2>1. AskFor("choose") \in Commands /\ AskFor("choose").kind = "choose"
    BY AskTyped DEF AskFor, Free
  <2>3. (calls \in [Calls -> Commands])' /\ ShellOK' /\ WorkersOK' /\ Placed'
    BY <1>3, <1>p, <1>q, <2>1, AskedTyped DEF Choose, Room
  <2>5. DisksOK' /\ EventsOK' /\ WindowOK'
    BY <1>3, <1>k, <1>m, PartsKept DEF Choose
  <2> QED BY <2>3, <2>5, PartsNext DEF Typed
<1>4. CASE Ensure
  <2>1. AskRows("rows", token, NextWindow) \in Commands /\ AskRows("rows", token, NextWindow).kind = "rows"
    BY <1>p, AskTyped, Numbers DEF AskRows, AskFor, Free, Requests
  <2>3. (calls \in [Calls -> Commands])' /\ ShellOK' /\ WorkersOK' /\ Placed'
    BY <1>4, <1>p, <1>q, <2>1, AskedTyped DEF Ensure, Room
  <2>4. WindowOK'
    BY <1>4, <1>k, <1>p, Numbers DEF Ensure, WindowOK, GraphOK, TypeOK
  <2>5. DisksOK' /\ EventsOK'
    BY <1>4, <1>k, PartsKept DEF Ensure
  <2> QED BY <2>3, <2>4, <2>5, PartsNext DEF Typed
<1> QED BY <1>1, <1>2, <1>3, <1>4 DEF Person

LEMMA AnsweredTyped ==
  ASSUME Typed, NEW c \in Calls, Answered(c)
  PROVE  Typed'
<1> DEFINE cs == [calls EXCEPT ![c] = Free]
<1>k. TypeOK
  BY DEF Typed
<1>p. /\ calls \in [Calls -> Commands] /\ calls[c] \in Commands
      /\ calls[c].token \in Tokens \union {0} /\ GraphOK
      /\ shown \in BOOLEAN /\ token \in Tokens \union {0} /\ asked \in Nat /\ timer \in BOOLEAN
  BY DEF Typed, TypeOK, Commands, GraphOK
<1>f. /\ cs \in [Calls -> Commands] /\ \E d \in Calls : cs[d] = Free
      /\ \A d \in Calls : cs[d].kind = "open" => cs[d].repo \in Repos
  BY FreedTyped
<1>r. \A kind \in Requests, t \in Tokens \union {0} :
        AskRows(kind, t, FirstWindow) \in Commands /\ AskRows(kind, t, FirstWindow).kind # "open"
  BY AskTyped, Numbers DEF AskRows, AskFor, Free, Requests
\* The call is freed, and another may be made.
<1>c. ASSUME \/ calls' = cs
             \/ \E kind \in Requests, t \in Tokens \union {0} :
                   calls' = And(cs, AskRows(kind, t, FirstWindow)),
             UNCHANGED <<disks, shell, walk, watch, events>>,
             WindowOK'
      PROVE  Typed'
  <2>1. /\ calls' \in [Calls -> Commands]
        /\ \A d \in Calls : calls'[d].kind = "open" => calls'[d].repo \in Repos
    <3>1. CASE calls' = cs
      BY <1>f, <3>1
    <3>2. ASSUME NEW kind \in Requests, NEW t \in Tokens \union {0},
                 calls' = And(cs, AskRows(kind, t, FirstWindow))
          PROVE  /\ calls' \in [Calls -> Commands]
                 /\ \A d \in Calls : calls'[d].kind = "open" => calls'[d].repo \in Repos
      <4>1. AskRows(kind, t, FirstWindow) \in Commands
            /\ AskRows(kind, t, FirstWindow).kind # "open"
        BY <1>r
      <4> HIDE DEF cs
      <4> QED BY <1>f, <3>2, <4>1, AndTyped
    <3> QED BY <1>c, <3>1, <3>2
  <2>2. DisksOK' /\ ShellOK' /\ WorkersOK' /\ EventsOK'
    BY <1>c, <1>k, PartsKept
  <2>3. Placed'
    BY <1>c, <2>1 DEF Typed, Placed, shell
  <2> QED BY <1>c, <2>1, <2>2, <2>3, PartsNext DEF Typed
<1>s. ASSUME NEW t \in Tokens \union {0}, ShowWalk(cs, t)
      PROVE  /\ token' \in Tokens \union {0} /\ GraphOK'
             /\ \/ calls' = cs
                \/ \E kind \in Requests, u \in Tokens \union {0} :
                      calls' = And(cs, AskRows(kind, u, FirstWindow))
  <2>1. GraphOK'
    BY <1>s, ResetTyped, Numbers DEF ShowWalk, GraphOK
  <2> QED BY <1>s, <2>1 DEF ShowWalk, Requests
<1>1. CASE OpenAnswered(c)
  <2>1. UNCHANGED <<disks, shell, walk, watch, events, asked, timer>>
    BY <1>1 DEF OpenAnswered
  <2>2. CASE calls' = cs /\ UNCHANGED <<shown, token, graph>>
    BY <2>1, <2>2, <1>c, <1>k, <1>p, PartsKept DEF WindowOK
  <2>3. CASE shown' = TRUE /\ ShowWalk(cs, calls[c].token)
    BY <2>1, <2>3, <1>c, <1>p, <1>s DEF WindowOK
  <2>4. CASE shown' = FALSE /\ token' = 0 /\ calls' = cs /\ UNCHANGED graph
    BY <2>1, <2>4, <1>c, <1>k, <1>p, PartsKept DEF WindowOK
  <2> QED BY <1>1, <2>2, <2>3, <2>4 DEF OpenAnswered
<1>2. CASE CloseAnswered(c)
  <2>1. UNCHANGED <<disks, shell, walk, watch, events, asked, timer>>
    BY <1>2 DEF CloseAnswered
  <2>2. CASE calls' = cs /\ UNCHANGED <<shown, token, graph>>
    BY <2>1, <2>2, <1>c, <1>k, <1>p, PartsKept DEF WindowOK
  <2>3. CASE shown' = FALSE /\ ShowWalk(cs, 0)
    BY <2>1, <2>3, <1>c, <1>p, <1>s DEF WindowOK
  <2> QED BY <1>2, <2>2, <2>3 DEF CloseAnswered
<1>3. CASE RestartAnswered(c)
  <2>1. UNCHANGED <<disks, shell, walk, watch, events, asked, shown, timer>>
    BY <1>3 DEF RestartAnswered
  <2>2. CASE \E kind \in {"reloaded", "chosen"} : Adopt(cs, calls[c].token, kind)
    <3>1. PICK kind \in {"reloaded", "chosen"} : Adopt(cs, calls[c].token, kind)
      BY <2>2
    <3>2. GraphOK' /\ token' \in Tokens \union {0}
      BY <3>1, <1>p, Numbers DEF Adopt, GraphOK
    <3>3. calls' = And(cs, AskRows(kind, calls[c].token, FirstWindow)) /\ kind \in Requests
      BY <3>1 DEF Adopt, Requests
    <3> QED BY <2>1, <3>2, <3>3, <1>c, <1>p DEF WindowOK
  <2>3. CASE /\ calls' = cs /\ UNCHANGED <<token, rows, requested, complete>>
             /\ pendingReset' \in BOOLEAN /\ error' \in BOOLEAN
    <3>1. GraphOK'
      BY <2>3, <1>p DEF GraphOK
    <3> QED BY <2>1, <2>3, <3>1, <1>c, <1>p DEF WindowOK
  <2> QED BY <1>3, <2>2, <2>3 DEF RestartAnswered
<1>4. CASE RequestRefused(c)
  <2>1. GraphOK'
    BY <1>4, <1>p DEF RequestRefused, GraphOK
  <2>2. WindowOK'
    BY <1>4, <1>p, <2>1 DEF RequestRefused, WindowOK
  <2> QED BY <1>4, <2>2, <1>c DEF RequestRefused
<1> QED BY <1>1, <1>2, <1>3, <1>4 DEF Answered

LEMMA SmallestIs ==
  ASSUME NEW a \in Nat, NEW b \in Nat, NEW d \in Nat
  PROVE  LET n == Smaller(a, Smaller(b, d)) IN n \in Nat /\ n <= a /\ n <= b /\ n <= d
BY DEF Smaller

LEMMA WorkerTyped ==
  ASSUME Typed, NEW t \in Tokens, Worker(t)
  PROVE  Typed'
<1>k. TypeOK
  BY DEF Typed
<1>p. /\ walk \in [Tokens -> Walks] /\ watch \in [Tickets -> Watches] /\ walk[t] \in Walks
      /\ walk[t].pc \in {"none", "idle", "walking", "asleep", "ended"}
      /\ walk[t].seen \in 0..MaxMoves /\ walk[t].at \in Nat /\ walk[t].budget \in Nat
      /\ walk[t].asks \in Seq(Nat) /\ walk[t].repo \in Repos \union {None}
      /\ walk[t].stop \in BOOLEAN
      /\ moves \in 0..MaxMoves /\ disk \in [Repos -> 0..moves]
      /\ word \in [Tokens -> {"none", "whole", "stopped", "failed"}]
      /\ heard \in [Tokens -> Nat] /\ changed \in Nat
      /\ calls \in [Calls -> Commands]
  BY DEF Typed, TypeOK, Walks
\* The worker's own step, that never makes its walk idle.
<1>w. ASSUME NEW w \in Walks, w.pc # "idle", walk' = [walk EXCEPT ![t] = w],
             word' \in [Tokens -> {"none", "whole", "stopped", "failed"}],
             UNCHANGED <<disks, shell, watch, calls, heard, changed, window>>
      PROVE  Typed'
  <2>1. /\ walk' \in [Tokens -> Walks]
        /\ \A u \in Tokens : walk'[u].pc = "idle" => walk'[u] = walk[u]
    BY <1>w, <1>p
  <2>2. WorkersOK' /\ EventsOK'
    BY <1>w, <1>p, <2>1 DEF WorkersOK, EventsOK
  <2>3. DisksOK' /\ ShellOK' /\ WindowOK' /\ (calls \in [Calls -> Commands])'
    BY <1>w, <1>k, PartsKept
  <2>4. Placed'
    BY <1>w, <2>1 DEF Typed, Placed, shell
  <2> QED BY <2>2, <2>3, <2>4, PartsNext DEF Typed
<1>1. CASE Wake(t)
  <2>1. CASE walk[t].pc = "idle"
    <3>1. disk[walk[t].repo] \in 0..MaxMoves
      BY <2>1, <1>p, Numbers DEF Typed, Placed
    <3>2. Head(walk[t].asks) \in Nat /\ Tail(walk[t].asks) \in Seq(Nat)
      BY <1>1, <1>p DEF Wake
    <3> DEFINE w == [walk[t] EXCEPT !.pc = "walking", !.seen = disk[walk[t].repo],
                                    !.budget = Head(walk[t].asks), !.asks = Tail(walk[t].asks)]
    <3>3. w \in Walks /\ w.pc = "walking"
      BY <1>p, <3>1, <3>2 DEF Walks
    <3>4. walk' = [walk EXCEPT ![t] = w]
      BY <1>1, <1>p, <2>1 DEF Wake, Walks
    <3> QED BY <1>1, <1>p, <1>w, <3>3, <3>4 DEF Wake, events
  <2>2. CASE walk[t].pc = "asleep"
    <3>2. Head(walk[t].asks) \in Nat /\ Tail(walk[t].asks) \in Seq(Nat)
      BY <1>1, <1>p DEF Wake
    <3> DEFINE w == [walk[t] EXCEPT !.pc = "walking",
                                    !.budget = Head(walk[t].asks), !.asks = Tail(walk[t].asks)]
    <3>3. w \in Walks /\ w.pc = "walking"
      BY <1>p, <3>2 DEF Walks
    <3>4. walk' = [walk EXCEPT ![t] = w]
      BY <1>1, <1>p, <2>2 DEF Wake, Walks
    <3> QED BY <1>1, <1>p, <1>w, <3>3, <3>4 DEF Wake, events
  <2> QED BY <1>1, <2>1, <2>2 DEF Wake
<1>2. CASE Advance(t)
  <2> DEFINE left == Length[walk[t].seen] - walk[t].at
             n == Smaller(Batch, Smaller(walk[t].budget, left))
             pc == IF walk[t].budget = n THEN "asleep" ELSE walk[t].pc
             w == [walk[t] EXCEPT !.at = walk[t].at + n, !.budget = walk[t].budget - n, !.pc = pc]
  <2>1. Length[walk[t].seen] \in Nat
    BY <1>p, Numbers
  <2>2. left > 0
    BY <1>2 DEF Advance
  <2>3. walk[t].at + n \in Nat /\ walk[t].budget - n \in Nat
    <3>1. left \in Nat
      BY <2>1, <2>2, <1>p
    <3>2. n \in Nat /\ n <= walk[t].budget
      BY <3>1, <1>p, Numbers, SmallestIs
    <3>3. walk[t].at \in Nat /\ walk[t].budget \in Nat
      BY <1>p DEF Walks
    <3> HIDE DEF n, left
    <3> QED BY <3>2, <3>3
  <2>4. pc \in {"walking", "asleep"}
    BY <1>2 DEF Advance
  <2>5. w \in Walks /\ w.pc # "idle"
    <3> HIDE DEF pc, n
    <3> QED BY <2>3, <2>4, <1>p DEF Walks
  <2>6. walk' = [walk EXCEPT ![t] = w]
    <3>1. walk' = [walk EXCEPT ![t].at = @ + n, ![t].budget = @ - n,
                               ![t].pc = IF walk[t].budget = n THEN "asleep" ELSE @]
      BY <1>2 DEF Advance
    <3> HIDE DEF n
    <3> QED BY <3>1, <1>p DEF Walks
  <2> HIDE DEF w
  <2> QED BY <1>2, <1>p, <1>w, <2>5, <2>6 DEF Advance, events
<1>3. ASSUME walk' = [walk EXCEPT ![t].pc = "ended"],
             \E d \in {"none", "whole", "failed", "stopped"} : word' = [word EXCEPT ![t] = d],
             UNCHANGED <<disks, shell, watch, calls, heard, changed, window>>
      PROVE  Typed'
  <2> DEFINE w == [walk[t] EXCEPT !.pc = "ended"]
  <2>1. w \in Walks /\ w.pc # "idle"
    BY <1>p DEF Walks
  <2>2. walk' = [walk EXCEPT ![t] = w]
    BY <1>3, <1>p
  <2>3. word' \in [Tokens -> {"none", "whole", "stopped", "failed"}]
    BY <1>3, <1>p
  <2> HIDE DEF w
  <2> QED BY <1>3, <1>w, <2>1, <2>2, <2>3
<1>4. CASE EndWalk(t)
  <2> DEFINE w == [walk[t] EXCEPT !.pc = "ended", !.budget = 0, !.asks = <<>>]
  <2>1. w \in Walks /\ w.pc # "idle"
    <3>1. <<>> \in Seq(Nat)
      OBVIOUS
    <3> QED BY <3>1, <1>p DEF Walks
  <2>2. walk' = [walk EXCEPT ![t] = w]
    BY <1>4, <1>p DEF EndWalk, Walks
  <2>3. word' = [word EXCEPT ![t] = "whole"] \/ word' = [word EXCEPT ![t] = "failed"]
    BY <1>4 DEF EndWalk
  <2>4. word' \in [Tokens -> {"none", "whole", "stopped", "failed"}]
    BY <2>3, <1>p
  <2>5. UNCHANGED <<disks, shell, watch, calls, heard, changed, window>>
    BY <1>4 DEF EndWalk
  <2> HIDE DEF w
  <2> QED BY <1>w, <2>1, <2>2, <2>4, <2>5
<1>5. CASE StopWalk(t)
  BY <1>5, <1>3, <1>p DEF StopWalk
<1> QED BY <1>1, <1>2, <1>4, <1>5 DEF Worker

LEMMA WatcherTyped ==
  ASSUME Typed, NEW k \in Tickets, Watcher(k)
  PROVE  Typed'
<1>k. TypeOK
  BY DEF Typed
<1>p. /\ walk \in [Tokens -> Walks] /\ watch \in [Tickets -> Watches] /\ watch[k] \in Watches
      /\ word \in [Tokens -> {"none", "whole", "stopped", "failed"}]
      /\ heard \in [Tokens -> Nat] /\ changed \in Nat
  BY DEF Typed, TypeOK
<1>w. ASSUME watch' \in [Tickets -> Watches], changed' \in Nat,
             UNCHANGED <<disks, shell, walk, calls, heard, word, window>>
      PROVE  Typed'
  <2>1. WorkersOK' /\ EventsOK'
    BY <1>w, <1>p DEF WorkersOK, EventsOK
  <2>2. DisksOK' /\ ShellOK' /\ WindowOK' /\ (calls \in [Calls -> Commands])'
    BY <1>w, <1>k, PartsKept
  <2>3. Placed'
    BY <1>w DEF Typed, Placed, shell
  <2> QED BY <2>1, <2>2, <2>3, PartsNext DEF Typed
<1>1. CASE Collect(k)
  <2>1. watch' \in [Tickets -> Watches]
    BY <1>1, <1>p DEF Collect, Watches
  <2> QED BY <1>1, <1>p, <1>w, <2>1 DEF Collect, events
<1>2. CASE Quiet(k)
  <2>1. watch' \in [Tickets -> Watches]
    BY <1>2, <1>p DEF Quiet, Watches
  <2>2. changed' \in Nat
    BY <1>2, <1>p DEF Quiet
  <2> QED BY <1>2, <1>w, <2>1, <2>2 DEF Quiet
<1>3. CASE StopWatch(k)
  <2>1. watch' \in [Tickets -> Watches]
    BY <1>3, <1>p DEF StopWatch, Watches
  <2> QED BY <1>3, <1>p, <1>w, <2>1 DEF StopWatch, events
<1> QED BY <1>1, <1>2, <1>3 DEF Watcher

LEMMA ElsewhereTyped ==
  ASSUME Typed, Elsewhere
  PROVE  Typed'
<1>k. TypeOK
  BY DEF Typed
<1>p. /\ moves \in 0..MaxMoves /\ disk \in [Repos -> 0..moves] /\ MaxMoves \in Nat
      /\ watch \in [Tickets -> Watches]
  BY Numbers DEF Typed, TypeOK
<1>h. ASSUME NEW r \in Repos, NEW kinds \in SUBSET {"refs", "files"}, Heard(r, kinds),
             UNCHANGED walk
      PROVE  WorkersOK'
  <2>1. \A w \in Watches : [w EXCEPT !.heard = @ \union kinds] \in Watches
    BY DEF Watches
  <2>2. watch' \in [Tickets -> Watches]
    BY <2>1, <1>h, <1>p DEF Heard
  <2> QED BY <2>2, <1>h, <1>k DEF WorkersOK, TypeOK
<1>o. ASSUME UNCHANGED <<shell, walk, calls, events, window>>
      PROVE  /\ ShellOK' /\ EventsOK' /\ WindowOK' /\ (calls \in [Calls -> Commands])'
             /\ Placed'
  BY <1>o, <1>k, PartsKept DEF Typed, Placed, shell
<1>1. ASSUME NEW r \in Repos, Change(r)
      PROVE  Typed'
  <2>1. WorkersOK'
    BY <1>1, <1>h DEF Change
  <2>2. moves' \in 0..MaxMoves /\ moves' = moves + 1
    BY <1>1, <1>p DEF Change
  <2>3. disk' \in [Repos -> 0..moves']
    <3>1. \A q \in Repos : disk[q] + 1 \in 0..moves' /\ disk[q] \in 0..moves'
      BY <1>p, <2>2
    <3> QED BY <1>1, <1>p, <3>1 DEF Change
  <2>4. DisksOK'
    BY <2>2, <2>3 DEF DisksOK
  <2> QED BY <1>1, <1>o, <2>1, <2>4, PartsNext DEF Change, Typed
<1>2. ASSUME NEW r \in Repos, Write(r)
      PROVE  Typed'
  <2>1. WorkersOK'
    BY <1>2, <1>h DEF Write
  <2>2. moves' \in 0..MaxMoves /\ moves <= moves'
    BY <1>2, <1>p DEF Write
  <2>3. disk \in [Repos -> 0..moves']
    BY <1>p, <2>2
  <2>4. DisksOK'
    BY <1>2, <2>2, <2>3 DEF DisksOK, Write
  <2> QED BY <1>2, <1>o, <2>1, <2>4, PartsNext DEF Write, Typed
<1> QED BY <1>1, <1>2 DEF Elsewhere

LEMMA ArrivalTyped ==
  ASSUME Typed, Arrival
  PROVE  Typed'
<1>k. TypeOK
  BY DEF Typed
<1>p. /\ heard \in [Tokens -> Nat] /\ changed \in Nat
      /\ word \in [Tokens -> {"none", "whole", "stopped", "failed"}]
      /\ rows \in [1..MaxRows -> Tokens \union {0}] /\ requested \in Nat
      /\ complete \in BOOLEAN /\ pendingReset \in BOOLEAN /\ error \in BOOLEAN
      /\ asked \in Nat /\ shown \in BOOLEAN
      /\ token \in Tokens \union {0} /\ timer \in BOOLEAN
      /\ calls \in [Calls -> Commands]
  BY DEF Typed, TypeOK
<1>q. \A c \in Calls : calls[c].kind = "open" => calls[c].repo \in Repos
  BY DEF Typed, Placed
\* What arrives changes what is on its way and what is shown.
<1>a. ASSUME EventsOK', GraphOK',
             UNCHANGED <<disks, shell, walk, watch, calls, asked, shown, token, timer>>
      PROVE  Typed'
  <2>1. DisksOK' /\ ShellOK' /\ WorkersOK' /\ (calls \in [Calls -> Commands])'
    BY <1>a, <1>k, PartsKept
  <2>2. WindowOK'
    BY <1>a, <1>p DEF WindowOK
  <2>3. Placed'
    BY <1>a DEF Typed, Placed, shell
  <2> QED BY <1>a, <2>1, <2>2, <2>3, PartsNext DEF Typed
<1>1. ASSUME NEW t \in Tokens, RowsArrive(t)
      PROVE  Typed'
  <2>1. PICK n \in 1..Batch :
          /\ heard' = [heard EXCEPT ![t] = @ + n]
          /\ rows' = IF t # token THEN rows
                     ELSE [i \in 1..MaxRows |->
                             IF i \in heard[t] + 1 .. heard[t] + n THEN t
                             ELSE (IF pendingReset THEN [j \in 1..MaxRows |-> 0] ELSE rows)[i]]
    BY <1>1 DEF RowsArrive
  <2>2. EventsOK'
    BY <1>1, <1>p, <2>1, Numbers DEF RowsArrive, EventsOK
  <2>3. rows' \in [1..MaxRows -> Tokens \union {0}]
    BY <1>p, <2>1
  <2>4. GraphOK'
    BY <1>1, <1>p, <2>3 DEF RowsArrive, GraphOK
  <2> QED BY <1>1, <1>a, <2>2, <2>4 DEF RowsArrive
<1>2. ASSUME NEW t \in Tokens, DoneArrives(t)
      PROVE  Typed'
  <2>1. EventsOK'
    BY <1>2, <1>p DEF DoneArrives, EventsOK
  <2>2. GraphOK'
    BY <1>2, <1>p DEF DoneArrives, GraphOK
  <2> QED BY <1>2, <1>a, <2>1, <2>2 DEF DoneArrives
<1>3. CASE RepoChanged
  <2>1. EventsOK'
    BY <1>3, <1>p DEF RepoChanged, EventsOK
  <2>2. WindowOK'
    BY <1>3, <1>k, <1>p, PartsKept DEF RepoChanged, WindowOK
  <2>3. DisksOK' /\ ShellOK' /\ WorkersOK' /\ (calls \in [Calls -> Commands])'
    BY <1>3, <1>k, PartsKept DEF RepoChanged
  <2>4. Placed'
    BY <1>3 DEF RepoChanged, Typed, Placed, shell
  <2> QED BY <2>1, <2>2, <2>3, <2>4, PartsNext DEF Typed
<1>4. CASE TimerFires
  <2>1. AskFor("reload") \in Commands /\ AskFor("reload").kind = "reload"
    BY AskTyped DEF AskFor, Free
  <2>2. (calls \in [Calls -> Commands])' /\ ShellOK' /\ WorkersOK' /\ Placed'
    BY <1>4, <1>p, <1>q, <2>1, AskedTyped DEF TimerFires, Room
  <2>3. WindowOK'
    BY <1>4, <1>k, <1>p, PartsKept DEF TimerFires, WindowOK
  <2>4. DisksOK' /\ EventsOK'
    BY <1>4, <1>k, PartsKept DEF TimerFires
  <2> QED BY <2>2, <2>3, <2>4, PartsNext DEF Typed
<1> QED BY <1>1, <1>2, <1>3, <1>4 DEF Arrival

LEMMA StutterTyped == ASSUME Typed, UNCHANGED vars PROVE Typed'
<1>1. TypeOK'
  BY PartsNext, PartsKept DEF vars, Typed
<1>2. Placed'
  BY DEF vars, shell, Typed, Placed
<1> QED BY <1>1, <1>2 DEF Typed

LEMMA NextTyped == ASSUME Typed, [Next]_vars PROVE Typed'
BY PersonTyped, ElsewhereTyped, ArrivalTyped, CommandTyped, AnsweredTyped,
   WorkerTyped, WatcherTyped, StutterTyped DEF Next

(* Every variable keeps its type, for any number of repositories, commands and *)
(* walks: a repository that is opened, walked or read is one there is.     *)
THEOREM WindowTyped == Spec => []TypeOK
<1>1. Init => Typed
  BY InitTyped
<1>2. Typed /\ [Next]_vars => Typed'
  BY NextTyped
<1>3. Typed => TypeOK
  BY DEF Typed
<1> QED BY <1>1, <1>2, <1>3, PTL DEF Spec

-----------------------------------------------------------------------------
(* The latest open or close. *)

LatestInv == settled <= opened /\ LatestStands

(* What the shell does to its session, whoever asks. *)
LEMMA SessionSteps ==
  ASSUME Typed, [Next]_vars
  PROVE  \/ UNCHANGED <<session, settled>> /\ opened' \in {opened, opened + 1}
         \/ \E c \in Calls : InstallSession(c) \/ CloseRepo(c)
         \/ /\ session # NoSession /\ session'.ticket = session.ticket
            /\ UNCHANGED <<opened, settled>>
<1>p. session \in Sessions /\ opened \in Nat
  BY DEF Typed, TypeOK
<1>1. CASE \/ Person \/ Elsewhere \/ Arrival \/ UNCHANGED vars
           \/ \E c \in Calls : Answered(c)
           \/ \E t \in Tokens : Worker(t)
           \/ \E k \in Tickets : Watcher(k)
  <2>1. UNCHANGED shell
    BY <1>1 DEF Person, OpenRepo, Close, Choose, Ensure, Elsewhere, Change, Write,
         Arrival, RowsArrive, DoneArrives, RepoChanged, TimerFires, vars, Answered,
         OpenAnswered, CloseAnswered, RestartAnswered, RequestRefused, Worker, Wake,
         Advance, EndWalk, StopWalk, Watcher, Collect, Quiet, StopWatch
  <2> QED BY <2>1 DEF shell
<1>2. ASSUME NEW c \in Calls, Command(c)
      PROVE  \/ UNCHANGED <<session, settled>> /\ opened' \in {opened, opened + 1}
             \/ InstallSession(c) \/ CloseRepo(c)
             \/ /\ session # NoSession /\ session'.ticket = session.ticket
                /\ UNCHANGED <<opened, settled>>
  <2>1. CASE \/ TakeTicket(c) \/ ReadRepository(c) \/ StartWorkers(c) \/ Supersede(c)
             \/ Dropped(c) \/ Joined(c) \/ GraphRequest(c)
    BY <2>1 DEF TakeTicket, ReadRepository, StartWorkers, Supersede, Dropped, Joined,
         GraphRequest, shell
  <2>2. CASE RestartWalk(c)
    BY <2>2, <1>p DEF RestartWalk, Sessions
  <2> QED BY <1>2, <2>1, <2>2 DEF Command
<1> QED BY <1>1, <1>2 DEF Next

LEMMA LatestStep ==
  ASSUME Typed, LatestInv, [Next]_vars
  PROVE  LatestInv'
<1>p. settled \in Nat /\ opened \in Nat /\ session \in Sessions /\ session' \in Sessions
  BY NextTyped DEF Typed, TypeOK
<1>1. CASE UNCHANGED <<session, settled>> /\ opened' \in {opened, opened + 1}
  BY <1>1, <1>p DEF LatestInv, LatestStands
<1>2. ASSUME NEW c \in Calls, InstallSession(c)
      PROVE  LatestInv'
  <2>1. opened = calls[c].ticket /\ opened' = opened
    BY <1>2 DEF InstallSession, Overtaken
  <2>2. settled' = opened /\ session'.ticket = opened
    BY <1>2, <1>p, <2>1 DEF InstallSession, Larger, LatestInv
  <2> QED BY <2>1, <2>2, <1>p DEF LatestInv, LatestStands
<1>3. ASSUME NEW c \in Calls, CloseRepo(c)
      PROVE  LatestInv'
  <2>1. opened' = opened + 1 /\ settled' = opened + 1 /\ session' = NoSession
    BY <1>3, <1>p DEF CloseRepo, Larger, LatestInv
  <2> QED BY <2>1, <1>p DEF LatestInv, LatestStands
<1>4. CASE session # NoSession /\ session'.ticket = session.ticket /\ UNCHANGED <<opened, settled>>
  BY <1>4 DEF LatestInv, LatestStands
<1> QED BY <1>1, <1>2, <1>3, <1>4, SessionSteps

(* The open repository is that of the last open or close that took effect, in *)
(* the order they were asked for.                                          *)
THEOREM LatestWins == Spec => []LatestStands
<1>1. Init => Typed /\ LatestInv
  <2> SUFFICES ASSUME Init PROVE Typed /\ LatestInv
    OBVIOUS
  <2>1. settled <= opened /\ session = NoSession
    BY DEF Init
  <2> QED BY <2>1, InitTyped DEF LatestInv, LatestStands
<1>2. Typed /\ LatestInv /\ [Next]_vars => Typed' /\ LatestInv'
  BY NextTyped, LatestStep
<1>3. LatestInv => LatestStands
  BY DEF LatestInv
<1> QED BY <1>1, <1>2, <1>3, PTL DEF Spec

-----------------------------------------------------------------------------
(* Walks and watchers that were left behind. *)

(* What may run stays so when no worker starts, none is told to go on, and    *)
(* neither the session nor an open that is being decided changes.          *)
LEMMA RunningKept ==
  ASSUME NothingLeftRunning, UNCHANGED <<session>>,
         \A t \in Tokens : Alive(walk'[t]) /\ ~walk'[t].stop => Alive(walk[t]) /\ ~walk[t].stop,
         \A k \in Tickets : Alive(watch'[k]) /\ ~watch'[k].stop => Alive(watch[k]) /\ ~watch[k].stop,
         \A c \in Calls : At(c, "open", "installing") =>
            At(c, "open", "installing")' /\ calls'[c].token = calls[c].token
            /\ calls'[c].ticket = calls[c].ticket
  PROVE  NothingLeftRunning'
BY DEF NothingLeftRunning, At

LEMMA AndKeeps ==
  ASSUME NEW cs, NEW call, \E d \in Calls : cs[d] = Free, cs = [c \in Calls |-> cs[c]]
  PROVE  \A c \in Calls : cs[c] # Free => And(cs, call)[c] = cs[c]
<1>1. PICK d \in Calls : cs[d] = Free /\ And(cs, call) = [cs EXCEPT ![d] = call]
  BY DEF And
<1> QED BY <1>1

LEMMA AnsweredCalls ==
  ASSUME Typed, NEW c \in Calls, Answered(c)
  PROVE  /\ ~At(c, "open", "installing")
         /\ \A d \in Calls : d # c /\ calls[d] # Free => calls'[d] = calls[d]
<1> DEFINE cs == [calls EXCEPT ![c] = Free]
<1>1. calls \in [Calls -> Commands]
  BY DEF Typed, TypeOK
<1>2. /\ cs = [d \in Calls |-> cs[d]] /\ \E d \in Calls : cs[d] = Free
      /\ \A d \in Calls : d # c => cs[d] = calls[d]
  BY <1>1
<1>3. \A call : \A d \in Calls : d # c /\ calls[d] # Free => And(cs, call)[d] = calls[d]
  BY <1>2, AndKeeps
<1>4. calls' = cs \/ \E call : calls' = And(cs, call)
  <2>1. \A t : ShowWalk(cs, t) => calls' = cs \/ \E call : calls' = And(cs, call)
    BY DEF ShowWalk
  <2>2. \A t, kind : Adopt(cs, t, kind) => \E call : calls' = And(cs, call)
    BY DEF Adopt
  <2>3. CASE OpenAnswered(c) \/ CloseAnswered(c)
    BY <2>1, <2>3 DEF OpenAnswered, CloseAnswered
  <2>4. CASE RestartAnswered(c) \/ RequestRefused(c)
    BY <2>2, <2>4 DEF RestartAnswered, RequestRefused
  <2> QED BY <2>3, <2>4 DEF Answered
<1>5. \A d \in Calls : d # c /\ calls[d] # Free => calls'[d] = calls[d]
  <2> TAKE d \in Calls
  <2> SUFFICES ASSUME d # c, calls[d] # Free PROVE calls'[d] = calls[d]
    OBVIOUS
  <2>1. CASE calls' = cs
    BY <1>2, <2>1
  <2>2. CASE \E call : calls' = And(cs, call)
    <3> HIDE DEF cs
    <3> QED BY <1>3, <2>2
  <2> QED BY <1>4, <2>1, <2>2
<1>6. ~At(c, "open", "installing")
  BY DEF Answered, OpenAnswered, CloseAnswered, RestartAnswered, RequestRefused, At, Requests
<1> QED BY <1>5, <1>6

LEMMA PersonCalls ==
  ASSUME Typed, Person \/ TimerFires
  PROVE  \A d \in Calls : calls[d] # Free => calls'[d] = calls[d]
<1>1. calls = [d \in Calls |-> calls[d]] /\ \E d \in Calls : calls[d] = Free
  BY DEF Typed, TypeOK, Person, OpenRepo, Close, Choose, Ensure, TimerFires, Room
<1>2. \E call : calls' = And(calls, call)
  BY DEF Person, OpenRepo, Close, Choose, Ensure, TimerFires
<1> QED BY <1>1, <1>2, AndKeeps

LEMMA CommandRunning ==
  ASSUME Typed, NothingLeftRunning, NEW c \in Calls, Command(c)
  PROVE  NothingLeftRunning'
<1>p. /\ calls \in [Calls -> Commands] /\ calls[c] \in Commands
      /\ session \in Sessions /\ made \in 0..MaxTokens
      /\ walk \in [Tokens -> Walks] /\ watch \in [Tickets -> Watches]
  BY DEF Typed, TypeOK
<1>q. calls[c].ticket \in Nat /\ calls[c].token \in Tokens \union {0}
  BY <1>p DEF Commands
\* What is told to stop is told for good, and nothing else changes.
<1>s. ASSUME NEW s, Stopping(s)
      PROVE  /\ \A t \in Tokens : /\ Alive(walk'[t]) /\ ~walk'[t].stop => Alive(walk[t]) /\ ~walk[t].stop
                                  /\ t = s.token => walk'[t].stop
             /\ \A k \in Tickets : /\ Alive(watch'[k]) /\ ~watch'[k].stop => Alive(watch[k]) /\ ~watch[k].stop
                                   /\ k = s.ticket => watch'[k].stop
  <2>1. /\ \A w \in Walks : [w EXCEPT !.stop = TRUE].stop = TRUE
        /\ \A w \in Watches : [w EXCEPT !.stop = TRUE].stop = TRUE
    BY DEF Walks, Watches
  <2> QED BY <1>s, <1>p, <2>1 DEF Stopping
<1>o. ASSUME ~At(c, "open", "installing"), \A d \in Calls : d # c => calls'[d] = calls[d]
      PROVE  \A d \in Calls : At(d, "open", "installing") =>
               At(d, "open", "installing")' /\ calls'[d].token = calls[d].token
               /\ calls'[d].ticket = calls[d].ticket
  BY <1>o DEF At
<1>d. \A d \in Calls : d # c => calls'[d] = calls[d]
  BY <1>p DEF Command, TakeTicket, ReadRepository, StartWorkers, InstallSession, Supersede,
       Dropped, CloseRepo, Joined, RestartWalk, GraphRequest, Goto
<1>1. CASE TakeTicket(c) \/ ReadRepository(c) \/ Dropped(c) \/ Joined(c)
  <2>1. ~At(c, "open", "installing")
    BY <1>1 DEF TakeTicket, ReadRepository, Dropped, Joined, At
  <2>2. UNCHANGED <<session, walk, watch>>
    BY <1>1 DEF TakeTicket, ReadRepository, Dropped, Joined, shell
  <2> QED BY <1>d, <1>o, <2>1, <2>2, RunningKept
<1>2. CASE StartWorkers(c)
  <2>1. /\ UNCHANGED session /\ made + 1 \in Tokens
        /\ ~At(c, "open", "installing")
    BY <1>2, <1>p, Numbers DEF StartWorkers, At, Tokens
  <2>2. /\ At(c, "open", "installing")' /\ calls'[c].token = made + 1
        /\ calls'[c].ticket = calls[c].ticket
    BY <1>2, <1>p DEF StartWorkers, At, Commands
  <2>3. /\ \A t \in Tokens : t # made + 1 => walk'[t] = walk[t]
        /\ \A k \in Tickets : k # calls[c].ticket => watch'[k] = watch[k]
    BY <1>2, <1>p DEF StartWorkers
  <2>4. \A d \in Calls : At(d, "open", "installing") =>
          At(d, "open", "installing")' /\ calls'[d].token = calls[d].token
          /\ calls'[d].ticket = calls[d].ticket
    BY <1>d, <1>o, <2>1
  <2> QED BY <2>1, <2>2, <2>3, <2>4 DEF NothingLeftRunning
<1>3. CASE InstallSession(c)
  <2>1. Stopping(session) /\ session'.token = calls[c].token /\ session'.ticket = calls[c].ticket
    BY <1>3 DEF InstallSession
  <2>2. \A d \in Calls : d # c /\ At(d, "open", "installing") =>
          At(d, "open", "installing")' /\ calls'[d].token = calls[d].token
          /\ calls'[d].ticket = calls[d].ticket
    BY <1>d DEF At
  <2> QED BY <2>1, <2>2, <1>s DEF NothingLeftRunning
<1>4. CASE Supersede(c)
  <2>1. Stopping(calls[c]) /\ UNCHANGED session
    BY <1>4 DEF Supersede, shell
  <2>2. \A d \in Calls : d # c /\ At(d, "open", "installing") =>
          At(d, "open", "installing")' /\ calls'[d].token = calls[d].token
          /\ calls'[d].ticket = calls[d].ticket
    BY <1>d DEF At
  <2> QED BY <2>1, <2>2, <1>s DEF NothingLeftRunning
<1>5. CASE CloseRepo(c)
  <2>1. Stopping(session) /\ ~At(c, "open", "installing")
    BY <1>5 DEF CloseRepo, At
  <2>2. \A d \in Calls : At(d, "open", "installing") =>
          At(d, "open", "installing")' /\ calls'[d].token = calls[d].token
          /\ calls'[d].ticket = calls[d].ticket
    BY <1>d, <1>o, <2>1
  <2> QED BY <2>1, <2>2, <1>s DEF NothingLeftRunning
<1>6. CASE RestartWalk(c)
  <2>0. ~At(c, "open", "installing")
    BY <1>6 DEF RestartWalk, At
  <2>1. CASE UNCHANGED <<session, walk>>
    <3>1. UNCHANGED <<session, walk, watch>>
      BY <1>6, <2>1 DEF RestartWalk
    <3> QED BY <1>d, <1>o, <2>0, <3>1, RunningKept
  <2>2. CASE /\ session # NoSession /\ made < MaxTokens
             /\ session' = [session EXCEPT !.token = made + 1]
             /\ walk' = [walk EXCEPT ![made + 1] = NewWalk(session.repo),
                                     ![session.token].stop = TRUE]
             /\ UNCHANGED watch
    <3>1. session'.token = made + 1 /\ session'.ticket = session.ticket
      BY <1>p, <2>2 DEF Sessions
    <3>2. made + 1 \in Tokens
      BY <1>p, <2>2, Numbers DEF Tokens
    <3>3. \A w \in Walks : [w EXCEPT !.stop = TRUE].stop = TRUE
      BY DEF Walks
    <3>4. \A t \in Tokens : t # made + 1 =>
            walk'[t] = IF t = session.token THEN [walk[t] EXCEPT !.stop = TRUE] ELSE walk[t]
      BY <1>p, <2>2, <3>2
    <3>5. \A t \in Tokens : t # made + 1 /\ Alive(walk'[t]) /\ ~walk'[t].stop =>
            t # session.token /\ Alive(walk[t]) /\ ~walk[t].stop
      BY <1>p, <3>3, <3>4
    <3>6. \A d \in Calls : At(d, "open", "installing") =>
            At(d, "open", "installing")' /\ calls'[d].token = calls[d].token
            /\ calls'[d].ticket = calls[d].ticket
      BY <1>d, <1>o, <2>0
    <3>7. UNCHANGED watch
      BY <2>2
    <3> QED BY <3>1, <3>5, <3>6, <3>7 DEF NothingLeftRunning
  <2> QED BY <1>6, <2>1, <2>2 DEF RestartWalk
<1>7. CASE GraphRequest(c)
  <2>1. ~At(c, "open", "installing") /\ UNCHANGED <<session, watch>>
    BY <1>7 DEF GraphRequest, At, Requests, shell
  <2>4. \A t \in Tokens : walk'[t].pc = walk[t].pc /\ walk'[t].stop = walk[t].stop
    BY <1>7, <1>p DEF GraphRequest, Walks
  <2> QED BY <1>d, <1>o, <2>1, <2>4, RunningKept DEF Alive
<1> QED BY <1>1, <1>2, <1>3, <1>4, <1>5, <1>6, <1>7 DEF Command

LEMMA RunningStep ==
  ASSUME Typed, NothingLeftRunning, [Next]_vars
  PROVE  NothingLeftRunning'
<1>p. /\ calls \in [Calls -> Commands]
      /\ walk \in [Tokens -> Walks] /\ watch \in [Tickets -> Watches]
  BY DEF Typed, TypeOK
<1>f. ASSUME \A d \in Calls : calls[d] # Free => calls'[d] = calls[d]
      PROVE  \A d \in Calls : At(d, "open", "installing") =>
               At(d, "open", "installing")' /\ calls'[d].token = calls[d].token
               /\ calls'[d].ticket = calls[d].ticket
  BY <1>f DEF At, Free
<1>1. CASE Person \/ TimerFires
  <2>1. UNCHANGED <<session, walk, watch>>
    BY <1>1 DEF Person, OpenRepo, Close, Choose, Ensure, TimerFires, shell
  <2> QED BY <1>1, <1>f, <2>1, PersonCalls, RunningKept
<1>2. CASE RepoChanged \/ \E t \in Tokens : RowsArrive(t) \/ DoneArrives(t)
  <2>1. UNCHANGED <<session, walk, watch, calls>>
    BY <1>2 DEF RepoChanged, RowsArrive, DoneArrives, shell
  <2> QED BY <2>1, RunningKept DEF At
<1>3. CASE UNCHANGED vars
  BY <1>3, RunningKept DEF vars, shell, At
<1>4. CASE Elsewhere
  <2>1. UNCHANGED <<session, walk, calls>>
    BY <1>4 DEF Elsewhere, Change, Write, shell
  <2>2. PICK r \in Repos, kinds \in SUBSET {"refs", "files"} : Heard(r, kinds)
    BY <1>4 DEF Elsewhere, Change, Write
  <2>3. \A k \in Tickets : watch'[k].pc = watch[k].pc /\ watch'[k].stop = watch[k].stop
    BY <2>2, <1>p DEF Heard, Watches
  <2> QED BY <2>1, <2>3, RunningKept DEF At, Alive
<1>5. ASSUME NEW c \in Calls, Answered(c)
      PROVE  NothingLeftRunning'
  <2>1. UNCHANGED <<session, walk, watch>>
    BY <1>5 DEF Answered, OpenAnswered, CloseAnswered, RestartAnswered, RequestRefused, shell
  <2>2. \A d \in Calls : At(d, "open", "installing") =>
               At(d, "open", "installing")' /\ calls'[d].token = calls[d].token
               /\ calls'[d].ticket = calls[d].ticket
    BY <1>5, AnsweredCalls DEF At, Free
  <2> QED BY <2>1, <2>2, RunningKept
<1>6. ASSUME NEW t \in Tokens, Worker(t)
      PROVE  NothingLeftRunning'
  <2>1. UNCHANGED <<session, watch, calls>>
    BY <1>6 DEF Worker, Wake, Advance, EndWalk, StopWalk, shell
  <2>2. /\ \A u \in Tokens : u # t => walk'[u] = walk[u]
        /\ walk'[t].stop = walk[t].stop /\ Alive(walk[t])
    BY <1>6, <1>p DEF Worker, Wake, Advance, EndWalk, StopWalk, Alive, Walks
  <2> QED BY <2>1, <2>2, RunningKept DEF At
<1>7. ASSUME NEW k \in Tickets, Watcher(k)
      PROVE  NothingLeftRunning'
  <2>1. UNCHANGED <<session, walk, calls>>
    BY <1>7 DEF Watcher, Collect, Quiet, StopWatch, shell
  <2>2. /\ \A u \in Tickets : u # k => watch'[u] = watch[u]
        /\ watch'[k].stop = watch[k].stop /\ Alive(watch[k])
    BY <1>7, <1>p DEF Watcher, Collect, Quiet, StopWatch, Alive, Watches
  <2> QED BY <2>1, <2>2, RunningKept DEF At
<1> QED BY <1>1, <1>2, <1>3, <1>4, <1>5, <1>6, <1>7, CommandRunning DEF Next, Arrival

(* Only the open repository is walked and watched. *)
THEOREM NothingRunsOn == Spec => []NothingLeftRunning
<1>1. Init => Typed /\ NothingLeftRunning
  <2> SUFFICES ASSUME Init PROVE Typed /\ NothingLeftRunning
    OBVIOUS
  <2>1. /\ \A t \in Tokens : ~Alive(walk[t])
        /\ \A k \in Tickets : ~Alive(watch[k])
    BY DEF Init, Alive, NoWalk, NoWatch
  <2> QED BY <2>1, InitTyped DEF NothingLeftRunning
<1>2. Typed /\ NothingLeftRunning /\ [Next]_vars => Typed' /\ NothingLeftRunning'
  BY NextTyped, RunningStep
<1> QED BY <1>1, <1>2, PTL DEF Spec

-----------------------------------------------------------------------------
(* What is shown is of one walk. *)

Starters == {"open", "reload", "choose"}

\* A walk that nothing was asked of has said nothing.
Untouched(t) ==
  /\ walk[t].pc \in {"idle", "ended"} /\ walk[t].at = 0 /\ walk[t].asks = <<>>
  /\ heard[t] = 0 /\ word[t] = "none"

\* A walk on its way to the window: nothing else knows it.
Begun ==
  \A c \in Calls : calls[c].kind \in Starters /\ calls[c].token # 0 =>
    /\ calls[c].token # token
    /\ Untouched(calls[c].token)
    /\ \A d \in Calls : d # c => calls[d].token # calls[c].token

\* The walks that are known of were started.
Carried ==
  /\ token <= made
  /\ \A c \in Calls :
       /\ calls[c].token <= made
       /\ calls[c].kind \in Starters /\ calls[c].pc \in {"installing", "joining", "done"} =>
            calls[c].token # 0

NotYet ==
  \A t \in Tokens : t > made =>
    walk[t].pc = "none" /\ walk[t].at = 0 /\ heard[t] = 0 /\ word[t] = "none"

\* A walk's last word comes after its rows.
Streams ==
  \A t \in Tokens :
    /\ heard[t] <= walk[t].at
    /\ word[t] # "none" => walk[t].pc = "ended"
    /\ word[t] = "whole" => walk[t].at = Length[walk[t].seen]

AllOf(t, n) == n = Length[walk[t].seen] /\ walk[t].at = n /\ walk[t].pc = "ended"

\* What the window shows of the walk it follows, and what it is left with when it
\* follows none.
Followed ==
  /\ token # 0 /\ ~error /\ ~pendingReset =>
       /\ rows = FirstRows(token, heard[token])
       /\ complete => AllOf(token, heard[token])
  /\ token # 0 /\ pendingReset => heard[token] = 0
  /\ token = 0 /\ ~error /\ ~pendingReset =>
       \E t \in Tokens : \E n \in 0..walk[t].at :
         rows = FirstRows(t, n) /\ (complete => AllOf(t, n))

RowsInv == Begun /\ Carried /\ NotYet /\ Streams /\ Followed

LEMMA Counts ==
  ASSUME Typed
  PROVE  /\ made \in Nat /\ token \in Nat /\ token \in Tokens \union {0} /\ 0 \notin Tokens
         /\ \A c \in Calls : calls[c].token \in Nat /\ calls[c].token \in Tokens \union {0}
         /\ \A t \in Tokens : heard[t] \in Nat /\ walk[t].at \in Nat /\ t \in Nat
         /\ complete \in BOOLEAN /\ pendingReset \in BOOLEAN /\ error \in BOOLEAN
<1>1. \A c \in Calls : calls[c] \in Commands
  BY DEF Typed, TypeOK
<1>2. \A c \in Calls : calls[c].token \in Tokens \union {0}
  BY <1>1 DEF Commands
<1>3. \A t \in Tokens : walk[t] \in Walks /\ heard[t] \in Nat
  BY DEF Typed, TypeOK
<1>4. \A t \in Tokens : walk[t].at \in Nat
  BY <1>3 DEF Walks
<1>5. token \in Tokens \union {0} /\ made \in 0..MaxTokens
      /\ complete \in BOOLEAN /\ pendingReset \in BOOLEAN /\ error \in BOOLEAN
  BY DEF Typed, TypeOK
<1> QED BY <1>2, <1>3, <1>4, <1>5, Numbers DEF Tokens

(* A step of which the window hears no more than a refusal: no walk starts or *)
(* goes on, and what is asked of one is asked of the walk that is followed. *)
LEMMA Calm ==
  ASSUME Typed, RowsInv,
         UNCHANGED <<made, heard, word, rows, complete>>,
         token' \in {token, 0},
         pendingReset' \in BOOLEAN, error' \in BOOLEAN,
         pendingReset' => pendingReset,
         error => error',
         pendingReset /\ ~pendingReset' => error',
         \A t \in Tokens : /\ walk'[t].pc = walk[t].pc /\ walk'[t].at = walk[t].at
                           /\ walk'[t].seen = walk[t].seen,
         \A t \in Tokens : \/ walk'[t].asks = walk[t].asks
                           \/ \A c \in Calls : calls[c].kind \in Starters => calls[c].token # t,
         \A c \in Calls :
           \/ /\ calls'[c].token = calls[c].token /\ calls'[c].kind = calls[c].kind
              /\ calls[c].kind \in Starters /\ calls'[c].pc \in {"installing", "joining", "done"} =>
                   calls[c].token # 0
           \/ calls'[c].token = 0 /\ calls'[c].pc \in {"free", "asked"}
           \/ calls'[c].token = token /\ calls'[c].kind \in Requests
  PROVE  RowsInv'
<1>r. Requests \intersect Starters = {}
  BY DEF Requests, Starters
<1>1. Begun'
  <2> SUFFICES ASSUME NEW c \in Calls, calls'[c].kind \in Starters, calls'[c].token # 0
               PROVE  /\ calls'[c].token # token'
                      /\ Untouched(calls[c].token)'
                      /\ \A d \in Calls : d # c => calls'[d].token # calls'[c].token
    BY DEF Begun
  <2>1. calls'[c].token = calls[c].token /\ calls'[c].kind = calls[c].kind
    BY <1>r
  <2>2. /\ calls[c].token # token /\ Untouched(calls[c].token) /\ calls[c].token \in Tokens
        /\ \A d \in Calls : d # c => calls[d].token # calls[c].token
    BY <2>1, Counts DEF RowsInv, Begun
  <2>3. Untouched(calls[c].token)'
    BY <2>1, <2>2 DEF Untouched
  <2>4. \A d \in Calls : d # c => calls'[d].token # calls'[c].token
    BY <2>1, <2>2
  <2> QED BY <2>1, <2>2, <2>3, <2>4
<1>2. Carried'
  <2>1. token' <= made'
    BY Counts DEF RowsInv, Carried
  <2>2. \A c \in Calls : calls'[c].token <= made'
    BY Counts DEF RowsInv, Carried
  <2>3. \A c \in Calls : calls'[c].kind \in Starters /\ calls'[c].pc \in {"installing", "joining", "done"} =>
            calls'[c].token # 0
    BY <1>r
  <2> QED BY <2>1, <2>2, <2>3 DEF Carried
<1>3. NotYet' /\ Streams'
  BY DEF RowsInv, NotYet, Streams
<1>4. Followed'
  <2>1. \A t \in Tokens : \A n : AllOf(t, n)' <=> AllOf(t, n)
    BY DEF AllOf
  <2>2. CASE token' = token
    BY <2>1, <2>2, Counts DEF RowsInv, Followed, FirstRows
  <2>3. CASE token # 0 /\ token' = 0
    <3>1. ASSUME ~error', ~pendingReset'
          PROVE  \E t \in Tokens : \E n \in 0..walk'[t].at :
                   rows' = FirstRows(t, n) /\ (complete' => AllOf(t, n)')
      <4>1. /\ rows = FirstRows(token, heard[token]) /\ token \in Tokens
            /\ complete => AllOf(token, heard[token])
        BY <2>3, <3>1, Counts DEF RowsInv, Followed
      <4>2. heard[token] \in 0..walk'[token].at
        BY <4>1, Counts DEF RowsInv, Streams
      <4> QED BY <4>1, <4>2, <2>1
    <3> QED BY <2>3, <3>1 DEF Followed, FirstRows
  <2> QED BY <2>2, <2>3
<1> QED BY <1>1, <1>2, <1>3, <1>4 DEF RowsInv

(* A walk that starts is asked of nothing, and known of by the command.    *)
LEMMA Started ==
  ASSUME Typed, RowsInv, NEW c \in Calls,
         made + 1 \in Tokens, made' = made + 1,
         UNCHANGED <<events, token, graph>>,
         walk'[made + 1].pc = "idle" /\ walk'[made + 1].at = 0 /\ walk'[made + 1].asks = <<>>,
         \A t \in Tokens : t # made + 1 =>
           /\ walk'[t].pc = walk[t].pc /\ walk'[t].at = walk[t].at
           /\ walk'[t].seen = walk[t].seen /\ walk'[t].asks = walk[t].asks,
         calls'[c].token = made + 1 /\ calls'[c].kind \in Starters,
         \A d \in Calls : d # c => calls'[d] = calls[d]
  PROVE  RowsInv'
<1>u. UNCHANGED <<heard, word, rows, complete, pendingReset, error, token>>
  BY DEF events, graph
<1>c. /\ \A d \in Calls : calls[d].token <= made /\ calls[d].token < made + 1
      /\ token <= made /\ token < made + 1
  BY Counts DEF RowsInv, Carried
<1>n. /\ walk[made + 1].pc = "none" /\ walk[made + 1].at = 0
      /\ heard[made + 1] = 0 /\ word[made + 1] = "none"
  BY Counts DEF RowsInv, NotYet
<1>1. Begun'
  <2>1. /\ calls'[c].token # token' /\ Untouched(calls[c].token)'
        /\ \A d \in Calls : d # c => calls'[d].token # calls'[c].token
    <3>1. Untouched(calls[c].token)'
      BY <1>u, <1>n DEF Untouched
    <3>2. made \in Nat /\ token \in Nat /\ \A d \in Calls : calls[d].token \in Nat
      BY Counts
    <3>3. token # made + 1 /\ \A d \in Calls : calls[d].token # made + 1
      BY <1>c, <3>2
    <3> QED BY <3>1, <3>3, <1>u
  <2>2. ASSUME NEW d \in Calls, d # c, calls'[d].kind \in Starters, calls'[d].token # 0
        PROVE  /\ calls'[d].token # token' /\ Untouched(calls[d].token)'
               /\ \A e \in Calls : e # d => calls'[e].token # calls'[d].token
    <3>1. /\ calls[d].token # token /\ Untouched(calls[d].token)
          /\ calls[d].token \in Tokens /\ calls[d].token # made + 1
          /\ \A e \in Calls : e # d => calls[e].token # calls[d].token
      BY <2>2, <1>c, Counts DEF RowsInv, Begun
    <3>2. calls'[d].token = calls[d].token /\ calls[d].token # made + 1
      BY <2>2, <3>1
    <3>3. Untouched(calls[d].token)'
      BY <3>1, <3>2, <1>u DEF Untouched
    <3>4. \A e \in Calls : e # d => calls'[e].token # calls'[d].token
      BY <3>1, <3>2
    <3> QED BY <3>1, <3>2, <3>3, <3>4, <1>u
  <2> QED BY <2>1, <2>2 DEF Begun
<1>2. Carried'
  <2>1. \A d \in Calls : calls'[d].token <= made' /\ token' <= made'
    BY <1>u, <1>c, Counts
  <2>2. made + 1 # 0
    BY Counts
  <2> QED BY <2>1, <2>2 DEF RowsInv, Carried
<1>3. NotYet'
  <2>1. \A t \in Tokens : t > made' => t > made /\ t # made + 1
    BY Counts
  <2> QED BY <2>1, <1>u DEF RowsInv, NotYet
<1>4. Streams'
  <2>1. \A t \in Tokens : t = made + 1 => heard'[t] <= walk'[t].at /\ word'[t] = "none"
    BY <1>u, <1>n
  <2> QED BY <2>1, <1>u DEF RowsInv, Streams
<1>5. Followed'
  <2>1. \A t \in Tokens : \A n : AllOf(t, n) => AllOf(t, n)'
    BY <1>n DEF AllOf
  <2>2. \A t \in Tokens : walk'[t].at = walk[t].at
    BY <1>n
  <2> QED BY <2>1, <2>2, <1>u, Counts DEF RowsInv, Followed, FirstRows
<1> QED BY <1>1, <1>2, <1>3, <1>4, <1>5 DEF RowsInv

(* A worker's step: it does nothing unasked. *)
LEMMA Worked ==
  ASSUME Typed, RowsInv, NEW t \in Tokens,
         UNCHANGED <<made, calls, heard, token, graph>>,
         \A u \in Tokens : u # t => walk'[u] = walk[u] /\ word'[u] = word[u],
         walk[t].pc \in {"idle", "walking", "asleep"}, walk'[t].pc # "none",
         walk'[t].at \in Nat, walk[t].at <= walk'[t].at,
         Untouched(t) => Untouched(t)',
         word'[t] # "none" => walk'[t].pc = "ended",
         word'[t] = "whole" => walk'[t].at = Length[walk'[t].seen]
  PROVE  RowsInv'
<1>u. UNCHANGED <<rows, complete, pendingReset, error>>
  BY DEF graph
<1>1. Begun'
  <2>1. \A u \in Tokens : Untouched(u) => Untouched(u)'
    BY DEF Untouched
  <2> QED BY <2>1, Counts DEF RowsInv, Begun
<1>2. Carried'
  BY DEF RowsInv, Carried
<1>3. NotYet'
  BY DEF RowsInv, NotYet
<1>4. Streams'
  <2>1. heard'[t] <= walk'[t].at
    BY Counts DEF RowsInv, Streams
  <2> QED BY <2>1 DEF RowsInv, Streams
<1>5. Followed'
  <2>1. \A u \in Tokens : \A n : AllOf(u, n) => AllOf(u, n)'
    BY DEF AllOf
  <2>2. \A u \in Tokens : \A n \in 0..walk[u].at : n \in 0..walk'[u].at
    BY Counts
  <2> QED BY <2>1, <2>2, <1>u, Counts DEF RowsInv, Followed, FirstRows
<1> QED BY <1>1, <1>2, <1>3, <1>4, <1>5 DEF RowsInv

(* An answer frees its call, and may ask for rows. *)
LEMMA Answer ==
  ASSUME Typed, NEW c \in Calls, NEW k \in Requests, NEW t \in Tokens \union {0},
         LET cs == [calls EXCEPT ![c] = Free]
         IN calls' \in {cs, And(cs, AskRows(k, t, FirstWindow))}
  PROVE  \A d \in Calls :
           \/ d # c /\ calls'[d] = calls[d]
           \/ calls'[d].token = 0 /\ calls'[d].kind = "none" /\ calls'[d].pc = "free"
           \/ calls'[d].token = t /\ calls'[d].kind = k /\ calls'[d].pc = "asked"
<1> DEFINE cs == [calls EXCEPT ![c] = Free]
<1>1. /\ cs \in [Calls -> Commands] /\ \E d \in Calls : cs[d] = Free
      /\ \A d \in Calls : cs[d] = IF d = c THEN Free ELSE calls[d]
  BY FreedTyped DEF Typed, TypeOK
<1>2. AskRows(k, t, FirstWindow) \in Commands
  BY AskTyped, Numbers
<1>3. /\ Free.token = 0 /\ Free.kind = "none" /\ Free.pc = "free"
      /\ AskRows(k, t, FirstWindow).token = t /\ AskRows(k, t, FirstWindow).kind = k
      /\ AskRows(k, t, FirstWindow).pc = "asked"
  BY DEF Free, AskRows, AskFor
<1>4. CASE calls' = cs
  BY <1>1, <1>3, <1>4
<1>5. CASE calls' = And(cs, AskRows(k, t, FirstWindow))
  <2> HIDE DEF cs
  <2>1. PICK e \in Calls : calls' = [cs EXCEPT ![e] = AskRows(k, t, FirstWindow)]
    BY <1>1, <1>2, <1>5, AndIs
  <2> QED BY <1>1, <1>3, <2>1
<1> QED BY <1>4, <1>5

(* The window comes to follow the walk it is told of, or none.             *)
LEMMA Follows ==
  ASSUME Typed, RowsInv, NEW c \in Calls, NEW k \in Requests,
         UNCHANGED <<made, walk, heard, word>>,
         \/ token' = 0
         \/ token' = calls[c].token /\ calls[c].token # 0 /\ calls[c].kind \in Starters,
         \A d \in Calls :
           \/ d # c /\ calls'[d] = calls[d]
           \/ calls'[d].token = 0 /\ calls'[d].kind = "none" /\ calls'[d].pc = "free"
           \/ calls'[d].token = token' /\ calls'[d].kind = k /\ calls'[d].pc = "asked",
         Followed'
  PROVE  RowsInv'
<1>r. k \notin Starters /\ "none" \notin Starters
  BY DEF Requests, Starters
<1>1. Begun'
  <2> SUFFICES ASSUME NEW d \in Calls, calls'[d].kind \in Starters, calls'[d].token # 0
               PROVE  /\ calls'[d].token # token'
                      /\ Untouched(calls[d].token)'
                      /\ \A e \in Calls : e # d => calls'[e].token # calls'[d].token
    BY DEF Begun
  <2>1. d # c /\ calls'[d] = calls[d]
    BY <1>r
  <2>2. /\ Untouched(calls[d].token)
        /\ \A e \in Calls : e # d => calls[e].token # calls[d].token
    BY <2>1 DEF RowsInv, Begun
  <2>3. Untouched(calls[d].token)'
    BY <2>1, <2>2 DEF Untouched
  <2>4. calls'[d].token # token'
    BY <2>1, <2>2
  <2>5. \A e \in Calls : e # d => calls'[e].token # calls'[d].token
    BY <2>1, <2>2, <2>4
  <2> QED BY <2>3, <2>4, <2>5
<1>2. Carried'
  <2>1. token' <= made'
    BY Counts DEF RowsInv, Carried
  <2>2. \A d \in Calls : calls'[d].token <= made'
    BY <2>1, Counts DEF RowsInv, Carried
  <2>3. \A d \in Calls : calls'[d].kind \in Starters /\ calls'[d].pc \in {"installing", "joining", "done"} =>
            calls'[d].token # 0
    BY <1>r DEF RowsInv, Carried
  <2> QED BY <2>1, <2>2, <2>3 DEF Carried
<1>3. NotYet' /\ Streams'
  BY DEF RowsInv, NotYet, Streams
<1> QED BY <1>1, <1>2, <1>3 DEF RowsInv

(* A graph that was reset shows the first no rows of whatever walk is followed. *)
LEMMA ResetFollowed ==
  ASSUME Typed, Reset, UNCHANGED <<walk, heard>>,
         token' = 0 \/ (token' \in Tokens /\ heard[token'] = 0)
  PROVE  Followed'
<1>1. /\ rows' = [i \in 1..MaxRows |-> 0] /\ complete' = FALSE
      /\ pendingReset' = FALSE /\ error' = FALSE
  BY DEF Reset
<1>2. \A t : FirstRows(t, 0) = [i \in 1..MaxRows |-> 0]
  BY Numbers DEF FirstRows
<1>3. CASE token' = 0
  <2>1. 1 \in Tokens /\ walk'[1].at \in Nat
    BY Counts, Numbers DEF Tokens
  <2>2. 0 \in 0..walk'[1].at
    BY <2>1
  <2>3. \E t \in Tokens : \E n \in 0..walk'[t].at :
           rows' = FirstRows(t, n) /\ (complete' => AllOf(t, n)')
    BY <1>1, <1>2, <2>1, <2>2
  <2> QED BY <1>1, <1>3, <2>3 DEF Followed, FirstRows
<1>4. CASE token' \in Tokens /\ heard[token'] = 0
  <2>1. rows' = FirstRows(token', heard'[token'])
    BY <1>1, <1>2, <1>4
  <2>2. token' # 0
    BY <1>4, Counts
  <2> QED BY <1>1, <2>1, <2>2 DEF Followed, FirstRows
<1> QED BY <1>3, <1>4

LEMMA AnsweredRows ==
  ASSUME Typed, RowsInv, NEW c \in Calls, Answered(c)
  PROVE  RowsInv'
<1> DEFINE cs == [calls EXCEPT ![c] = Free]
<1>p. /\ calls[c].token \in Tokens \union {0}
      /\ complete \in BOOLEAN /\ pendingReset \in BOOLEAN /\ error \in BOOLEAN
      /\ \A d \in Calls : calls[d].token \in Tokens \union {0}
  BY Counts
<1>b. ASSUME calls[c].kind \in Starters, calls[c].pc = "done"
      PROVE  /\ calls[c].token # 0 /\ calls[c].token \in Tokens /\ heard[calls[c].token] = 0
  BY <1>b, <1>p DEF RowsInv, Carried, Begun, Untouched
<1>s. ASSUME NEW t \in Tokens \union {0}, ShowWalk(cs, t),
             UNCHANGED <<disks, shell, walk, watch, events, asked, timer>>,
             \/ t = 0
             \/ t = calls[c].token /\ calls[c].kind \in Starters /\ calls[c].pc = "done"
      PROVE  RowsInv'
  <2>1. UNCHANGED <<made, walk, heard, word>>
    BY <1>s DEF shell, events
  <2>2. token' = t /\ calls' \in {cs, And(cs, AskRows("rows", t, FirstWindow))} /\ Reset
    BY <1>s DEF ShowWalk
  <2>3. Followed'
    <3>1. UNCHANGED <<walk, heard>> /\ Reset
      BY <2>1, <2>2
    <3>2. t = 0 \/ (t \in Tokens /\ heard[t] = 0)
      BY <1>s, <1>b
    <3>3. token' = 0 \/ (token' \in Tokens /\ heard[token'] = 0)
      <4>1. token' = t
        BY <2>2
      <4> QED BY <3>2, <4>1
    <3> QED BY <3>1, <3>3, ResetFollowed
  <2>4. "rows" \in Requests
    BY DEF Requests
  <2>5. \A d \in Calls :
           \/ d # c /\ calls'[d] = calls[d]
           \/ calls'[d].token = 0 /\ calls'[d].kind = "none" /\ calls'[d].pc = "free"
           \/ calls'[d].token = t /\ calls'[d].kind = "rows" /\ calls'[d].pc = "asked"
    BY <2>2, <2>4, Answer
  <2> QED BY <1>s, <1>b, <2>1, <2>2, <2>3, <2>4, <2>5, Follows
\* What is only refused.
<1>n. ASSUME calls' = cs, UNCHANGED <<shell, walk, events, rows, complete>>,
             token' \in {token, 0}, pendingReset' \in BOOLEAN, error' \in BOOLEAN,
             pendingReset' => pendingReset, error => error',
             pendingReset /\ ~pendingReset' => error'
      PROVE  RowsInv'
  <2>1. \A d \in Calls :
           \/ calls'[d] = calls[d]
           \/ calls'[d].token = 0 /\ calls'[d].pc = "free"
    BY <1>n DEF Typed, TypeOK, Free
  <2>2. UNCHANGED <<made, heard, word, rows, complete>>
    BY <1>n DEF shell, events
  <2>3. \A d \in Calls : calls[d].kind \in Starters /\ calls[d].pc \in {"installing", "joining", "done"} =>
            calls[d].token # 0
    BY DEF RowsInv, Carried
  <2> QED BY <1>n, <2>1, <2>2, <2>3, Calm
<1>1. CASE OpenAnswered(c)
  <2>1. /\ UNCHANGED <<disks, shell, walk, watch, events, asked, timer>>
        /\ calls[c].kind \in Starters
    BY <1>1 DEF OpenAnswered, Starters
  <2>2. CASE calls' = cs /\ token' \in {token, 0} /\ UNCHANGED graph
    BY <2>1, <2>2, <1>n, <1>p DEF graph
  <2>3. CASE calls[c].pc = "done" /\ ShowWalk(cs, calls[c].token)
    BY <2>1, <2>3, <1>s, <1>p
  <2> QED BY <1>1, <2>2, <2>3 DEF OpenAnswered
<1>2. CASE CloseAnswered(c)
  <2>1. UNCHANGED <<disks, shell, walk, watch, events, asked, timer>>
    BY <1>2 DEF CloseAnswered
  <2>2. CASE calls' = cs /\ UNCHANGED <<token, graph>>
    BY <2>1, <2>2, <1>n, <1>p DEF graph
  <2>3. CASE ShowWalk(cs, 0)
    BY <2>1, <2>3, <1>s
  <2> QED BY <1>2, <2>2, <2>3 DEF CloseAnswered
<1>3. CASE RestartAnswered(c)
  <2>1. /\ UNCHANGED <<disks, shell, walk, watch, events, asked, shown, timer>>
        /\ calls[c].kind \in Starters
    BY <1>3 DEF RestartAnswered, Starters
  <2>2. CASE calls[c].pc = "done"
    <3>1. PICK k \in {"reloaded", "chosen"} : Adopt(cs, calls[c].token, k)
      BY <1>3, <2>2 DEF RestartAnswered
    <3>2. k \in Requests
      BY <3>1 DEF Requests
    <3>3. /\ token' = calls[c].token /\ pendingReset' = TRUE
          /\ calls' \in {cs, And(cs, AskRows(k, calls[c].token, FirstWindow))}
      BY <3>1 DEF Adopt
    <3>4. UNCHANGED <<made, walk, heard, word>>
      BY <2>1 DEF shell, events
    <3>5. Followed'
      BY <1>b, <2>1, <2>2, <3>3, <3>4 DEF Followed
    <3>6. \A d \in Calls :
           \/ d # c /\ calls'[d] = calls[d]
           \/ calls'[d].token = 0 /\ calls'[d].kind = "none" /\ calls'[d].pc = "free"
           \/ calls'[d].token = calls[c].token /\ calls'[d].kind = k /\ calls'[d].pc = "asked"
      BY <1>p, <3>2, <3>3, Answer
    <3> QED BY <1>b, <2>1, <2>2, <3>2, <3>3, <3>4, <3>5, <3>6, Follows
  <2>3. CASE calls[c].pc # "done"
    <3>1. /\ pendingReset' = (pendingReset /\ calls[c].kind = "choose")
          /\ error' = (error \/ calls[c].kind = "reload")
          /\ calls' = cs
          /\ UNCHANGED <<token, rows, requested, complete>>
      BY <1>3, <2>3 DEF RestartAnswered
    <3>2. calls[c].kind \in {"reload", "choose"}
      BY <1>3 DEF RestartAnswered
    <3> QED BY <2>1, <3>1, <3>2, <1>n, <1>p
  <2> QED BY <2>2, <2>3
<1>4. CASE RequestRefused(c)
  BY <1>4, <1>n, <1>p DEF RequestRefused
<1> QED BY <1>1, <1>2, <1>3, <1>4 DEF Answered

LEMMA CommandRows ==
  ASSUME Typed, RowsInv, NEW c \in Calls, Command(c)
  PROVE  RowsInv'
<1>p. /\ calls \in [Calls -> Commands] /\ calls[c] \in Commands
      /\ session \in Sessions /\ made \in 0..MaxTokens
      /\ walk \in [Tokens -> Walks]
      /\ calls[c].token \in Tokens \union {0}
      /\ complete \in BOOLEAN /\ pendingReset \in BOOLEAN /\ error \in BOOLEAN
  BY Counts DEF Typed, TypeOK
<1>c. \A d \in Calls : calls[d].kind \in Starters /\ calls[d].pc \in {"installing", "joining", "done"} =>
        calls[d].token # 0
  BY DEF RowsInv, Carried
<1>d. \A d \in Calls : d # c => calls'[d] = calls[d]
  BY <1>p DEF Command, TakeTicket, ReadRepository, StartWorkers, InstallSession, Supersede,
       Dropped, CloseRepo, Joined, RestartWalk, GraphRequest, Goto
<1>s. ASSUME NEW s, Stopping(s)
      PROVE  \A t \in Tokens :
               /\ walk'[t].pc = walk[t].pc /\ walk'[t].at = walk[t].at
               /\ walk'[t].seen = walk[t].seen /\ walk'[t].asks = walk[t].asks
  BY <1>s, <1>p DEF Stopping, Walks
\* The command goes on, and no walk starts.
<1>n. ASSUME UNCHANGED <<made, events, token, graph>>,
             \A t \in Tokens :
               /\ walk'[t].pc = walk[t].pc /\ walk'[t].at = walk[t].at
               /\ walk'[t].seen = walk[t].seen /\ walk'[t].asks = walk[t].asks,
             calls'[c].token = calls[c].token /\ calls'[c].kind = calls[c].kind,
             \/ calls[c].pc \in {"installing", "joining", "done"}
             \/ calls'[c].pc \notin {"installing", "joining", "done"}
             \/ calls[c].kind \notin Starters
      PROVE  RowsInv'
  <2>1. UNCHANGED <<made, heard, word, rows, complete, token, pendingReset, error>>
    BY <1>n DEF events, graph
  <2>2. \A d \in Calls :
           /\ calls'[d].token = calls[d].token /\ calls'[d].kind = calls[d].kind
           /\ calls[d].kind \in Starters /\ calls'[d].pc \in {"installing", "joining", "done"} =>
                   calls[d].token # 0
    BY <1>c, <1>d, <1>n
  <2> QED BY <1>n, <1>p, <2>1, <2>2, Calm
<1>1. CASE TakeTicket(c)
  <2>1. calls'[c].token = calls[c].token /\ calls'[c].kind = calls[c].kind /\ calls'[c].pc = "reading"
    BY <1>1, <1>p DEF TakeTicket, Commands
  <2>2. UNCHANGED <<made, events, token, graph, walk>>
    BY <1>1 DEF TakeTicket, window
  <2> QED BY <1>n, <2>1, <2>2
<1>2. CASE ReadRepository(c) \/ Dropped(c)
  <2>1. calls'[c].token = calls[c].token /\ calls'[c].kind = calls[c].kind
        /\ calls'[c].pc \in {"starting", "refused"}
    BY <1>2, <1>p DEF ReadRepository, Dropped, Goto, Commands
  <2>2. UNCHANGED <<made, events, token, graph, walk>>
    BY <1>2 DEF ReadRepository, Dropped, window, shell
  <2> QED BY <1>n, <2>1, <2>2
<1>3. CASE StartWorkers(c)
  <2>1. /\ made + 1 \in Tokens /\ made' = made + 1
        /\ UNCHANGED <<events, token, graph>>
        /\ calls[c].repo \in Repos
    BY <1>3, <1>p, Numbers DEF StartWorkers, Tokens, window, Typed, Placed, At
  <2>2. /\ calls'[c].token = made + 1 /\ calls'[c].kind \in Starters
    BY <1>3, <1>p DEF StartWorkers, Commands, At, Starters
  <2>3. /\ walk'[made + 1] = NewWalk(calls[c].repo)
        /\ \A t \in Tokens : t # made + 1 => walk'[t] = walk[t]
    BY <1>3, <1>p, <2>1 DEF StartWorkers
  <2>4. walk'[made + 1].pc = "idle" /\ walk'[made + 1].at = 0 /\ walk'[made + 1].asks = <<>>
    BY <2>1, <2>3, Nothings
  <2> QED BY <1>d, <2>1, <2>2, <2>3, <2>4, Started
<1>4. CASE InstallSession(c) \/ Supersede(c)
  <2>1. calls[c].pc = "installing" /\ calls'[c].token = calls[c].token /\ calls'[c].kind = calls[c].kind
    BY <1>4, <1>p DEF InstallSession, Supersede, Goto, Commands, At
  <2>2. UNCHANGED <<made, events, token, graph>> /\ (Stopping(session) \/ Stopping(calls[c]))
    BY <1>4 DEF InstallSession, Supersede, window, shell
  <2> QED BY <1>n, <1>s, <2>1, <2>2
<1>5. CASE CloseRepo(c)
  <2>1. calls[c].kind \notin Starters /\ calls'[c].token = calls[c].token /\ calls'[c].kind = calls[c].kind
    BY <1>5, <1>p DEF CloseRepo, Commands, At, Starters
  <2>2. UNCHANGED <<made, events, token, graph>> /\ Stopping(session)
    BY <1>5 DEF CloseRepo, window
  <2> QED BY <1>n, <1>s, <2>1, <2>2
<1>6. CASE Joined(c)
  <2>1. calls[c].pc = "joining" /\ calls'[c].token = calls[c].token /\ calls'[c].kind = calls[c].kind
    BY <1>6, <1>p DEF Joined, Commands, Goto
  <2>2. UNCHANGED <<made, events, token, graph, walk>>
    BY <1>6 DEF Joined, window
  <2> QED BY <1>n, <2>1, <2>2
<1>7. CASE RestartWalk(c)
  <2>1. CASE session = NoSession /\ Goto(c, "refused") /\ UNCHANGED <<session, lock, made, walk, watch>>
    <3>1. calls'[c].token = calls[c].token /\ calls'[c].kind = calls[c].kind /\ calls'[c].pc = "refused"
      BY <2>1, <1>p DEF Commands, Goto
    <3>2. UNCHANGED <<made, events, token, graph, walk>>
      BY <1>7, <2>1 DEF RestartWalk, window
    <3> QED BY <1>n, <3>1, <3>2
  <2>2. CASE /\ session # NoSession /\ made < MaxTokens
             /\ made' = made + 1
             /\ walk' = [walk EXCEPT ![made + 1] = NewWalk(session.repo),
                                     ![session.token].stop = TRUE]
             /\ calls' = [calls EXCEPT ![c].pc = "joining", ![c].token = made + 1,
                                       ![c].old = [session EXCEPT !.ticket = 0]]
    <3>1. /\ made + 1 \in Tokens /\ made' = made + 1
          /\ UNCHANGED <<events, token, graph>> /\ session.repo \in Repos
      BY <1>7, <2>2, <1>p, Numbers DEF RestartWalk, Tokens, window, Typed, Placed
    <3>2. /\ calls'[c].token = made + 1 /\ calls'[c].kind \in Starters
      BY <1>7, <2>2, <1>p DEF RestartWalk, Commands, At, Starters
    <3>3. \A w \in Walks : /\ [w EXCEPT !.stop = TRUE].pc = w.pc
                           /\ [w EXCEPT !.stop = TRUE].at = w.at
                           /\ [w EXCEPT !.stop = TRUE].seen = w.seen
                           /\ [w EXCEPT !.stop = TRUE].asks = w.asks
      BY DEF Walks
    <3>4. /\ walk'[made + 1] \in {NewWalk(session.repo), [NewWalk(session.repo) EXCEPT !.stop = TRUE]}
          /\ \A t \in Tokens : t # made + 1 => walk'[t] \in {walk[t], [walk[t] EXCEPT !.stop = TRUE]}
      BY <1>p, <2>2, <3>1
    <3>5. /\ walk'[made + 1].pc = "idle" /\ walk'[made + 1].at = 0 /\ walk'[made + 1].asks = <<>>
      <4> DEFINE m == NewWalk(session.repo)
      <4>1. m \in Walks /\ m.pc = "idle" /\ m.at = 0 /\ m.asks = <<>>
        BY <3>1, Nothings
      <4>2. LET n == [m EXCEPT !.stop = TRUE] IN n.pc = "idle" /\ n.at = 0 /\ n.asks = <<>>
        BY <3>3, <4>1
      <4> HIDE DEF m
      <4>3. walk'[made + 1] \in {m, [m EXCEPT !.stop = TRUE]}
        BY <3>4 DEF m
      <4> QED BY <4>1, <4>2, <4>3
    <3>6. \A t \in Tokens : t # made + 1 =>
            /\ walk'[t].pc = walk[t].pc /\ walk'[t].at = walk[t].at
            /\ walk'[t].seen = walk[t].seen /\ walk'[t].asks = walk[t].asks
      BY <1>p, <3>3, <3>4
    <3> QED BY <1>d, <3>1, <3>2, <3>5, <3>6, Started
  <2> QED BY <1>7, <2>1, <2>2 DEF RestartWalk
<1>8. CASE GraphRequest(c)
  <2>0. calls[c].kind \in Requests /\ calls[c].kind \notin Starters
    BY <1>8 DEF GraphRequest, Requests, Starters
  <2>1. UNCHANGED <<made, heard, word, rows, complete, token, pendingReset, error>>
    BY <1>8 DEF GraphRequest, shell, events, window, graph
  <2>2. \/ calls'[c].token = calls[c].token /\ calls'[c].kind = calls[c].kind
        \/ calls'[c].token = 0 /\ calls'[c].pc \in {"free", "asked"}
    BY <1>8, <1>p DEF GraphRequest, Commands, Free
  <2>3. \A t \in Tokens :
          /\ walk'[t].pc = walk[t].pc /\ walk'[t].at = walk[t].at /\ walk'[t].seen = walk[t].seen
          /\ t # calls[c].token => walk'[t].asks = walk[t].asks
    BY <1>8, <1>p DEF GraphRequest, Walks
  <2>4. \A d \in Calls : calls[d].kind \in Starters => calls[d].token # calls[c].token \/ calls[d].token = 0
    BY <2>0 DEF RowsInv, Begun
  <2>5. \A t \in Tokens : \/ walk'[t].asks = walk[t].asks
                          \/ \A d \in Calls : calls[d].kind \in Starters => calls[d].token # t
    BY <2>3, <2>4, Counts
  <2>6. \A d \in Calls :
           \/ /\ calls'[d].token = calls[d].token /\ calls'[d].kind = calls[d].kind
              /\ calls[d].kind \in Starters /\ calls'[d].pc \in {"installing", "joining", "done"} =>
                   calls[d].token # 0
           \/ calls'[d].token = 0 /\ calls'[d].pc \in {"free", "asked"}
    BY <1>c, <1>d, <2>0, <2>2
  <2> QED BY <1>p, <2>1, <2>3, <2>5, <2>6, Calm
<1> QED BY <1>1, <1>2, <1>3, <1>4, <1>5, <1>6, <1>7, <1>8 DEF Command

(* What the person does asks for something, at most for rows of the walk that *)
(* is followed; so does a refresh that is due.                             *)
LEMMA PersonRows ==
  ASSUME Typed, RowsInv, Person \/ TimerFires
  PROVE  RowsInv'
<1>p. /\ calls = [c \in Calls |-> calls[c]] /\ calls \in [Calls -> Commands]
      /\ \E c \in Calls : calls[c] = Free
      /\ pendingReset \in BOOLEAN /\ error \in BOOLEAN
  BY DEF Typed, TypeOK, Person, OpenRepo, Close, Choose, Ensure, TimerFires, Room
<1>1. UNCHANGED <<made, heard, word, rows, complete, token, pendingReset, error, walk>>
  BY DEF Person, OpenRepo, Close, Choose, Ensure, TimerFires, shell, events, graph, window
<1> DEFINE Asking(call) == /\ call.pc = "asked"
                           /\ call.token = 0 \/ (call.token = token /\ call.kind \in Requests)
<1>2. \E call : calls' = And(calls, call) /\ Asking(call)
  <2>1. Asking(AskFor("choose")) /\ Asking(AskFor("reload"))
    BY DEF AskFor, Free
  <2>2. /\ \A r \in Repos : Asking([AskFor("open") EXCEPT !.repo = r, !.mine = asked + 1])
        /\ Asking([AskFor("close") EXCEPT !.mine = asked + 1])
    BY DEF AskFor, Free
  <2>3. Asking(AskRows("rows", token, NextWindow))
    BY DEF AskRows, AskFor, Free, Requests
  <2> HIDE DEF Asking
  <2>4. ASSUME NEW r \in Repos, OpenRepo(r)
        PROVE  \E call : calls' = And(calls, call) /\ Asking(call)
    <3>1. calls' = And(calls, [AskFor("open") EXCEPT !.repo = r, !.mine = asked + 1])
      BY <2>4 DEF OpenRepo
    <3> QED BY <2>2, <3>1, Zenon
  <2>5. CASE Close
    <3>1. calls' = And(calls, [AskFor("close") EXCEPT !.mine = asked + 1])
      BY <2>5 DEF Close
    <3> QED BY <2>2, <3>1, Zenon
  <2>6. CASE Choose \/ TimerFires
    BY <2>1, <2>6, Zenon DEF Choose, TimerFires
  <2>7. CASE Ensure
    BY <2>3, <2>7, Zenon DEF Ensure
  <2> QED BY <2>4, <2>5, <2>6, <2>7 DEF Person
<1>3. PICK e \in Calls : \E call : calls' = [calls EXCEPT ![e] = call] /\ Asking(call)
  <2> HIDE DEF Asking
  <2> QED BY <1>p, <1>2 DEF And
<1>4. \A d \in Calls :
        \/ calls'[d] = calls[d]
        \/ calls'[d].token = 0 /\ calls'[d].pc \in {"free", "asked"}
        \/ calls'[d].token = token /\ calls'[d].kind \in Requests
  BY <1>p, <1>3
<1>5. \A d \in Calls : calls[d].kind \in Starters /\ calls[d].pc \in {"installing", "joining", "done"} =>
            calls[d].token # 0
  BY DEF RowsInv, Carried
<1> QED BY <1>p, <1>1, <1>4, <1>5, Calm

LEMMA WorkerRows ==
  ASSUME Typed, RowsInv, NEW t \in Tokens, Worker(t)
  PROVE  RowsInv'
<1>p. /\ walk \in [Tokens -> Walks] /\ walk[t] \in Walks /\ walk[t].at \in Nat
      /\ walk[t].budget \in Nat /\ walk[t].seen \in 0..MaxMoves
      /\ word \in [Tokens -> {"none", "whole", "stopped", "failed"}]
  BY DEF Typed, TypeOK, Walks
<1>s. /\ word[t] # "none" => walk[t].pc = "ended"
  BY DEF RowsInv, Streams
<1>1. CASE Wake(t)
  <2>1. /\ walk'[t].pc = "walking" /\ walk'[t].at = walk[t].at
        /\ \A u \in Tokens : u # t => walk'[u] = walk[u]
    BY <1>1, <1>p DEF Wake, Walks
  <2>2. UNCHANGED <<made, calls, heard, word, token, graph>>
    BY <1>1 DEF Wake, shell, events, window
  <2>3. ~Untouched(t) /\ word[t] = "none" /\ walk[t].pc \in {"idle", "asleep"}
    BY <1>1, <1>s, <1>p DEF Wake, Untouched
  <2> QED BY <1>p, <2>1, <2>2, <2>3, Worked
<1>2. CASE Advance(t)
  <2> DEFINE left == Length[walk[t].seen] - walk[t].at
             n == Smaller(Batch, Smaller(walk[t].budget, left))
  <2>1. n \in Nat
    <3>1. left \in Nat
      BY <1>2, <1>p, Numbers DEF Advance
    <3> QED BY <3>1, <1>p, Numbers, SmallestIs
  <2>2. /\ walk'[t].pc \in {"walking", "asleep"} /\ walk'[t].at = walk[t].at + n
        /\ \A u \in Tokens : u # t => walk'[u] = walk[u]
    <3>1. /\ walk[t].pc = "walking"
          /\ walk' = [walk EXCEPT ![t].at = @ + n, ![t].budget = @ - n,
                                  ![t].pc = IF walk[t].budget = n THEN "asleep" ELSE @]
      BY <1>2 DEF Advance
    <3> HIDE DEF n
    <3> QED BY <3>1, <1>p DEF Walks
  <2>3. UNCHANGED <<made, calls, heard, word, token, graph>>
    BY <1>2 DEF Advance, shell, events, window
  <2>4. ~Untouched(t) /\ word[t] = "none" /\ walk[t].pc = "walking"
    BY <1>2, <1>s DEF Advance, Untouched
  <2>5. walk'[t].at \in Nat /\ walk[t].at <= walk'[t].at
    <3> HIDE DEF n
    <3> QED BY <1>p, <2>1, <2>2
  <2> HIDE DEF n
  <2> QED BY <2>2, <2>3, <2>4, <2>5, Worked
<1>3. CASE EndWalk(t)
  <2>1. /\ walk'[t].pc = "ended" /\ walk'[t].at = walk[t].at /\ walk'[t].seen = walk[t].seen
        /\ \A u \in Tokens : u # t => walk'[u] = walk[u] /\ word'[u] = word[u]
    BY <1>3, <1>p DEF EndWalk, Walks
  <2>2. UNCHANGED <<made, calls, heard, token, graph>>
    BY <1>3 DEF EndWalk, shell, window
  <2>3. ~Untouched(t) /\ walk[t].pc = "walking"
    BY <1>3 DEF EndWalk, Untouched
  <2>4. word'[t] = "whole" => walk[t].at = Length[walk[t].seen]
    BY <1>3, <1>p DEF EndWalk
  <2> QED BY <1>p, <2>1, <2>2, <2>3, <2>4, Worked
<1>4. CASE StopWalk(t)
  <2>1. /\ walk'[t].pc = "ended" /\ walk'[t].at = walk[t].at /\ walk'[t].asks = walk[t].asks
        /\ \A u \in Tokens : u # t => walk'[u] = walk[u] /\ word'[u] = word[u]
    BY <1>4, <1>p DEF StopWalk, Walks
  <2>2. UNCHANGED <<made, calls, heard, token, graph>>
    BY <1>4 DEF StopWalk, shell, window
  <2>3. walk[t].pc \in {"idle", "asleep"} /\ word[t] = "none"
    BY <1>4, <1>s DEF StopWalk
  <2>4. word'[t] # "whole" /\ (walk[t].pc = "idle" => word'[t] = "none")
    BY <1>4, <1>p, <2>3 DEF StopWalk
  <2>5. Untouched(t) => Untouched(t)'
    BY <2>1, <2>2, <2>3, <2>4 DEF Untouched
  <2> QED BY <1>p, <2>1, <2>2, <2>3, <2>4, <2>5, Worked
<1> QED BY <1>1, <1>2, <1>3, <1>4 DEF Worker

LEMMA ArrivalRows ==
  ASSUME Typed, RowsInv, NEW t \in Tokens, RowsArrive(t) \/ DoneArrives(t)
  PROVE  RowsInv'
<1>p. /\ heard \in [Tokens -> Nat]
      /\ word \in [Tokens -> {"none", "whole", "stopped", "failed"}]
      /\ rows \in [1..MaxRows -> Tokens \union {0}] /\ MaxRows \in Nat
      /\ Batch \in Nat /\ walk[t].at \in Nat /\ heard[t] \in Nat /\ t # 0
      /\ complete \in BOOLEAN /\ pendingReset \in BOOLEAN /\ error \in BOOLEAN
  BY Counts, Numbers DEF Typed, TypeOK
<1>u. UNCHANGED <<made, walk, calls, token>>
  BY DEF RowsArrive, DoneArrives, shell
\* Nothing arrives of a walk that nothing was asked of.
<1>b. \A u \in Tokens : Untouched(u) => Untouched(u)'
  <2>1. CASE RowsArrive(t)
    <3>1. PICK n \in 1..Batch : heard[t] + n <= walk[t].at /\ heard' = [heard EXCEPT ![t] = @ + n]
      BY <2>1 DEF RowsArrive
    <3>2. walk[t].at # 0 /\ word' = word
      BY <2>1, <3>1, <1>p DEF RowsArrive
    <3> QED BY <3>1, <3>2, <1>p, <1>u DEF Untouched
  <2>2. CASE DoneArrives(t)
    BY <2>2, <1>p, <1>u DEF DoneArrives, Untouched
  <2> QED BY <2>1, <2>2
<1>1. Begun' /\ Carried'
  BY <1>b, <1>u, Counts DEF RowsInv, Begun, Carried
<1>2. CASE RowsArrive(t)
  <2>1. PICK n \in 1..Batch :
          /\ heard[t] + n <= walk[t].at
          /\ heard' = [heard EXCEPT ![t] = @ + n]
          /\ rows' = IF t # token THEN rows
                     ELSE [i \in 1..MaxRows |->
                             IF i \in heard[t] + 1 .. heard[t] + n THEN t
                             ELSE (IF pendingReset THEN [j \in 1..MaxRows |-> 0] ELSE rows)[i]]
    BY <1>2 DEF RowsArrive
  <2>2. /\ complete' = (complete /\ (t = token => ~pendingReset))
        /\ pendingReset' = (pendingReset /\ t # token)
        /\ UNCHANGED <<word, error>>
    BY <1>2 DEF RowsArrive
  <2>3. NotYet' /\ Streams'
    <3>1. walk[t].at # 0
      BY <2>1, <1>p
    <3> QED BY <3>1, <1>p, <1>u, <2>1, <2>2 DEF RowsInv, NotYet, Streams
  <2>4. Followed'
    <3>0. \A u \in Tokens : \A m : AllOf(u, m)' <=> AllOf(u, m)
      BY <1>u DEF AllOf
    <3>1. CASE t # token
      BY <3>0, <3>1, <1>p, <1>u, <2>1, <2>2, Counts DEF RowsInv, Followed, FirstRows
    <3>2. CASE t = token
      <4>1. SUFFICES ASSUME ~error
                     PROVE  rows' = FirstRows(t, heard'[t]) /\ ~complete' /\ ~pendingReset'
        BY <3>2, <1>p, <1>u, <2>2 DEF Followed, FirstRows
      <4>2. ~pendingReset' /\ heard'[t] = heard[t] + n
        BY <3>2, <1>p, <2>1, <2>2
      <4>3. CASE pendingReset
        <5>1. heard[t] = 0
          BY <3>2, <4>3, <1>p DEF RowsInv, Followed
        <5> QED BY <3>2, <4>2, <4>3, <5>1, <1>p, <2>1, <2>2 DEF FirstRows
      <4>4. CASE ~pendingReset
        <5>1. rows = FirstRows(t, heard[t]) /\ (complete => AllOf(t, heard[t]))
          BY <3>2, <4>1, <4>4, <1>p DEF RowsInv, Followed
        <5>2. ~complete'
          BY <5>1, <2>1, <2>2, <1>p DEF AllOf
        <5>3. rows' = FirstRows(t, heard[t] + n)
          BY <3>2, <4>4, <5>1, <1>p, <2>1 DEF FirstRows
        <5> QED BY <4>2, <5>2, <5>3
      <4> QED BY <4>3, <4>4
    <3> QED BY <3>1, <3>2
  <2> QED BY <1>1, <2>3, <2>4 DEF RowsInv
<1>3. CASE DoneArrives(t)
  <2>1. /\ word[t] # "none" /\ heard[t] = walk[t].at
        /\ word' = [word EXCEPT ![t] = "none"]
        /\ UNCHANGED heard
    BY <1>3 DEF DoneArrives
  <2>2. NotYet' /\ Streams'
    BY <1>p, <1>u, <2>1 DEF RowsInv, NotYet, Streams
  <2>3. Followed'
    <3>0. \A u \in Tokens : \A m : AllOf(u, m)' <=> AllOf(u, m)
      BY <1>u DEF AllOf
    <3>1. CASE t # token
      <4>1. UNCHANGED <<rows, complete, pendingReset, error>>
        BY <3>1, <1>3 DEF DoneArrives
      <4> QED BY <3>0, <3>1, <4>1, <1>p, <1>u, <2>1, Counts DEF RowsInv, Followed, FirstRows
    <3>2. CASE t = token
      <4>1. /\ rows' = IF pendingReset THEN [i \in 1..MaxRows |-> 0] ELSE rows
            /\ pendingReset' = FALSE
            /\ complete' = (word[t] = "whole")
            /\ error' = (error \/ word[t] = "failed")
        BY <3>2, <1>3 DEF DoneArrives
      <4>2. ASSUME ~error'
            PROVE  rows' = FirstRows(t, heard[t])
        <5>1. CASE pendingReset
          <6>1. heard[t] = 0
            BY <3>2, <5>1, <1>p DEF RowsInv, Followed
          <6> QED BY <4>1, <5>1, <6>1, <1>p DEF FirstRows
        <5>2. CASE ~pendingReset
          BY <3>2, <4>1, <4>2, <5>2, <1>p DEF RowsInv, Followed
        <5> QED BY <5>1, <5>2
      <4>3. complete' => AllOf(t, heard[t])
        BY <4>1, <2>1 DEF RowsInv, Streams, AllOf
      <4>4. /\ token' # 0 /\ token' = t /\ heard' = heard /\ ~pendingReset'
            /\ AllOf(t, heard[t]) => AllOf(t, heard[t])'
        BY <3>2, <4>1, <1>p, <1>u, <2>1 DEF AllOf
      <4> QED BY <4>2, <4>3, <4>4 DEF Followed, FirstRows
    <3> QED BY <3>1, <3>2
  <2> QED BY <1>1, <2>2, <2>3 DEF RowsInv
<1> QED BY <1>2, <1>3

LEMMA RowsStep ==
  ASSUME Typed, RowsInv, [Next]_vars
  PROVE  RowsInv'
<1>p. /\ pendingReset \in BOOLEAN /\ error \in BOOLEAN
  BY Counts
<1>1. CASE UNCHANGED <<made, heard, word, graph, token, walk, calls>>
  <2>1. UNCHANGED <<rows, complete, pendingReset, error>>
    BY <1>1 DEF graph
  <2>2. \A d \in Calls : calls[d].kind \in Starters /\ calls[d].pc \in {"installing", "joining", "done"} =>
            calls[d].token # 0
    BY DEF RowsInv, Carried
  <2> QED BY <1>1, <1>p, <2>1, <2>2, Calm
<1>2. CASE RepoChanged \/ Elsewhere \/ UNCHANGED vars \/ \E k \in Tickets : Watcher(k)
  <2>1. UNCHANGED <<made, heard, word, graph, token, walk, calls>>
    BY <1>2 DEF RepoChanged, Elsewhere, Change, Write, vars, Watcher, Collect, Quiet, StopWatch,
         shell, events, window
  <2> QED BY <1>1, <2>1
<1> QED BY <1>2, PersonRows, CommandRows, AnsweredRows, WorkerRows, ArrivalRows DEF Next, Arrival

LEMMA InitRows == ASSUME Init PROVE RowsInv
<1>1. Typed
  BY InitTyped
<1>2. /\ made = 0 /\ token = 0 /\ complete = FALSE
      /\ rows = [i \in 1..MaxRows |-> 0]
      /\ \A c \in Calls : calls[c].token = 0 /\ calls[c].kind = "none"
      /\ \A t \in Tokens : walk[t].pc = "none" /\ walk[t].at = 0 /\ heard[t] = 0 /\ word[t] = "none"
  BY DEF Init, Free, NoWalk
<1>3. Begun /\ Carried /\ NotYet /\ Streams
  BY <1>2 DEF Begun, Carried, NotYet, Streams, Starters
<1>4. Followed
  <2>1. 1 \in Tokens /\ 0 \in 0..walk[1].at
    BY <1>2, Numbers DEF Tokens
  <2>2. rows = FirstRows(1, 0)
    BY <1>2, Numbers DEF FirstRows
  <2> QED BY <1>2, <2>1, <2>2 DEF Followed
<1> QED BY <1>3, <1>4 DEF RowsInv

LEMMA RowsAreOneWalk == ASSUME Typed, RowsInv PROVE ShownIsOneWalk
<1> SUFFICES ASSUME ~error, ~pendingReset
             PROVE  \E t \in Tokens : \E n \in 0..walk[t].at :
                      /\ rows = FirstRows(t, n)
                      /\ token \in {t, 0}
                      /\ complete => n = Length[walk[t].seen]
  BY DEF ShownIsOneWalk
<1>1. CASE token = 0
  BY <1>1 DEF RowsInv, Followed, AllOf
<1>2. CASE token # 0
  <2>1. /\ rows = FirstRows(token, heard[token]) /\ token \in Tokens
        /\ complete => heard[token] = Length[walk[token].seen]
    BY <1>2, Counts DEF RowsInv, Followed, AllOf
  <2>2. heard[token] \in 0..walk[token].at
    BY <2>1, Counts DEF RowsInv, Streams
  <2> QED BY <2>1, <2>2
<1> QED BY <1>1, <1>2

(* The rows that are shown are of one walk, without a gap, and all of it when *)
(* the graph says so.                                                      *)
THEOREM OneWalkShown == Spec => []ShownIsOneWalk
<1>1. Init => Typed /\ RowsInv
  BY InitTyped, InitRows
<1>2. Typed /\ RowsInv /\ [Next]_vars => Typed' /\ RowsInv'
  BY NextTyped, RowsStep
<1>3. Typed /\ RowsInv => ShownIsOneWalk
  BY RowsAreOneWalk
<1> QED BY <1>1, <1>2, <1>3, PTL DEF Spec

=============================================================================

--------------------------- MODULE ProgramProofs ---------------------------
(***************************************************************************)
(* Theorems about Program, for any number of clients and threads: the      *)
(* invariants of its runs.  What must happen at last is beyond these       *)
(* proofs, and is model-checked.                                           *)
(***************************************************************************)
EXTENDS Program, QueueProofs

(* The keep-alive timer waits, or its handler is about to wait again, until *)
(* close cancels it.                                                        *)
KeptAlive == keepalive \in {"aborted", "off"} => closed

IInv == ProgramTypeOK /\ KeptAlive /\ RunLastsUntilClose

USE DEF LoopTypeOK

---------------------------------------------------------------------------
(* The server *)

(* Each step of the server keeps its queue of connections a queue of       *)
(* different clients, none of them served already.                         *)
LEMMA ServerStep ==
  ASSUME LoopTypeOK, ServerTypeOK,
         \/ AcceptDone \/ HandleAccept \/ HandleAcceptError \/ ConnectionThrows
         \/ \E c \in Clients : Connect(c) \/ ConnectionEnds(c)
  PROVE  LoopTypeOK' /\ ServerTypeOK'
<1>1. CASE AcceptDone \/ HandleAcceptError
  BY <1>1 DEF AcceptDone, HandleAcceptError, ServerTypeOK
<1>2. CASE ConnectionThrows
  BY <1>2 DEF ConnectionThrows, ServerTypeOK, server
<1>3. CASE HandleAccept
  <2>1. /\ backlog \in Seq(Clients) /\ backlog # <<>> /\ IsInjective(backlog)
        /\ backlog' = Tail(backlog) /\ served' = served \union {Head(backlog)}
        /\ acceptor' = "waiting" /\ loop' = loop
    BY <1>3 DEF HandleAccept, ServerTypeOK
  <2>2. /\ Tail(backlog) \in Seq(Clients) /\ Head(backlog) \in Clients
        /\ ToSet(Tail(backlog)) \subseteq ToSet(backlog)
        /\ Head(backlog) \notin ToSet(Tail(backlog))
        /\ IsInjective(Tail(backlog))
    BY <2>1, TailOfQueue, TailOfDifferent
  <2> QED
    BY <2>1, <2>2 DEF ServerTypeOK
<1>4. ASSUME NEW c \in Clients, Connect(c) PROVE LoopTypeOK' /\ ServerTypeOK'
  <2>1. /\ backlog \in Seq(Clients) /\ IsInjective(backlog)
        /\ c \notin ToSet(backlog) /\ c \notin served
        /\ backlog' = Append(backlog, c)
        /\ UNCHANGED <<loop, acceptor, served>>
    BY <1>4 DEF Connect, ServerTypeOK
  <2>2. /\ Append(backlog, c) \in Seq(Clients) /\ Append(backlog, c) # <<>>
        /\ ToSet(Append(backlog, c)) = ToSet(backlog) \union {c}
        /\ IsInjective(Append(backlog, c))
    BY <2>1, AppendToQueue, AppendNew
  <2> QED
    BY <2>1, <2>2 DEF ServerTypeOK
<1>5. ASSUME NEW c \in Clients, ConnectionEnds(c) PROVE LoopTypeOK' /\ ServerTypeOK'
  BY <1>5 DEF ConnectionEnds, ServerTypeOK
<1> QED
  BY <1>1, <1>2, <1>3, <1>4, <1>5

---------------------------------------------------------------------------
(* The client *)

(* curl's verdict on some transfers: only a thread that is blocked in      *)
(* perform is left with an answer, or with none for ever.                  *)
LEMMA OutcomesType ==
  ASSUME ClientTypeOK, NEW over \in SUBSET Threads, NEW after \in Outcomes(over)
  PROVE  /\ after \in [Threads -> {"none", "posted", "running", "answered", "lost"}]
         /\ \A t \in Threads : after[t] \in {"answered", "lost"} => thread[t] = "blocked"
<1>1. after \in [Threads -> {"none", "posted", "running", "answered", "lost"}]
  BY DEF Outcomes
<1>2. ASSUME NEW t \in Threads, after[t] \in {"answered", "lost"}
      PROVE  thread[t] = "blocked"
  <2>1. CASE t \in over
    BY <1>2, <2>1 DEF Outcomes
  <2>2. CASE t \notin over
    BY <1>2, <2>2 DEF Outcomes, ClientTypeOK
  <2> QED
    BY <2>1, <2>2
<1> QED
  BY <1>1, <1>2

(* What the application's threads and the timers do preserves types.       *)
LEMMA ThreadStep ==
  ASSUME LoopTypeOK, ClientTypeOK,
         \/ Close \/ KeepaliveExpires \/ KeepaliveTimerCb \/ TimerExpires \/ LingeringEnds
         \/ \E t \in Threads : Perform(t) \/ PerformAsync(t) \/ PerformReturned(t)
  PROVE  LoopTypeOK' /\ ClientTypeOK'
<1>1. CASE Close
  BY <1>1, Zenon DEF Close, ClientTypeOK
<1>2. CASE KeepaliveExpires \/ KeepaliveTimerCb
  BY <1>2 DEF KeepaliveExpires, KeepaliveTimerCb, ClientTypeOK
<1>3. CASE TimerExpires \/ LingeringEnds
  BY <1>3 DEF TimerExpires, LingeringEnds, ClientTypeOK
<1>4. ASSUME NEW t \in Threads, Perform(t) \/ PerformAsync(t) \/ PerformReturned(t)
      PROVE  LoopTypeOK' /\ ClientTypeOK'
  BY <1>4 DEF Perform, PerformAsync, PerformReturned, ClientTypeOK
<1> QED
  BY <1>1, <1>2, <1>3, <1>4

(* What runs in the io_service's thread, inside curl, preserves types.     *)
LEMMA CurlStep ==
  ASSUME LoopTypeOK, ClientTypeOK,
         \/ \E t \in Threads : HandlePerform(t) \/ HandleSocket(t)
         \/ \E over \in SUBSET Threads : TimerCb(over)
  PROVE  LoopTypeOK' /\ ClientTypeOK'
<1> DEFINE CallOK ==
      /\ call' \in [Threads -> {"none", "posted", "running", "answered", "lost"}]
      /\ \A t \in Threads : call'[t] \in {"answered", "lost"} => thread[t] = "blocked"
      Same == fired' \in BOOLEAN /\ lingering' \in BOOLEAN
                /\ UNCHANGED <<loop, keepalive, thread, closed, missed>>
<1>1. ASSUME NEW t \in Threads, HandlePerform(t) PROVE CallOK /\ Same /\ SetTimer
  <2>1. CASE call' = [call EXCEPT ![t] = "running"]
    BY <1>1, <2>1 DEF HandlePerform, ClientTypeOK
  <2>2. CASE call' \in Outcomes({t})
    <3>1. CallOK
      BY <2>2, OutcomesType
    <3> QED
      BY <1>1, <3>1 DEF HandlePerform, ClientTypeOK
  <2> QED
    BY <1>1, <2>1, <2>2 DEF HandlePerform
<1>2. ASSUME NEW t \in Threads, HandleSocket(t) PROVE CallOK /\ Same /\ SetTimer
  <2>1. CASE call' = call
    BY <1>2, <2>1 DEF HandleSocket, MayLinger, ClientTypeOK
  <2>2. CASE call' \in Outcomes({t})
    <3>1. CallOK
      BY <2>2, OutcomesType
    <3> QED
      BY <1>2, <3>1 DEF HandleSocket, MayLinger, ClientTypeOK
  <2> QED
    BY <1>2, <2>1, <2>2 DEF HandleSocket
<1>3. ASSUME NEW over \in SUBSET Threads, TimerCb(over)
      PROVE  CallOK /\ Same /\ SetTimer
  <2>1. CallOK
    BY <1>3, OutcomesType DEF TimerCb
  <2> QED
    BY <1>3, <2>1 DEF TimerCb, MayLinger, ClientTypeOK
<1>4. CallOK /\ Same /\ SetTimer
  BY <1>1, <1>2, <1>3
<1>5. timer' \in {"off", "waiting"}
  BY <1>4 DEF SetTimer
<1> QED
  BY <1>4, <1>5 DEF ClientTypeOK

---------------------------------------------------------------------------
(* The program *)

(* The initial states satisfy the inductive invariant. *)
LEMMA InitIInv == Init => IInv
<1> SUFFICES ASSUME Init PROVE IInv
  OBVIOUS
<1>1. LoopTypeOK /\ ClientTypeOK
  BY DEF Init, LoopInit, ClientInit, ClientTypeOK
<1>2. ServerTypeOK
  BY EmptySeq DEF Init, ServerInit, ServerTypeOK, IsInjective, ToSet
<1>3. KeptAlive /\ RunLastsUntilClose
  BY DEF Init, LoopInit, ClientInit, KeptAlive, RunLastsUntilClose
<1> QED
  BY <1>1, <1>2, <1>3 DEF IInv, ProgramTypeOK

(* Every step of the program preserves types. *)
LEMMA TypeStep == ProgramTypeOK /\ [Next]_vars => ProgramTypeOK'
<1> SUFFICES ASSUME ProgramTypeOK, [Next]_vars PROVE ProgramTypeOK'
  OBVIOUS
<1>1. LoopTypeOK /\ ServerTypeOK /\ ClientTypeOK
  BY DEF ProgramTypeOK
<1>2. UNCHANGED client => ClientTypeOK'
  BY <1>1, Zenon DEF ClientTypeOK, client
<1>3. UNCHANGED server => ServerTypeOK'
  BY <1>1 DEF ServerTypeOK, server
<1>4. CASE /\ UNCHANGED client
           /\ \/ AcceptDone \/ HandleAccept \/ HandleAcceptError \/ ConnectionThrows
              \/ \E c \in Clients : Connect(c) \/ ConnectionEnds(c)
  BY <1>1, <1>2, <1>4, ServerStep, Zenon DEF ProgramTypeOK
<1>5. CASE /\ UNCHANGED server
           /\ \/ Close \/ KeepaliveExpires \/ KeepaliveTimerCb \/ TimerExpires \/ LingeringEnds
              \/ \E t \in Threads : Perform(t) \/ PerformAsync(t) \/ PerformReturned(t)
  BY <1>1, <1>3, <1>5, ThreadStep, Zenon DEF ProgramTypeOK
<1>6. CASE /\ UNCHANGED server
           /\ \/ \E t \in Threads : HandlePerform(t) \/ HandleSocket(t)
              \/ \E over \in SUBSET Threads : TimerCb(over)
  BY <1>1, <1>3, <1>6, CurlStep, Zenon DEF ProgramTypeOK
<1>7. CASE RunReturns
  BY <1>2, <1>3, <1>7 DEF RunReturns, ProgramTypeOK
<1>8. CASE UNCHANGED vars
  BY <1>1, <1>2, <1>3, <1>8 DEF vars, ProgramTypeOK
<1> QED
  BY <1>4, <1>5, <1>6, <1>7, <1>8 DEF Next

(* Only close ends the waiting of the keep-alive timer, and run() goes on  *)
(* as long as it waits.                                                    *)
LEMMA AliveStep ==
  ProgramTypeOK /\ KeptAlive /\ RunLastsUntilClose /\ [Next]_vars
    => KeptAlive' /\ RunLastsUntilClose'
<1> SUFFICES ASSUME ProgramTypeOK, KeptAlive, RunLastsUntilClose, [Next]_vars
             PROVE  KeptAlive' /\ RunLastsUntilClose'
  OBVIOUS
<1> USE DEF KeptAlive, RunLastsUntilClose
<1>1. CASE /\ UNCHANGED client
           /\ \/ AcceptDone \/ HandleAccept \/ HandleAcceptError \/ ConnectionThrows
              \/ \E c \in Clients : Connect(c) \/ ConnectionEnds(c)
  <2>1. loop' \in {loop, "thrown"}
    BY <1>1 DEF AcceptDone, HandleAccept, HandleAcceptError, ConnectionThrows,
                Connect, ConnectionEnds
  <2> QED
    BY <1>1, <2>1 DEF client
<1>2. CASE Close
  BY <1>2 DEF Close
<1>3. CASE KeepaliveExpires \/ KeepaliveTimerCb
  BY <1>3 DEF KeepaliveExpires, KeepaliveTimerCb
<1>4. CASE \/ TimerExpires \/ LingeringEnds
           \/ \E t \in Threads : \/ Perform(t) \/ PerformAsync(t) \/ PerformReturned(t)
                                 \/ HandlePerform(t) \/ HandleSocket(t)
           \/ \E over \in SUBSET Threads : TimerCb(over)
  <2>1. UNCHANGED <<loop, keepalive, closed>>
    BY <1>4 DEF TimerExpires, LingeringEnds, Perform, PerformAsync, PerformReturned,
                HandlePerform, HandleSocket, TimerCb
  <2> QED
    BY <2>1
<1>5. CASE RunReturns
  <2>1. /\ keepalive \notin {"waiting", "queued", "aborted"}
        /\ UNCHANGED <<keepalive, closed>>
    BY <1>5 DEF RunReturns, ClientWork, client
  <2>2. keepalive \in {"absent", "off"}
    BY <2>1 DEF ProgramTypeOK, ClientTypeOK
  <2> QED
    BY <2>1, <2>2
<1>6. CASE UNCHANGED vars
  BY <1>6 DEF vars, client
<1> QED
  BY <1>1, <1>2, <1>3, <1>4, <1>5, <1>6 DEF Next

(* The inductive invariant holds in every reachable state. *)
THEOREM Inductive == Spec => []IInv
<1>1. IInv /\ [Next]_vars => IInv'
  BY TypeStep, AliveStep DEF IInv
<1> QED
  BY InitIInv, <1>1, PTL DEF Spec

(* The variables of a program keep their types: above all, no client is    *)
(* twice in the queue of the acceptor or there while it is served, and     *)
(* handle_accept never runs for a connection that is not there.            *)
THEOREM TypeCorrect == Spec => []ProgramTypeOK
<1>1. IInv => ProgramTypeOK
  BY DEF IInv
<1> QED
  BY Inductive, <1>1, PTL

(* run() does not return under a client that was not closed: the           *)
(* keep-alive timer of http_client sees to that.                           *)
THEOREM RunLasts == Spec => []RunLastsUntilClose
<1>1. IInv => RunLastsUntilClose
  BY DEF IInv
<1> QED
  BY Inductive, <1>1, PTL
===========================================================================

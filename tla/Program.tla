------------------------------ MODULE Program ------------------------------
(***************************************************************************)
(* A whole program: a server, a client, or both on one io_service.  The    *)
(* samples are the programs with one of them.                              *)
(***************************************************************************)
EXTENDS HttpServer, ClientLoop

vars == <<loop, server, client>>

ProgramTypeOK == LoopTypeOK /\ ServerTypeOK /\ ClientTypeOK

Init ==
  /\ LoopInit /\ ServerInit /\ ClientInit
  /\ acceptor # "none" \/ keepalive # "absent"

(* run() has nothing left to do. *)
RunReturns ==
  /\ loop = "running" /\ ~ServerWork /\ ~ClientWork
  /\ loop' = "returned"
  /\ UNCHANGED <<server, client>>

Next ==
  \/ AcceptDone /\ UNCHANGED client
  \/ HandleAccept /\ UNCHANGED client
  \/ HandleAcceptError /\ UNCHANGED client
  \/ ConnectionThrows /\ UNCHANGED client
  \/ \E c \in Clients : Connect(c) /\ UNCHANGED client
  \/ \E c \in Clients : ConnectionEnds(c) /\ UNCHANGED client
  \/ \E t \in Threads : Perform(t) /\ UNCHANGED server
  \/ \E t \in Threads : PerformAsync(t) /\ UNCHANGED server
  \/ \E t \in Threads : PerformReturned(t) /\ UNCHANGED server
  \/ \E t \in Threads : HandlePerform(t) /\ UNCHANGED server
  \/ \E t \in Threads : HandleSocket(t) /\ UNCHANGED server
  \/ \E over \in SUBSET Threads : TimerCb(over) /\ UNCHANGED server
  \/ LingeringEnds /\ UNCHANGED server
  \/ Close /\ UNCHANGED server
  \/ KeepaliveExpires /\ UNCHANGED server
  \/ KeepaliveTimerCb /\ UNCHANGED server
  \/ TimerExpires /\ UNCHANGED server
  \/ RunReturns

Spec == Init /\ [][Next]_vars /\ ServerFairness /\ ClientFairness /\ WF_vars(RunReturns)

---------------------------------------------------------------------------
(* Properties *)

(* run() does not return under a client that was not closed, even when it  *)
(* has no call for a while: a later call would never be run.  That is what *)
(* the keep-alive timer is for.                                            *)
RunLastsUntilClose ==
  loop = "returned" => keepalive = "absent" \/ closed

(* Transfers that run without a wait on _timer: close has cancelled it,    *)
(* and only their peers can make curl set it again.                        *)
Stranded == InProgress # {} /\ timer = "off" /\ ~fired

(* After close run() returns, and the thread in th.join() goes on, unless  *)
(* the keep-alive handler was already queued when close was called, and    *)
(* waits again.  Only two things can then keep it, both because close      *)
(* touches no socket and leaves the peer to decide: transfers that were    *)
(* under way and have lost their timeout, and a read that is left on a     *)
(* connection curl keeps.                                                  *)
CloseEndsRun ==
  (closed /\ ~missed /\ acceptor = "none")
    ~> (loop = "returned" \/ []Stranded \/ []lingering)

(* perform returns before the client is closed, though the peer may be     *)
(* silent, unless the call is lost in curl or a connection of the same     *)
(* program has thrown.                                                     *)
PerformReturns ==
  \A t \in Threads :
    thread[t] = "blocked" ~>
      thread[t] = "free" \/ call[t] = "lost" \/ closed \/ loop = "thrown"

(* Whoever connects is served, as others come and go, unless an accept has *)
(* failed or an exception has ended the program.                           *)
ClientsServed ==
  \A c \in Clients :
    c \in ToSet(backlog) ~> c \in served \/ acceptor = "stopped" \/ loop = "thrown"
===========================================================================

---------------------------- MODULE ClientLoop ----------------------------
(***************************************************************************)
(* How a program uses http_client (client/http_client.cpp) from other      *)
(* threads than the one in run(): perform, perform_async and close, the    *)
(* keep-alive timer, and the timer curl is driven by.  What happens inside *)
(* curl is in HttpClient; here a transfer runs until something on its      *)
(* socket or a timeout ends it.                                            *)
(***************************************************************************)
EXTENDS EventLoop

CONSTANTS
  Threads,  \* application threads, each with one call at a time
  Main      \* the thread that closes the client, and then joins run()

ASSUME MainAssumption == Main \in Threads

VARIABLES
  keepalive,  \* _keepalive_timer: no client (absent), outstanding (waiting),
              \* its handler queued with success or with operation_aborted,
              \* or off
  timer,      \* _timer: off or waiting
  fired,      \* is a timer_cb queued with success?
  thread,     \* free, or blocked in perform
  call,       \* the call of a thread: none, posted, running, answered (its
              \* callback has run), or lost: curl is done with it but has
              \* left no socket, so no callback runs (see HttpClient)
  lingering,  \* is a read still outstanding on a connection that curl keeps
              \* after the call it was made for?
  closed,     \* has close been called?
  missed      \* history: was the keep-alive handler already queued when
              \* close was called?

client == <<keepalive, timer, fired, thread, call, lingering, closed, missed>>

ClientTypeOK ==
  /\ keepalive \in {"absent", "waiting", "queued", "aborted", "off"}
  /\ timer \in {"off", "waiting"} /\ fired \in BOOLEAN
  /\ thread \in [Threads -> {"free", "blocked"}]
  /\ call \in [Threads -> {"none", "posted", "running", "answered", "lost"}]
  /\ lingering \in BOOLEAN /\ closed \in BOOLEAN /\ missed \in BOOLEAN
  /\ \A t \in Threads : call[t] \in {"answered", "lost"} => thread[t] = "blocked"

(* The constructor starts the keep-alive timer. *)
ClientInit ==
  /\ keepalive \in {"absent", "waiting"}
  /\ timer = "off" /\ fired = FALSE
  /\ thread = [t \in Threads |-> "free"]
  /\ call = [t \in Threads |-> "none"]
  /\ lingering = FALSE /\ closed = FALSE /\ missed = FALSE

---------------------------------------------------------------------------
(* The application's threads *)

(* perform_async; nobody calls a client that is closed. *)
PerformAsync(t) ==
  /\ keepalive # "absent" /\ ~closed
  /\ thread[t] = "free" /\ call[t] = "none"
  /\ call' = [call EXCEPT ![t] = "posted"]
  /\ UNCHANGED <<loop, keepalive, timer, fired, thread, lingering, closed, missed>>

(* perform: perform_async, and then wait for what the callback promises. *)
Perform(t) ==
  /\ keepalive # "absent" /\ ~closed
  /\ thread[t] = "free" /\ call[t] = "none"
  /\ call' = [call EXCEPT ![t] = "posted"]
  /\ thread' = [thread EXCEPT ![t] = "blocked"]
  /\ UNCHANGED <<loop, keepalive, timer, fired, lingering, closed, missed>>

(* perform that does not wait for the promise. *)
PerformReturned_NoWait(t) ==
  /\ thread[t] = "blocked"
  /\ thread' = [thread EXCEPT ![t] = "free"]
  /\ UNCHANGED <<loop, keepalive, timer, fired, call, lingering, closed, missed>>

(* The promise is set, perform returns. *)
PerformReturned(t) ==
  /\ thread[t] = "blocked" /\ call[t] = "answered"
  /\ call' = [call EXCEPT ![t] = "none"]
  /\ thread' = [thread EXCEPT ![t] = "free"]
  /\ UNCHANGED <<loop, keepalive, timer, fired, lingering, closed, missed>>

InProgress == {t \in Threads : call[t] \in {"posted", "running"}}

(* close without the cancel of the keep-alive timer. *)
Close_TimerOnly ==
  /\ keepalive # "absent" /\ ~closed /\ thread[Main] = "free"
  /\ timer' = "off"
  /\ closed' = TRUE
  /\ missed' = (keepalive = "queued")
  /\ UNCHANGED <<loop, keepalive, fired, thread, call, lingering>>

(* close: cancel both timers, and nothing on a socket.  A keep-alive       *)
(* handler that is queued, or past its test of the error, is not reached   *)
(* and waits again.                                                        *)
Close ==
  /\ keepalive # "absent" /\ ~closed /\ thread[Main] = "free"
  /\ keepalive' = IF keepalive = "waiting" THEN "aborted" ELSE keepalive
  /\ timer' = "off"
  /\ closed' = TRUE
  /\ missed' = (keepalive = "queued")
  /\ UNCHANGED <<loop, fired, thread, call, lingering>>

---------------------------------------------------------------------------
(* The timers *)

KeepaliveExpires ==
  /\ keepalive = "waiting" /\ keepalive' = "queued"
  /\ UNCHANGED <<loop, timer, fired, thread, call, lingering, closed, missed>>

TimerExpires ==
  /\ timer = "waiting" /\ timer' = "off" /\ fired' = TRUE
  /\ UNCHANGED <<loop, keepalive, thread, call, lingering, closed, missed>>

(* keepalivetimer_cb that waits only once. *)
KeepaliveTimerCb_Once ==
  /\ loop = "running" /\ keepalive \in {"queued", "aborted"}
  /\ keepalive' = "off"
  /\ UNCHANGED <<loop, timer, fired, thread, call, lingering, closed, missed>>

(* keepalivetimer_cb: wait again unless cancelled. *)
KeepaliveTimerCb ==
  /\ loop = "running" /\ keepalive \in {"queued", "aborted"}
  /\ keepalive' = IF keepalive = "queued" THEN "waiting" ELSE "off"
  /\ UNCHANGED <<loop, timer, fired, thread, call, lingering, closed, missed>>

---------------------------------------------------------------------------
(* curl *)

(* curl is done with the transfers of `over`; a callback lets a blocked    *)
(* thread go on.                                                           *)
Outcomes(over) ==
  {after \in [Threads -> {"none", "posted", "running", "answered", "lost"}] :
     \A t \in Threads :
       IF t \notin over THEN after[t] = call[t]
       ELSE IF thread[t] = "blocked" THEN after[t] \in {"answered", "lost"}
       ELSE after[t] = "none"}

(* multi_timer_cb without async_wait. *)
SetTimer_NoWait == timer' = "off"

(* multi_timer_cb, called before curl returns: the wait is replaced by one *)
(* for curl's next timeout, or none when nothing runs.                     *)
SetTimer ==
  timer' = IF \E t \in Threads : call'[t] = "running" THEN "waiting" ELSE "off"

(* _perform adds the transfer; it may fail at once. *)
HandlePerform(t) ==
  /\ loop = "running" /\ call[t] = "posted"
  /\ call' \in {[call EXCEPT ![t] = "running"]} \union
              {after \in Outcomes({t}) : after[t] # "answered"}
  /\ SetTimer
  /\ UNCHANGED <<loop, keepalive, fired, thread, lingering, closed, missed>>

(* A call may be over while socket_rx_cb is still to come: curl has ended  *)
(* it in timer_cb, or in one of two reads it asked for.  The connection is *)
(* kept, and so is the read.                                               *)
MayLinger == lingering' \in {lingering, TRUE}

(* socket_rx_cb and socket_tx_cb: a transfer goes on, or is over. *)
HandleSocket(t) ==
  /\ loop = "running" /\ call[t] = "running"
  /\ \/ UNCHANGED <<call, lingering>>
     \/ call' \in Outcomes({t}) /\ MayLinger
  /\ SetTimer
  /\ UNCHANGED <<loop, keepalive, fired, thread, closed, missed>>

(* timer_cb: curl looks for transfers whose time is over. *)
TimerCb(over) ==
  /\ loop = "running" /\ fired
  /\ over \subseteq {t \in Threads : call[t] = "running"}
  /\ fired' = FALSE
  /\ call' \in Outcomes(over)
  /\ IF over = {} THEN UNCHANGED lingering ELSE MayLinger
  /\ SetTimer
  /\ UNCHANGED <<loop, keepalive, thread, closed, missed>>

(* The peer sends or closes, or curl closes the connection: the handler of *)
(* a call that is done (_curl_done) does not wait again.                   *)
LingeringEnds ==
  /\ loop = "running" /\ lingering
  /\ lingering' = FALSE
  /\ UNCHANGED <<loop, keepalive, timer, fired, thread, call, closed, missed>>

TimesOut(t) == \E over \in SUBSET Threads : t \in over /\ TimerCb(over)

(* Does the client keep run() from returning?  A transfer that runs waits  *)
(* for its socket.                                                         *)
ClientWork ==
  keepalive \in {"waiting", "queued", "aborted"} \/ timer = "waiting" \/ fired
    \/ InProgress # {} \/ lingering

(* Queued handlers run, timers expire, and a thread whose promise is set   *)
(* goes on.  curl ends a transfer that runs past its CURLOPT_TIMEOUT_MS if *)
(* timer_cb runs again and again.  Nothing is asked of the peers.          *)
ClientFairness ==
  /\ WF_<<loop, client>>(KeepaliveTimerCb)
  /\ WF_<<loop, client>>(TimerExpires)
  /\ WF_<<loop, client>>(\E over \in SUBSET Threads : TimerCb(over))
  /\ \A t \in Threads : /\ WF_<<loop, client>>(HandlePerform(t))
                         /\ WF_<<loop, client>>(PerformReturned(t))
                         /\ SF_<<loop, client>>(TimesOut(t))
===========================================================================

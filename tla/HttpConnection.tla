-------------------------- MODULE HttpConnection --------------------------
(***************************************************************************)
(* One plain HTTP connection of the server: class http_connection          *)
(* (server/http_connection.cpp) on its base class connection               *)
(* (server/connection.cpp), driven by one thread in io_service::run().     *)
(*                                                                         *)
(* An asynchronous operation is a variable (rd, wr, timer) that the        *)
(* environment moves from "pending" to a result; the result is a handler   *)
(* queued in the io_service, and each handler is one action.  Queued       *)
(* handlers may run in any order, which covers every order the io_service  *)
(* can produce.  The parser library is external: what it makes of the      *)
(* bytes of one read is a record c of Chunks.                              *)
(***************************************************************************)
EXTENDS Connection

VARIABLES
  sock,     \* _socket: being accepted, open, shut down, or destroyed
  peer,     \* does the kernel still know the other end?
  rd,       \* the outstanding async_read_some on _buffer
  wr,       \* the outstanding async_write of _reply
  timer,    \* the pending wait on _connection_timeout_timer
  expired,  \* is a handle_timer(success) queued?
  app,      \* the request handler: idle, preparing an answer, notified
  loop      \* io_service::run(): running, left by an exception, crashed

net   == <<sock, peer, rd, wr>>
clock == <<timer, expired>>
vars  == <<sock, peer, rd, wr, timer, expired, app, loop, waiting, parser,
           requestComplete, keepAlive, reply, manners, owed>>

Results == {"done", "failed", "aborted"}

StateTypeOK ==
  /\ ConnectionTypeOK
  /\ sock \in {"accepting", "open", "shut", "destroyed"}
  /\ peer \in {"up", "gone"}
  /\ rd \in {"none", "pending"} \union Results
  /\ wr \in {"none", "pending"} \union Results
  /\ timer \in {"off", "short", "long"}
  /\ expired \in BOOLEAN
  /\ app \in {"idle", "working", "notified"}
  /\ loop \in {"running", "thrown", "crashed"}

TypeOK == StateTypeOK /\ owed \in Int

Init ==
  /\ ConnectionInit
  /\ sock = "accepting" /\ peer = "up"
  /\ rd = "none" /\ wr = "none"
  /\ timer = "off" /\ expired = FALSE
  /\ app = "idle"
  /\ loop = "running"

---------------------------------------------------------------------------
(* Starting, arming, sending *)

(* http_server::handle_accept starts the connection: a first read, and no  *)
(* timer yet.                                                              *)
Start ==
  /\ loop = "running" /\ sock = "accepting"
  /\ sock' = "open" /\ rd' = "pending"
  /\ UNCHANGED <<peer, wr, clock, app, waiting, request, reply, loop, owed>>

(* expires_from_now without async_wait. *)
Arm_NoWait(period) == timer' = "off" /\ UNCHANGED expired

(* expires_from_now and async_wait: a pending wait is replaced, a          *)
(* handle_timer that is already queued stays queued.                       *)
Arm(period) == timer' = period /\ UNCHANGED expired

CancelTimer == timer' = "off" /\ UNCHANGED expired

(* send_reply that leaves _waiting_for_async_reply set. *)
SendReply_StillWaiting(arrived) ==
  /\ peer = "up"
  /\ wr' = "pending" /\ owed' = owed + arrived - 1
  /\ UNCHANGED <<waiting, loop>>

(* send_reply, after `arrived` more requests were read: the log line asks  *)
(* for remote_endpoint(), which throws when the peer is gone.              *)
SendReply(arrived) ==
  \/ /\ peer = "up"
     /\ waiting' = FALSE /\ wr' = "pending"
     /\ owed' = owed + arrived - 1
     /\ UNCHANGED loop
  \/ /\ peer = "gone"
     /\ loop' = "thrown"
     /\ owed' = owed + arrived
     /\ UNCHANGED <<waiting, wr>>

---------------------------------------------------------------------------
(* The handlers *)

(* handle_read with an error: an aborted read returns at once, any other   *)
(* error also cancels the timer; neither starts a new operation.           *)
HandleReadError ==
  /\ loop = "running" /\ rd \in {"failed", "aborted"}
  /\ rd' = "none"
  /\ IF rd = "failed" THEN CancelTimer ELSE UNCHANGED clock
  /\ UNCHANGED <<sock, peer, wr, app, waiting, request, reply, loop, owed>>

(* The common part of handle_read with data: it always stops the timer and *)
(* then parses.                                                            *)
ReadChunk(c) ==
  /\ loop = "running" /\ rd = "done"
  /\ Possible(c)
  /\ Parse(c)
  /\ UNCHANGED <<sock, peer>>

(* handle_read, bad parse: a 400 reply, created in whatever reply buffer   *)
(* there is; without one the call goes through a null pointer.             *)
RejectChunk(c) ==
  /\ ReadChunk(c)
  /\ c.verdict # "ok"
  /\ rd' = "none" /\ CancelTimer
  /\ UNCHANGED app
  /\ IF ReplyAfter(c) = "null"
     THEN /\ loop' = "crashed"
          /\ UNCHANGED <<wr, waiting, reply, owed>>
     ELSE /\ reply' = "created"
          /\ SendReply(Arrived(c))

(* handle_read, request complete, the handler (or the 404 of               *)
(* handle_request) creates the reply before it returns.                    *)
ServeNow(c) ==
  /\ ReadChunk(c)
  /\ c.verdict = "ok" /\ CompleteAfter(c) /\ ~waiting
  /\ rd' = "none" /\ CancelTimer
  /\ reply' = (IF peer = "up" THEN "created" ELSE ReplyAfter(c))
  /\ SendReply(Arrived(c))
  /\ UNCHANGED app

(* Without the return after the 400 reply. *)
ServeLater_AfterError(c) ==
  /\ ReadChunk(c)
  /\ CompleteAfter(c) /\ peer = "up"
  /\ rd' = "none" /\ Arm("long")
  /\ waiting' = TRUE /\ app' = "working"
  /\ reply' = ReplyAfter(c) /\ owed' = owed + Arrived(c)
  /\ UNCHANGED <<wr, loop>>

(* Without the else before the synchronous send_reply. *)
ServeLater_FallsThrough(c) ==
  /\ ReadChunk(c)
  /\ c.verdict = "ok" /\ CompleteAfter(c) /\ peer = "up"
  /\ rd' = "none" /\ Arm("long")
  /\ app' = "working" /\ reply' = ReplyAfter(c)
  /\ SendReply(Arrived(c))

(* handle_read, request complete, the flag _waiting_for_async_reply is set *)
(* when the handler returns: it called wait_for_async_reply, or the flag   *)
(* was set before.  The five second wait of wait_for_async_reply is        *)
(* replaced by the one hour wait of handle_read.                           *)
ServeLater(c) ==
  /\ ReadChunk(c)
  /\ c.verdict = "ok" /\ CompleteAfter(c)
  /\ peer = "up"
  /\ rd' = "none" /\ Arm("long")
  /\ waiting' = TRUE
  /\ app' \in {"working"} \union (IF waiting THEN {app} ELSE {})
  /\ reply' = (IF app' = "working" THEN ReplyAfter(c) ELSE "created")
  /\ owed' = owed + Arrived(c)
  /\ UNCHANGED <<wr, loop>>

(* handle_read, request not complete: wait five seconds for more. *)
ReadOn(c) ==
  /\ ReadChunk(c)
  /\ c.verdict = "ok" /\ ~CompleteAfter(c)
  /\ rd' = "pending" /\ Arm("short")
  /\ reply' = ReplyAfter(c)
  /\ owed' = owed + Arrived(c)
  /\ UNCHANGED <<wr, app, waiting, loop>>

HandleRead ==
  \/ HandleReadError
  \/ \E c \in Chunks :
       RejectChunk(c) \/ ServeNow(c) \/ ServeLater(c) \/ ReadOn(c)

(* handle_write when the connection goes on: reply and request are reset   *)
(* and the next read is started under a five second timer.  The flag       *)
(* _request_complete is left as it is.                                     *)
ReplyWritten ==
  /\ loop = "running" /\ wr = "done" /\ keepAlive
  /\ wr' = "none" /\ reply' = "empty"
  /\ rd' = "pending" /\ Arm("short")
  /\ UNCHANGED <<sock, peer, app, waiting, request, loop, owed>>

(* handle_write in every other case starts nothing; the timer is cancelled *)
(* when the write was not aborted and the connection is not kept alive.    *)
HandleWriteLast ==
  /\ loop = "running" /\ wr \in Results
  /\ wr = "done" => ~keepAlive
  /\ wr' = "none"
  /\ IF wr # "aborted" /\ ~keepAlive THEN CancelTimer ELSE UNCHANGED clock
  /\ UNCHANGED <<sock, peer, rd, app, waiting, request, reply, loop, owed>>

HandleWrite == ReplyWritten \/ HandleWriteLast

Aborted(op) == IF op = "pending" THEN "aborted" ELSE op

(* handle_timer with its success and error branches swapped. *)
HandleTimer_Ignores ==
  /\ loop = "running" /\ expired
  /\ expired' = FALSE
  /\ UNCHANGED <<net, timer, app, waiting, request, reply, loop, owed>>

(* handle_timer that waits again for another period. *)
HandleTimer_Rearms ==
  /\ loop = "running" /\ expired
  /\ expired' = FALSE /\ timer' = "short"
  /\ rd' = Aborted(rd) /\ wr' = Aborted(wr) /\ sock' = "shut"
  /\ UNCHANGED <<peer, app, waiting, request, reply, loop, owed>>

(* handle_timer without an error: cancel what is outstanding on the socket *)
(* and shut it down.  It does not ask what the connection is doing.        *)
HandleTimer ==
  /\ loop = "running" /\ expired
  /\ expired' = FALSE
  /\ rd' = Aborted(rd) /\ wr' = Aborted(wr)
  /\ sock' = "shut"
  /\ UNCHANGED <<peer, timer, app, waiting, request, reply, loop, owed>>

(* handle_async_reply_done that leaves the answer to handle_read as long as *)
(* _waiting_for_async_reply is set.                                        *)
HandleAsyncReplyDone_IfNotWaiting ==
  /\ loop = "running" /\ app = "notified"
  /\ app' = "idle"
  /\ CancelTimer
  /\ IF waiting THEN UNCHANGED <<waiting, wr, owed, loop>> ELSE SendReply(0)
  /\ UNCHANGED <<sock, peer, rd, request, reply>>

(* handle_async_reply_done, posted by notify_async_reply_done. *)
HandleAsyncReplyDone ==
  /\ loop = "running" /\ app = "notified"
  /\ app' = "idle"
  /\ CancelTimer
  /\ SendReply(0)
  /\ UNCHANGED <<sock, peer, rd, request, reply>>

(* The destructor, when no handler and no caller holds the connection. *)
Destroy ==
  /\ loop = "running" /\ sock \in {"open", "shut"}
  /\ rd = "none" /\ wr = "none" /\ timer = "off" /\ ~expired /\ app = "idle"
  /\ sock' = "destroyed"
  /\ UNCHANGED <<peer, rd, wr, clock, app, waiting, request, reply, loop, owed>>

---------------------------------------------------------------------------
(* The environment: application, clock and network *)

(* The request handler has created the reply and calls                     *)
(* notify_async_reply_done, from any thread.                               *)
Notify ==
  /\ loop = "running" /\ app = "working"
  /\ app' = "notified" /\ reply' = "created"
  /\ UNCHANGED <<net, clock, waiting, request, loop, owed>>

(* A wait runs out; from now on cancelling the timer is too late. *)
TimerExpires ==
  /\ loop = "running" /\ timer # "off"
  /\ timer' = "off" /\ expired' = TRUE
  /\ UNCHANGED <<net, app, waiting, request, reply, loop, owed>>

(* Bytes arrive.  The bound on owed limits how many requests are lost.     *)
ReadReady ==
  /\ loop = "running" /\ rd = "pending"
  /\ owed > -MaxOwed /\ owed < MaxOwed
  /\ rd' = "done"
  /\ UNCHANGED <<sock, peer, wr, clock, app, waiting, request, reply, loop, owed>>

(* End of file or a reset. *)
ReadFails ==
  /\ loop = "running" /\ rd = "pending"
  /\ rd' = "failed"
  /\ UNCHANGED <<sock, peer, wr, clock, app, waiting, request, reply, loop, owed>>

WriteDone ==
  /\ loop = "running" /\ wr = "pending" /\ sock = "open" /\ peer = "up"
  /\ wr' = "done"
  /\ UNCHANGED <<sock, peer, rd, clock, app, waiting, request, reply, loop, owed>>

WriteFails ==
  /\ loop = "running" /\ wr = "pending"
  /\ wr' = "failed"
  /\ UNCHANGED <<sock, peer, rd, clock, app, waiting, request, reply, loop, owed>>

(* A reset, or the end of a connection both sides have shut: from now on   *)
(* remote_endpoint() fails.                                                *)
PeerGone ==
  /\ loop = "running" /\ sock \in {"open", "shut"} /\ peer = "up"
  /\ peer' = "gone"
  /\ UNCHANGED <<sock, rd, wr, clock, app, waiting, request, reply, loop, owed>>

Handlers == Start \/ HandleRead \/ HandleWrite \/ HandleTimer
              \/ HandleAsyncReplyDone \/ Destroy
Environment == Notify \/ TimerExpires \/ ReadReady \/ ReadFails
                 \/ WriteDone \/ WriteFails \/ PeerGone

Next == Handlers \/ Environment

Spec == Init /\ [][Next]_vars

(* run() keeps calling queued handlers, clocks advance, an application     *)
(* that was asked for an answer gives one, and an operation on a socket    *)
(* that is shut down or has lost its peer does not stay pending.  Nothing  *)
(* is assumed of a live client: it may stay silent or stop reading.  The   *)
(* bytes a broken socket still delivers are finite, hence SF.              *)
Broken == sock = "shut" \/ peer = "gone"

Fairness ==
  /\ WF_vars(HandleRead) /\ WF_vars(HandleWrite) /\ WF_vars(HandleTimer)
  /\ WF_vars(HandleAsyncReplyDone) /\ WF_vars(Destroy)
  /\ WF_vars(Notify) /\ WF_vars(TimerExpires)
  /\ SF_vars(Broken /\ ReadFails) /\ WF_vars(Broken /\ WriteFails)

FairSpec == Spec /\ Fairness

---------------------------------------------------------------------------
(* Properties *)

(* The connection is half duplex: never two of an outstanding read, an     *)
(* outstanding write and a request in the application's hands.  This is    *)
(* what protects _buffer, _request and _reply, which all of them share     *)
(* without a lock.                                                         *)
TakesTurns ==
  /\ rd # "none" => wr = "none" /\ app = "idle"
  /\ wr # "none" => app = "idle"

(* What async_write is given is a reply that was created: no path through  *)
(* handle_read or handle_async_reply_done sends a reset one.               *)
SentReplyCreated == wr # "none" => reply = "created"

(* A client cannot hold a connection by silence once it has sent anything: *)
(* every read but the first runs under the five second timer, or under     *)
(* one that has just run out (start() arms no timer, handle_read and       *)
(* handle_write do).                                                       *)
Untouched == reply = "null" /\ parser = "between" /\ ~requestComplete
ReadGuarded ==
  rd = "pending" => timer = "short" \/ expired \/ sock = "shut" \/ Untouched

(* While the application prepares a reply the connection waits for it      *)
(* under the one hour timer, unless a timer has already run out, and       *)
(* _waiting_for_async_reply says so.                                       *)
AwaitGuarded ==
  /\ app = "working" => timer = "long" \/ expired \/ sock = "shut"
  /\ loop = "running" => (waiting <=> app # "idle")

(* After a parse error the connection answers 400 to whatever comes, and   *)
(* hands nothing to the application, although _request_complete may still  *)
(* be set from a request in the same read.                                 *)
ErrorOnlyRejects == parser = "error" => app = "idle"

(* The buffers of a reply do not own their memory: the reply is not        *)
(* changed while its write is outstanding (reply.h:35).                    *)
ReplyStable ==
  [][wr = "pending" /\ wr' = "pending" => UNCHANGED reply]_vars

(* As long as the client does not pipeline, every request is either in the *)
(* application's hands or has been answered, exactly once.                 *)
RepliesMatchRequests ==
  loop = "running" /\ manners = "polite" => owed = (IF app = "idle" THEN 0 ELSE 1)

(* The connection implements the turn taking of HalfDuplex, up to the      *)
(* first read in which the client did not keep to its turn.                *)
turn ==
  IF loop # "running" \/ manners # "polite" THEN "over"
  ELSE IF app # "idle" THEN "server"
  ELSE IF wr # "none" THEN "wire"
  ELSE IF rd # "none" \/ sock = "accepting" THEN "client" ELSE "over"
HD == INSTANCE HalfDuplex WITH owed <- IF turn = "over" THEN 0 ELSE owed
ImplementsHalfDuplex == HD!Spec

(* A read under the idle timer ends, whatever the client does. *)
IdleReadEnds == (rd = "pending" /\ timer = "short") ~> rd # "pending"

(* The application's answer is sent: handle_async_reply_done hands the      *)
(* reply, which is created by then (SentReplyCreated), to async_write on a *)
(* socket that is still open, unless the one hour has run out before it,   *)
(* or the loss of the client has left run() by an exception.  An answer    *)
(* that races with the hour may be cut off, and so may one that a stale    *)
(* idle timer overtakes (NotCutWhileWaiting); that is why a timer handler  *)
(* in the queue is excepted on both sides.                                 *)
AsyncAnswered ==
  (app = "working" /\ sock = "open" /\ ~expired)
    ~> ((wr = "pending" /\ sock = "open") \/ expired \/ loop # "running")

(* A connection that was shut down by its timer is released: no operation, *)
(* timer or waiting application keeps it alive for ever.                   *)
ShutReleased == sock = "shut" ~> (sock = "destroyed" \/ loop # "running")

---------------------------------------------------------------------------
(* Expectations of the sources that the code does not meet *)

(* "wait very long since we cant be dead when async call returns"          *)
(* (http_connection.cpp:115): while the one hour wait runs, the socket is  *)
(* not shut down.                                                          *)
NotCutWhileWaiting ==
  [][app = "working" /\ timer = "long" /\ sock = "open" => sock' = "open"]_vars

(* "Get a stock reply." (reply.h:30): create() returns one, in every state *)
(* in which handle_read calls it.                                          *)
StockReplyCreated == loop # "crashed"

(* "HTTP 1.1, specifically supports connection:keep-alive" (README.md:11): *)
(* when a connection goes back to reading, every request it has parsed has *)
(* had its reply; HTTP/1.1 lets a client send requests without waiting.    *)
NoRequestLost == rd = "pending" /\ parser # "error" => owed <= 0
===========================================================================

-------------------------- MODULE HttpsConnection --------------------------
(***************************************************************************)
(* One HTTPS connection of the server: class https_connection              *)
(* (server/https_connection.cpp) on its base class connection, driven by   *)
(* one thread in io_service::run().  As in HttpConnection, an operation    *)
(* ends in a queued handler and each handler is one action.                *)
(*                                                                         *)
(* Two kinds of wait share the one _timer.  wait_for_async_reply waits     *)
(* with handle_async_call and counts on being cancelled: cancellation is   *)
(* how notify_async_reply_done means to have the reply sent.  handle_read  *)
(* replaces that wait as soon as the request handler returns, and so       *)
(* cancels it itself.                                                      *)
(***************************************************************************)
EXTENDS Connection

CONSTANT MaxApps  \* bound on the requests in the application's hands

ASSUME HttpsAssumption == MaxApps \in Nat \ {0}

VARIABLES
  sock,        \* _socket: being accepted, in handshake, open, closing (a
               \* close_notify was sent), or destroyed
  peer,        \* does the kernel still know the other end?
  hs,          \* the outstanding async_handshake
  rd,          \* the outstanding async_read_some on _buffer
  wr,          \* the outstanding async_write of _reply
  sd,          \* the outstanding async_shutdown
  timer,       \* the pending wait with handle_timer on _timer
  expired,     \* is a handle_timer(success) queued?
  callAborted, \* is a handle_async_call(operation_aborted) queued?
  apps,        \* requests the application still prepares a reply for
  prompt,      \* history: did every request handler so far have its reply
               \* ready when it returned?
  loop         \* io_service::run(): running, left by an exception, crashed

service == <<apps, prompt, loop>>
ios   == <<hs, rd, wr, sd>>
clock == <<timer, expired, callAborted>>
vars  == <<sock, peer, hs, rd, wr, sd, timer, expired, callAborted, apps, prompt,
           loop, waiting, parser, requestComplete, keepAlive, reply, manners, owed>>

(* Nothing cancels the socket, so no operation on it ends as aborted. *)
Results == {"done", "failed"}
Ops == {"none", "pending"} \union Results

TypeOK ==
  /\ ConnectionTypeOK
  /\ owed \in Int
  /\ sock \in {"accepting", "handshaking", "open", "closing", "destroyed"}
  /\ peer \in {"up", "gone"}
  /\ hs \in Ops /\ rd \in Ops /\ wr \in Ops /\ sd \in Ops
  /\ timer \in {"off", "short", "long"}
  /\ expired \in BOOLEAN
  /\ callAborted \in BOOLEAN
  /\ apps \in 0..MaxApps
  /\ prompt \in BOOLEAN
  /\ loop \in {"running", "thrown", "crashed"}

Init ==
  /\ ConnectionInit
  /\ sock = "accepting" /\ peer = "up"
  /\ hs = "none" /\ rd = "none" /\ wr = "none" /\ sd = "none"
  /\ timer = "off" /\ expired = FALSE /\ callAborted = FALSE
  /\ apps = 0 /\ prompt = TRUE
  /\ loop = "running"

---------------------------------------------------------------------------
(* Helpers *)

(* expires_from_now without async_wait. *)
Arm_NoWait(period) == timer' = "off" /\ UNCHANGED expired

(* expires_from_now and async_wait(handle_timer). *)
Arm(period) == timer' = period /\ UNCHANGED expired

(* send_reply, after `arrived` more requests were read; remote_endpoint()  *)
(* in its log line throws when the peer is gone.                           *)
SendReply(arrived) ==
  \/ /\ peer = "up"
     /\ waiting' = FALSE /\ wr' = "pending"
     /\ owed' = owed + arrived - 1
     /\ UNCHANGED loop
  \/ /\ peer = "gone"
     /\ loop' = "thrown"
     /\ owed' = owed + arrived
     /\ UNCHANGED <<waiting, wr>>

---------------------------------------------------------------------------
(* The handlers *)

(* https_server::handle_accept starts the connection, without a timer. *)
Start ==
  /\ loop = "running" /\ sock = "accepting"
  /\ sock' = "handshaking" /\ hs' = "pending"
  /\ UNCHANGED <<peer, rd, wr, sd, clock, service, waiting, request, reply, owed>>

HandleHandshake ==
  /\ loop = "running" /\ hs \in Results
  /\ hs' = "none"
  /\ IF hs = "done" THEN sock' = "open" /\ rd' = "pending"
                    ELSE UNCHANGED <<sock, rd>>
  /\ UNCHANGED <<peer, wr, sd, clock, service, waiting, request, reply, owed>>

(* handle_read with an error leaves even the timer as it is. *)
HandleReadError ==
  /\ loop = "running" /\ rd = "failed"
  /\ rd' = "none"
  /\ UNCHANGED <<sock, peer, hs, wr, sd, clock, service, waiting, request,
                 reply, owed>>

ReadChunk(c) ==
  /\ loop = "running" /\ rd = "done"
  /\ Possible(c)
  /\ Parse(c)
  /\ UNCHANGED <<sock, peer, hs, sd>>

(* Without _reply.create. *)
RejectChunk_NoCreate(c) ==
  /\ ReadChunk(c)
  /\ c.verdict # "ok"
  /\ rd' = "none" /\ reply' = ReplyAfter(c) /\ SendReply(Arrived(c))
  /\ UNCHANGED <<clock, apps, prompt>>

(* handle_read, bad parse: a 400 reply in whatever reply buffer there is.  *)
(* The timer of the read keeps running.                                    *)
RejectChunk(c) ==
  /\ ReadChunk(c)
  /\ c.verdict # "ok"
  /\ rd' = "none"
  /\ UNCHANGED <<clock, apps, prompt>>
  /\ IF ReplyAfter(c) = "null"
     THEN loop' = "crashed" /\ UNCHANGED <<wr, waiting, reply, owed>>
     ELSE reply' = "created" /\ SendReply(Arrived(c))

(* Starting the next read together with the reply. *)
ServeNow_ReadsOn(c) ==
  /\ ReadChunk(c)
  /\ c.verdict = "ok" /\ CompleteAfter(c) /\ ~waiting
  /\ rd' = "pending" /\ reply' = "created" /\ SendReply(Arrived(c))
  /\ UNCHANGED <<clock, apps, prompt>>

(* handle_read, request complete, the handler (or the 404 of               *)
(* handle_request) creates the reply before it returns.                    *)
ServeNow(c) ==
  /\ ReadChunk(c)
  /\ c.verdict = "ok" /\ CompleteAfter(c) /\ ~waiting
  /\ rd' = "none"
  /\ reply' = (IF peer = "up" THEN "created" ELSE ReplyAfter(c))
  /\ SendReply(Arrived(c))
  /\ UNCHANGED <<clock, apps, prompt>>

(* The handler called wait_for_async_reply.  It returns with the request   *)
(* in the application's hands, or after notify_async_reply_done.  That     *)
(* waiting may be set from before when it did neither needs no case:       *)
(* WaitingExact shows it is not.                                           *)
AwaitReply(c) ==
  /\ ReadChunk(c)
  /\ c.verdict = "ok" /\ CompleteAfter(c) /\ peer = "up"
  /\ rd' = "none" /\ Arm("long")
  /\ waiting' = TRUE
  /\ \/ /\ apps < MaxApps /\ apps' = apps + 1
        /\ prompt' = FALSE /\ reply' = ReplyAfter(c)
     \/ UNCHANGED <<apps, prompt>> /\ reply' = "created"
  /\ owed' = owed + Arrived(c)
  /\ UNCHANGED <<wr, loop>>

(* With the wait of wait_for_async_reply on a timer of its own. *)
ServeLater_KeepsWait(c) == AwaitReply(c) /\ UNCHANGED callAborted

(* handle_read, request complete and waiting: arming the one hour wait     *)
(* cancels the wait of wait_for_async_reply, or notify_async_reply_done    *)
(* did so before; handle_async_call is queued either way.                  *)
ServeLater(c) == AwaitReply(c) /\ callAborted' = TRUE

(* handle_read, request not complete. *)
ReadOn(c) ==
  /\ ReadChunk(c)
  /\ c.verdict = "ok" /\ ~CompleteAfter(c)
  /\ rd' = "pending" /\ Arm("short")
  /\ reply' = ReplyAfter(c)
  /\ owed' = owed + Arrived(c)
  /\ UNCHANGED <<wr, callAborted, service, waiting>>

HandleRead ==
  \/ HandleReadError
  \/ \E c \in Chunks :
       RejectChunk(c) \/ ServeNow(c) \/ ServeLater(c) \/ ReadOn(c)

(* handle_write_complete: whatever keep_alive() says, the reply is reset   *)
(* and the next read started; the request is not reset.  After a failed    *)
(* write nothing is done, and a timer that is still armed stays so.        *)
HandleWriteComplete ==
  /\ loop = "running" /\ wr \in Results
  /\ wr' = "none"
  /\ IF wr = "done" THEN reply' = "empty" /\ rd' = "pending" /\ Arm("short")
                    ELSE UNCHANGED <<reply, rd, timer, expired>>
  /\ UNCHANGED <<sock, peer, hs, sd, callAborted, service, waiting, request, owed>>

(* handle_timer with its success and error branches swapped. *)
HandleTimer_Ignores ==
  /\ loop = "running" /\ expired
  /\ expired' = FALSE
  /\ UNCHANGED <<sock, peer, ios, timer, callAborted, service, waiting,
                 request, reply, owed>>

(* handle_timer without an error starts an SSL shutdown; the operations on *)
(* the stream are not cancelled.                                           *)
HandleTimer ==
  /\ loop = "running" /\ expired
  /\ expired' = FALSE
  /\ sd' = "pending" /\ sock' = "closing"
  /\ UNCHANGED <<peer, hs, rd, wr, timer, callAborted, service, waiting,
                 request, reply, owed>>

(* handle_shutdown does nothing. *)
HandleShutdown ==
  /\ loop = "running" /\ sd \in Results
  /\ sd' = "none"
  /\ UNCHANGED <<sock, peer, hs, rd, wr, clock, service, waiting, request,
                 reply, owed>>

(* handle_async_call sends the reply because its wait was cancelled. *)
HandleAsyncCall ==
  /\ loop = "running" /\ callAborted
  /\ callAborted' = FALSE
  /\ SendReply(0)
  /\ UNCHANGED <<sock, peer, hs, rd, sd, timer, expired, apps, prompt, request, reply>>

(* The destructor, when no handler and no caller holds the connection. *)
Destroy ==
  /\ loop = "running" /\ sock \in {"handshaking", "open", "closing"}
  /\ hs = "none" /\ rd = "none" /\ wr = "none" /\ sd = "none"
  /\ timer = "off" /\ ~expired /\ ~callAborted /\ apps = 0
  /\ sock' = "destroyed"
  /\ UNCHANGED <<peer, ios, clock, service, waiting, request, reply, owed>>

---------------------------------------------------------------------------
(* The environment: application, clock and network *)

(* The application creates the reply and calls notify_async_reply_done on  *)
(* the connection's thread: that cancels whatever waits on _timer, which   *)
(* is by then a wait with handle_timer.                                    *)
Notify ==
  /\ loop = "running" /\ apps > 0
  /\ apps' = apps - 1 /\ reply' = "created"
  /\ timer' = "off"
  /\ UNCHANGED <<sock, peer, ios, expired, callAborted, prompt, loop, waiting,
                 request, owed>>

TimerExpires ==
  /\ loop = "running" /\ timer # "off"
  /\ timer' = "off" /\ expired' = TRUE
  /\ UNCHANGED <<sock, peer, ios, callAborted, service, waiting, request,
                 reply, owed>>

HandshakeEnds ==
  /\ loop = "running" /\ hs = "pending"
  /\ hs' \in Results
  /\ UNCHANGED <<sock, peer, rd, wr, sd, clock, service, waiting, request,
                 reply, owed>>

ReadEnds ==
  /\ loop = "running" /\ rd = "pending"
  /\ rd' \in {"failed"} \union
       (IF owed > -MaxOwed /\ owed < MaxOwed THEN {"done"} ELSE {})
  /\ UNCHANGED <<sock, peer, hs, wr, sd, clock, service, waiting, request,
                 reply, owed>>

WriteEnds ==
  /\ loop = "running" /\ wr = "pending"
  /\ wr' \in {"failed"} \union (IF peer = "up" THEN {"done"} ELSE {})
  /\ UNCHANGED <<sock, peer, hs, rd, sd, clock, service, waiting, request,
                 reply, owed>>

ShutdownEnds ==
  /\ loop = "running" /\ sd = "pending"
  /\ sd' \in Results
  /\ UNCHANGED <<sock, peer, hs, rd, wr, clock, service, waiting, request,
                 reply, owed>>

PeerGone ==
  /\ loop = "running" /\ peer = "up"
  /\ sock \in {"handshaking", "open", "closing"}
  /\ peer' = "gone"
  /\ UNCHANGED <<sock, ios, clock, service, waiting, request, reply, owed>>

Next ==
  \/ Start \/ HandleHandshake \/ HandleRead \/ HandleWriteComplete
  \/ HandleTimer \/ HandleShutdown \/ HandleAsyncCall \/ Destroy
  \/ Notify \/ TimerExpires \/ HandshakeEnds \/ ReadEnds \/ WriteEnds
  \/ ShutdownEnds \/ PeerGone

Spec == Init /\ [][Next]_vars

(* run() keeps calling queued handlers, and clocks advance. *)
FairSpec ==
  /\ Spec
  /\ WF_vars(HandleHandshake) /\ WF_vars(HandleRead)
  /\ WF_vars(HandleWriteComplete) /\ WF_vars(HandleTimer)
  /\ WF_vars(HandleShutdown) /\ WF_vars(HandleAsyncCall)
  /\ WF_vars(TimerExpires)

---------------------------------------------------------------------------
(* Properties *)

(* The handshake, the read, the queued handle_async_call and the write     *)
(* form one chain: never two of them are outstanding, however the timer    *)
(* and late calls of notify_async_reply_done interleave with them.         *)
OneIoChain ==
  /\ hs # "none" => rd = "none" /\ wr = "none" /\ ~callAborted
  /\ rd # "none" => wr = "none" /\ ~callAborted
  /\ wr # "none" => ~callAborted

(* _waiting_for_async_reply is set exactly while handle_async_call is      *)
(* queued, so handle_read never finds it set from an earlier request.      *)
WaitingExact == loop = "running" => (waiting <=> callAborted)

(* The connection implements the turn taking of HalfDuplex, the server's   *)
(* turn lasting until handle_async_call.  As long as the client does not   *)
(* pipeline, send_reply so runs exactly once per request: a late           *)
(* notify_async_reply_done sends nothing.                                  *)
turn ==
  IF loop # "running" \/ manners # "polite" THEN "over"
  ELSE IF callAborted THEN "server"
  ELSE IF wr # "none" THEN "wire"
  ELSE IF rd # "none" \/ hs # "none" \/ sock = "accepting" THEN "client"
  ELSE "over"
HD == INSTANCE HalfDuplex WITH owed <- IF turn = "over" THEN 0 ELSE owed
ImplementsHalfDuplex == HD!Spec

(* While every handler has its reply ready when it returns, a reply that   *)
(* is written has been created ...                                         *)
PromptReplyCreated == prompt /\ wr # "none" => reply = "created"

(* ... is not changed while it is written (reply.h:35) ...                 *)
PromptReplyStable ==
  [][prompt /\ wr = "pending" /\ wr' = "pending" => UNCHANGED reply]_vars

(* ... and every read after the first is under the five second timer, or   *)
(* that timer has run out.                                                 *)
Untouched == reply = "null" /\ parser = "between" /\ ~requestComplete
PromptReadGuarded ==
  prompt /\ rd = "pending" =>
    timer = "short" \/ expired \/ sock = "closing" \/ Untouched

(* Against a client that falls silent the timer of a read does what the    *)
(* code asks of it: while handlers are prompt, a read under the five       *)
(* second timer ends, or the shutdown of the stream is begun.  More does   *)
(* not follow, since handle_timer cancels nothing.  After late             *)
(* notifications even this fails: one of them may cancel the timer.        *)
IdleReadShut ==
  (prompt /\ rd = "pending" /\ timer = "short")
    ~> (rd # "pending" \/ sock = "closing" \/ loop # "running")

---------------------------------------------------------------------------
(* "The reply object must remain valid and not be changed until the write  *)
(* operation has completed" (reply.h:36): also when the handler returns    *)
(* before it calls notify_async_reply_done.                                *)
ReplyStable ==
  [][wr = "pending" /\ wr' = "pending" => UNCHANGED reply]_vars
===========================================================================

----------------------- MODULE HttpsConnectionProofs -----------------------
(***************************************************************************)
(* Theorems about HttpsConnection, for every value of its constants.  As   *)
(* in HttpConnectionProofs, IInv adds to the properties of HttpsConnection *)
(* what their induction needs.  That a late notify_async_reply_done and    *)
(* the shared _timer do no harm is in the invariant, too: the wait of      *)
(* wait_for_async_reply is either over or its cancellation is queued.      *)
(***************************************************************************)
EXTENDS HttpsConnection, ConnectionProofs

(* Nothing is under way before handle_accept starts the connection ... *)
AcceptingIsFresh ==
  sock = "accepting" =>
    /\ hs = "none" /\ rd = "none" /\ wr = "none" /\ sd = "none"
    /\ timer = "off" /\ ~expired /\ ~callAborted
    /\ apps = 0 /\ Untouched

(* ... and nothing is read or handed to the application before the          *)
(* handshake is over.                                                      *)
HandshakeIsFresh == hs # "none" => apps = 0 /\ Untouched

(* While every handler has its reply ready, the application holds nothing  *)
(* after handle_read, and what handle_async_call will send is there.       *)
PromptIsIdle == prompt => apps = 0 /\ (callAborted => reply = "created")

(* The whole of TypeOK but for the account of requests and replies. *)
StateTypeOK ==
  /\ ConnectionTypeOK
  /\ sock \in {"accepting", "handshaking", "open", "closing", "destroyed"}
  /\ peer \in {"up", "gone"}
  /\ hs \in Ops /\ rd \in Ops /\ wr \in Ops /\ sd \in Ops
  /\ timer \in {"off", "short", "long"}
  /\ expired \in BOOLEAN
  /\ callAborted \in BOOLEAN
  /\ apps \in 0..MaxApps
  /\ prompt \in BOOLEAN
  /\ loop \in {"running", "thrown", "crashed"}

Safe ==
  /\ AcceptingIsFresh /\ HandshakeIsFresh /\ PromptIsIdle
  /\ OneIoChain /\ WaitingExact /\ PromptReplyCreated /\ PromptReadGuarded

IInv ==
  /\ StateTypeOK
  /\ Safe

USE DEF Results, Ops, ConnectionTypeOK, ConnectionInit, Untouched

---------------------------------------------------------------------------
(* The initial state satisfies the inductive invariant. *)
LEMMA InitIInv == Init => IInv
<1> SUFFICES ASSUME Init PROVE IInv
  OBVIOUS
<1>1. StateTypeOK
  <2>1. apps \in 0..MaxApps
    BY HttpsAssumption DEF Init
  <2> QED
    BY <2>1, Zenon DEF Init, StateTypeOK
<1>2. AcceptingIsFresh /\ HandshakeIsFresh /\ PromptIsIdle
  BY DEF Init, AcceptingIsFresh, HandshakeIsFresh, PromptIsIdle
<1>3. OneIoChain /\ WaitingExact /\ PromptReplyCreated /\ PromptReadGuarded
  BY DEF Init, OneIoChain, WaitingExact, PromptReplyCreated, PromptReadGuarded
<1> QED
  BY <1>1, <1>2, <1>3 DEF IInv, Safe

(* Every handler and every step of the environment preserves types. *)
LEMMA TypeStep == StateTypeOK /\ [Next]_vars => StateTypeOK'
<1> SUFFICES ASSUME StateTypeOK, [Next]_vars PROVE StateTypeOK'
  OBVIOUS
<1> USE DEF StateTypeOK
<1>1. CASE Start \/ HandleHandshake
  BY <1>1 DEF Start, HandleHandshake, clock, service, request
<1>2. CASE HandleReadError
  BY <1>2 DEF HandleReadError, clock, service, request
<1>3. ASSUME NEW c \in Chunks, ReadChunk(c),
             RejectChunk(c) \/ ServeNow(c) \/ ServeLater(c) \/ ReadOn(c)
      PROVE  StateTypeOK'
  <2>1. Parse(c) /\ UNCHANGED <<sock, peer, hs, sd>>
    BY <1>3 DEF ReadChunk
  <2>2. /\ parser' \in {"between", "inside", "error"}
        /\ requestComplete' \in BOOLEAN /\ keepAlive' \in BOOLEAN
        /\ manners' \in {"polite", "ahead"}
        /\ ReplyAfter(c) \in {"null", "empty", "created"}
    BY <2>1, ParseType
  <2>3. CASE RejectChunk(c)
    <3>1. /\ waiting' \in BOOLEAN /\ wr' \in Ops
          /\ reply' \in {"null", "empty", "created"}
          /\ loop' \in {"running", "thrown", "crashed"}
      BY <2>3, Zenon DEF RejectChunk, SendReply
    <3> QED
      BY <2>1, <2>2, <2>3, <3>1 DEF RejectChunk, clock
  <2>4. CASE ServeNow(c)
    <3>1. /\ waiting' \in BOOLEAN /\ wr' \in Ops
          /\ loop' \in {"running", "thrown", "crashed"}
      BY <2>4, Zenon DEF ServeNow, SendReply
    <3> QED
      BY <2>1, <2>2, <2>4, <3>1 DEF ServeNow, clock
  <2>5. CASE ServeLater(c)
    <3>1. apps' \in 0..MaxApps /\ prompt' \in BOOLEAN
          /\ reply' \in {"null", "empty", "created"}
      <4>1. apps < MaxApps => apps + 1 \in 0..MaxApps
        BY HttpsAssumption
      <4> QED
        BY <2>2, <2>5, <4>1, Zenon DEF ServeLater, AwaitReply
    <3> QED
      BY <2>1, <2>2, <2>5, <3>1 DEF ServeLater, AwaitReply, Arm
  <2>6. CASE ReadOn(c)
    BY <2>1, <2>2, <2>6 DEF ReadOn, Arm, service
  <2> QED
    BY <1>3, <2>3, <2>4, <2>5, <2>6
<1>4. CASE HandleWriteComplete
  BY <1>4 DEF HandleWriteComplete, Arm, service, request
<1>5. CASE HandleTimer \/ HandleShutdown
  BY <1>5 DEF HandleTimer, HandleShutdown, clock, service, request
<1>6. CASE HandleAsyncCall
  <2>1. /\ waiting' \in BOOLEAN /\ wr' \in Ops
        /\ loop' \in {"running", "thrown", "crashed"}
    BY <1>6, Zenon DEF HandleAsyncCall, SendReply
  <2>2. ConnectionTypeOK'
    <3>1. UNCHANGED <<parser, requestComplete, keepAlive, manners, reply>>
      BY <1>6, Zenon DEF HandleAsyncCall, request
    <3> QED
      BY <2>1, <3>1
  <2>3. callAborted' \in BOOLEAN /\ apps' \in 0..MaxApps
    BY <1>6, Zenon DEF HandleAsyncCall
  <2>4. UNCHANGED <<sock, peer, hs, rd, sd, timer, expired, prompt>>
    BY <1>6 DEF HandleAsyncCall
  <2> QED
    BY <2>1, <2>2, <2>3, <2>4
<1>7. CASE Destroy
  BY <1>7 DEF Destroy, ios, clock, service, request
<1>8. CASE Notify
  <2>1. apps' \in 0..MaxApps
    BY <1>8, HttpsAssumption DEF Notify
  <2> QED
    BY <1>8, <2>1 DEF Notify, ios, request
<1>9. CASE TimerExpires \/ PeerGone
  BY <1>9 DEF TimerExpires, PeerGone, ios, clock, service, request
<1>10. CASE HandshakeEnds \/ ReadEnds
  BY <1>10 DEF HandshakeEnds, ReadEnds, clock, service, request
<1>11. CASE WriteEnds \/ ShutdownEnds
  BY <1>11 DEF WriteEnds, ShutdownEnds, clock, service, request
<1>12. CASE UNCHANGED vars
  BY <1>12 DEF vars
<1>13. CASE HandleRead
  BY <1>2, <1>3, <1>13
     DEF HandleRead, RejectChunk, ServeNow, ServeLater, AwaitReply, ReadOn
<1> QED
  BY <1>1, <1>4, <1>5, <1>6, <1>7, <1>8, <1>9, <1>10, <1>11, <1>12, <1>13
     DEF Next

(* Every step preserves the safety part of the invariant: one operation or *)
(* handler at a time (OneIoChain), the exact flag (WaitingExact), and for  *)
(* prompt handlers a created reply and a guarded read.                     *)
LEMMA SafeStep == StateTypeOK /\ Safe /\ [Next]_vars => Safe'
<1> SUFFICES ASSUME StateTypeOK, Safe, [Next]_vars PROVE Safe'
  OBVIOUS
<1> USE DEF Safe, AcceptingIsFresh, HandshakeIsFresh, PromptIsIdle, OneIoChain,
            WaitingExact, PromptReplyCreated, PromptReadGuarded
<1>1. CASE Start \/ HandleHandshake
  BY <1>1 DEF Start, HandleHandshake, clock, service, request
<1>2. CASE HandleReadError
  BY <1>2 DEF HandleReadError, clock, service, request
<1>3. ASSUME NEW c \in Chunks, ReadChunk(c),
             RejectChunk(c) \/ ServeNow(c) \/ ServeLater(c) \/ ReadOn(c)
      PROVE  Safe'
  <2>1. /\ UNCHANGED <<sock, peer, hs, sd>> /\ loop = "running" /\ rd = "done"
        /\ hs = "none" /\ wr = "none" /\ ~callAborted /\ ~waiting
        /\ sock # "accepting"
    BY <1>3 DEF ReadChunk
  <2>2. CASE RejectChunk(c)
    BY <2>1, <2>2 DEF RejectChunk, SendReply, clock
  <2>3. CASE ServeNow(c)
    BY <2>1, <2>3 DEF ServeNow, SendReply, clock
  <2>4. CASE ServeLater(c)
    BY <2>1, <2>4 DEF ServeLater, AwaitReply, Arm
  <2>5. CASE ReadOn(c)
    BY <2>1, <2>5 DEF ReadOn, Arm, service
  <2> QED
    BY <1>3, <2>2, <2>3, <2>4, <2>5
<1>4. CASE HandleWriteComplete
  BY <1>4 DEF HandleWriteComplete, Arm, service, request
<1>5. CASE HandleTimer \/ HandleShutdown
  BY <1>5 DEF HandleTimer, HandleShutdown, clock, service, request
<1>6. CASE HandleAsyncCall
  BY <1>6 DEF HandleAsyncCall, SendReply, request
<1>7. CASE Destroy
  BY <1>7 DEF Destroy, ios, clock, service, request
<1>8. CASE Notify
  <2>1. ~prompt
    BY <1>8 DEF Notify
  <2> QED
    BY <1>8, <2>1 DEF Notify, ios, request
<1>9. CASE TimerExpires \/ PeerGone
  BY <1>9 DEF TimerExpires, PeerGone, ios, clock, service, request, StateTypeOK
<1>10. CASE HandshakeEnds \/ ReadEnds
  BY <1>10 DEF HandshakeEnds, ReadEnds, clock, service, request
<1>11. CASE WriteEnds \/ ShutdownEnds
  BY <1>11 DEF WriteEnds, ShutdownEnds, clock, service, request
<1>12. CASE UNCHANGED vars
  BY <1>12 DEF vars
<1>13. CASE HandleRead
  BY <1>2, <1>3, <1>13
     DEF HandleRead, RejectChunk, ServeNow, ServeLater, AwaitReply, ReadOn
<1> QED
  BY <1>1, <1>4, <1>5, <1>6, <1>7, <1>8, <1>9, <1>10, <1>11, <1>12, <1>13
     DEF Next

(* The difference of requests and replies stays an integer. *)
LEMMA OwedStep == owed \in Int /\ [Next]_vars => owed' \in Int
<1> SUFFICES ASSUME owed \in Int, [Next]_vars PROVE owed' \in Int
  OBVIOUS
<1>1. ASSUME NEW c \in Chunks,
             RejectChunk(c) \/ ServeNow(c) \/ ServeLater(c) \/ ReadOn(c)
      PROVE  owed' \in Int
  <2>1. Arrived(c) \in Int
    BY ArrivedType
  <2> QED
    BY <1>1, <2>1
       DEF RejectChunk, ServeNow, ServeLater, AwaitReply, ReadOn, SendReply
<1>2. CASE HandleRead
  BY <1>1, <1>2 DEF HandleRead, HandleReadError
<1>3. CASE HandleAsyncCall
  BY <1>3 DEF HandleAsyncCall, SendReply
<1>4. CASE Start \/ HandleHandshake \/ HandleWriteComplete \/ HandleTimer
           \/ HandleShutdown \/ Destroy
  BY <1>4 DEF Start, HandleHandshake, HandleWriteComplete, HandleTimer,
              HandleShutdown, Destroy
<1>5. CASE Notify \/ TimerExpires \/ HandshakeEnds \/ ReadEnds \/ WriteEnds
           \/ ShutdownEnds \/ PeerGone
  BY <1>5 DEF Notify, TimerExpires, HandshakeEnds, ReadEnds, WriteEnds,
              ShutdownEnds, PeerGone
<1>6. CASE UNCHANGED vars
  BY <1>6 DEF vars
<1> QED
  BY <1>2, <1>3, <1>4, <1>5, <1>6 DEF Next

---------------------------------------------------------------------------
(* The variables of a connection keep their types. *)
THEOREM TypeCorrect == Spec => []TypeOK
<1>1. TypeOK <=> StateTypeOK /\ owed \in Int
  BY Zenon DEF TypeOK, StateTypeOK
<1>2. Init => owed \in Int
  BY DEF Init
<1>3. Init => TypeOK
  BY InitIInv, <1>1, <1>2 DEF IInv
<1>4. TypeOK /\ [Next]_vars => TypeOK'
  <2>1. TypeOK' <=> StateTypeOK' /\ owed' \in Int
    BY Zenon DEF TypeOK, StateTypeOK
  <2> QED
    BY TypeStep, OwedStep, <1>1, <2>1
<1> QED
  BY <1>3, <1>4, PTL DEF Spec

(* The inductive invariant holds in every reachable state. *)
THEOREM Inductive == Spec => []IInv
<1>1. IInv /\ [Next]_vars => IInv'
  BY TypeStep, SafeStep DEF IInv
<1> QED
  BY InitIInv, <1>1, PTL DEF Spec

(* Handshake, read, queued handle_async_call and write form one chain,     *)
(* however the timer and late calls of notify_async_reply_done interleave  *)
(* with them: no two operations use _buffer or the stream at once.         *)
THEOREM OneChain == Spec => []OneIoChain
<1>1. IInv => OneIoChain
  BY DEF IInv, Safe
<1> QED
  BY Inductive, <1>1, PTL

(* _waiting_for_async_reply is set exactly while handle_async_call is      *)
(* queued: handle_read never finds it set from an earlier request.         *)
THEOREM WaitingFlagExact == Spec => []WaitingExact
<1>1. IInv => WaitingExact
  BY DEF IInv, Safe
<1> QED
  BY Inductive, <1>1, PTL

(* With prompt handlers, handle_async_call and handle_read only send       *)
(* replies that have been created.                                         *)
THEOREM PromptRepliesCreated == Spec => []PromptReplyCreated
<1>1. IInv => PromptReplyCreated
  BY DEF IInv, Safe
<1> QED
  BY Inductive, <1>1, PTL

(* With prompt handlers, every read but the first is under the five second *)
(* timer of handle_read and handle_write_complete.                         *)
THEOREM PromptReadsGuarded == Spec => []PromptReadGuarded
<1>1. IInv => PromptReadGuarded
  BY DEF IInv, Safe
<1> QED
  BY Inductive, <1>1, PTL

(* With prompt handlers, no step changes the reply while it is written:    *)
(* handle_read is excluded by OneIoChain, a finished write by the write    *)
(* that goes on, and notify_async_reply_done by the empty-handed           *)
(* application.                                                            *)
THEOREM PromptReplyStableDuringWrite == Spec => PromptReplyStable
<1>1. IInv /\ [Next]_vars =>
        [prompt /\ wr = "pending" /\ wr' = "pending" => UNCHANGED reply]_vars
  <2> SUFFICES ASSUME StateTypeOK, OneIoChain, PromptIsIdle, Next, prompt,
                      wr = "pending", wr' = "pending"
               PROVE  reply' = reply
    BY DEF IInv, Safe, vars
  <2>1. rd = "none" /\ ~(apps > 0)
    BY DEF OneIoChain, PromptIsIdle
  <2>2. ~Notify
    BY <2>1 DEF Notify
  <2>3. CASE HandleRead
    BY <2>1, <2>3 DEF HandleRead, HandleReadError, RejectChunk, ServeNow,
                      ServeLater, AwaitReply, ReadOn, ReadChunk
  <2>4. CASE HandleWriteComplete
    BY <2>4 DEF HandleWriteComplete
  <2>5. CASE Start \/ HandleHandshake \/ HandleTimer \/ HandleShutdown
             \/ HandleAsyncCall \/ Destroy
    BY <2>5 DEF Start, HandleHandshake, HandleTimer, HandleShutdown,
                HandleAsyncCall, Destroy
  <2>6. CASE TimerExpires \/ HandshakeEnds \/ ReadEnds \/ WriteEnds
             \/ ShutdownEnds \/ PeerGone
    BY <2>6 DEF TimerExpires, HandshakeEnds, ReadEnds, WriteEnds, ShutdownEnds,
                PeerGone
  <2> QED
    BY <2>2, <2>3, <2>4, <2>5, <2>6 DEF Next
<1>2. Spec => [][prompt /\ wr = "pending" /\ wr' = "pending"
                 => UNCHANGED reply]_vars
  BY Inductive, <1>1, PTL DEF Spec
<1> QED
  BY <1>2 DEF PromptReplyStable

---------------------------------------------------------------------------
(* Refinement *)

(* The account of HalfDuplex in the terms of the code: a client that does  *)
(* not pipeline is owed a reply exactly while handle_async_call is queued. *)
RepliesMatchRequests ==
  loop = "running" /\ manners = "polite" =>
    owed = IF callAborted THEN 1 ELSE 0

(* A step that leaves the turn and the account alone is invisible to       *)
(* HalfDuplex.                                                             *)
LEMMA Invisible ==
  ASSUME RepliesMatchRequests, turn' = turn,
         UNCHANGED <<loop, manners, callAborted, owed>>
  PROVE  RepliesMatchRequests' /\ [HD!Next]_(HD!vars)
<1>1. RepliesMatchRequests'
  BY Zenon DEF RepliesMatchRequests
<1>2. UNCHANGED HD!vars
  BY Zenon DEF HD!vars
<1> QED
  BY <1>1, <1>2

(* Each step keeps the account of requests and replies balanced, and is a  *)
(* step of HalfDuplex or invisible to it.                                  *)
LEMMA PoliteStep ==
  ASSUME IInv, RepliesMatchRequests, owed \in Int, [Next]_vars
  PROVE  RepliesMatchRequests' /\ [HD!Next]_(HD!vars)
<1> DEFINE Goal == RepliesMatchRequests' /\ [HD!Next]_(HD!vars)
<1> USE DEF IInv, Safe, OneIoChain, WaitingExact, RepliesMatchRequests
<1> USE DEF HD!Next, HD!vars, HD!Take, HD!Answer, HD!TakeAndAnswer, HD!Deliver,
            HD!End, turn
<1>1. CASE Start
  <2>1. UNCHANGED <<loop, manners, callAborted, owed>>
    BY <1>1, Zenon DEF Start, clock, service, request
  <2>2. turn' = turn
    BY <1>1, <2>1 DEF Start, AcceptingIsFresh
  <2> QED
    BY <2>1, <2>2, Invisible
<1>2. CASE HandleHandshake
  <2>1. UNCHANGED <<loop, manners, callAborted, owed, wr>>
    BY <1>2, Zenon DEF HandleHandshake, clock, service, request
  <2>2. /\ wr = "none" /\ ~callAborted /\ rd = "none" /\ hs' = "none"
        /\ sock' # "accepting" /\ loop = "running" /\ hs # "none"
    BY <1>2 DEF HandleHandshake, AcceptingIsFresh
  <2>3. turn' \in {turn, "over"}
    BY <2>1, <2>2
  <2>4. turn # "over" => turn = "client" /\ owed = 0
    BY <2>2
  <2> QED
    BY <2>1, <2>3, <2>4, Invisible
<1>3. CASE HandleReadError
  BY <1>3 DEF HandleReadError, clock, service, request
<1>4. ASSUME NEW c \in Chunks, ReadChunk(c),
             RejectChunk(c) \/ ServeNow(c) \/ ServeLater(c) \/ ReadOn(c)
      PROVE  Goal
  <2>1. /\ sock' = sock /\ hs' = hs /\ loop = "running" /\ rd = "done"
        /\ hs = "none" /\ wr = "none" /\ ~callAborted /\ sock # "accepting"
        /\ Possible(c) /\ manners' = (IF Polite(c) THEN manners ELSE "ahead")
    BY <1>4 DEF ReadChunk, Parse, AcceptingIsFresh
  <2>2. CASE manners' # "polite"
    BY <2>1, <2>2
  <2> SUFFICES ASSUME manners' = "polite" PROVE Goal
    BY <2>2
  <2>3. owed = 0 /\ turn = "client" /\ Polite(c)
    BY <2>1
  <2>4. CASE RejectChunk(c)
    <3>1. Arrived(c) = 1
      BY <2>1, <2>3, <2>4, PoliteChunk DEF RejectChunk
    <3> QED
      BY <2>1, <2>3, <2>4, <3>1 DEF RejectChunk, SendReply, clock
  <2>5. CASE ServeNow(c)
    <3>1. Arrived(c) = 1
      BY <2>1, <2>3, <2>5, PoliteChunk DEF ServeNow
    <3> QED
      BY <2>1, <2>3, <2>5, <3>1 DEF ServeNow, SendReply, clock
  <2>6. CASE ServeLater(c)
    <3>1. Arrived(c) = 1
      BY <2>1, <2>3, <2>6, PoliteChunk DEF ServeLater, AwaitReply
    <3> QED
      BY <2>1, <2>3, <2>6, <3>1 DEF ServeLater, AwaitReply
  <2>7. CASE ReadOn(c)
    <3>1. Arrived(c) = 0
      BY <2>1, <2>3, <2>7, PoliteChunk DEF ReadOn
    <3> QED
      BY <2>1, <2>3, <2>7, <3>1 DEF ReadOn, service
  <2> QED
    BY <1>4, <2>4, <2>5, <2>6, <2>7
<1>5. CASE HandleWriteComplete
  BY <1>5 DEF HandleWriteComplete, service, request
<1>6. CASE HandleTimer \/ HandleShutdown
  <2>1. UNCHANGED <<loop, manners, callAborted, owed, hs, rd, wr>>
    BY <1>6, Zenon DEF HandleTimer, HandleShutdown, clock, service, request
  <2>2. sock' = "accepting" <=> sock = "accepting"
    BY <1>6 DEF HandleTimer, HandleShutdown, AcceptingIsFresh
  <2> QED
    BY <2>1, <2>2, Invisible
<1>7. CASE HandleAsyncCall
  <2>1. CASE loop' # "running" \/ manners # "polite"
    BY <1>7, <2>1 DEF HandleAsyncCall, request
  <2>2. CASE loop' = "running" /\ manners = "polite"
    <3>1. owed' = owed + 0 - 1 /\ wr' = "pending"
      BY <1>7, <2>2 DEF HandleAsyncCall, SendReply
    <3>2. /\ owed = 1 /\ manners' = "polite" /\ rd' = rd /\ sock' = sock
          /\ hs' = hs /\ ~callAborted' /\ turn = "server" /\ loop = "running"
      BY <1>7, <2>2 DEF HandleAsyncCall, request
    <3> QED
      BY <2>2, <3>1, <3>2
  <2> QED
    BY <2>1, <2>2
<1>8. CASE Destroy
  BY <1>8 DEF Destroy, ios, clock, service, request
<1>9. CASE Notify \/ TimerExpires \/ PeerGone
  <2>1. UNCHANGED <<loop, manners, callAborted, owed, sock, hs, rd, wr>>
    BY <1>9, Zenon DEF Notify, TimerExpires, PeerGone, ios, clock, service, request
  <2> QED
    BY <2>1, Invisible
<1>10. CASE HandshakeEnds \/ ReadEnds \/ WriteEnds \/ ShutdownEnds
  <2>1. UNCHANGED <<loop, manners, callAborted, owed, sock>>
    BY <1>10, Zenon
       DEF HandshakeEnds, ReadEnds, WriteEnds, ShutdownEnds, clock, service, request
  <2>2. /\ hs' = "none" <=> hs = "none"
        /\ rd' = "none" <=> rd = "none"
        /\ wr' = "none" <=> wr = "none"
    BY <1>10 DEF HandshakeEnds, ReadEnds, WriteEnds, ShutdownEnds
  <2> QED
    BY <2>1, <2>2, Invisible
<1>11. CASE UNCHANGED vars
  BY <1>11 DEF vars
<1>12. CASE HandleRead
  BY <1>3, <1>4, <1>12
     DEF HandleRead, RejectChunk, ServeNow, ServeLater, AwaitReply, ReadOn
<1> QED
  BY <1>1, <1>2, <1>5, <1>6, <1>7, <1>8, <1>9, <1>10, <1>11, <1>12 DEF Next

(* From a client that does not pipeline every request is answered exactly  *)
(* once, by handle_read or by handle_async_call, and by no late            *)
(* notify_async_reply_done.                                                *)
THEOREM PoliteRequestsAnswered == Spec => []RepliesMatchRequests
<1>1. Init => RepliesMatchRequests
  BY DEF Init, RepliesMatchRequests
<1>2. /\ IInv /\ TypeOK /\ RepliesMatchRequests /\ [Next]_vars
      => RepliesMatchRequests'
  BY PoliteStep DEF TypeOK
<1> QED
  BY Inductive, TypeCorrect, <1>1, <1>2, PTL DEF Spec

(* The connection takes turns with such a client as HalfDuplex says, and   *)
(* once over stays over: both kinds of connection keep the same promise.   *)
THEOREM TakesTurnsWithClient == Spec => ImplementsHalfDuplex
<1>1. Init => HD!Init
  BY DEF Init, HD!Init, turn
<1>2. /\ IInv /\ TypeOK /\ RepliesMatchRequests /\ [Next]_vars
      => [HD!Next]_(HD!vars)
  BY PoliteStep DEF TypeOK
<1>3. Spec => HD!Spec
  BY Inductive, TypeCorrect, PoliteRequestsAnswered, <1>1, <1>2, PTL
     DEF Spec, HD!Spec
<1> QED
  BY <1>3 DEF ImplementsHalfDuplex
===========================================================================

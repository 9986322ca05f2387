----------------------- MODULE HttpConnectionProofs -----------------------
(***************************************************************************)
(* Theorems about HttpConnection, for every value of its constants.  The   *)
(* inductive invariant IInv adds to the properties what their induction    *)
(* needs: nothing has happened before the connection is accepted, and a    *)
(* notified reply has been created.                                        *)
(***************************************************************************)
EXTENDS HttpConnection, ConnectionProofs

AcceptingIsFresh ==
  sock = "accepting" =>
    /\ rd = "none" /\ wr = "none" /\ app = "idle"
    /\ timer = "off" /\ ~expired
    /\ Untouched

NotifiedIsCreated == app = "notified" => reply = "created"

(* Who has the turn, what guards the turn, and what is sent. *)
Safe ==
  /\ AcceptingIsFresh /\ NotifiedIsCreated /\ TakesTurns /\ SentReplyCreated
  /\ ReadGuarded /\ AwaitGuarded /\ ErrorOnlyRejects

IInv ==
  /\ StateTypeOK
  /\ Safe

USE DEF Results, ConnectionTypeOK, ConnectionInit

---------------------------------------------------------------------------
(* The initial state satisfies the inductive invariant. *)
LEMMA InitIInv == Init => IInv
<1> SUFFICES ASSUME Init PROVE IInv
  OBVIOUS
<1>1. StateTypeOK
  BY Zenon DEF Init, StateTypeOK
<1>2. AcceptingIsFresh /\ NotifiedIsCreated
  BY DEF Init, AcceptingIsFresh, NotifiedIsCreated, Untouched
<1>3. TakesTurns /\ SentReplyCreated /\ ReadGuarded
  BY DEF Init, TakesTurns, SentReplyCreated, ReadGuarded
<1>4. AwaitGuarded /\ ErrorOnlyRejects
  BY DEF Init, AwaitGuarded, ErrorOnlyRejects
<1> QED
  BY <1>1, <1>2, <1>3, <1>4 DEF IInv, Safe

(* Every handler and every step of the environment preserves types. *)
LEMMA TypeStep == StateTypeOK /\ [Next]_vars => StateTypeOK'
<1> SUFFICES ASSUME StateTypeOK, [Next]_vars PROVE StateTypeOK'
  OBVIOUS
<1> USE DEF StateTypeOK
<1>1. CASE Start
  BY <1>1 DEF Start, clock, request
<1>2. CASE HandleReadError
  BY <1>2 DEF HandleReadError, CancelTimer, clock, request
<1>3. ASSUME NEW c \in Chunks, ReadChunk(c),
             RejectChunk(c) \/ ServeNow(c) \/ ServeLater(c) \/ ReadOn(c)
      PROVE  StateTypeOK'
  <2>1. Parse(c) /\ UNCHANGED <<sock, peer>>
    BY <1>3 DEF ReadChunk
  <2>2. /\ parser' \in {"between", "inside", "error"}
        /\ requestComplete' \in BOOLEAN /\ keepAlive' \in BOOLEAN
        /\ manners' \in {"polite", "ahead"}
        /\ ReplyAfter(c) \in {"null", "empty", "created"}
    BY <2>1, ParseType DEF StateTypeOK
  <2>3. CASE RejectChunk(c)
    BY <2>1, <2>2, <2>3 DEF RejectChunk, CancelTimer, SendReply
  <2>4. CASE ServeNow(c)
    BY <2>1, <2>2, <2>4 DEF ServeNow, CancelTimer, SendReply
  <2>5. CASE ServeLater(c)
    BY <2>1, <2>2, <2>5 DEF ServeLater, Arm
  <2>6. CASE ReadOn(c)
    BY <2>1, <2>2, <2>6 DEF ReadOn, Arm
  <2> QED
    BY <1>3, <2>3, <2>4, <2>5, <2>6
<1>4. CASE ReplyWritten
  BY <1>4 DEF ReplyWritten, Arm, request
<1>5. CASE HandleWriteLast
  BY <1>5 DEF HandleWriteLast, CancelTimer, clock, request
<1>6. CASE HandleTimer
  <2>1. rd' = Aborted(rd) /\ wr' = Aborted(wr)
    BY <1>6, Zenon DEF HandleTimer
  <2>2. /\ rd \in {"none", "pending"} \union Results
        /\ wr \in {"none", "pending"} \union Results
    BY Zenon
  <2>3. \A op \in {"none", "pending"} \union Results :
          Aborted(op) \in {"none", "pending"} \union Results
    BY ONLY SMT DEF Aborted, Results
  <2>4. /\ rd' \in {"none", "pending"} \union Results
        /\ wr' \in {"none", "pending"} \union Results
    BY ONLY <2>1, <2>2, <2>3, Zenon
  <2>5. /\ sock' = "shut" /\ expired' = FALSE
        /\ UNCHANGED <<peer, timer, app, waiting, request, reply, loop>>
    BY <1>6 DEF HandleTimer
  <2>6. ConnectionTypeOK'
    <3>1. UNCHANGED <<waiting, parser, requestComplete, keepAlive, manners, reply>>
      BY <2>5, Zenon DEF request
    <3> QED BY <3>1 DEF ConnectionTypeOK
  <2>7. timer' \in {"off", "short", "long"} /\ peer' \in {"up", "gone"}
    BY <2>5
  <2>8. app' \in {"idle", "working", "notified"} /\ loop' \in {"running", "thrown", "crashed"}
    BY <2>5
  <2> QED BY ONLY <2>4, <2>5, <2>6, <2>7, <2>8 DEF StateTypeOK
<1>7. CASE HandleAsyncReplyDone
  <2>1. /\ waiting' \in BOOLEAN
        /\ wr' \in {"none", "pending"} \union Results
        /\ loop' \in {"running", "thrown", "crashed"}
    BY <1>7, Zenon DEF HandleAsyncReplyDone, SendReply
  <2> QED
    BY <1>7, <2>1 DEF HandleAsyncReplyDone, CancelTimer, request
<1>8. CASE Destroy
  BY <1>8 DEF Destroy, clock, request
<1>9. CASE Environment
  <2>1. CASE Notify \/ TimerExpires
    BY <2>1 DEF Notify, TimerExpires, net, clock, request
  <2>2. CASE ReadReady \/ ReadFails
    BY <2>2 DEF ReadReady, ReadFails, clock, request
  <2>3. CASE WriteDone \/ WriteFails \/ PeerGone
    BY <2>3 DEF WriteDone, WriteFails, PeerGone, clock, request
  <2> QED
    BY <1>9, <2>1, <2>2, <2>3 DEF Environment
<1>10. CASE UNCHANGED vars
  BY <1>10 DEF vars
<1>11. CASE HandleRead
  BY <1>2, <1>3, <1>11 DEF HandleRead, RejectChunk, ServeNow, ServeLater, ReadOn
<1> QED
  BY <1>1, <1>4, <1>5, <1>6, <1>7, <1>8, <1>9, <1>10, <1>11
     DEF Next, Handlers, HandleWrite

(* Every step preserves the safety part of the invariant: who has the turn *)
(* (TakesTurns), what guards it (ReadGuarded, AwaitGuarded), and what is   *)
(* sent (SentReplyCreated).                                                *)
LEMMA SafeStep == StateTypeOK /\ Safe /\ [Next]_vars => Safe'
<1> SUFFICES ASSUME StateTypeOK, Safe, [Next]_vars PROVE Safe'
  OBVIOUS
<1> USE DEF Safe, AcceptingIsFresh, NotifiedIsCreated, TakesTurns,
            SentReplyCreated, ReadGuarded, AwaitGuarded, ErrorOnlyRejects,
            Untouched
<1>1. CASE Start
  BY <1>1 DEF Start, clock, request
<1>2. CASE HandleReadError
  BY <1>2 DEF HandleReadError, CancelTimer, clock, request
<1>3. ASSUME NEW c \in Chunks, ReadChunk(c),
             RejectChunk(c) \/ ServeNow(c) \/ ServeLater(c) \/ ReadOn(c)
      PROVE  Safe'
  <2>1. Parse(c) /\ UNCHANGED <<sock, peer>> /\ loop = "running" /\ rd = "done"
    BY <1>3 DEF ReadChunk
  <2>2. c.verdict = "ok" => parser' # "error"
    BY <2>1, ParseType DEF StateTypeOK
  <2>3. CASE RejectChunk(c)
    BY <2>1, <2>3 DEF RejectChunk, CancelTimer, SendReply
  <2>4. CASE ServeNow(c)
    BY <2>1, <2>2, <2>4 DEF ServeNow, CancelTimer, SendReply
  <2>5. CASE ServeLater(c)
    BY <2>1, <2>2, <2>5 DEF ServeLater, Arm
  <2>6. CASE ReadOn(c)
    BY <2>1, <2>2, <2>6 DEF ReadOn, Arm
  <2> QED
    BY <1>3, <2>3, <2>4, <2>5, <2>6
<1>4. CASE ReplyWritten
  BY <1>4 DEF ReplyWritten, Arm, request
<1>5. CASE HandleWriteLast
  BY <1>5 DEF HandleWriteLast, CancelTimer, clock, request
<1>6. CASE HandleTimer
  BY <1>6 DEF HandleTimer, Aborted, request
<1>7. CASE HandleAsyncReplyDone
  BY <1>7 DEF HandleAsyncReplyDone, CancelTimer, SendReply, request
<1>8. CASE Destroy
  BY <1>8 DEF Destroy, clock, request
<1>9. CASE Notify
  BY <1>9 DEF Notify, net, clock, request
<1>10. CASE TimerExpires
  BY <1>10, Zenon DEF TimerExpires, net, request, StateTypeOK
<1>11. CASE ReadReady \/ ReadFails \/ WriteDone \/ WriteFails \/ PeerGone
  BY <1>11 DEF ReadReady, ReadFails, WriteDone, WriteFails, PeerGone,
               clock, request
<1>12. CASE UNCHANGED vars
  BY <1>12 DEF vars
<1>13. CASE HandleRead
  BY <1>2, <1>3, <1>13 DEF HandleRead, RejectChunk, ServeNow, ServeLater, ReadOn
<1> QED
  BY <1>1, <1>4, <1>5, <1>6, <1>7, <1>8, <1>9, <1>10, <1>11, <1>12, <1>13
     DEF Next, Handlers, HandleWrite, Environment

---------------------------------------------------------------------------
(* The difference of requests and replies stays an integer. *)
LEMMA OwedStep == owed \in Int /\ [Next]_vars => owed' \in Int
<1> SUFFICES ASSUME owed \in Int, [Next]_vars PROVE owed' \in Int
  OBVIOUS
<1>1. ASSUME NEW c \in Chunks,
             RejectChunk(c) \/ ServeNow(c) \/ ServeLater(c) \/ ReadOn(c)
      PROVE  owed' \in Int
  <2>1. Arrived(c) \in Int
    BY ArrivedType
  <2> QED
    BY <1>1, <2>1 DEF RejectChunk, ServeNow, ServeLater, ReadOn, SendReply
<1>2. CASE HandleRead
  BY <1>1, <1>2 DEF HandleRead, HandleReadError
<1>3. CASE Start \/ HandleWrite \/ HandleTimer \/ HandleAsyncReplyDone \/ Destroy
  BY <1>3 DEF Start, HandleWrite, ReplyWritten, HandleWriteLast, HandleTimer,
              HandleAsyncReplyDone, SendReply, Destroy
<1>4. CASE Environment
  BY <1>4 DEF Environment, Notify, TimerExpires, ReadReady, ReadFails,
              WriteDone, WriteFails, PeerGone
<1>5. CASE UNCHANGED vars
  BY <1>5 DEF vars
<1> QED
  BY <1>2, <1>3, <1>4, <1>5 DEF Next, Handlers

(* The variables of a connection keep their types. *)
THEOREM TypeCorrect == Spec => []TypeOK
<1>1. Init => TypeOK
  <2>1. Init => StateTypeOK
    BY InitIInv DEF IInv
  <2>2. Init => owed \in Int
    BY DEF Init
  <2> QED
    BY <2>1, <2>2 DEF TypeOK
<1>2. TypeOK /\ [Next]_vars => TypeOK'
  BY TypeStep, OwedStep DEF TypeOK
<1> QED
  BY <1>1, <1>2, PTL DEF Spec

(* The inductive invariant holds in every reachable state. *)
THEOREM Inductive == Spec => []IInv
<1>1. IInv /\ [Next]_vars => IInv'
  BY TypeStep, SafeStep DEF IInv
<1> QED
  BY InitIInv, <1>1, PTL DEF Spec

(* At most one of the read, the write and the application has the          *)
(* connection, whatever the client sends and however handlers interleave.  *)
THEOREM HalfDuplexInvariant == Spec => []TakesTurns
<1>1. IInv => TakesTurns
  BY DEF IInv, Safe
<1> QED
  BY Inductive, <1>1, PTL

(* Only created replies are written by send_reply. *)
THEOREM OnlyCreatedRepliesSent == Spec => []SentReplyCreated
<1>1. IInv => SentReplyCreated
  BY DEF IInv, Safe
<1> QED
  BY Inductive, <1>1, PTL

(* Every read but the first is under the idle timer of handle_read or      *)
(* handle_write, or the connection has been shut down.                     *)
THEOREM ReadsAreGuarded == Spec => []ReadGuarded
<1>1. IInv => ReadGuarded
  BY DEF IInv, Safe
<1> QED
  BY Inductive, <1>1, PTL

(* A connection that waits for its application does so under the one hour  *)
(* timer, and the flag _waiting_for_async_reply is exact.                  *)
THEOREM AwaitsAreGuarded == Spec => []AwaitGuarded
<1>1. IInv => AwaitGuarded
  BY DEF IInv, Safe
<1> QED
  BY Inductive, <1>1, PTL

(* After a parse error no request reaches the application. *)
THEOREM ErrorsNeverServed == Spec => []ErrorOnlyRejects
<1>1. IInv => ErrorOnlyRejects
  BY DEF IInv, Safe
<1> QED
  BY Inductive, <1>1, PTL

(* No step changes the reply while its write is outstanding: the only      *)
(* steps that change it need the read, the application or a finished       *)
(* write, and TakesTurns excludes those.                                   *)
THEOREM ReplyStableDuringWrite == Spec => ReplyStable
<1>1. IInv /\ [Next]_vars =>
        [wr = "pending" /\ wr' = "pending" => UNCHANGED reply]_vars
  <2> SUFFICES ASSUME TakesTurns, Next, wr = "pending", wr' = "pending"
               PROVE  reply' = reply
    BY DEF IInv, Safe, vars
  <2>1. rd = "none" /\ app = "idle"
    BY DEF TakesTurns
  <2>2. ~HandleRead /\ ~ReplyWritten /\ ~Notify
    BY <2>1 DEF HandleRead, HandleReadError, RejectChunk, ServeNow, ServeLater,
                ReadOn, ReadChunk, ReplyWritten, Notify
  <2>3. CASE Start \/ HandleWriteLast \/ HandleTimer \/ HandleAsyncReplyDone
               \/ Destroy
    BY <2>3 DEF Start, HandleWriteLast, HandleTimer, HandleAsyncReplyDone, Destroy
  <2>4. CASE TimerExpires \/ ReadReady \/ ReadFails \/ WriteDone \/ WriteFails
               \/ PeerGone
    BY <2>4 DEF TimerExpires, ReadReady, ReadFails, WriteDone, WriteFails, PeerGone
  <2> QED
    BY <2>2, <2>3, <2>4 DEF Next, Handlers, Environment, HandleWrite
<1>2. Spec => [][wr = "pending" /\ wr' = "pending" => UNCHANGED reply]_vars
  BY Inductive, <1>1, PTL DEF Spec
<1> QED
  BY <1>2 DEF ReplyStable
---------------------------------------------------------------------------
(* Refinement *)

(* Each step keeps the account of requests and replies balanced, and is a  *)
(* step of HalfDuplex or invisible to it.                                  *)
LEMMA PoliteStep ==
  ASSUME IInv, RepliesMatchRequests, owed \in Int, [Next]_vars
  PROVE  RepliesMatchRequests' /\ [HD!Next]_(HD!vars)
<1> DEFINE Goal == RepliesMatchRequests' /\ [HD!Next]_(HD!vars)
<1> USE DEF IInv, Safe, TakesTurns, RepliesMatchRequests
<1> USE DEF HD!Next, HD!vars, HD!Take, HD!Answer, HD!TakeAndAnswer, HD!Deliver,
            HD!End, turn
<1>1. CASE Start
  BY <1>1 DEF Start, request, AcceptingIsFresh
<1>2. CASE HandleReadError
  BY <1>2 DEF HandleReadError, request
<1>3. ASSUME NEW c \in Chunks, ReadChunk(c),
             RejectChunk(c) \/ ServeNow(c) \/ ServeLater(c) \/ ReadOn(c)
      PROVE  Goal
  <2>1. /\ sock' = sock /\ loop = "running" /\ rd = "done"
        /\ wr = "none" /\ app = "idle"
        /\ Possible(c) /\ manners' = (IF Polite(c) THEN manners ELSE "ahead")
    BY <1>3 DEF ReadChunk, Parse
  <2> SUFFICES ASSUME manners' = "polite" PROVE Goal
    BY <2>1
  <2>7. owed = 0 /\ turn = "client" /\ Polite(c)
    BY <2>1
  <2>2. ~waiting
    BY <2>1 DEF AwaitGuarded
  <2>3. CASE RejectChunk(c)
    <3>1. Arrived(c) = 1
      BY <2>1, <2>7, <2>3, PoliteChunk DEF RejectChunk
    <3> QED
      BY <2>1, <2>7, <2>3, <3>1 DEF RejectChunk, SendReply
  <2>4. CASE ServeNow(c)
    <3>1. Arrived(c) = 1
      BY <2>1, <2>7, <2>4, PoliteChunk DEF ServeNow
    <3> QED
      BY <2>1, <2>7, <2>4, <3>1 DEF ServeNow, SendReply
  <2>5. CASE ServeLater(c)
    <3>1. Arrived(c) = 1
      BY <2>1, <2>7, <2>5, PoliteChunk DEF ServeLater
    <3> QED
      BY <2>1, <2>7, <2>2, <2>5, <3>1 DEF ServeLater
  <2>6. CASE ReadOn(c)
    <3>1. Arrived(c) = 0
      BY <2>1, <2>7, <2>6, PoliteChunk DEF ReadOn
    <3> QED
      BY <2>1, <2>7, <2>6, <3>1 DEF ReadOn
  <2> QED
    BY <1>3, <2>3, <2>4, <2>5, <2>6
<1>4. CASE ReplyWritten
  BY <1>4 DEF ReplyWritten, request
<1>5. CASE HandleWriteLast
  BY <1>5 DEF HandleWriteLast, request
<1>6. CASE HandleTimer
  BY <1>6 DEF HandleTimer, Aborted, request, AcceptingIsFresh
<1>7. CASE HandleAsyncReplyDone
  <2>1. CASE loop' # "running" \/ manners # "polite"
    BY <1>7, <2>1 DEF HandleAsyncReplyDone, request
  <2>2. CASE loop' = "running" /\ manners = "polite"
    <3>1. owed' = owed + 0 - 1 /\ wr' = "pending"
      BY <1>7, <2>2 DEF HandleAsyncReplyDone, SendReply
    <3>2. /\ owed = 1 /\ manners' = "polite" /\ rd' = rd /\ sock' = sock
          /\ app' = "idle" /\ turn = "server" /\ loop = "running"
      BY <1>7, <2>2 DEF HandleAsyncReplyDone, request
    <3> QED
      BY <2>2, <3>1, <3>2
  <2> QED
    BY <2>1, <2>2
<1>8. CASE Destroy
  BY <1>8 DEF Destroy, request
<1>9. CASE Environment
  <2>1. CASE Notify \/ TimerExpires
    BY <1>9, <2>1 DEF Notify, TimerExpires, net, request
  <2>2. CASE ReadReady \/ ReadFails
    BY <1>9, <2>2 DEF ReadReady, ReadFails, request
  <2>3. CASE WriteDone \/ WriteFails \/ PeerGone
    BY <1>9, <2>3 DEF WriteDone, WriteFails, PeerGone, request
  <2> QED
    BY <1>9, <2>1, <2>2, <2>3 DEF Environment
<1>10. CASE UNCHANGED vars
  BY <1>10 DEF vars
<1>11. CASE HandleRead
  BY <1>2, <1>3, <1>11 DEF HandleRead, RejectChunk, ServeNow, ServeLater, ReadOn
<1> QED
  BY <1>1, <1>4, <1>5, <1>6, <1>7, <1>8, <1>9, <1>10, <1>11
     DEF Next, Handlers, HandleWrite

(* From a client that does not pipeline every request is answered exactly  *)
(* once: send_reply runs once per request that on_message_complete saw.    *)
THEOREM PoliteRequestsAnswered == Spec => []RepliesMatchRequests
<1>1. Init => RepliesMatchRequests
  BY DEF Init, ConnectionInit, RepliesMatchRequests
<1>2. /\ IInv /\ TypeOK /\ RepliesMatchRequests /\ [Next]_vars
      => RepliesMatchRequests'
  BY PoliteStep DEF TypeOK
<1> QED
  BY Inductive, TypeCorrect, <1>1, <1>2, PTL DEF Spec

(* The connection takes turns with such a client as HalfDuplex says, and   *)
(* once over stays over.                                                   *)
THEOREM TakesTurnsWithClient == Spec => ImplementsHalfDuplex
<1>1. Init => HD!Init
  BY DEF Init, HD!Init, turn
<1>2. /\ IInv /\ TypeOK /\ RepliesMatchRequests /\ [Next]_vars
      => [HD!Next]_(HD!vars)
  BY PoliteStep DEF TypeOK
<1>3. Spec => HD!Spec
  BY Inductive, TypeCorrect, PoliteRequestsAnswered, <1>1, <1>2, PTL
     DEF Spec, HD!Spec
<1> QED
  BY <1>3 DEF ImplementsHalfDuplex
===========================================================================

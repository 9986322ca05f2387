---------------------------- MODULE HttpClient ----------------------------
(***************************************************************************)
(* The client: class http_client and its call_context                      *)
(* (client/http_client.cpp, client/http_client.h), which run curl's multi  *)
(* interface on an io_service.                                             *)
(*                                                                         *)
(* One thread is in io_service::run() and takes handlers from a queue,     *)
(* first in, first out; other threads post to it.  A handler that calls    *)
(* curl is inside curl until curl returns; meanwhile curl serves one       *)
(* transfer after another and calls the library back, each callback an     *)
(* action.  curl is external: it opens, watches, leaves and closes sockets *)
(* as its documentation allows, also in the middle of a transfer (next     *)
(* address, redirect), and may tell that it leaves a socket before or      *)
(* after closing it.                                                       *)
(***************************************************************************)
EXTENDS Integers, Sequences, SequencesExt, FiniteSets

CONSTANTS
  Calls,    \* call_context objects
  Fds,      \* descriptors the kernel hands out, and reuses
  Socks,    \* tcp::socket objects on the heap
  None,     \* no call, no descriptor, a null pointer
  MaxQueue  \* bound on handlers in the queue when an event of a socket or a
            \* new call is added; what handlers post is not bounded

ASSUME ClientAssumption ==
  /\ None \notin Calls \union Fds \union Socks
  /\ "cache" \notin Calls  \* see user
  /\ MaxQueue \in Nat \ {0}

VARIABLES
  \* the library
  map,      \* _socket_map: descriptor -> socket object
  sock,     \* the socket objects: free, open, closed but not yet deleted
  done,     \* _curl_done of a call
  kept,     \* _curl_shared: does the call hold itself?
  private,  \* CURLOPT_PRIVATE: does curl know the call's context?
  \* the io_service
  queue,    \* handlers ready to run
  waits,    \* outstanding null-buffer reads and writes
  loop,     \* run(): running or crashed
  \* the application
  held,     \* does the application hold a handle of the call?
  due,      \* history: callbacks the call still owes its application
  \* curl
  handler,  \* the handler that has called curl and waits for its return
  xfer,     \* a call's easy handle: out of the multi handle, running,
            \* over, or leaving the multi handle
  user,     \* who uses a descriptor: a call, curl's cache, or nobody
  watch,    \* what curl last asked to watch on a descriptor
  socketp   \* the socket object curl_multi_assign gave a descriptor

library == <<map, sock, done, kept, private>>
app     == <<held, due>>
curl    == <<handler, xfer, user, watch, socketp>>
vars    == <<library, queue, waits, loop, app, curl>>

(* A handler in the queue, or an outstanding wait. *)
Job(do, call, s) == [do |-> do, call |-> call, sock |-> s]
Kinds == {"perform", "remove", "delete", "rx", "tx"}
Jobs  == [do : Kinds, call : Calls \union {None}, sock : Socks \union {None}]
Waits == [do : {"rx", "tx"}, call : Calls, sock : Socks]
NoJob == Job("none", None, None)
Timeout == Job("timer", None, None)

Queued == ToSet(queue)

TypeOK ==
  /\ map \in [Fds -> Socks \union {None}]
  /\ sock \in [Socks -> {"free", "open", "closed"}]
  /\ done \in [Calls -> BOOLEAN] /\ kept \in [Calls -> BOOLEAN]
  /\ private \in [Calls -> BOOLEAN]
  /\ queue \in Seq(Jobs) /\ waits \subseteq Waits
  /\ loop \in {"running", "crashed"}
  /\ held \in [Calls -> BOOLEAN] /\ due \in [Calls -> -1..1]
  /\ handler \in Jobs \union {NoJob, Timeout}
  /\ xfer \in [Calls -> {"out", "running", "over", "leaving"}]
  /\ user \in [Fds -> Calls \union {"cache", None}]
  /\ watch \in [Fds -> SUBSET {"rx", "tx"}]
  /\ socketp \in [Fds -> Socks \union {None}]

(* The constructor of http_client; no call_context exists. *)
Init ==
  /\ map = [f \in Fds |-> None] /\ sock = [s \in Socks |-> "free"]
  /\ done = [c \in Calls |-> FALSE] /\ kept = [c \in Calls |-> FALSE]
  /\ private = [c \in Calls |-> FALSE]
  /\ queue = <<>> /\ waits = {}
  /\ loop = "running"
  /\ held = [c \in Calls |-> FALSE] /\ due = [c \in Calls |-> 0]
  /\ handler = NoJob
  /\ xfer = [c \in Calls |-> "out"]
  /\ user = [f \in Fds |-> None] /\ watch = [f \in Fds |-> {}]
  /\ socketp = [f \in Fds |-> None]

(* A call_context lives while a shared_ptr to it exists: the application's,*)
(* its own, or one bound into a handler.                                   *)
Alive(c) ==
  \/ held[c] \/ kept[c] \/ handler.call = c
  \/ \E j \in Queued \union waits : j.call = c

---------------------------------------------------------------------------
(* The application *)

(* perform_async, or perform, of a new call or of one that has called     *)
(* back, by any thread at any time (up to MaxQueue).  The application keeps*)
(* its handle or lets go of it.                                            *)
PerformAsync(c) ==
  /\ loop = "running" /\ Len(queue) < MaxQueue
  /\ \/ /\ ~Alive(c)
        /\ done' = [done EXCEPT ![c] = FALSE]
        /\ private' = [private EXCEPT ![c] = FALSE]
        /\ xfer' = [xfer EXCEPT ![c] = "out"]
     \/ /\ held[c] /\ due[c] = 0
        /\ UNCHANGED <<done, private, xfer>>
  /\ held' \in [Calls -> BOOLEAN] /\ \A d \in Calls \ {c} : held'[d] = held[d]
  /\ due' = [due EXCEPT ![c] = 1]
  /\ queue' = Append(queue, Job("perform", c, None))
  /\ UNCHANGED <<map, sock, kept, waits, loop, handler, user, watch, socketp>>

(* The application lets go of the handle of a call that has called back. *)
Drop(c) ==
  /\ loop = "running" /\ held[c] /\ due[c] = 0
  /\ held' = [held EXCEPT ![c] = FALSE]
  /\ UNCHANGED <<library, queue, waits, loop, due, curl>>

---------------------------------------------------------------------------
(* Handlers run by the io_service *)

(* The next handler is j. *)
Inside == handler # NoJob
Run(j) == loop = "running" /\ ~Inside /\ queue # <<>> /\ j = Head(queue)

(* It calls a function of curl. *)
Enter == handler' = Head(queue) /\ queue' = Tail(queue)

(* _perform: the call holds itself, is told to curl, and is added to the   *)
(* multi handle, which refuses one that is still in it.                    *)
HandlePerform ==
  \E c \in Calls :
    /\ Run(Job("perform", c, None))
    /\ kept' = [kept EXCEPT ![c] = TRUE]
    /\ private' = [private EXCEPT ![c] = TRUE]
    /\ IF xfer[c] = "out" THEN Enter /\ xfer' = [xfer EXCEPT ![c] = "running"]
                          ELSE queue' = Tail(queue) /\ UNCHANGED <<handler, xfer>>
    /\ UNCHANGED <<map, sock, done, waits, loop, app,
                   user, watch, socketp>>

(* _poll_remove: curl_multi_remove_handle makes curl let go of whatever    *)
(* the transfer still uses.  It does nothing if the handle is out.         *)
HandlePollRemove ==
  \E c \in Calls :
    /\ Run(Job("remove", c, None))
    /\ IF xfer[c] = "out"
       THEN queue' = Tail(queue) /\ UNCHANGED <<handler, xfer>>
       ELSE /\ Enter
            /\ xfer' = [xfer EXCEPT ![c] = "leaving"]
    /\ UNCHANGED <<library, waits, loop, app, user, watch, socketp>>

(* socket_rx_cb with success: an event of a call that is done is dropped,  *)
(* any other is passed to curl.                                            *)
HandleReadable ==
  \E w \in Waits :
    /\ w.do = "rx" /\ Run(w)
    /\ IF done[w.call] THEN queue' = Tail(queue) /\ UNCHANGED handler
                       ELSE Enter
    /\ UNCHANGED <<library, waits, loop, app, xfer,
                   user, watch, socketp>>

(* socket_tx_cb with success. *)
HandleWritable ==
  \E w \in Waits :
    /\ w.do = "tx" /\ Run(w)
    /\ Enter
    /\ UNCHANGED <<library, waits, loop, app, xfer,
                   user, watch, socketp>>

(* The function closesocket_cb posted: the socket object is deleted. *)
HandleDelete ==
  \E s \in Socks :
    /\ Run(Job("delete", None, s))
    /\ sock' = [sock EXCEPT ![s] = "free"]
    /\ queue' = Tail(queue)
    /\ UNCHANGED <<map, done, kept, private, waits, loop, app, curl>>

(* timer_cb with success: curl is told that a timeout has passed.  curl    *)
(* sets _timer through multi_timer_cb whenever it returns, to any timeout, *)
(* and cancelling may come too late: the handler may run at any time.      *)
HandleTimer ==
  /\ loop = "running" /\ ~Inside
  /\ handler' = Timeout
  /\ UNCHANGED <<library, queue, waits, loop, app, xfer, user, watch, socketp>>

---------------------------------------------------------------------------
(* Callbacks from curl *)

(* opensocket_cb: a new socket object, entered in the map. *)
OpenSocket(c, f) ==
  \E s \in Socks :
    /\ sock[s] = "free"
    /\ sock' = [sock EXCEPT ![s] = "open"]
    /\ map' = [map EXCEPT ![f] = s]
    /\ user' = [user EXCEPT ![f] = c]
    /\ UNCHANGED <<done, kept, private, queue, waits, loop, app,
                   handler, xfer, watch, socketp>>

(* The object sock_cb works with: what curl_multi_assign left with the     *)
(* descriptor, or else what the map knows.                                 *)
Lookup(f) == IF socketp[f] # None THEN socketp[f] ELSE map[f]

(* sock_cb asserts that curl still knows the context. *)
ContextLost(c) ==
  /\ ~private[c]
  /\ loop' = "crashed"
  /\ UNCHANGED <<library, queue, waits, app, curl>>

(* sock_cb with CURL_POLL_IN, OUT or INOUT: a wait is started for each     *)
(* direction, whether or not one is outstanding.  Equal waits become ready *)
(* together and are kept once.                                             *)
WatchSocket(c, f, what) ==
  \/ ContextLost(c)
  \/ /\ private[c]
     /\ watch' = [watch EXCEPT ![f] = what]
     /\ socketp' = [socketp EXCEPT ![f] = Lookup(f)]
     /\ waits' = waits \union [do : what, call : {c}, sock : {Lookup(f)}]
     /\ UNCHANGED <<library, queue, loop, app, handler, xfer, user>>

(* sock_cb, CURL_POLL_REMOVE, without the reset of CURLOPT_PRIVATE. *)
Complete_StillPrivate(c, again) ==
  /\ done' = [done EXCEPT ![c] = TRUE]
  /\ kept' = [kept EXCEPT ![c] = FALSE]
  /\ due' = [due EXCEPT ![c] = IF again THEN @ ELSE @ - 1]
  /\ queue' = queue \o (IF again THEN <<Job("perform", c, None)>> ELSE <<>>)
                    \o <<Job("remove", c, None)>>
  /\ UNCHANGED private

(* sock_cb, CURL_POLL_REMOVE, that removes the handle by no posted call    *)
(* and so lets go of the last handle.                                      *)
Complete_NotPosted(c, again) ==
  /\ done' = [done EXCEPT ![c] = TRUE]
  /\ kept' = [kept EXCEPT ![c] = FALSE]
  /\ private' = [private EXCEPT ![c] = FALSE]
  /\ due' = [due EXCEPT ![c] = IF again THEN @ ELSE @ - 1]
  /\ queue' = queue \o (IF again THEN <<Job("perform", c, None)>> ELSE <<>>)

(* sock_cb, CURL_POLL_REMOVE: the call is done, its callback runs, and may *)
(* send the call again; then the call lets go of itself and of curl, and   *)
(* the removal from the multi handle is posted.                            *)
Complete(c, again) ==
  /\ done' = [done EXCEPT ![c] = TRUE]
  /\ kept' = [kept EXCEPT ![c] = FALSE]
  /\ private' = [private EXCEPT ![c] = FALSE]
  /\ due' = [due EXCEPT ![c] = IF again THEN @ ELSE @ - 1]
  /\ queue' = queue \o (IF again THEN <<Job("perform", c, None)>> ELSE <<>>)
                    \o <<Job("remove", c, None)>>

(* sock_cb with CURL_POLL_REMOVE: curl keeps the socket for later, or has  *)
(* closed it.  A closed one is in neither place and is taken for one of    *)
(* the resolver's: nothing happens.                                        *)
LeaveSocket(c, f) ==
  \/ ContextLost(c)
  \/ /\ private[c]
     /\ watch' = [watch EXCEPT ![f] = {}]
     /\ socketp' = [socketp EXCEPT ![f] = None]
     /\ user' = [user EXCEPT ![f] = IF map[f] = None THEN None ELSE "cache"]
     /\ IF Lookup(f) = None
        THEN UNCHANGED <<done, kept, private, due, queue>>
        ELSE \E again \in BOOLEAN : Complete(c, again)
     /\ UNCHANGED <<map, sock, waits, loop, held, handler, xfer>>

(* closesocket_cb without curl_multi_assign. *)
CloseSocket_KeepsAssigned(f) ==
  LET s == map[f] IN
  /\ sock' = [sock EXCEPT ![s] = "closed"]
  /\ waits' = {w \in waits : w.sock # s}
  /\ map' = [map EXCEPT ![f] = None]
  /\ user' = [user EXCEPT ![f] = IF watch[f] = {} THEN None ELSE @]
  /\ queue' = Append(queue, Job("delete", None, s))
  /\ UNCHANGED <<done, kept, private, loop, app, handler, xfer, watch, socketp>>

(* closesocket_cb that deletes the socket at once. *)
CloseSocket_DeletesAtOnce(f) ==
  LET s == map[f] IN
  /\ sock' = [sock EXCEPT ![s] = "free"]
  /\ waits' = {w \in waits : w.sock # s}
  /\ map' = [map EXCEPT ![f] = None]
  /\ socketp' = [socketp EXCEPT ![f] = None]
  /\ user' = [user EXCEPT ![f] = IF watch[f] = {} THEN None ELSE @]
  /\ UNCHANGED <<done, queue, kept, private, loop, app, handler, xfer, watch>>

(* closesocket_cb: cancel and close, forget the object in curl and in the  *)
(* map, and post its deletion behind the aborted operations.  Handlers that*)
(* get an error do nothing; they are left out.                             *)
CloseSocket(f) ==
  LET s == map[f] IN
  /\ sock' = [sock EXCEPT ![s] = "closed"]
  /\ waits' = {w \in waits : w.sock # s}
  /\ map' = [map EXCEPT ![f] = None]
  /\ socketp' = [socketp EXCEPT ![f] = None]
  /\ user' = [user EXCEPT ![f] = IF watch[f] = {} THEN None ELSE @]
  /\ queue' = Append(queue, Job("delete", None, s))
  /\ UNCHANGED <<done, kept, private, loop, app, handler, xfer, watch>>

---------------------------------------------------------------------------
(* curl itself *)

CurlOnly == UNCHANGED <<library, queue, waits, loop, app, handler>>

(* A transfer needs a connection: one that curl has kept, or a new socket  *)
(* on a descriptor the kernel has free.  That may be one this very transfer*)
(* has closed and whose watch curl has not yet dropped.                    *)
Reuse(c, f) ==
  /\ xfer[c] = "running" /\ user[f] = "cache"
  /\ user' = [user EXCEPT ![f] = c]
  /\ CurlOnly /\ UNCHANGED <<xfer, watch, socketp>>

Open(c, f) ==
  /\ xfer[c] = "running" /\ map[f] = None /\ user[f] \in {None, c}
  /\ OpenSocket(c, f)

(* What curl watches differs from what it watched on this descriptor. *)
Watch(c, f) ==
  /\ xfer[c] = "running" /\ user[f] = c /\ map[f] # None
  /\ \E what \in (SUBSET {"rx", "tx"}) \ {{}, watch[f]} : WatchSocket(c, f, what)

Leave(c, f) ==
  /\ user[f] = c /\ watch[f] # {}
  /\ LeaveSocket(c, f)

Close(f) == map[f] # None /\ CloseSocket(f)

(* The transfer has succeeded or failed. *)
Finish(c) ==
  /\ xfer[c] = "running"
  /\ xfer' = [xfer EXCEPT ![c] = "over"]
  /\ CurlOnly /\ UNCHANGED <<user, watch, socketp>>

Curl ==
  /\ loop = "running" /\ Inside
  /\ \/ \E c \in Calls : Finish(c)
     \/ \E c \in Calls, f \in Fds : Reuse(c, f) \/ Open(c, f) \/ Watch(c, f) \/ Leave(c, f)
     \/ \E f \in Fds : Close(f)

(* curl may return once it has told about every socket it has closed, and  *)
(* every transfer that is over or leaving uses none.  A socket nobody      *)
(* watches is kept for reuse.                                              *)
MayReturn ==
  \A f \in Fds : watch[f] # {} =>
    map[f] # None /\ \E c \in Calls : user[f] = c /\ xfer[c] = "running"

Returned ==
  /\ handler' = NoJob
  /\ xfer' = [c \in Calls |-> IF xfer[c] = "leaving" THEN "out" ELSE xfer[c]]
  /\ user' = [f \in Fds |-> IF watch[f] # {} THEN user[f]
                            ELSE IF map[f] = None THEN None ELSE "cache"]

(* socket_rx_cb that does not wait again. *)
CurlReturns_NoRearm ==
  /\ loop = "running" /\ Inside /\ MayReturn
  /\ Returned
  /\ UNCHANGED <<library, queue, waits, loop, app, watch, socketp>>

(* The function of curl returns to its handler; socket_rx_cb waits again   *)
(* unless its call is done.  On a closed socket the wait fails at once.    *)
CurlReturns ==
  /\ loop = "running" /\ Inside /\ MayReturn
  /\ Returned
  /\ IF handler.do # "rx" \/ done[handler.call]
          \/ sock[handler.sock] # "open"
     THEN UNCHANGED waits
     ELSE waits' = waits \union {handler}
  /\ UNCHANGED <<library, queue, loop, app, watch, socketp>>

---------------------------------------------------------------------------
(* The reactor *)

SocketReady ==
  \E w \in waits :
    /\ loop = "running" /\ Len(queue) < MaxQueue
    /\ waits' = waits \ {w} /\ queue' = Append(queue, w)
    /\ UNCHANGED <<library, loop, app, curl>>

Handlers == HandlePerform \/ HandlePollRemove \/ HandleReadable \/ HandleWritable
              \/ HandleDelete \/ HandleTimer

Next ==
  \/ \E c \in Calls : PerformAsync(c) \/ Drop(c)
  \/ Handlers \/ Curl \/ CurlReturns
  \/ SocketReady

Spec == Init /\ [][Next]_vars

---------------------------------------------------------------------------
(* Properties *)

(* A socket object is deleted behind every operation on it (the comment in *)
(* closesocket_cb): no wait, no queued success handler and no handler that *)
(* is inside curl refers to a deleted socket, or will when it runs.        *)
SocketsOutliveHandlers ==
  /\ \A w \in waits : sock[w.sock] = "open"
  /\ \A i \in DOMAIN queue : queue[i].do \in {"rx", "tx"} =>
       /\ sock[queue[i].sock] # "free"
       /\ \A k \in 1..i : queue[k] # Job("delete", None, queue[i].sock)
  /\ handler.do \in {"rx", "tx"} => sock[handler.sock] # "free"

(* curl never passes sock_cb the object of an earlier socket on the same   *)
(* descriptor, though descriptors and watches are reused.                  *)
AssignedIsMapped ==
  /\ \A f \in Fds : socketp[f] \in {None, map[f]}
  /\ \A f \in Fds : map[f] # None => sock[map[f]] = "open"

(* As long as curl has a transfer, its call_context exists: curl, the      *)
(* socket handlers and sock_cb go through raw pointers into it.  Nor is a  *)
(* call destroyed before it has called back, even if the application has   *)
(* let go of it and curl has not yet heard of it.                          *)
CallOutlivesTransfer == \A c \in Calls : xfer[c] # "out" \/ due[c] = 1 => Alive(c)

(* The callback runs at most once for each perform, whatever sockets the   *)
(* transfer goes through: the cleared CURLOPT_PRIVATE sees to that.        *)
NeverCalledBackTwice == \A c \in Calls : due[c] >= 0

(* A call curl waits for data of has a read outstanding, its handler       *)
(* queued or running, unless the call was done before: no wake-up is lost  *)
(* as curl changes its mind, sockets close and descriptors are reused.     *)
ReadsKeepComing ==
  loop = "running" => \A f \in Fds, c \in Calls :
    LET w == Job("rx", c, map[f]) IN
    user[f] = c /\ "rx" \in watch[f] /\ socketp[f] # None /\ ~done[c]
      => w \in waits \union Queued \union {handler}

---------------------------------------------------------------------------
(* Expectations of the sources that the code does not meet *)

(* assert(context) (http_client.cpp:138): sock_cb is not called for an     *)
(* easy handle whose context was taken away.                               *)
ContextKnown == loop # "crashed"

(* curl_start "keeps object around until curl thinks its done"             *)
(* (http_client.cpp:376): once curl is done with the transfer and every    *)
(* handler has run, the call no longer holds itself.                       *)
ReleasedWhenDone ==
  ~Inside /\ queue = <<>> => \A c \in Calls : xfer[c] = "over" => ~kept[c]
===========================================================================

---------------------------- MODULE HttpServer ----------------------------
(***************************************************************************)
(* http_server and https_server (server/http_server.cpp,                   *)
(* server/https_server.cpp): the chain of accepts that makes one connection*)
(* after another.  What a connection does is in HttpConnection and         *)
(* HttpsConnection; here it is open or over.                               *)
(***************************************************************************)
EXTENDS EventLoop, Sequences, SequencesExt

CONSTANT Clients  \* those who connect, each with one connection at a time

VARIABLES
  acceptor,  \* async_accept: none, as there is no server; outstanding
             \* (waiting); its handler queued (ready, failed); or stopped,
             \* after an error
  backlog,   \* connections the kernel has established, in their order
  served     \* clients whose connection object has been started and lives

server == <<acceptor, backlog, served>>

ServerTypeOK ==
  /\ acceptor \in {"none", "waiting", "ready", "failed", "stopped"}
  /\ backlog \in Seq(Clients) /\ IsInjective(backlog)
  /\ served \subseteq Clients /\ served \intersect ToSet(backlog) = {}
  /\ acceptor = "ready" => backlog # <<>>

(* The constructor makes the first connection object and starts to accept. *)
ServerInit ==
  /\ acceptor \in {"none", "waiting"}
  /\ backlog = <<>> /\ served = {}

(* A client connects; the kernel listens as long as the acceptor is open. *)
Connect(c) ==
  /\ loop # "thrown" /\ acceptor # "none"
  /\ c \notin served \union ToSet(backlog)
  /\ backlog' = Append(backlog, c)
  /\ UNCHANGED <<loop, acceptor, served>>

(* The outstanding accept is done; it fails when the process or the system *)
(* has no descriptor or memory left.                                       *)
AcceptDone ==
  /\ acceptor = "waiting" /\ backlog # <<>>
  /\ acceptor' \in {"ready", "failed"}
  /\ UNCHANGED <<loop, backlog, served>>

(* handle_accept that does not accept again. *)
HandleAccept_Once ==
  /\ loop = "running" /\ acceptor = "ready"
  /\ served' = served \union {Head(backlog)} /\ backlog' = Tail(backlog)
  /\ acceptor' = "none"
  /\ UNCHANGED loop

(* handle_accept without an error: the connection is started, the next one *)
(* is made and an accept into its socket is started.                       *)
HandleAccept ==
  /\ loop = "running" /\ acceptor = "ready"
  /\ served' = served \union {Head(backlog)} /\ backlog' = Tail(backlog)
  /\ acceptor' = "waiting"
  /\ UNCHANGED loop

(* handle_accept with an error starts nothing: the server has stopped. *)
HandleAcceptError ==
  /\ loop = "running" /\ acceptor = "failed"
  /\ acceptor' = "stopped"
  /\ UNCHANGED <<loop, backlog, served>>

(* The last handler of a connection lets go of it. *)
ConnectionEnds(c) ==
  /\ loop = "running" /\ c \in served
  /\ served' = served \ {c}
  /\ UNCHANGED <<loop, acceptor, backlog>>

(* A handler of a connection throws: a request handler that cannot decode a*)
(* body, or remote_endpoint() in a log line.                               *)
ConnectionThrows ==
  /\ loop = "running" /\ served # {}
  /\ loop' = "thrown"
  /\ UNCHANGED server

(* Does the server keep run() from returning?  A connection that is open   *)
(* always has a handler queued or outstanding.                             *)
ServerWork == acceptor \in {"waiting", "ready", "failed"} \/ served # {}

(* The kernel completes an accept, and queued handlers run.  Nothing is    *)
(* asked of those who connect.                                             *)
ServerFairness ==
  /\ WF_<<loop, server>>(AcceptDone)
  /\ WF_<<loop, server>>(HandleAccept)
  /\ WF_<<loop, server>>(HandleAcceptError)
===========================================================================

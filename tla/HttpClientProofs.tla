------------------------- MODULE HttpClientProofs -------------------------
(***************************************************************************)
(* Theorems about HttpClient, for any number of calls, descriptors and     *)
(* sockets: the safety invariants of its run.  The inductive invariant     *)
(* IInv says of each call who keeps it alive (CallInv), of each socket     *)
(* object that it is deleted behind everything that uses it (SockInv), and *)
(* of each descriptor that only a call curl works for is watched (UserInv).*)
(***************************************************************************)
EXTENDS HttpClient, QueueProofs

(* The handlers as the library posts them; Jobs has more. *)
PerformOf(c) == Job("perform", c, None)
RemoveOf(c)  == Job("remove", c, None)
DeleteOf(s)  == Job("delete", None, s)
ReadOf(c, s) == Job("rx", c, s)
ProperJobs ==
  Waits \union {PerformOf(c) : c \in Calls} \union {RemoveOf(c) : c \in Calls}
        \union {DeleteOf(s) : s \in Socks}

(* No handler of a socket is queued behind the deletion of its object. *)
DeletedLast(q) ==
  \A i \in 1..Len(q) : \A k \in 1..i :
    q[i].do \in {"rx", "tx"} => q[k] # DeleteOf(q[i].sock)

(* A call is posted to curl once at a time, and an object deleted once. *)
QueuedOnce(q) ==
  \A i \in 1..Len(q) : \A k \in 1..Len(q) :
    q[i] = q[k] /\ q[i].do \in {"perform", "delete"} => i = k

QueueOK(q) == q \in Seq(ProperJobs) /\ DeletedLast(q) /\ QueuedOnce(q)

Proper ==
  /\ QueueOK(queue)
  /\ handler \in Waits \union {PerformOf(c) : c \in Calls}
                       \union {RemoveOf(c) : c \in Calls} \union {NoJob, Timeout}

(* A call holds itself as long as curl knows its context, and then owes a  *)
(* callback; it owes one, too, while it is posted to curl, which then does *)
(* not know it.  A transfer that no longer keeps its call has its removal  *)
(* posted or under way.                                                    *)
CallOK(c) ==
  /\ kept[c] <=> private[c]
  /\ due[c] \in {0, 1}
  /\ private[c] => due[c] = 1
  /\ PerformOf(c) \in Queued => due[c] = 1 /\ ~private[c]
  /\ due[c] = 1 => private[c] \/ PerformOf(c) \in Queued
  /\ xfer[c] # "out" => kept[c] \/ RemoveOf(c) \in Queued \/ handler = RemoveOf(c)
  /\ handler = RemoveOf(c) <=> xfer[c] = "leaving"
CallInv == \A c \in Calls : CallOK(c)

(* A socket object is in the map under one descriptor while it is open,    *)
(* and closed from then until its deletion.                                *)
SockInv ==
  /\ AssignedIsMapped
  /\ \A f, g \in Fds : map[f] = map[g] /\ map[f] # None => f = g
  /\ \A s \in Socks : DeleteOf(s) \in Queued => sock[s] = "closed"
  /\ \A j \in Queued \union {handler} : j.do \in {"rx", "tx"} => sock[j.sock] # "free"
  /\ \A w \in waits : sock[w.sock] = "open"

(* curl watches a descriptor only for a call whose transfer it has. *)
UserInv ==
  \A f \in Fds :
    /\ user[f] = "cache" => watch[f] = {}
    /\ \A c \in Calls : user[f] = c /\ watch[f] # {} => xfer[c] # "out"

IInv == TypeOK /\ Proper /\ CallInv /\ SockInv /\ UserInv /\ ReadsKeepComing

---------------------------------------------------------------------------
(* Handlers and the queue *)

(* What tells two handlers apart. *)
LEMMA JobFacts ==
  /\ \A c : /\ PerformOf(c).do = "perform" /\ PerformOf(c).call = c
            /\ RemoveOf(c).do = "remove" /\ RemoveOf(c).call = c
  /\ \A s : DeleteOf(s).do = "delete" /\ DeleteOf(s).sock = s
             /\ DeleteOf(s).call = None
  /\ \A c, s : /\ ReadOf(c, s).do = "rx" /\ ReadOf(c, s).call = c
                /\ ReadOf(c, s).sock = s
  /\ \A c \in Calls, s \in Socks : ReadOf(c, s) \in Waits
  /\ \A w \in Waits : w.do \in {"rx", "tx"} /\ w.call \in Calls /\ w.sock \in Socks
  /\ NoJob.do = "none" /\ Timeout.do = "timer" /\ NoJob.call = None
  /\ Timeout.call = None
BY DEF PerformOf, RemoveOf, DeleteOf, ReadOf, Waits, NoJob, Timeout, Job

(* A wait is what it is made of. *)
LEMMA WaitIsJob ==
  ASSUME NEW w \in Waits
  PROVE  w = Job(w.do, w.call, w.sock)
BY DEF Waits, Job

(* A proper handler is one of the four kinds. *)
LEMMA ProperKinds ==
  ASSUME NEW j \in ProperJobs
  PROVE  /\ j \in Jobs
         /\ j.do \in {"rx", "tx"} => j \in Waits
         /\ j.do = "perform" => \E c \in Calls : j = PerformOf(c)
         /\ j.do = "remove" => \E c \in Calls : j = RemoveOf(c)
         /\ j.do = "delete" => \E s \in Socks : j = DeleteOf(s)
<1>1. \/ j \in Waits
      \/ \E c \in Calls : j = PerformOf(c)
      \/ \E c \in Calls : j = RemoveOf(c)
      \/ \E s \in Socks : j = DeleteOf(s)
  BY DEF ProperJobs
<1>2. j \in Jobs
  BY <1>1 DEF Jobs, Waits, Kinds, PerformOf, RemoveOf, DeleteOf, Job
<1> QED
  BY <1>1, <1>2, JobFacts

(* Posting a handler: closesocket_cb posts a deletion only once, and no    *)
(* handler of a socket becomes ready behind the deletion of its object.    *)
LEMMA Post ==
  ASSUME NEW q, QueueOK(q), NEW j \in ProperJobs,
         j.do \in {"perform", "delete"} => j \notin ToSet(q),
         j.do \in {"rx", "tx"} => DeleteOf(j.sock) \notin ToSet(q)
  PROVE  QueueOK(Append(q, j)) /\ ToSet(Append(q, j)) = ToSet(q) \union {j}
<1> DEFINE r == Append(q, j)
<1>1. /\ r \in Seq(ProperJobs) /\ Len(r) = Len(q) + 1 /\ Len(q) \in Nat
      /\ \A i \in 1..Len(q) : r[i] = q[i]
      /\ r[Len(q) + 1] = j /\ ToSet(r) = ToSet(q) \union {j}
  BY AppendToQueue, LenProperties DEF QueueOK
<1>2. \A i \in 1..Len(q) : q[i] \in ToSet(q)
  BY LenProperties DEF ToSet, QueueOK
<1>3. DeletedLast(r)
  <2> SUFFICES ASSUME NEW i \in 1..Len(r), NEW k \in 1..i, r[i].do \in {"rx", "tx"}
               PROVE  r[k] # DeleteOf(r[i].sock)
    BY DEF DeletedLast
  <2>1. CASE i \in 1..Len(q)
    <3>1. k \in 1..Len(q) /\ r[i] = q[i] /\ r[k] = q[k]
      BY <1>1, <2>1
    <3> QED BY <2>1, <3>1 DEF QueueOK, DeletedLast
  <2>2. CASE i = Len(q) + 1
    <3>1. CASE k \in 1..Len(q)
      BY <1>1, <1>2, <2>2, <3>1
    <3>2. CASE k = i
      BY <1>1, <2>2, <3>2, JobFacts
    <3> QED BY <1>1, <2>2, <3>1, <3>2
  <2> QED BY <1>1, <2>1, <2>2
<1>4. QueuedOnce(r)
  <2> SUFFICES ASSUME NEW i \in 1..Len(r), NEW k \in 1..Len(r), r[i] = r[k],
                      r[i].do \in {"perform", "delete"}
               PROVE  i = k
    BY DEF QueuedOnce
  <2>1. CASE i \in 1..Len(q) /\ k \in 1..Len(q)
    BY <1>1, <2>1 DEF QueueOK, QueuedOnce
  <2>2. CASE i = Len(q) + 1 /\ k \in 1..Len(q)
    BY <1>1, <1>2, <2>2
  <2>3. CASE k = Len(q) + 1 /\ i \in 1..Len(q)
    BY <1>1, <1>2, <2>3
  <2> QED BY <1>1, <2>1, <2>2, <2>3
<1> QED
  BY <1>1, <1>3, <1>4 DEF QueueOK

(* Taking the next handler from the queue. *)
LEMMA Pop ==
  ASSUME NEW q, QueueOK(q), q # <<>>
  PROVE  /\ QueueOK(Tail(q)) /\ Head(q) \in ProperJobs
         /\ ToSet(q) = {Head(q)} \union ToSet(Tail(q))
         /\ Head(q).do \in {"perform", "delete"} => Head(q) \notin ToSet(Tail(q))
         /\ \A j \in ToSet(Tail(q)) :
              j.do \in {"rx", "tx"} => Head(q) # DeleteOf(j.sock)
<1> DEFINE r == Tail(q)
<1>1. /\ r \in Seq(ProperJobs) /\ Head(q) \in ProperJobs /\ Head(q) = q[1]
      /\ Len(q) \in Nat \ {0} /\ Len(r) = Len(q) - 1
      /\ \A i \in 1..Len(q) - 1 : r[i] = q[i + 1]
      /\ ToSet(q) = {Head(q)} \union ToSet(r)
  BY TailOfQueue DEF QueueOK
<1>2. \A i \in 1..Len(r) : i + 1 \in 1..Len(q) /\ r[i] = q[i + 1]
  BY <1>1
<1>3. ToSet(r) = {r[i] : i \in 1..Len(r)}
  BY <1>1, LenProperties DEF ToSet
<1>4. DeletedLast(r)
  <2> SUFFICES ASSUME NEW i \in 1..Len(r), NEW k \in 1..i, r[i].do \in {"rx", "tx"}
               PROVE  r[k] # DeleteOf(r[i].sock)
    BY DEF DeletedLast
  <2>1. k \in 1..Len(r) /\ k + 1 \in 1..i + 1
    BY <1>1
  <2> QED
    BY <1>2, <2>1 DEF QueueOK, DeletedLast
<1>5. QueuedOnce(r)
  <2> SUFFICES ASSUME NEW i \in 1..Len(r), NEW k \in 1..Len(r), r[i] = r[k],
                      r[i].do \in {"perform", "delete"}
               PROVE  i = k
    BY DEF QueuedOnce
  <2>1. i + 1 = k + 1
    BY <1>2 DEF QueueOK, QueuedOnce
  <2> QED
    BY <2>1
<1>6. ASSUME NEW j \in ToSet(r)
      PROVE  /\ Head(q).do \in {"perform", "delete"} => j # Head(q)
             /\ j.do \in {"rx", "tx"} => Head(q) # DeleteOf(j.sock)
  <2>1. PICK i \in 1..Len(r) : j = r[i]
    BY <1>3
  <2>2. i + 1 \in 1..Len(q) /\ j = q[i + 1] /\ 1 \in 1..Len(q) /\ 1 # i + 1
        /\ 1 \in 1..i + 1
    BY <1>1, <1>2, <2>1
  <2> QED
    BY <1>1, <2>2 DEF QueueOK, DeletedLast, QueuedOnce
<1> QED
  BY <1>1, <1>4, <1>5, <1>6 DEF QueueOK

---------------------------------------------------------------------------
(* What an action that leaves something alone preserves *)

(* A call that an action is not about stays as it is. *)
LEMMA CallFrame ==
  ASSUME NEW c \in Calls, CallOK(c),
         kept'[c] <=> kept[c], private'[c] <=> private[c],
         due'[c] = due[c], xfer'[c] = xfer[c],
         PerformOf(c) \in Queued' <=> PerformOf(c) \in Queued,
         RemoveOf(c) \in Queued' <=> RemoveOf(c) \in Queued,
         handler' = RemoveOf(c) <=> handler = RemoveOf(c)
  PROVE  CallOK(c)'
BY DEF CallOK

(* Socket objects are safe as long as none changes, no new one is posted   *)
(* for deletion, and new waits are for open ones.                          *)
LEMMA SockFrame ==
  ASSUME SockInv, UNCHANGED <<map, sock>>,
         \A f \in Fds : socketp'[f] \in {None, map[f]},
         \A s \in Socks : DeleteOf(s) \in Queued' => DeleteOf(s) \in Queued,
         \A j \in Queued' \union {handler'} :
           j.do \in {"rx", "tx"} => j \in Queued \union {handler} \union waits,
         \A w \in waits' : w \in waits \/ sock[w.sock] = "open"
  PROVE  SockInv'
<1>1. /\ AssignedIsMapped
      /\ \A f, g \in Fds : map[f] = map[g] /\ map[f] # None => f = g
      /\ \A s \in Socks : DeleteOf(s) \in Queued => sock[s] = "closed"
      /\ \A j \in Queued \union {handler} : j.do \in {"rx", "tx"} => sock[j.sock] # "free"
      /\ \A w \in waits : sock[w.sock] = "open"
  BY DEF SockInv
<1>2. AssignedIsMapped'
  BY <1>1 DEF AssignedIsMapped
<1>3. \A j \in Queued' \union {handler'} : j.do \in {"rx", "tx"} => sock'[j.sock] # "free"
  BY <1>1
<1>4. \A w \in waits' : sock'[w.sock] = "open"
  BY <1>1
<1> QED
  BY <1>1, <1>2, <1>3, <1>4 DEF SockInv

(* The reads of a call keep coming as long as none is lost and curl asks   *)
(* for no new one.                                                         *)
LEMMA ReadsFrame ==
  ASSUME ReadsKeepComing, TypeOK, AssignedIsMapped, UNCHANGED map,
         loop' = "running" => loop = "running",
         \A f \in Fds, c \in Calls :
           user'[f] = c /\ "rx" \in watch'[f] /\ socketp'[f] # None /\ ~done'[c]
             => user[f] = c /\ "rx" \in watch[f] /\ socketp[f] # None /\ ~done[c],
         \A w \in waits \union Queued \union {handler} :
           w \in Waits /\ w.do = "rx" /\ ~done[w.call]
             => w \in waits' \union Queued' \union {handler'}
  PROVE  ReadsKeepComing'
<1> SUFFICES ASSUME loop' = "running", NEW f \in Fds, NEW c \in Calls,
                    user'[f] = c, "rx" \in watch'[f], socketp'[f] # None, ~done'[c]
             PROVE  ReadOf(c, map[f]) \in waits' \union Queued' \union {handler'}
  BY DEF ReadsKeepComing, ReadOf
<1>1. user[f] = c /\ "rx" \in watch[f] /\ socketp[f] # None /\ ~done[c]
  OBVIOUS
<1>2. ReadOf(c, map[f]) \in waits \union Queued \union {handler}
  BY <1>1 DEF ReadsKeepComing, ReadOf
<1>3. map[f] \in Socks
  BY <1>1 DEF AssignedIsMapped, TypeOK
<1> QED
  BY <1>1, <1>2, <1>3, JobFacts

(* A proper queue has the type the specification gives it. *)
LEMMA QueueType ==
  ASSUME NEW q, QueueOK(q)
  PROVE  q \in Seq(Jobs)
BY ProperKinds, SeqMonotonic DEF QueueOK

(* What is in a proper queue is a proper handler. *)
LEMMA QueuedIsProper ==
  ASSUME NEW q, QueueOK(q), NEW j \in ToSet(q)
  PROVE  j \in ProperJobs
<1>1. q \in Seq(ProperJobs) /\ DOMAIN q = 1..Len(q)
  BY LenProperties DEF QueueOK
<1>2. PICK i \in 1..Len(q) : j = q[i]
  BY <1>1 DEF ToSet
<1> QED
  BY <1>1, <1>2

---------------------------------------------------------------------------
(* The application *)

(* perform_async of a new call, or of one that has called back. *)
LEMMA PerformAsyncStep ==
  ASSUME IInv, NEW c \in Calls, PerformAsync(c)
  PROVE  IInv'
<1>1. /\ TypeOK /\ Proper /\ CallInv /\ SockInv /\ UserInv /\ ReadsKeepComing
  BY DEF IInv
<1>2. CallOK(c)
  BY <1>1 DEF CallInv
<1>3. ~Alive(c) => /\ ~kept[c] /\ xfer[c] = "out"
                   /\ handler # RemoveOf(c) /\ RemoveOf(c) \notin Queued
  BY <1>2, JobFacts DEF Alive, CallOK
<1>4. PerformOf(c) \notin Queued
  <2>1. CASE ~Alive(c)
    BY <2>1, JobFacts DEF Alive
  <2>2. CASE due[c] = 0
    BY <1>2, <2>2 DEF CallOK
  <2> QED
    BY <2>1, <2>2 DEF PerformAsync
<1>5. queue' = Append(queue, PerformOf(c)) /\ PerformOf(c) \in ProperJobs
  BY DEF PerformAsync, PerformOf, ProperJobs
<1>6. QueueOK(queue') /\ Queued' = Queued \union {PerformOf(c)}
  BY <1>1, <1>4, <1>5, Post, JobFacts DEF Proper, Queued
<1>7. /\ UNCHANGED <<map, sock, kept, waits, loop, handler, user, watch, socketp>>
      /\ due' = [due EXCEPT ![c] = 1]
  BY DEF PerformAsync
<1>8. Proper'
  BY <1>1, <1>6, <1>7 DEF Proper
<1>9. TypeOK'
  <2>1. queue' \in Seq(Jobs)
    BY <1>6, QueueType
  <2>2. /\ done' \in [Calls -> BOOLEAN] /\ private' \in [Calls -> BOOLEAN]
        /\ held' \in [Calls -> BOOLEAN]
        /\ xfer' \in [Calls -> {"out", "running", "over", "leaving"}]
    BY <1>1 DEF PerformAsync, TypeOK
  <2>3. due' \in [Calls -> -1..1]
    BY <1>1, <1>7 DEF TypeOK
  <2> QED
    BY <1>1, <1>7, <2>1, <2>2, <2>3 DEF TypeOK
<1>10. CallInv'
  <2>1. CallOK(c)'
    <3>1. PerformOf(c) \in Queued' /\ (RemoveOf(c) \in Queued' <=> RemoveOf(c) \in Queued)
      BY <1>6, JobFacts
    <3>2. due'[c] = 1 /\ kept' = kept /\ handler' = handler
      BY <1>1, <1>7 DEF TypeOK
    <3>3. ~private'[c] /\ ~kept[c]
      BY <1>1, <1>2, <1>3 DEF PerformAsync, CallOK, TypeOK
    <3>4. xfer'[c] = xfer[c]
      BY <1>1, <1>3 DEF PerformAsync, TypeOK
    <3> QED
      BY <1>2, <3>1, <3>2, <3>3, <3>4 DEF CallOK
  <2>2. ASSUME NEW d \in Calls, d # c PROVE CallOK(d)'
    <3>1. /\ PerformOf(d) \in Queued' <=> PerformOf(d) \in Queued
          /\ RemoveOf(d) \in Queued' <=> RemoveOf(d) \in Queued
      BY <1>6, <2>2, JobFacts
    <3>2. /\ private'[d] = private[d] /\ due'[d] = due[d] /\ xfer'[d] = xfer[d]
          /\ kept' = kept /\ handler' = handler
      BY <1>1, <1>7, <2>2 DEF PerformAsync, TypeOK
    <3> QED
      BY <1>1, <3>1, <3>2, CallFrame DEF CallInv
  <2> QED
    BY <2>1, <2>2 DEF CallInv
<1>11. SockInv'
  <2>1. /\ \A s \in Socks : DeleteOf(s) \in Queued' => DeleteOf(s) \in Queued
        /\ \A j \in Queued' \union {handler'} :
             j.do \in {"rx", "tx"} => j \in Queued \union {handler} \union waits
    BY <1>6, <1>7, JobFacts
  <2> QED
    BY <1>1, <1>7, <2>1, SockFrame DEF SockInv, AssignedIsMapped
<1>12. UserInv'
  BY <1>1, <1>2, <1>7, JobFacts DEF PerformAsync, UserInv, CallOK, Alive, TypeOK
<1>13. ReadsKeepComing'
  <2>1. ASSUME NEW f \in Fds, NEW d \in Calls,
               user[f] = d, "rx" \in watch[f], ~done'[d]
        PROVE  ~done[d]
    BY <1>1, <1>3, <2>1 DEF PerformAsync, UserInv, TypeOK
  <2> QED
    BY <1>1, <1>6, <1>7, <2>1, ReadsFrame DEF SockInv
<1> QED
  BY <1>8, <1>9, <1>10, <1>11, <1>12, <1>13 DEF IInv

(* The application lets go of a handle: the call does without. *)
LEMMA DropStep ==
  ASSUME IInv, NEW c \in Calls, Drop(c)
  PROVE  IInv'
<1>1. /\ TypeOK /\ Proper /\ CallInv /\ SockInv /\ UserInv /\ ReadsKeepComing
  BY DEF IInv
<1>2. /\ UNCHANGED <<map, sock, done, kept, private, queue, waits, loop, due,
                     handler, xfer, user, watch, socketp>>
      /\ held' = [held EXCEPT ![c] = FALSE]
      /\ Queued' = Queued
  BY DEF Drop, library, curl, Queued
<1>3. TypeOK' /\ Proper'
  BY <1>1, <1>2 DEF TypeOK, Proper
<1>4. CallInv'
  BY <1>1, <1>2 DEF CallInv, CallOK
<1>5. SockInv' /\ UserInv'
  BY <1>1, <1>2 DEF SockInv, UserInv, AssignedIsMapped
<1>6. ReadsKeepComing'
  BY <1>1, <1>2 DEF ReadsKeepComing
<1> QED
  BY <1>3, <1>4, <1>5, <1>6 DEF IInv

---------------------------------------------------------------------------
(* The handlers *)

(* What is known when the io_service runs the next handler. *)
LEMMA RunTakesHead ==
  ASSUME Proper, NEW j, Run(j), queue' = Tail(queue)
  PROVE  /\ j \in ProperJobs /\ j \in Queued /\ Queued = {j} \union Queued'
         /\ QueueOK(queue') /\ queue' \in Seq(Jobs)
         /\ handler = NoJob /\ loop = "running"
         /\ j.do \in {"perform", "delete"} => j \notin Queued'
         /\ \A k \in Queued' : k.do \in {"rx", "tx"} => j # DeleteOf(k.sock)
<1>1. QueueOK(queue) /\ queue # <<>> /\ j = Head(queue)
  BY DEF Proper, Run
<1>2. QueueOK(queue')
  BY <1>1, Pop
<1> QED
  BY <1>1, <1>2, Pop, QueueType DEF Run, Inside, Queued

(* _perform: the call holds itself, and curl knows it. *)
LEMMA HandlePerformStep ==
  ASSUME IInv, HandlePerform
  PROVE  IInv'
<1>1. /\ TypeOK /\ Proper /\ CallInv /\ SockInv /\ UserInv /\ ReadsKeepComing
  BY DEF IInv
<1>2. PICK c \in Calls :
        /\ Run(PerformOf(c))
        /\ kept' = [kept EXCEPT ![c] = TRUE]
        /\ private' = [private EXCEPT ![c] = TRUE]
        /\ queue' = Tail(queue)
        /\ \/ /\ xfer[c] = "out" /\ handler' = PerformOf(c)
              /\ xfer' = [xfer EXCEPT ![c] = "running"]
           \/ /\ xfer[c] # "out" /\ UNCHANGED <<handler, xfer>>
        /\ UNCHANGED <<map, sock, done, waits, loop, held, due, user, watch, socketp>>
  BY DEF HandlePerform, PerformOf, Run, Enter, app
<1>3. /\ QueueOK(queue') /\ queue' \in Seq(Jobs)
      /\ Queued = {PerformOf(c)} \union Queued' /\ PerformOf(c) \notin Queued'
      /\ handler = NoJob /\ PerformOf(c) \in Queued
  BY <1>1, <1>2, RunTakesHead, JobFacts
<1>4. Proper'
  BY <1>1, <1>2, <1>3 DEF Proper
<1>5. TypeOK'
  <2>1. handler' \in Jobs \union {NoJob, Timeout}
    BY <1>1, <1>2, <1>3, ProperKinds DEF TypeOK, Proper, ProperJobs
  <2> QED
    BY <1>1, <1>2, <1>3, <2>1 DEF TypeOK
<1>6. CallInv'
  <2>1. CallOK(c)'
    <3>1. CallOK(c) /\ due[c] = 1
      BY <1>1, <1>3 DEF CallInv, CallOK
    <3>2. kept'[c] /\ private'[c] /\ due' = due
      BY <1>1, <1>2 DEF TypeOK
    <3>3. handler' # RemoveOf(c) /\ xfer[c] # "leaving"
      BY <1>2, <1>3, <3>1, JobFacts DEF CallOK
    <3>4. xfer'[c] # "leaving"
      BY <1>1, <1>2, <3>3 DEF TypeOK
    <3> QED
      BY <1>3, <3>1, <3>2, <3>3, <3>4 DEF CallOK
  <2>2. ASSUME NEW d \in Calls, d # c PROVE CallOK(d)'
    <3>1. /\ PerformOf(d) \in Queued' <=> PerformOf(d) \in Queued
          /\ RemoveOf(d) \in Queued' <=> RemoveOf(d) \in Queued
      BY <1>3, <2>2, JobFacts
    <3>2. /\ private'[d] = private[d] /\ kept'[d] = kept[d] /\ xfer'[d] = xfer[d]
          /\ due' = due
      BY <1>1, <1>2, <2>2 DEF TypeOK
    <3>3. handler' # RemoveOf(d) /\ handler # RemoveOf(d)
      BY <1>2, <1>3, JobFacts
    <3> QED
      BY <1>1, <3>1, <3>2, <3>3, CallFrame DEF CallInv
  <2> QED
    BY <2>1, <2>2 DEF CallInv
<1>7. SockInv'
  <2>1. /\ \A s \in Socks : DeleteOf(s) \in Queued' => DeleteOf(s) \in Queued
        /\ \A j \in Queued' \union {handler'} :
             j.do \in {"rx", "tx"} => j \in Queued \union {handler} \union waits
    BY <1>2, <1>3, JobFacts
  <2> QED
    BY <1>1, <1>2, <2>1, SockFrame DEF SockInv, AssignedIsMapped
<1>8. UserInv'
  BY <1>1, <1>2 DEF UserInv, TypeOK
<1>9. ReadsKeepComing'
  <2>1. \A w \in waits \union Queued \union {handler} :
          w \in Waits /\ w.do = "rx" => w \in waits' \union Queued' \union {handler'}
    BY <1>2, <1>3, JobFacts
  <2> QED
    BY <1>1, <1>2, <2>1, ReadsFrame DEF SockInv
<1> QED
  BY <1>4, <1>5, <1>6, <1>7, <1>8, <1>9 DEF IInv

(* _poll_remove: the handle leaves the multi handle, unless it is out. *)
LEMMA HandlePollRemoveStep ==
  ASSUME IInv, HandlePollRemove
  PROVE  IInv'
<1>1. /\ TypeOK /\ Proper /\ CallInv /\ SockInv /\ UserInv /\ ReadsKeepComing
  BY DEF IInv
<1>2. PICK c \in Calls :
        /\ Run(RemoveOf(c))
        /\ queue' = Tail(queue)
        /\ \/ xfer[c] = "out" /\ UNCHANGED <<handler, xfer>>
           \/ /\ xfer[c] # "out" /\ handler' = RemoveOf(c)
              /\ xfer' = [xfer EXCEPT ![c] = "leaving"]
        /\ UNCHANGED <<map, sock, done, kept, private, waits, loop, held, due,
                       user, watch, socketp>>
  BY DEF HandlePollRemove, RemoveOf, Run, Enter, app, library
<1>3. /\ QueueOK(queue') /\ queue' \in Seq(Jobs)
      /\ Queued = {RemoveOf(c)} \union Queued'
      /\ handler = NoJob /\ RemoveOf(c) \in Queued
  BY <1>1, <1>2, RunTakesHead
<1>4. Proper'
  BY <1>1, <1>2, <1>3 DEF Proper
<1>5. TypeOK'
  <2>1. handler' \in Jobs \union {NoJob, Timeout}
    BY <1>1, <1>2, <1>3, ProperKinds DEF TypeOK, Proper, ProperJobs
  <2> QED
    BY <1>1, <1>2, <1>3, <2>1 DEF TypeOK
<1>6. CallInv'
  <2>1. CallOK(c)'
    <3>1. CallOK(c)
      BY <1>1 DEF CallInv
    <3>2. PerformOf(c) \in Queued' <=> PerformOf(c) \in Queued
      BY <1>3, JobFacts
    <3>3. handler # RemoveOf(c)
      BY <1>3, JobFacts
    <3>4. CASE xfer[c] = "out"
      BY <1>2, <3>1, <3>2, <3>3, <3>4 DEF CallOK
    <3>5. CASE xfer[c] # "out"
      <4>1. handler' = RemoveOf(c) /\ xfer'[c] = "leaving"
        BY <1>1, <1>2, <3>5 DEF TypeOK
      <4> QED
        BY <1>2, <3>1, <3>2, <4>1 DEF CallOK
    <3> QED
      BY <3>4, <3>5
  <2>2. ASSUME NEW d \in Calls, d # c PROVE CallOK(d)'
    <3>1. /\ PerformOf(d) \in Queued' <=> PerformOf(d) \in Queued
          /\ RemoveOf(d) \in Queued' <=> RemoveOf(d) \in Queued
      BY <1>3, <2>2, JobFacts
    <3>2. xfer'[d] = xfer[d]
      BY <1>1, <1>2, <2>2 DEF TypeOK
    <3>3. handler' # RemoveOf(d) /\ handler # RemoveOf(d)
      BY <1>2, <1>3, <2>2, JobFacts
    <3> QED
      BY <1>1, <1>2, <3>1, <3>2, <3>3, CallFrame DEF CallInv
  <2> QED
    BY <2>1, <2>2 DEF CallInv
<1>7. SockInv'
  <2>1. /\ \A s \in Socks : DeleteOf(s) \in Queued' => DeleteOf(s) \in Queued
        /\ \A j \in Queued' \union {handler'} :
             j.do \in {"rx", "tx"} => j \in Queued \union {handler} \union waits
    BY <1>2, <1>3, JobFacts
  <2> QED
    BY <1>1, <1>2, <2>1, SockFrame DEF SockInv, AssignedIsMapped
<1>8. UserInv'
  BY <1>1, <1>2 DEF UserInv, TypeOK
<1>9. ReadsKeepComing'
  <2>1. \A w \in waits \union Queued \union {handler} :
          w \in Waits /\ w.do = "rx" => w \in waits' \union Queued' \union {handler'}
    BY <1>2, <1>3, JobFacts
  <2> QED
    BY <1>1, <1>2, <2>1, ReadsFrame DEF SockInv
<1> QED
  BY <1>4, <1>5, <1>6, <1>7, <1>8, <1>9 DEF IInv

(* socket_rx_cb and socket_tx_cb: an event is dropped or passed to curl,   *)
(* and a timeout is passed to curl.                                        *)
LEMMA HandleEventStep ==
  ASSUME IInv, HandleReadable \/ HandleWritable \/ HandleTimer
  PROVE  IInv'
<1>1. /\ TypeOK /\ Proper /\ CallInv /\ SockInv /\ UserInv /\ ReadsKeepComing
  BY DEF IInv
<1>2. UNCHANGED <<map, sock, done, kept, private, waits, loop, held, due,
                  xfer, user, watch, socketp>>
  BY DEF HandleReadable, HandleWritable, HandleTimer, library, app
<1>3. /\ handler = NoJob
      /\ QueueOK(queue') /\ queue' \in Seq(Jobs)
      /\ \/ /\ Queued' = Queued /\ handler' = Timeout
         \/ \E w \in Waits :
              /\ Queued = {w} \union Queued'
              /\ \/ handler' = w
                 \/ handler' = handler /\ done[w.call]
  <2>1. CASE HandleTimer
    BY <1>1, <2>1 DEF HandleTimer, Inside, TypeOK, Proper, Queued
  <2>2. CASE HandleReadable \/ HandleWritable
    <3>1. PICK w \in Waits :
            /\ Run(w) /\ queue' = Tail(queue)
            /\ handler' = w \/ (handler' = handler /\ done[w.call])
      BY <2>2 DEF HandleReadable, HandleWritable, Enter, Run
    <3> QED
      BY <1>1, <3>1, RunTakesHead
  <2> QED
    BY <2>1, <2>2
<1>4. Proper'
  BY <1>3 DEF Proper
<1>5. TypeOK'
  <2>1. handler' \in Jobs \union {NoJob, Timeout}
    BY <1>3, ProperKinds DEF ProperJobs
  <2> QED
    BY <1>1, <1>2, <1>3, <2>1 DEF TypeOK
<1>6. CallInv'
  <2> SUFFICES ASSUME NEW c \in Calls PROVE CallOK(c)'
    BY DEF CallInv
  <2>1. /\ PerformOf(c) \in Queued' <=> PerformOf(c) \in Queued
        /\ RemoveOf(c) \in Queued' <=> RemoveOf(c) \in Queued
        /\ handler' # RemoveOf(c) /\ handler # RemoveOf(c)
    BY <1>3, JobFacts
  <2> QED
    BY <1>1, <1>2, <2>1, CallFrame DEF CallInv
<1>7. SockInv'
  <2>1. /\ \A s \in Socks : DeleteOf(s) \in Queued' => DeleteOf(s) \in Queued
        /\ \A j \in Queued' \union {handler'} :
             j.do \in {"rx", "tx"} => j \in Queued \union {handler} \union waits
    BY <1>2, <1>3, JobFacts
  <2> QED
    BY <1>1, <1>2, <2>1, SockFrame DEF SockInv, AssignedIsMapped
<1>8. UserInv'
  BY <1>1, <1>2 DEF UserInv
<1>9. ReadsKeepComing'
  <2>1. \A w \in waits \union Queued \union {handler} :
          w \in Waits /\ w.do = "rx" /\ ~done[w.call]
            => w \in waits' \union Queued' \union {handler'}
    BY <1>2, <1>3, JobFacts
  <2> QED
    BY <1>1, <1>2, <2>1, ReadsFrame DEF SockInv
<1> QED
  BY <1>4, <1>5, <1>6, <1>7, <1>8, <1>9 DEF IInv

(* The posted deletion of a socket object: everything that used it is over *)
(* and nothing behind it in the queue does.                                *)
LEMMA HandleDeleteStep ==
  ASSUME IInv, HandleDelete
  PROVE  IInv'
<1>1. /\ TypeOK /\ Proper /\ CallInv /\ SockInv /\ UserInv /\ ReadsKeepComing
  BY DEF IInv
<1>2. PICK s \in Socks :
        /\ Run(DeleteOf(s))
        /\ sock' = [sock EXCEPT ![s] = "free"]
        /\ queue' = Tail(queue)
        /\ UNCHANGED <<map, done, kept, private, waits, loop, held, due,
                       handler, xfer, user, watch, socketp>>
  BY DEF HandleDelete, DeleteOf, Run, app, curl
<1>3. /\ QueueOK(queue') /\ queue' \in Seq(Jobs)
      /\ Queued = {DeleteOf(s)} \union Queued'
      /\ handler = NoJob /\ DeleteOf(s) \notin Queued'
      /\ \A j \in Queued' : j.do \in {"rx", "tx"} => j.sock # s
  <2>1. /\ QueueOK(queue') /\ queue' \in Seq(Jobs)
        /\ Queued = {DeleteOf(s)} \union Queued'
        /\ handler = NoJob /\ DeleteOf(s) \notin Queued'
        /\ \A j \in Queued' : j.do \in {"rx", "tx"} => DeleteOf(s) # DeleteOf(j.sock)
    BY <1>1, <1>2, RunTakesHead, JobFacts
  <2> QED
    BY <2>1
<1>4. Proper' /\ TypeOK'
  BY <1>1, <1>2, <1>3 DEF Proper, TypeOK
<1>5. CallInv'
  <2> SUFFICES ASSUME NEW c \in Calls PROVE CallOK(c)'
    BY DEF CallInv
  <2>1. /\ PerformOf(c) \in Queued' <=> PerformOf(c) \in Queued
        /\ RemoveOf(c) \in Queued' <=> RemoveOf(c) \in Queued
    BY <1>3, JobFacts
  <2> QED
    BY <1>1, <1>2, <2>1, CallFrame DEF CallInv
<1>6. SockInv'
  <2>1. sock[s] = "closed"
    BY <1>1, <1>3 DEF SockInv
  <2>2. \A t \in Socks : t # s => sock'[t] = sock[t]
    BY <1>1, <1>2 DEF TypeOK
  <2>3. AssignedIsMapped'
    <3>1. \A f \in Fds : map[f] # None => map[f] \in Socks /\ sock[map[f]] = "open"
      BY <1>1 DEF SockInv, AssignedIsMapped, TypeOK
    <3>2. \A f \in Fds : map[f] # None => sock'[map[f]] = "open"
      BY <2>1, <2>2, <3>1
    <3> QED
      BY <1>1, <1>2, <3>2 DEF SockInv, AssignedIsMapped
  <2>4. \A t \in Socks : DeleteOf(t) \in Queued' => sock'[t] = "closed"
    <3> SUFFICES ASSUME NEW t \in Socks, DeleteOf(t) \in Queued'
                 PROVE  sock'[t] = "closed"
      OBVIOUS
    <3>1. t # s
      BY <1>3
    <3> QED
      BY <1>1, <1>3, <2>2, <3>1 DEF SockInv
  <2>5. \A j \in Queued' \union {handler'} : j.do \in {"rx", "tx"} => sock'[j.sock] # "free"
    <3> SUFFICES ASSUME NEW j \in Queued', j.do \in {"rx", "tx"}
                 PROVE  sock'[j.sock] # "free"
      BY <1>2, <1>3, JobFacts
    <3>1. j \in ProperJobs /\ j.sock # s /\ sock[j.sock] # "free"
      BY <1>1, <1>3, QueuedIsProper DEF SockInv, Queued
    <3>2. j.sock \in Socks
      BY <3>1, ProperKinds, JobFacts
    <3> QED
      BY <2>2, <3>1, <3>2
  <2>6. \A w \in waits' : sock'[w.sock] = "open"
    BY <1>1, <1>2, <2>1, <2>2, JobFacts DEF SockInv, TypeOK
  <2> QED
    BY <1>1, <1>2, <2>3, <2>4, <2>5, <2>6 DEF SockInv
<1>7. UserInv'
  BY <1>1, <1>2 DEF UserInv
<1>8. ReadsKeepComing'
  <2>1. \A w \in waits \union Queued \union {handler} :
          w \in Waits /\ w.do = "rx" => w \in waits' \union Queued' \union {handler'}
    BY <1>2, <1>3, JobFacts
  <2> QED
    BY <1>1, <1>2, <2>1, ReadsFrame DEF SockInv
<1> QED
  BY <1>4, <1>5, <1>6, <1>7, <1>8 DEF IInv

---------------------------------------------------------------------------
(* curl and its callbacks *)

(* As long as nothing changes that CallInv speaks of, it holds. *)
LEMMA CallSame ==
  ASSUME CallInv, UNCHANGED <<kept, private, due, xfer, queue, handler>>
  PROVE  CallInv'
<1>1. Queued' = Queued
  BY DEF Queued
<1> QED
  BY <1>1 DEF CallInv, CallOK

(* The assertion of sock_cb ends the program. *)
LEMMA ContextLostStep ==
  ASSUME IInv, NEW c \in Calls, ContextLost(c)
  PROVE  IInv'
<1>1. /\ TypeOK /\ Proper /\ CallInv /\ SockInv /\ UserInv
  BY DEF IInv
<1>2. /\ UNCHANGED <<map, sock, done, kept, private, queue, waits, held, due,
                     handler, xfer, user, watch, socketp>>
      /\ loop' = "crashed" /\ Queued' = Queued
  BY DEF ContextLost, library, app, curl, Queued
<1>3. TypeOK' /\ Proper'
  BY <1>1, <1>2 DEF TypeOK, Proper
<1>4. CallInv' /\ UserInv' /\ ReadsKeepComing'
  BY <1>1, <1>2, CallSame DEF UserInv, ReadsKeepComing
<1>5. SockInv'
  BY <1>1, <1>2 DEF SockInv, AssignedIsMapped
<1> QED
  BY <1>3, <1>4, <1>5 DEF IInv

(* A transfer ends: its call is as alive as it was. *)
LEMMA FinishStep ==
  ASSUME IInv, NEW c \in Calls, Finish(c)
  PROVE  IInv'
<1>1. /\ TypeOK /\ Proper /\ CallInv /\ SockInv /\ UserInv /\ ReadsKeepComing
  BY DEF IInv
<1>2. /\ xfer[c] = "running" /\ xfer' = [xfer EXCEPT ![c] = "over"]
      /\ UNCHANGED <<map, sock, done, kept, private, queue, waits, loop, held, due,
                     handler, user, watch, socketp>>
      /\ Queued' = Queued
  BY DEF Finish, CurlOnly, library, app, Queued
<1>3. TypeOK' /\ Proper'
  BY <1>1, <1>2 DEF TypeOK, Proper
<1>4. \A d \in Calls : xfer'[d] = (IF d = c THEN "over" ELSE xfer[d])
  BY <1>1, <1>2 DEF TypeOK
<1>5. CallInv' /\ UserInv'
  BY <1>1, <1>2, <1>4 DEF CallInv, CallOK, UserInv
<1>6. SockInv' /\ ReadsKeepComing'
  BY <1>1, <1>2 DEF SockInv, AssignedIsMapped, ReadsKeepComing
<1> QED
  BY <1>3, <1>5, <1>6 DEF IInv

(* A transfer takes a connection curl has kept: nobody watches it yet. *)
LEMMA ReuseStep ==
  ASSUME IInv, NEW c \in Calls, NEW f \in Fds, Reuse(c, f)
  PROVE  IInv'
<1>1. /\ TypeOK /\ Proper /\ CallInv /\ SockInv /\ UserInv /\ ReadsKeepComing
  BY DEF IInv
<1>2. /\ user[f] = "cache" /\ user' = [user EXCEPT ![f] = c]
      /\ UNCHANGED <<map, sock, done, kept, private, queue, waits, loop, held, due,
                     handler, xfer, watch, socketp>>
      /\ Queued' = Queued
  BY DEF Reuse, CurlOnly, library, app, Queued
<1>3. TypeOK' /\ Proper'
  BY <1>1, <1>2 DEF TypeOK, Proper
<1>4. CallInv' /\ SockInv'
  BY <1>1, <1>2, CallSame DEF SockInv, AssignedIsMapped
<1>5. UserInv'
  BY <1>1, <1>2, ClientAssumption DEF UserInv, TypeOK
<1>6. ReadsKeepComing'
  <2>1. ASSUME NEW g \in Fds, NEW d \in Calls, user'[g] = d, "rx" \in watch[g]
        PROVE  user[g] = d
    BY <1>1, <1>2, <2>1 DEF UserInv, TypeOK
  <2> QED
    BY <1>1, <1>2, <2>1, ReadsFrame DEF SockInv
<1> QED
  BY <1>3, <1>4, <1>5, <1>6 DEF IInv

(* opensocket_cb: the object was free, so nothing refers to it. *)
LEMMA OpenStep ==
  ASSUME IInv, NEW c \in Calls, NEW f \in Fds, Open(c, f)
  PROVE  IInv'
<1>1. /\ TypeOK /\ Proper /\ CallInv /\ SockInv /\ UserInv /\ ReadsKeepComing
  BY DEF IInv
<1>2. PICK s \in Socks :
        /\ sock[s] = "free" /\ map[f] = None /\ xfer[c] = "running"
        /\ sock' = [sock EXCEPT ![s] = "open"]
        /\ map' = [map EXCEPT ![f] = s]
        /\ user' = [user EXCEPT ![f] = c]
        /\ UNCHANGED <<done, kept, private, queue, waits, loop, held, due,
                       handler, xfer, watch, socketp>>
  BY DEF Open, OpenSocket, app
<1>3. Queued' = Queued
  BY <1>2 DEF Queued
<1>4. TypeOK' /\ Proper'
  BY <1>1, <1>2 DEF TypeOK, Proper
<1>5. CallInv'
  BY <1>1, <1>2, CallSame
<1>6. /\ \A t \in Socks : sock'[t] = (IF t = s THEN "open" ELSE sock[t])
      /\ \A g \in Fds : /\ map'[g] = (IF g = f THEN s ELSE map[g])
                        /\ map[g] # None => map[g] \in Socks /\ map[g] # s
      /\ None \notin Socks
      /\ socketp[f] = None
  BY <1>1, <1>2, ClientAssumption DEF TypeOK, SockInv, AssignedIsMapped
<1>7. SockInv'
  <2>1. AssignedIsMapped'
    BY <1>1, <1>2, <1>6 DEF SockInv, AssignedIsMapped
  <2>2. \A g, h \in Fds : map'[g] = map'[h] /\ map'[g] # None => g = h
    BY <1>1, <1>6 DEF SockInv
  <2>3. \A t \in Socks : DeleteOf(t) \in Queued' => sock'[t] = "closed"
    BY <1>1, <1>2, <1>3, <1>6 DEF SockInv
  <2>4. \A j \in Queued' \union {handler'} : j.do \in {"rx", "tx"} => sock'[j.sock] # "free"
    <3> SUFFICES ASSUME NEW j \in Queued \union {handler}, j.do \in {"rx", "tx"}
                 PROVE  sock'[j.sock] # "free"
      BY <1>2, <1>3
    <3>1. j \in Waits
      BY <1>1, QueuedIsProper, ProperKinds, JobFacts DEF Proper, Queued
    <3> QED
      BY <1>1, <1>6, <3>1, JobFacts DEF SockInv
  <2>5. \A w \in waits' : sock'[w.sock] = "open"
    BY <1>1, <1>2, <1>6, JobFacts DEF SockInv, TypeOK
  <2> QED
    BY <2>1, <2>2, <2>3, <2>4, <2>5 DEF SockInv
<1>8. UserInv'
  BY <1>1, <1>2, ClientAssumption DEF UserInv, TypeOK
<1>9. ReadsKeepComing'
  <2> SUFFICES ASSUME loop' = "running", NEW g \in Fds, NEW d \in Calls,
                      user'[g] = d, "rx" \in watch'[g], socketp'[g] # None, ~done'[d]
               PROVE  ReadOf(d, map'[g]) \in waits' \union Queued' \union {handler'}
    BY DEF ReadsKeepComing, ReadOf
  <2>1. g # f /\ map'[g] = map[g] /\ user[g] = d
    BY <1>1, <1>2, <1>6 DEF TypeOK
  <2> QED
    BY <1>1, <1>2, <1>3, <2>1 DEF ReadsKeepComing, ReadOf
<1> QED
  BY <1>4, <1>5, <1>7, <1>8, <1>9 DEF IInv

(* sock_cb works with the object the map has for the descriptor, or none.  *)
LEMMA LookupIsMapped ==
  ASSUME AssignedIsMapped, NEW f \in Fds
  PROVE  Lookup(f) = map[f]
BY DEF AssignedIsMapped, Lookup

(* sock_cb, asked to watch a socket: a read is started if one is needed.   *)
LEMMA WatchStep ==
  ASSUME IInv, NEW c \in Calls, NEW f \in Fds, Watch(c, f)
  PROVE  IInv'
<1>1. /\ TypeOK /\ Proper /\ CallInv /\ SockInv /\ UserInv /\ ReadsKeepComing
  BY DEF IInv
<1>2. CASE ContextLost(c)
  BY <1>2, ContextLostStep
<1>3. CASE ~ContextLost(c)
  <2>1. PICK what \in SUBSET {"rx", "tx"} :
          /\ xfer[c] = "running" /\ user[f] = c /\ map[f] # None
          /\ watch' = [watch EXCEPT ![f] = what]
          /\ socketp' = [socketp EXCEPT ![f] = map[f]]
          /\ waits' = waits \union [do : what, call : {c}, sock : {map[f]}]
          /\ UNCHANGED <<map, sock, done, kept, private, queue, loop, held, due,
                         handler, xfer, user>>
    BY <1>1, <1>3, LookupIsMapped DEF Watch, WatchSocket, SockInv, library, app
  <2>2. Queued' = Queued /\ map[f] \in Socks /\ sock[map[f]] = "open"
    BY <1>1, <2>1 DEF Queued, TypeOK, SockInv, AssignedIsMapped
  <2>3. \A w \in waits' : w \in waits \/ (w \in Waits /\ w.sock = map[f])
    BY <2>1, <2>2 DEF Waits
  <2>4. TypeOK' /\ Proper'
    BY <1>1, <2>1, <2>2, <2>3 DEF TypeOK, Proper
  <2>5. CallInv'
    BY <1>1, <2>1, CallSame
  <2>6. SockInv'
    <3>1. \A g \in Fds : socketp'[g] \in {None, map[g]}
      BY <1>1, <2>1 DEF TypeOK, SockInv, AssignedIsMapped
    <3> QED
      BY <1>1, <2>1, <2>2, <2>3, <3>1, SockFrame
  <2>7. UserInv'
    BY <1>1, <2>1, ClientAssumption DEF UserInv, TypeOK
  <2>8. ReadsKeepComing'
    <3> SUFFICES ASSUME loop' = "running", NEW g \in Fds, NEW d \in Calls,
                        user'[g] = d, "rx" \in watch'[g], socketp'[g] # None, ~done'[d]
                 PROVE  ReadOf(d, map'[g]) \in waits' \union Queued' \union {handler'}
      BY DEF ReadsKeepComing, ReadOf
    <3>1. CASE g = f
      <4>1. d = c /\ "rx" \in what
        BY <1>1, <2>1, <3>1 DEF TypeOK
      <4>2. ReadOf(c, map[f]) \in [do : what, call : {c}, sock : {map[f]}]
        BY <4>1 DEF ReadOf, Job
      <4> QED
        BY <2>1, <3>1, <4>1, <4>2
    <3>2. CASE g # f
      <4>1. "rx" \in watch[g] /\ socketp[g] # None
        BY <1>1, <2>1, <3>2 DEF TypeOK
      <4> QED
        BY <1>1, <2>1, <2>2, <4>1 DEF ReadsKeepComing, ReadOf
    <3> QED
      BY <3>1, <3>2
  <2> QED
    BY <2>4, <2>5, <2>6, <2>7, <2>8 DEF IInv
<1> QED
  BY <1>2, <1>3

(* sock_cb ends a call: it owes no callback any more, or is posted again.  *)
LEMMA CompleteStep ==
  ASSUME TypeOK, Proper, CallInv, NEW c \in Calls, private[c], xfer[c] # "out",
         NEW again \in BOOLEAN, Complete(c, again), UNCHANGED <<xfer, handler>>
  PROVE  /\ CallInv' /\ QueueOK(queue') /\ due' \in [Calls -> {0, 1}]
         /\ Queued \subseteq Queued'
         /\ \A j \in Queued' : j.do \in {"rx", "tx", "delete"} => j \in Queued
<1> DEFINE q == IF again THEN Append(queue, PerformOf(c)) ELSE queue
<1>1. CallOK(c) /\ PerformOf(c) \notin Queued /\ QueueOK(queue)
  BY DEF CallInv, CallOK, Proper
<1>2. PerformOf(c) \in ProperJobs /\ RemoveOf(c) \in ProperJobs
  BY DEF ProperJobs
<1>3. /\ QueueOK(q)
      /\ ToSet(q) = Queued \union (IF again THEN {PerformOf(c)} ELSE {})
  <2>1. CASE again
    BY <1>1, <1>2, <2>1, Post, JobFacts DEF Queued
  <2>2. CASE ~again
    BY <1>1, <2>2 DEF Queued
  <2> QED
    BY <2>1, <2>2
<1>4. queue' = Append(q, RemoveOf(c))
  <2>1. queue \in Seq(ProperJobs) /\ q \in Seq(ProperJobs)
    BY <1>1, <1>3 DEF QueueOK
  <2>2. queue' = queue \o (IF again THEN <<PerformOf(c)>> ELSE <<>>) \o <<RemoveOf(c)>>
    BY Zenon DEF Complete, PerformOf, RemoveOf
  <2>3. queue \o (IF again THEN <<PerformOf(c)>> ELSE <<>>) = q
    BY <1>2, <2>1, AppendIsConcat, ConcatEmptySeq
  <2> QED
    BY <1>2, <2>1, <2>2, <2>3, AppendIsConcat
<1>5. QueueOK(queue') /\ Queued' = ToSet(q) \union {RemoveOf(c)}
  BY <1>2, <1>3, <1>4, Post, JobFacts DEF Queued
<1>6. /\ \A j \in Queued' : j.do \in {"rx", "tx", "delete"} => j \in Queued
      /\ Queued \subseteq Queued'
  BY <1>3, <1>5, JobFacts
<1>7. /\ due' \in [Calls -> {0, 1}]
      /\ due'[c] = (IF again THEN 1 ELSE 0)
      /\ \A d \in Calls : d # c => due'[d] = due[d]
  <2>1. due \in [Calls -> {0, 1}]
    BY DEF TypeOK, CallInv, CallOK
  <2>2. due[c] = 1
    BY <1>1 DEF CallOK
  <2>3. due' = [due EXCEPT ![c] = IF again THEN 1 ELSE 0]
    BY <2>1, <2>2 DEF Complete
  <2> QED
    BY <2>1, <2>3
<1>8. CallOK(c)'
  <2>1. ~kept'[c] /\ ~private'[c]
    BY DEF Complete, TypeOK
  <2>2. RemoveOf(c) \in Queued' /\ (PerformOf(c) \in Queued' <=> again)
    BY <1>1, <1>3, <1>5, JobFacts
  <2> QED
    BY <1>1, <1>7, <2>1, <2>2 DEF CallOK
<1>9. ASSUME NEW d \in Calls, d # c PROVE CallOK(d)'
  <2>1. private'[d] = private[d] /\ kept'[d] = kept[d]
    BY <1>9 DEF Complete, TypeOK
  <2>2. /\ PerformOf(d) \in Queued' <=> PerformOf(d) \in Queued
        /\ RemoveOf(d) \in Queued' <=> RemoveOf(d) \in Queued
    BY <1>3, <1>5, <1>9, JobFacts
  <2> QED
    BY <1>7, <1>9, <2>1, <2>2, CallFrame DEF CallInv
<1> QED
  BY <1>5, <1>6, <1>7, <1>8, <1>9 DEF CallInv

(* sock_cb, told that curl leaves a socket. *)
LEMMA LeaveStep ==
  ASSUME IInv, NEW c \in Calls, NEW f \in Fds, Leave(c, f)
  PROVE  IInv'
<1>1. /\ TypeOK /\ Proper /\ CallInv /\ SockInv /\ UserInv /\ ReadsKeepComing
  BY DEF IInv
<1>2. CASE ContextLost(c)
  BY <1>2, ContextLostStep
<1>3. CASE ~ContextLost(c)
  <2>1. /\ user[f] = c /\ watch[f] # {} /\ private[c]
        /\ watch' = [watch EXCEPT ![f] = {}]
        /\ socketp' = [socketp EXCEPT ![f] = None]
        /\ user' = [user EXCEPT ![f] = IF map[f] = None THEN None ELSE "cache"]
        /\ \/ UNCHANGED <<done, kept, private, due, queue>>
           \/ \E again \in BOOLEAN : Complete(c, again)
        /\ UNCHANGED <<map, sock, waits, loop, held, handler, xfer>>
    BY <1>3 DEF Leave, LeaveSocket
  <2>2. xfer[c] # "out"
    BY <1>1, <2>1 DEF UserInv
  <2>3. /\ CallInv' /\ QueueOK(queue') /\ due' \in [Calls -> -1..1]
        /\ Queued \subseteq Queued'
        /\ \A j \in Queued' : j.do \in {"rx", "tx", "delete"} => j \in Queued
        /\ done' \in [Calls -> BOOLEAN] /\ kept' \in [Calls -> BOOLEAN]
        /\ private' \in [Calls -> BOOLEAN]
        /\ \A d \in Calls : done[d] => done'[d]
    <3>1. CASE UNCHANGED <<done, kept, private, due, queue>>
      BY <1>1, <2>1, <3>1, CallSame DEF TypeOK, Proper, Queued
    <3>2. ASSUME NEW again \in BOOLEAN, Complete(c, again)
          PROVE  /\ CallInv' /\ QueueOK(queue') /\ due' \in [Calls -> -1..1]
                 /\ Queued \subseteq Queued'
                 /\ \A j \in Queued' : j.do \in {"rx", "tx", "delete"} => j \in Queued
                 /\ done' \in [Calls -> BOOLEAN] /\ kept' \in [Calls -> BOOLEAN]
                 /\ private' \in [Calls -> BOOLEAN]
                 /\ \A d \in Calls : done[d] => done'[d]
      <4>1. /\ CallInv' /\ QueueOK(queue') /\ due' \in [Calls -> {0, 1}]
            /\ Queued \subseteq Queued'
            /\ \A j \in Queued' : j.do \in {"rx", "tx", "delete"} => j \in Queued
        BY <1>1, <2>1, <2>2, <3>2, CompleteStep
      <4>2. /\ done' \in [Calls -> BOOLEAN] /\ kept' \in [Calls -> BOOLEAN]
            /\ private' \in [Calls -> BOOLEAN]
            /\ \A d \in Calls : done[d] => done'[d]
        BY <1>1, <3>2 DEF Complete, TypeOK
      <4> QED
        BY <4>1, <4>2
    <3> QED
      BY <2>1, <3>1, <3>2
  <2>4. TypeOK'
    <3>1. queue' \in Seq(Jobs)
      BY <2>3, QueueType
    <3> QED
      BY <1>1, <2>1, <2>3, <3>1 DEF TypeOK
  <2>5. Proper'
    BY <1>1, <2>1, <2>3 DEF Proper
  <2>6. SockInv'
    <3>1. \A g \in Fds : socketp'[g] \in {None, map[g]}
      BY <1>1, <2>1 DEF TypeOK, SockInv, AssignedIsMapped
    <3>2. /\ \A s \in Socks : DeleteOf(s) \in Queued' => DeleteOf(s) \in Queued
          /\ \A j \in Queued' \union {handler'} :
               j.do \in {"rx", "tx"} => j \in Queued \union {handler} \union waits
      BY <2>1, <2>3, JobFacts
    <3> QED
      BY <1>1, <2>1, <3>1, <3>2, SockFrame
  <2>7. UserInv'
    BY <1>1, <2>1 DEF UserInv, TypeOK
  <2>8. ReadsKeepComing'
    <3>1. ASSUME NEW g \in Fds, NEW d \in Calls,
                 user'[g] = d, "rx" \in watch'[g], socketp'[g] # None, ~done'[d]
          PROVE  user[g] = d /\ "rx" \in watch[g] /\ socketp[g] # None /\ ~done[d]
      <4>1. g # f
        BY <1>1, <2>1, <3>1 DEF TypeOK
      <4> QED
        BY <1>1, <2>1, <2>3, <3>1, <4>1 DEF TypeOK
    <3>2. \A w \in waits \union Queued \union {handler} :
            w \in waits' \union Queued' \union {handler'}
      BY <2>1, <2>3
    <3> QED
      BY <1>1, <2>1, <3>1, <3>2, ReadsFrame DEF SockInv
  <2> QED
    BY <2>3, <2>4, <2>5, <2>6, <2>7, <2>8 DEF IInv
<1> QED
  BY <1>2, <1>3

(* closesocket_cb: the socket is closed, its waits are over, and its       *)
(* deletion is posted, for the first time.                                 *)
LEMMA CloseStep ==
  ASSUME IInv, NEW f \in Fds, Close(f)
  PROVE  IInv'
<1>1. /\ TypeOK /\ Proper /\ CallInv /\ SockInv /\ UserInv /\ ReadsKeepComing
  BY DEF IInv
<1> DEFINE s == map[f]
<1>2. /\ s # None
      /\ sock' = [sock EXCEPT ![s] = "closed"]
      /\ waits' = {w \in waits : w.sock # s}
      /\ map' = [map EXCEPT ![f] = None]
      /\ socketp' = [socketp EXCEPT ![f] = None]
      /\ user' = [user EXCEPT ![f] = IF watch[f] = {} THEN None ELSE @]
      /\ queue' = Append(queue, DeleteOf(s))
      /\ UNCHANGED <<done, kept, private, loop, held, due, handler, xfer, watch>>
  BY DEF Close, CloseSocket, DeleteOf, app
<1>3. s \in Socks /\ sock[s] = "open"
  BY <1>1, <1>2 DEF TypeOK, SockInv, AssignedIsMapped
<1>4. QueueOK(queue') /\ Queued' = Queued \union {DeleteOf(s)}
  <2>1. DeleteOf(s) \notin Queued /\ DeleteOf(s) \in ProperJobs
    BY <1>1, <1>3 DEF SockInv, ProperJobs
  <2> QED
    BY <1>1, <1>2, <2>1, Post, JobFacts DEF Proper, Queued
<1>5. TypeOK'
  <2>1. queue' \in Seq(Jobs)
    BY <1>4, QueueType
  <2>2. sock' \in [Socks -> {"free", "open", "closed"}]
    BY <1>1, <1>2, <1>3 DEF TypeOK
  <2>3. user' \in [Fds -> Calls \union {"cache", None}]
    BY <1>1, <1>2 DEF TypeOK
  <2> QED
    BY <1>1, <1>2, <2>1, <2>2, <2>3 DEF TypeOK
<1>6. Proper'
  BY <1>1, <1>2, <1>4 DEF Proper
<1>7. CallInv'
  <2> SUFFICES ASSUME NEW c \in Calls PROVE CallOK(c)'
    BY DEF CallInv
  <2>1. /\ PerformOf(c) \in Queued' <=> PerformOf(c) \in Queued
        /\ RemoveOf(c) \in Queued' <=> RemoveOf(c) \in Queued
    BY <1>4, JobFacts
  <2> QED
    BY <1>1, <1>2, <2>1, CallFrame DEF CallInv
<1>8. /\ \A t \in Socks : sock'[t] = (IF t = s THEN "closed" ELSE sock[t])
      /\ \A g \in Fds : /\ map'[g] = (IF g = f THEN None ELSE map[g])
                        /\ socketp'[g] = (IF g = f THEN None ELSE socketp[g])
                        /\ g # f /\ map[g] # None => map[g] \in Socks /\ map[g] # s
  BY <1>1, <1>2, <1>3 DEF TypeOK, SockInv
<1>9. SockInv'
  <2>1. AssignedIsMapped'
    BY <1>1, <1>8 DEF SockInv, AssignedIsMapped
  <2>2. \A g, h \in Fds : map'[g] = map'[h] /\ map'[g] # None => g = h
    BY <1>1, <1>8 DEF SockInv
  <2>3. \A t \in Socks : DeleteOf(t) \in Queued' => sock'[t] = "closed"
    BY <1>1, <1>4, <1>8, JobFacts DEF SockInv
  <2>4. \A j \in Queued' \union {handler'} : j.do \in {"rx", "tx"} => sock'[j.sock] # "free"
    <3> SUFFICES ASSUME NEW j \in Queued \union {handler}, j.do \in {"rx", "tx"}
                 PROVE  sock'[j.sock] # "free"
      BY <1>2, <1>4, JobFacts
    <3>1. j \in Waits
      BY <1>1, QueuedIsProper, ProperKinds, JobFacts DEF Proper, Queued
    <3> QED
      BY <1>1, <1>8, <3>1, JobFacts DEF SockInv
  <2>5. \A w \in waits' : sock'[w.sock] = "open"
    BY <1>1, <1>2, <1>8, JobFacts DEF SockInv, TypeOK
  <2> QED
    BY <2>1, <2>2, <2>3, <2>4, <2>5 DEF SockInv
<1>10. UserInv'
  BY <1>1, <1>2, ClientAssumption DEF UserInv, TypeOK
<1>11. ReadsKeepComing'
  <2> SUFFICES ASSUME loop' = "running", NEW g \in Fds, NEW d \in Calls,
                      user'[g] = d, "rx" \in watch'[g], socketp'[g] # None, ~done'[d]
               PROVE  ReadOf(d, map'[g]) \in waits' \union Queued' \union {handler'}
    BY DEF ReadsKeepComing, ReadOf
  <2>1. g # f /\ map'[g] = map[g] /\ user[g] = d /\ socketp[g] # None
    BY <1>1, <1>2, <1>8 DEF TypeOK
  <2>2. ReadOf(d, map[g]) \in waits \union Queued \union {handler}
    BY <1>1, <1>2, <2>1 DEF ReadsKeepComing, ReadOf
  <2>3. map[g] # s
    BY <1>1, <1>8, <2>1 DEF SockInv, AssignedIsMapped
  <2> QED
    BY <1>2, <1>4, <2>1, <2>2, <2>3, JobFacts
<1> QED
  BY <1>5, <1>6, <1>7, <1>9, <1>10, <1>11 DEF IInv

(* curl returns: what was leaving is out, and socket_rx_cb waits again.    *)
LEMMA CurlReturnsStep ==
  ASSUME IInv, CurlReturns
  PROVE  IInv'
<1>1. /\ TypeOK /\ Proper /\ CallInv /\ SockInv /\ UserInv /\ ReadsKeepComing
  BY DEF IInv
<1>2. /\ handler' = NoJob /\ MayReturn
      /\ xfer' = [c \in Calls |-> IF xfer[c] = "leaving" THEN "out" ELSE xfer[c]]
      /\ user' = [f \in Fds |-> IF watch[f] # {} THEN user[f]
                                ELSE IF map[f] = None THEN None ELSE "cache"]
      /\ \/ /\ waits' = waits
            /\ \/ handler.do # "rx" \/ done[handler.call]
               \/ sock[handler.sock] # "open"
         \/ /\ waits' = waits \union {handler}
            /\ handler.do = "rx" /\ sock[handler.sock] = "open"
      /\ UNCHANGED <<map, sock, done, kept, private, queue, loop, held, due,
                     watch, socketp>>
      /\ Queued' = Queued
  BY DEF CurlReturns, Returned, library, app, Queued
<1>3. handler.do = "rx" => handler \in Waits
  BY <1>1, JobFacts DEF Proper
<1>4. TypeOK' /\ Proper'
  BY <1>1, <1>2, <1>3 DEF TypeOK, Proper
<1>5. CallInv'
  <2> SUFFICES ASSUME NEW c \in Calls PROVE CallOK(c)'
    BY DEF CallInv
  <2>1. CallOK(c)
    BY <1>1 DEF CallInv
  <2>2. handler' # RemoveOf(c)
    BY <1>2, JobFacts
  <2>3. xfer'[c] = (IF xfer[c] = "leaving" THEN "out" ELSE xfer[c])
    BY <1>2
  <2> QED
    BY <1>2, <2>1, <2>2, <2>3 DEF CallOK
<1>6. SockInv'
  <2>1. \A f \in Fds : socketp'[f] \in {None, map[f]}
    BY <1>1, <1>2 DEF SockInv, AssignedIsMapped
  <2>2. \A w \in waits' : w \in waits \/ sock[w.sock] = "open"
    BY <1>2
  <2>3. \A j \in Queued' \union {handler'} :
          j.do \in {"rx", "tx"} => j \in Queued \union {handler} \union waits
    BY <1>2, JobFacts
  <2> QED
    BY <1>1, <1>2, <2>1, <2>2, <2>3, SockFrame
<1>7. UserInv'
  <2> SUFFICES ASSUME NEW f \in Fds
               PROVE  /\ user'[f] = "cache" => watch'[f] = {}
                      /\ \A c \in Calls : user'[f] = c /\ watch'[f] # {} => xfer'[c] # "out"
    BY DEF UserInv
  <2>1. CASE watch[f] = {}
    BY <1>2, <2>1
  <2>2. CASE watch[f] # {}
    <3>1. PICK d \in Calls : user[f] = d /\ xfer[d] = "running"
      BY <1>2, <2>2 DEF MayReturn
    <3>2. user'[f] = d /\ xfer'[d] = "running" /\ d # "cache"
      BY <1>2, <2>2, <3>1, ClientAssumption
    <3> QED
      BY <3>2
  <2> QED
    BY <2>1, <2>2
<1>8. ReadsKeepComing'
  <2> SUFFICES ASSUME loop' = "running", NEW f \in Fds, NEW c \in Calls,
                      user'[f] = c, "rx" \in watch'[f], socketp'[f] # None, ~done'[c]
               PROVE  ReadOf(c, map'[f]) \in waits' \union Queued' \union {handler'}
    BY DEF ReadsKeepComing, ReadOf
  <2>1. user[f] = c
    BY <1>2
  <2>2. ReadOf(c, map[f]) \in waits \union Queued \union {handler}
    BY <1>1, <1>2, <2>1 DEF ReadsKeepComing, ReadOf
  <2>3. sock[map[f]] = "open"
    BY <1>1, <1>2 DEF SockInv, AssignedIsMapped
  <2> QED
    BY <1>2, <2>2, <2>3, JobFacts
<1> QED
  BY <1>4, <1>5, <1>6, <1>7, <1>8 DEF IInv

---------------------------------------------------------------------------
(* The reactor *)

(* A socket becomes ready: its handler is queued, and nothing that would   *)
(* delete the object is queued before it.                                  *)
LEMMA SocketReadyStep ==
  ASSUME IInv, SocketReady
  PROVE  IInv'
<1>1. /\ TypeOK /\ Proper /\ CallInv /\ SockInv /\ UserInv /\ ReadsKeepComing
  BY DEF IInv
<1>2. PICK w \in waits :
        /\ waits' = waits \ {w} /\ queue' = Append(queue, w)
        /\ UNCHANGED <<map, sock, done, kept, private, loop, held, due,
                       handler, xfer, user, watch, socketp>>
  BY DEF SocketReady, library, app, curl
<1>3. w \in Waits /\ w.sock \in Socks /\ sock[w.sock] = "open" /\ w.do \in {"rx", "tx"}
  BY <1>1, <1>2, JobFacts DEF TypeOK, SockInv
<1>4. QueueOK(queue') /\ Queued' = Queued \union {w}
  <2>1. DeleteOf(w.sock) \notin Queued /\ w \in ProperJobs
    BY <1>1, <1>3 DEF SockInv, ProperJobs
  <2> QED
    BY <1>1, <1>2, <1>3, <2>1, Post DEF Proper, Queued
<1>5. TypeOK' /\ Proper'
  <2>1. queue' \in Seq(Jobs)
    BY <1>4, QueueType
  <2> QED
    BY <1>1, <1>2, <1>4, <2>1 DEF TypeOK, Proper
<1>6. CallInv'
  <2> SUFFICES ASSUME NEW c \in Calls PROVE CallOK(c)'
    BY DEF CallInv
  <2>1. /\ PerformOf(c) \in Queued' <=> PerformOf(c) \in Queued
        /\ RemoveOf(c) \in Queued' <=> RemoveOf(c) \in Queued
    BY <1>3, <1>4, JobFacts
  <2> QED
    BY <1>1, <1>2, <2>1, CallFrame DEF CallInv
<1>7. SockInv'
  <2>1. /\ \A s \in Socks : DeleteOf(s) \in Queued' => DeleteOf(s) \in Queued
        /\ \A j \in Queued' \union {handler'} :
             j.do \in {"rx", "tx"} => j \in Queued \union {handler} \union waits
    BY <1>2, <1>3, <1>4, JobFacts
  <2> QED
    BY <1>1, <1>2, <2>1, SockFrame DEF SockInv, AssignedIsMapped
<1>8. UserInv'
  BY <1>1, <1>2 DEF UserInv
<1>9. ReadsKeepComing'
  <2>1. \A k \in waits \union Queued \union {handler} :
          k \in waits' \union Queued' \union {handler'}
    BY <1>2, <1>4
  <2> QED
    BY <1>1, <1>2, <2>1, ReadsFrame DEF SockInv
<1> QED
  BY <1>5, <1>6, <1>7, <1>8, <1>9 DEF IInv

---------------------------------------------------------------------------
(* The theorems *)

(* The initial state satisfies the inductive invariant. *)
LEMMA InitIInv == Init => IInv
<1> SUFFICES ASSUME Init PROVE IInv
  OBVIOUS
<1>1. Queued = {} /\ Len(queue) = 0 /\ queue \in Seq(Jobs) /\ queue \in Seq(ProperJobs)
  BY EmptySeq DEF Init, Queued, ToSet
<1>2. TypeOK
  BY <1>1 DEF Init, TypeOK
<1>3. Proper
  BY <1>1 DEF Init, Proper, QueueOK, DeletedLast, QueuedOnce
<1>4. CallInv
  BY <1>1, JobFacts DEF Init, CallInv, CallOK
<1>5. SockInv
  BY <1>1, JobFacts DEF Init, SockInv, AssignedIsMapped
<1>6. UserInv /\ ReadsKeepComing
  BY DEF Init, UserInv, ReadsKeepComing
<1> QED
  BY <1>2, <1>3, <1>4, <1>5, <1>6 DEF IInv

(* Nothing happens. *)
LEMMA StutterStep ==
  ASSUME IInv, UNCHANGED vars
  PROVE  IInv'
<1>1. /\ TypeOK /\ Proper /\ CallInv /\ SockInv /\ UserInv /\ ReadsKeepComing
  BY DEF IInv
<1>2. /\ UNCHANGED <<map, sock, done, kept, private, queue, waits, loop, held, due>>
      /\ UNCHANGED <<handler, xfer, user, watch, socketp>>
  BY DEF vars, library, app, curl
<1>3. Queued' = Queued
  BY <1>2 DEF Queued
<1>4. TypeOK'
  BY <1>1, <1>2 DEF TypeOK
<1>5. Proper'
  BY <1>1, <1>2 DEF Proper
<1>6. CallInv'
  BY <1>1, <1>2, <1>3, CallFrame DEF CallInv
<1>7. SockInv'
  BY <1>1, <1>2, <1>3 DEF SockInv, AssignedIsMapped
<1>8. UserInv'
  BY <1>1, <1>2 DEF UserInv
<1>9. ReadsKeepComing'
  BY <1>1, <1>2, <1>3, ReadsFrame DEF SockInv
<1> QED
  BY <1>4, <1>5, <1>6, <1>7, <1>8, <1>9 DEF IInv

(* Every step preserves the inductive invariant. *)
LEMMA NextIInv == IInv /\ [Next]_vars => IInv'
<1> SUFFICES ASSUME IInv, [Next]_vars PROVE IInv'
  OBVIOUS
<1>1. CASE \E c \in Calls : PerformAsync(c) \/ Drop(c)
  BY <1>1, PerformAsyncStep, DropStep
<1>2. CASE Handlers
  BY <1>2, HandlePerformStep, HandlePollRemoveStep, HandleEventStep, HandleDeleteStep
     DEF Handlers
<1>3. CASE Curl
  <2>1. CASE \E c \in Calls : Finish(c)
    BY <2>1, FinishStep
  <2>2. CASE \E c \in Calls, f \in Fds :
               Reuse(c, f) \/ Open(c, f) \/ Watch(c, f) \/ Leave(c, f)
    BY <2>2, ReuseStep, OpenStep, WatchStep, LeaveStep
  <2>3. CASE \E f \in Fds : Close(f)
    BY <2>3, CloseStep
  <2> QED
    BY <1>3, <2>1, <2>2, <2>3 DEF Curl
<1>4. CASE CurlReturns
  BY <1>4, CurlReturnsStep
<1>5. CASE SocketReady
  BY <1>5, SocketReadyStep
<1>6. CASE UNCHANGED vars
  BY <1>6, StutterStep
<1> QED
  BY <1>1, <1>2, <1>3, <1>4, <1>5, <1>6 DEF Next

(* The state of the client - library, queue, application and curl - stays  *)
(* inside the inductive invariant, whatever calls run at a time and        *)
(* whatever descriptors the kernel hands out again.                        *)
THEOREM Inductive == Spec => []IInv
  BY InitIInv, NextIInv, PTL DEF Spec

(* Every variable of http_client and of its environment keeps its type; so *)
(* the handlers posted by curl's callbacks are all of the known kinds, and *)
(* a call never owes its application more than one callback.               *)
THEOREM TypeCorrect == Spec => []TypeOK
<1>1. IInv => TypeOK
  BY DEF IInv
<1> QED
  BY <1>1, Inductive, PTL

(* sock_cb never works with the object of an earlier socket on the same    *)
(* descriptor: what curl_multi_assign left is what _socket_map holds, and  *)
(* the object in the map is open, since closesocket_cb clears both.        *)
THEOREM AssignedMapped == Spec => []AssignedIsMapped
<1>1. IInv => AssignedIsMapped
  BY DEF IInv, SockInv
<1> QED
  BY <1>1, Inductive, PTL

(* closesocket_cb posts the deletion of a socket object behind every       *)
(* operation on it: no wait, no queued handler and no handler inside curl  *)
(* uses a deleted object, or will when it runs.                            *)
THEOREM SocketsOutlive == Spec => []SocketsOutliveHandlers
<1>1. ASSUME IInv PROVE SocketsOutliveHandlers
  <2>1. QueueOK(queue) /\ SockInv
    BY <1>1 DEF IInv, Proper
  <2>2. \A w \in waits : sock[w.sock] = "open"
    BY <2>1 DEF SockInv
  <2>3. DOMAIN queue = 1..Len(queue)
    BY <2>1, LenProperties DEF QueueOK
  <2>4. ASSUME NEW i \in DOMAIN queue, queue[i].do \in {"rx", "tx"}
        PROVE  /\ sock[queue[i].sock] # "free"
               /\ \A k \in 1..i : queue[k] # Job("delete", None, queue[i].sock)
    <3>1. queue[i] \in Queued
      BY DEF Queued, ToSet
    <3>2. sock[queue[i].sock] # "free"
      BY <2>1, <2>4, <3>1 DEF SockInv
    <3>3. \A k \in 1..i : queue[k] # Job("delete", None, queue[i].sock)
      BY <2>1, <2>3, <2>4 DEF QueueOK, DeletedLast, DeleteOf
    <3> QED
      BY <3>2, <3>3
  <2>5. handler.do \in {"rx", "tx"} => sock[handler.sock] # "free"
    BY <2>1 DEF SockInv
  <2> QED
    BY <2>2, <2>4, <2>5 DEF SocketsOutliveHandlers
<1> QED
  BY <1>1, Inductive, PTL

(* The raw pointers to a call_context that curl, the socket handlers and   *)
(* sock_cb go through stay valid as long as curl has the transfer, and no  *)
(* call_context is destroyed before it has called back: it holds itself    *)
(* from _perform on, or a posted _perform or _poll_remove holds it.        *)
THEOREM CallOutlives == Spec => []CallOutlivesTransfer
<1>1. ASSUME IInv PROVE CallOutlivesTransfer
  <2> SUFFICES ASSUME NEW c \in Calls, xfer[c] # "out" \/ due[c] = 1
               PROVE  Alive(c)
    BY DEF CallOutlivesTransfer
  <2>1. CallOK(c)
    BY <1>1 DEF IInv, CallInv
  <2>2. \/ kept[c] \/ RemoveOf(c) \in Queued \/ handler = RemoveOf(c)
        \/ PerformOf(c) \in Queued
    BY <2>1 DEF CallOK
  <2>3. CASE kept[c]
    BY <2>3 DEF Alive
  <2>4. CASE RemoveOf(c) \in Queued \/ PerformOf(c) \in Queued
    BY <2>4, JobFacts DEF Alive
  <2>5. CASE handler = RemoveOf(c)
    BY <2>5, JobFacts DEF Alive
  <2> QED
    BY <2>2, <2>3, <2>4, <2>5
<1> QED
  BY <1>1, Inductive, PTL

(* sock_cb runs the callback of a call at most once for each perform,      *)
(* because it takes the context away from curl as it does so.              *)
THEOREM NeverTwice == Spec => []NeverCalledBackTwice
<1>1. ASSUME IInv PROVE NeverCalledBackTwice
  <2> SUFFICES ASSUME NEW c \in Calls PROVE due[c] >= 0
    BY DEF NeverCalledBackTwice
  <2>1. due[c] \in {0, 1}
    BY <1>1 DEF IInv, CallInv, CallOK
  <2> QED
    BY <2>1
<1> QED
  BY <1>1, Inductive, PTL

(* No wake-up is lost: as long as curl watches a descriptor for reading,   *)
(* socket_rx_cb of its call is waited for, queued or running.              *)
THEOREM ReadsKeep == Spec => []ReadsKeepComing
<1>1. IInv => ReadsKeepComing
  BY DEF IInv
<1> QED
  BY <1>1, Inductive, PTL
===========================================================================

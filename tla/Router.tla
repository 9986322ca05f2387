------------------------------ MODULE Router ------------------------------
(***************************************************************************)
(* Class server<> (server/server.h): the handlers an application adds, the *)
(* dispatch of a request to the first that matches, and the number of      *)
(* requests, which the samples read from a thread of their own.  Threads   *)
(* in io_service::run() serve requests; a spinlock guards each handler.    *)
(***************************************************************************)
EXTENDS UriPattern, Functions

CONSTANTS
  Threads,      \* threads in io_service::run()
  Patterns,     \* the patterns the application adds
  Asked,        \* what print_stat may ask get_no_of_requests for
  Urls,         \* the urls of requests
  Wrap,         \* 2^64, the number of values of _nr_of_requests
  Leftovers,    \* what memory may hold that nobody has initialised
  MaxHandlers,  \* bound on add_handler
  MaxCalls      \* bound on the calls of one handler

ASSUME RouterAssumption ==
  /\ Patterns \subseteq Paths /\ Urls \subseteq Paths /\ Asked \subseteq Paths
  /\ Wrap \in Nat \ {0} /\ Leftovers \subseteq 0..Wrap - 1 /\ MaxHandlers \in Nat
  /\ MaxCalls \in Nat /\ MaxHandlers * MaxCalls < Wrap

VARIABLES
  handlers,  \* _handlers2: pattern, _nr_of_requests (started at an
             \* indeterminate value) and the number of calls (history)
  lock,      \* is the _spinlock of a handler taken?
  task,      \* what a thread does, with which url, for which handler
  stat,      \* print_stat on the statistics thread: what it asks for, the
             \* handler get_no_of_requests looks at next, its result so far,
             \* and the last result
  seen       \* history of both results: the handlers they are of, and how
             \* often these had been called when get_no_of_requests began
             \* (low) and when it last looked at a handler (high)
vars == <<handlers, lock, task, stat, seen>>

Index == 1..MaxHandlers
Free == [at |-> "idle", url |-> <<Hash>>, to |-> 0]
Gone == [at |-> "gone", url |-> <<Hash>>, to |-> 0]
Known == DOMAIN handlers
Fetched == MaxHandlers + 1  \* stat.next when there is a result

Handler == [pattern : Patterns, count : 0..Wrap - 1, calls : 0..MaxCalls]
Tasks   == [at : {"idle", "gone"}, url : Paths, to : {0}] \union
           [at : {"spinning", "inside"}, url : Paths, to : Known]

TypeOK ==
  /\ handlers \in Seq(Handler) /\ Len(handlers) <= MaxHandlers
  /\ lock \in [Index -> BOOLEAN]
  /\ task \in [Threads -> Tasks]
  /\ stat \in [asked : Asked, next : 1..Fetched, sum : 0..Wrap - 1, last : 0..Wrap - 1]
  /\ seen \in [of : SUBSET Index, low : Nat, high : Nat,
               lastOf : SUBSET Index, lastLow : Nat, lastHigh : Nat]

(* server() and the threads of the program.  No result is 0 yet, as it     *)
(* would be of no handlers.                                                *)
Init ==
  /\ handlers = <<>>
  /\ lock = [h \in Index |-> FALSE]
  /\ task = [t \in Threads |-> Free]
  /\ stat \in [asked : Asked, next : {Fetched}, sum : {0}, last : {0}]
  /\ seen = [of |-> {}, low |-> 0, high |-> 0, lastOf |-> {}, lastLow |-> 0, lastHigh |-> 0]

(* add_handler.  Nothing guards the vector: it must not grow while another *)
(* thread goes through it.  _nr_of_requests is not initialised.            *)
AddHandler(pattern) ==
  /\ Len(handlers) < MaxHandlers /\ stat.next = Fetched
  /\ \E any \in Leftovers :
       handlers' = Append(handlers, [pattern |-> pattern, count |-> any, calls |-> 0])
  /\ UNCHANGED <<lock, task, stat, seen>>

(* handle_request that calls the handler at the end of the list if none    *)
(* matches.                                                                *)
HandleRequest_CallsEnd(t, url) ==
  /\ task[t].at = "idle"
  /\ \E h \in 1..Len(handlers) + 1 :
       /\ h \in Known => Match(handlers[h].pattern, url)
       /\ \A i \in 1..h - 1 : ~Match(handlers[i].pattern, url)
       /\ task' = [task EXCEPT ![t] = [at |-> "spinning", url |-> url, to |-> h]]
  /\ UNCHANGED <<handlers, lock, stat, seen>>

(* handle_request up to the call of the first handler that matches, which  *)
(* waits for its spinlock.  Without one the reply is a 404.                *)
HandleRequest(t, url) ==
  /\ task[t].at = "idle"
  /\ \/ \E h \in Known :
          /\ Match(handlers[h].pattern, url)
          /\ \A i \in 1..h - 1 : ~Match(handlers[i].pattern, url)
          /\ task' = [task EXCEPT ![t] = [at |-> "spinning", url |-> url, to |-> h]]
     \/ /\ \A i \in Known : ~Match(handlers[i].pattern, url)
        /\ task' = [task EXCEPT ![t] = [at |-> "idle", url |-> url, to |-> 0]]
  /\ UNCHANGED <<handlers, lock, stat, seen>>

(* handler_data::call that counts by starting anew. *)
Call_SetsCount(t) ==
  LET h == task[t].to IN
  /\ task[t].at = "spinning" /\ ~lock[h] /\ handlers[h].calls < MaxCalls
  /\ lock' = [lock EXCEPT ![h] = TRUE]
  /\ handlers' = [handlers EXCEPT ![h].count = 1, ![h].calls = @ + 1]
  /\ task' = [task EXCEPT ![t].at = "inside"]
  /\ UNCHANGED <<stat, seen>>

(* handler_data::call: takes the lock, counts, and is in the user's        *)
(* function.                                                               *)
Call(t) ==
  LET h == task[t].to IN
  /\ task[t].at = "spinning" /\ ~lock[h] /\ handlers[h].calls < MaxCalls
  /\ lock' = [lock EXCEPT ![h] = TRUE]
  /\ handlers' = [handlers EXCEPT ![h].count = (@ + 1) % Wrap, ![h].calls = @ + 1]
  /\ task' = [task EXCEPT ![t].at = "inside"]
  /\ UNCHANGED <<stat, seen>>

(* The end of call if the lock were given back only on return. *)
Leave_ThrowKeepsLock(t) ==
  /\ task[t].at = "inside"
  /\ \/ lock' = [lock EXCEPT ![task[t].to] = FALSE] /\ task' = [task EXCEPT ![t] = Free]
     \/ task' = [task EXCEPT ![t] = Gone] /\ UNCHANGED lock
  /\ UNCHANGED <<handlers, stat, seen>>

(* The user's function returns, or throws and takes the thread out of      *)
(* run(); scoped_lock gives the lock back either way.                      *)
Leave(t) ==
  /\ task[t].at = "inside"
  /\ lock' = [lock EXCEPT ![task[t].to] = FALSE]
  /\ task' \in {[task EXCEPT ![t] = Free], [task EXCEPT ![t] = Gone]}
  /\ UNCHANGED <<handlers, stat, seen>>

(* get_no_of_requests counts the handlers whose pattern matches what is    *)
(* asked for, as if that were a url.                                       *)
Counted == {h \in Known : Match(handlers[h].pattern, stat.asked)}

(* The calls it should count. *)
Calls == [h \in Index |-> IF h \in Counted THEN handlers[h].calls ELSE 0]

(* print_stat keeps the last result and asks again: get_no_of_requests     *)
(* begins.                                                                 *)
Ask ==
  /\ stat.next = Fetched
  /\ stat' = [stat EXCEPT !.next = 1, !.sum = 0, !.last = stat.sum]
  /\ seen' = [of |-> Counted, low |-> SumFunction(Calls), high |-> 0,
              lastOf |-> seen.of, lastLow |-> seen.low, lastHigh |-> seen.high]
  /\ UNCHANGED <<handlers, lock, task>>

(* It looks at the next handler, without its lock. *)
Add ==
  /\ stat.next # Fetched
  /\ LET h == stat.next IN
     stat' = IF h \in Counted
             THEN [stat EXCEPT !.next = @ + 1, !.sum = (@ + handlers[h].count) % Wrap]
             ELSE [stat EXCEPT !.next = @ + 1]
  /\ seen' = [seen EXCEPT !.high = SumFunction(Calls)]
  /\ UNCHANGED <<handlers, lock, task>>

Next ==
  \/ \E pattern \in Patterns : AddHandler(pattern)
  \/ \E t \in Threads, url \in Urls : HandleRequest(t, url)
  \/ \E t \in Threads : Call(t) \/ Leave(t)
  \/ Ask \/ Add

Spec == Init /\ [][Next]_vars

---------------------------------------------------------------------------
(* Properties *)

(* A request goes to the handler that was added first among those whose    *)
(* pattern covers its url by the rules, and to no handler only if none     *)
(* does; no other step starts one.                                         *)
FirstRuleServes ==
  [][\A t \in Threads : task[t].at = "idle" /\ task'[t] # task[t] =>
       LET url == task'[t].url  h == task'[t].to IN
       /\ h = 0 => \A i \in Known : ~Covers(handlers[i].pattern, url)
       /\ h # 0 => /\ Covers(handlers[h].pattern, url)
                   /\ \A i \in 1..h - 1 : ~Covers(handlers[i].pattern, url)]_vars

(* Never two threads in the same handler (the spinlock of handler_data),   *)
(* and the lock is taken exactly while one is, also after an exception:    *)
(* otherwise every later request for the handler would spin for ever.      *)
Inside(h) == {t \in Threads : task[t].at = "inside" /\ task[t].to = h}

HandlersExclusive ==
  \A h \in Index :
    /\ lock[h] <=> Inside(h) # {}
    /\ \A t, u \in Inside(h) : t = u

(* get_no_of_requests reads the counters one after another while they are  *)
(* counted up, so a result belongs to no one moment; and since no          *)
(* constructor sets _nr_of_requests, a result alone says nothing.  But     *)
(* what print_stat computes, stat - last in 64 bits, is how often the      *)
(* handlers were called: no less than from the end of the one count to the *)
(* beginning of the other, no more than from the beginning of the one to   *)
(* the end of the other.  This holds if both counts are of the same        *)
(* handlers; the samples add theirs when the thread is already counting,   *)
(* and the first difference after that is anything.                        *)
StatIsPlausible ==
  stat.next = Fetched /\ seen.of = seen.lastOf =>
    LET difference == (stat.sum - stat.last) % Wrap IN
    /\ seen.low - seen.lastHigh <= difference
    /\ difference <= seen.high - seen.lastLow
===========================================================================

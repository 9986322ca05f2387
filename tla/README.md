# csi-http in TLA+

csi-http is a small C++ library over boost::asio: an HTTP server, an HTTPS
server and an HTTP client that all run on one `io_service`. Its logic is in the
order in which asynchronous handlers run and start one another, with no lock
between them. That is what these modules model. TLC checks them on small
instances (`*.cfg`), and TLAPS proves every safety property of the passing runs for
every value of the constants.

    tlc -config HttpConnection.cfg HttpConnection.tla    # and the other Http*.cfg
    tlc -config HttpsConnection.cfg HttpsConnection.tla  # and HttpsReplyInFlight.cfg
    tlc -config Client.cfg MCHttpClient.tla              # and the other Client*.cfg
    tlc -config RouterDispatch.cfg MCRouter.tla
    tlc -config Exchange.cfg MCExchange.tla
    tlc -config Program.cfg Program.tla
    tlapm HttpConnectionProofs.tla        # and the other *Proofs.tla

All paths below are relative to `src/csi_http/` of the repository.

## 1. The system

| component | state | operations | interacts with |
|---|---|---|---|
| `connection` (server/connection.cpp) | parser, request, reply, `_request_complete`, `_keep_alive`, `_waiting_for_async_reply` | parser callbacks, `http_parse` | base class of the two connections; drives http_parser 2.3 |
| `http_connection` | socket, 16 KB buffer, one `_connection_timeout_timer` | `start`, `handle_read`, `handle_write`, `handle_timer`, `wait_for_async_reply`, `notify_async_reply_done`, `handle_async_reply_done` | started by `http_server`, calls `server::handle_request`, is called back by the application |
| `https_connection` | SSL stream, buffer, one `_timer` with two kinds of wait | the same, plus `handle_handshake`, `handle_async_call`, `handle_shutdown` | as above |
| `http_server`, `https_server` | acceptor, next connection | constructor, `handle_accept` | creates connections |
| `server<T>` (server/server.h) | list of (pattern, handler), per handler a call counter and a spinlock | `add_handler`, `handle_request`, `get_no_of_requests` | called by connections, calls the application |
| `uri_pattern` | parts, catch-all flag | constructor, `match` | used by `server<T>` |
| `request_t`, `reply_t` | url, headers, body, ids; status, headers, content buffers | `reset`, `get_header`, `request_id`, `request_uuid`; `reset`, `create`, `add`, `to_buffers` | written by the parser and the application, read by the write |
| `http_client` | curl multi handle, map of sockets, two timers | `perform`, `perform_async`, `close`, curl's and asio's callbacks | curl 7.35, application threads |
| `call_context` | one transfer: url, headers, buffers, result, callback | `curl_start`, `curl_stop`, readers of the result | owned by the caller, curl and the handlers |
| encodings, status and mime tables, `spinlock` | none of their own | conversions | |
| samples | | main programs: one thread in `io_service::run()` | show how the library is meant to be driven |

### How a request travels

`http_server::handle_accept` starts a connection. `start` begins the first
read. When bytes arrive `handle_read` stops the idle timer and feeds the parser,
whose callbacks reset and fill request and reply. Then one of four things
happens: the bytes do not parse and a 400 goes out; the request is incomplete and
another read starts under the five second timer; the request handler creates its
reply before it returns, and it is written; or the handler calls
`wait_for_async_reply`, and the connection waits (one hour at most) until the
application calls `notify_async_reply_done`. `handle_write` starts the next read
if `keep_alive()` says so. A connection lives for as long as some queued handler
or the application holds a `shared_ptr` to it; there is no list of connections.

### What is hard here

* **Nothing is locked.** Buffer, request and reply are shared by the read, the
  handler, the application and the write. Only the fact that each handler starts
  at most one of these keeps them apart.
* **Cancelling is late.** `cancel` and `expires_from_now` do not reach a
  handler that is already queued: a `handle_timer` with success may run after
  the connection has moved on.
* **Flags outlive their request.** `_request_complete`, `_keep_alive` and
  `_waiting_for_async_reply` are set in one handler and read in another.
* **The client does what it wants**: pipelines, stops in the middle, sends
  garbage, stays silent, resets the connection.
* **Exceptions.** `remote_endpoint()` in a log line throws if the peer is gone,
  and the exception leaves `io_service::run()`.
* **Life times**: the last handler ends the connection; a chain that never ends
  leaks it.

The full list, each entry at its line and with the properties that watch it, is
under "hazards" in PROJECT.json.

### What makes each component correct

* *connections*: half duplex (one of read, write, application at a time); a
  reply that is written was created and does not change meanwhile; exactly one
  reply per request; every read of a client that has spoken before is timed; a
  request that waits for the application is answered; a connection shut down by
  its timer is released; after a parse error nothing reaches the application.
* *server, uri_pattern*: a request goes to the first added handler whose pattern
  matches by the rules of server.h:22-43, else to 404; one thread at a time is in
  a handler, and an exception does not leave its lock taken; the numbers the
  statistics thread computes are numbers of calls.
* *parser callbacks, request*: request fields equal what was sent however it is
  split into reads, and nothing of the previous request is left in them, its id
  included.
* *reply*: the length that is announced is the length that follows, and status
  and content answer this request and no other.
* *servers*: whoever connects is served, while others come and go.
* *client*: each transfer calls back exactly once, no callback uses a deleted
  socket or call, no wake-up is lost, `close` lets `run()` return.

## 2. The modules

| module | models | state |
|---|---|---|
| `HalfDuplex` | abstract specification: client and server take turns | `turn`, `owed` |
| `Connection` | class `connection` and what the parser can report | 5 flags, 2 history variables |
| `HttpConnection` | class `http_connection`; extends `Connection` | operations, timer, application, loop |
| `HttpsConnection` | class `https_connection`; extends `Connection` | the same, plus handshake, shutdown and the cancelled wait |
| `ConnectionProofs` | lemmas about `Connection`: what a read's parse leaves | |
| `HttpConnectionProofs`, `HttpsConnectionProofs` | theorems about the two connections; extend `ConnectionProofs` | |
| `RequestParser` | the parser callbacks of `connection`, in detail, and class `request_t` | request, current header, where the parser is |
| `Reply` | class `reply_t` | none: operators on a reply |
| `Exchange` | from the bytes of a request to those of its reply: `http_connection` with the applications of the HTTP server samples; extends `RequestParser` and `Reply` | what the connection does, reply, wire |
| `MCExchange` | six messages | |
| `ExchangeProofs` | theorems about `Exchange`, `RequestParser` and `Reply` | |
| `EventLoop` | the `io_service` and the thread in `run()` | `loop` |
| `HttpServer` | classes `http_server` and `https_server`: the chain of accepts | acceptor, backlog, connections |
| `ClientLoop` | `perform`, `perform_async`, `close` and the two timers of `http_client` | timers, threads, their calls |
| `Program` | a server, a client or both on one `io_service`; extends `HttpServer` and `ClientLoop` | |
| `ProgramProofs` | theorems about `Program`; extends `QueueProofs` | |
| `UriPattern` | class `uri_pattern` and the rules in its comments | none: operators |
| `Router` | class `server<T>`, its `handler_data` and the statistics thread of the samples; extends `UriPattern` | handlers, locks, one task per thread, two results |
| `RouterProofs` | theorems about `UriPattern` and `Router` | |
| `MCRouter` | patterns and urls | |
| `HttpClient` | classes `http_client` and `call_context`, curl's multi interface | sockets, calls, the handler queue, curl |
| `MCHttpClient` | symmetry | |
| `QueueProofs` | lemmas about queues: appending to them and taking the head | |
| `HttpClientProofs` | theorems about `HttpClient`; extends `QueueProofs` | |

`Connection` and `RequestParser` look at the same callbacks from two sides. The
connections only need to know when a request begins and when it is complete; what
is in it is `RequestParser`'s subject, which does not know about sockets. In the
same way `HttpConnection` has the order of a connection's operations and `Exchange`
its contents, and `HttpClient` has what happens between the client and curl and
`ClientLoop` what the threads of the program see of it. `Exchange` and `Program`
are the compositions: parser, connection, application and reply in one;
acceptors, client, application threads and event loop in the other.
`HalfDuplex` is the abstract specification of both connections, `Covers` in
`UriPattern` that of `match`.

### From code to model

*Asynchronous operations.* `rd`, `wr` (and `hs`, `sd` for HTTPS) stand for one
outstanding operation each: `"pending"` until the environment gives it a result
(`"done"`, `"failed"`, and `"aborted"` where the code cancels); the result is a
handler queued in the `io_service`, and running the handler is one action, which
puts `"none"` back or starts the next operation. `run()` calls handlers in the
order they became ready; the model allows any order, which includes it.

*Timers.* `timer` is the pending wait, `"short"` for five seconds and `"long"`
for an hour. `TimerExpires` turns it into `expired`, a queued
`handle_timer(success)`, which no later cancel takes back. A cancelled wait's
handler does nothing in the code (http_connection.cpp:197-202), so it is not
represented, except for HTTPS's `handle_async_call`, which *acts* when it is
cancelled: `callAborted`.

*Parser.* http_parser is external. What it makes of one read is a record `c` of
`Chunks`: how many messages end in the bytes, whether they stop inside a message,
the keep-alive verdict on the last one, and whether the parser took everything,
stopped at an upgrade, or failed. `Possible(c)` says which parses the parser's
own state admits. `Parse` and `ReplyAfter` are what the callbacks make of it:
`on_message_begin` resets request, reply and `_request_complete`,
`on_message_complete` sets it.

*Application.* `app` is `"working"` from `wait_for_async_reply` until
`notify_async_reply_done` (`"notified"`), which posts
`handle_async_reply_done`. Applications are assumed to keep the contract the
samples show: for each request they wait, they notify once. For HTTPS the
number of requests in the application's hands (`apps`) can exceed one, since the
code sends the reply without waiting for it.

*Reply.* `reply` says what `async_write` would send: no buffer at all (`"null"`,
before the first request), a `"reset"` one (`"empty"`), or a `"created"` one.

*Leaving `run()`.* In the connections, `loop` becomes `"thrown"` when `remote_endpoint()` throws in
`send_reply`, and `"crashed"` when a null buffer is used. Nothing happens
afterwards: the samples' `main` catches and exits.

*History variables.* `owed` counts requests received minus replies written;
`manners` becomes `"ahead"` at the first read in which a client has not waited for
its reply; `prompt` (HTTPS) says that so far every request handler had its reply
ready when it returned. No action reads them in a guard, except `owed` in the
bound of `ReadReady` and `ReadEnds`.

*Pieces of a request* (`RequestParser`). A message is url, headers, body and
trailers; the parser reports its elements in order (`Elements`, `at`) and each text
in as many pieces as the reads cut it into (`off`, `Sizes`). Every callback is an
operator with the piece as its argument, and `Callback` chooses the size. Texts
are sequences of a few characters, since the properties are about cutting and
joining them; `Lower` is `to_lower`. What the code makes of a piece of url that does not
begin with "/" depends on an uninitialised `_parser_url`: refused or lost.
After a body with trailers the code has pushed an empty header and lost the last
trailer (`on_headers_complete` does not reset `_last_header_was_value`); the model
does so too, and `HeadersAsSent` allows it. Names and values stay below
`MAX_HEADER_SIZE`.

*Request ids.* `request_id()` is called by the log lines of `handle_read` and
`send_reply` (`RequestId`, part of `Dispatch` and `RejectBytes`);
`request_uuid()` only by applications, which may do so at any time while they have
the request (`AskUuid`). Both look for the header "request_id" and not for the
tag the connection was constructed with. A generated uuid is `Random`, which stands
for any; the nil uuid sent as text is left out.

*Reply* (`Reply`, `Exchange`). A reply is status, headers and content; `Created`
leaves `extra` headers to the caller, which is 0 in every call of the repository.
`vector::resize` (`Resized`) is why headers of an earlier reply can stay. `wire`
is what `to_buffers` has given to `async_write`.

*Applications of the samples.* `sample` is which server it is. The HTTP sample decodes
(a decoder that throws takes the program down: `phase = "thrown"`), answers at
once or after a delay; the json_spirit sample answers every body it can decode later.
`Dispatch` is the part of `handle_read` all of them share. It runs also without a new
message (a stray empty line): then `asked` is `"no"` and nothing is claimed
about the answer.

*Programs* (`Program`). A call in `ClientLoop` is posted, running, and then answered
or lost; "lost" is finding 6 below, and `HttpClient` has the reasons. `SetTimer` is
`multi_timer_cb`: curl asks for a timeout while a transfer runs, since `_perform`
sets CURLOPT_TIMEOUT_MS for each. A timer whose handler is queued cannot be
cancelled. `lingering` is a read that outlives its call: curl may end a transfer in
`timer_cb`, or in the first of two queued reads, and keep its connection; the read
that is still outstanding keeps `run()` until the peer acts, and then
`socket_rx_cb` does not wait again. `missed` says that `close` came when the
keep-alive handler was already queued. Nobody calls a closed client, and nobody calls `perform` on the
thread that is in `run()`. In `HttpServer` connections are open or over;
`backlog` is the kernel's.

*Patterns* (`UriPattern`). A pattern and a url are the sequences of levels that
`boost::split` makes of them, so the loop of `match` is a quantifier over positions.

*Dispatch* (`Router`). `HandleRequest` is the walk through `_handlers2` up to the
first match, which is one action since the vector does not change meanwhile.
`add_handler` takes no lock: calling it while another thread goes through the
vector would be undefined, so the model lets it run only between such walks. That
includes more than the samples do, which add all handlers before `run()`, but not
their race: they start the statistics thread just before the first `add_handler`.
`Call` is the
moment at which the spinlock is got, `Leave` the end of the user's function by
return or exception. `get_no_of_requests` reads one counter per step (`Add`), a
64-bit load being indivisible on the platforms of the build files. No constructor
sets a counter, though server.h:128 calls it `total_calls`: it starts with whatever was
in memory (`Leftovers`), so a single result of `get_no_of_requests` has no
meaning. What the samples use is `stat - last`, the difference of two results in 64
bits; `stat` keeps both, `Ask` is a turn of `print_stat`'s loop, and the history variable
`seen` remembers of which handlers each is, and how often these had been called
meanwhile. The first difference after an `add_handler` contains the new counter's
initial value and can be anything; nothing is claimed about it. Handlers that
call their own server again while they hold the lock are excluded.

*Client* (`HttpClient`). `queue` is the `io_service`'s queue, in order; that order
is what closesocket_cb relies on when it posts the deletion of a socket, and so it
is kept exactly. A handler that calls curl is `handler` until `CurlReturns`; in
between each callback of curl is an action: `OpenSocket`, `WatchSocket`,
`LeaveSocket` and `CloseSocket` are `opensocket_cb`, the two halves of `sock_cb` and
`closesocket_cb`. What curl may do is in `Reuse`, `Open`, `Watch`, `Leave`,
`Close`, `Finish`: it keeps connections for later calls, gets descriptors again that
were closed, changes the socket of a transfer in the middle (redirect, next
address), and tells before or after it closes a socket that it no longer watches
it. Handlers that get an error return at once and are left out, except that a
wait on a closed socket is never added. Two equal waits are kept once. The
client's `_timer` may expire at any time (`HandleTimer`): `multi_timer_cb` sets it
to whatever curl asks for. A callback may send its own call again
(`again`). Freed call objects may be allocated again, which is
how `PerformAsync` reuses a member of `Calls`.

*Mutants.* A definition named `X_Change` is `X` with one plausible error
(`Arm_NoWait`, `ServeLater_FallsThrough`). It is no part of a specification; it
stands beside `X` to show that a property can fail.

## 3. Runs

| run | expected | shows |
|---|---|---|
| HttpConnection.cfg | pass | all properties of section "Properties" of the module, safety, refinement of `HalfDuplex`, and three liveness properties: timed reads end, the application's answer is handed to the write, a shut connection is released |
| HttpsConnection.cfg | pass | the same questions for HTTPS, of which some hold only while handlers are prompt; a client that falls silent has its shutdown begun (`IdleReadShut`) |
| HttpStaleTimer.cfg | violation | finding 1 |
| HttpStockReply.cfg | violation | finding 2 |
| HttpPipelining.cfg | violation | finding 3 |
| HttpsReplyInFlight.cfg | violation | finding 4 |
| Client.cfg | pass | no handler refers to a deleted socket object, curl is never given an old one, no readable event is lost, and calls live until they are done and call back at most once, while two calls share connections and move between sockets, and the application sends them again or lets go of them |
| ClientContext.cfg | violation | finding 5 |
| ClientRelease.cfg | violation | finding 6 |
| RouterDispatch.cfg | pass | the first rule that covers a url serves it; one thread per handler; the difference of two results is a number of calls |
| Exchange.cfg | pass | requests are put together as they were sent and keep their own id, and each reply is framed and answers its own request, one after another on the same connection |
| Program.cfg | pass | `run()` lasts as long as the client is open, and after `close` ends or is kept by the peers alone; `perform` returns; whoever connects is served |

Deadlock checking is off: a connection that was destroyed, a process that left
`run()`, a parser that gave up, and a server whose bounds are used up rightly stop.

### Bounds

* `MaxPerRead = 2`: messages that end in one read. Two is the smallest number at
  which one request overwrites another; a third overwrites in the same way.
* `MaxOwed = 2`: no read succeeds while `owed` has this distance from 0. `owed`
  leaves 0..1 only when a client pipelines or sends stray bytes; two steps in
  either direction let each such event happen twice. No handler depends on `owed`.
  The proofs hold for every value.
* `MaxApps = 2` (HTTPS): one request whose answer is late while the next one is
  served, and one more.
* `Client.cfg`: two calls, two descriptors, two socket objects, and `MaxUsed = 3`:
  either both calls live and share one descriptor (the connection of one is kept
  and reused by the other), or one call moves between two. Closing and opening
  again gives a reused descriptor another socket object while the old one still
  waits to be deleted. `MaxQueue = 2` (no event of a socket and no
  new call is added to a queue of that length; what handlers post is not bounded by
  it) lets the read and the write of a socket be ready together and behind one
  another's posts. The violation runs have one call.
* `RouterDispatch.cfg`: two handlers of four patterns (alone `#`, a literal,
  a literal with `#`, `+` with a literal), in every order, the same twice
  included; three urls of one to three levels, no two of which are covered by the same
  patterns; one url that is counted; two threads; two calls of each handler; counters
  that start at 0 or at the last value before they wrap (`Leftovers = {0, 4}`). `Wrap = 5` is above `MaxHandlers * MaxCalls = 4`, so
  that counters wrap and differences are still exact, as with 2^64.
* `Exchange.cfg`: six messages, in any order and for ever, cut everywhere.
  They have every combination the callbacks and the samples distinguish: GET and
  POST, served and not, no, one and two headers, an empty value, a query, a body with
  and without Content-Length or none, trailers, a body that decodes to an answer
  at once or later or (for Avro) not at all, an id that is a uuid, one that is
  none, and none, and keep-alive or not. `MaxHeaderSize = 4` is one more than the
  longest value, so `RequestAsSent` (`OneHeaderBuffered`) notices a header that is
  joined to what an earlier one left in the buffers.
* `Program.cfg`: two clients, so that one can wait behind one that is served; two
  threads, of which one closes while the other calls. The model has no bound.

Symmetry is used where no action or property tells values apart: calls,
descriptors and socket objects of the client, threads of the router; these runs
check safety only. The connections have one client and one application, and
liveness.

### Fairness

`run()` keeps calling queued handlers (WF of each handler); a running timer runs
out (WF `TimerExpires`); an application that was given a request answers (WF
`Notify`), which the contract above requires; on a socket that is shut down or
whose peer is gone, an outstanding operation fails (`Broken`). A shut-down socket
may still deliver bytes that were buffered, but finitely many: that is the strong
fairness of `ReadFails`. Nothing is assumed of a live client: it may be silent
for ever, and it may stop reading. Consequently there is no property that a
connection with a live client ends: the first read and every write run without a
timer (two hazards).

`HttpsConnection` assumes only that queued handlers run and that a running timer
runs out.

`Program`: `run()` calls queued handlers and returns when nothing is left, timers
run out, a thread whose promise is set goes on, and the kernel completes an accept when
somebody is in the backlog (WF each). Strong fairness of `TimesOut(t)` is
CURLOPT_TIMEOUT_MS: if `timer_cb` runs again and again while a transfer lasts,
one of these times curl finds its time over. That `timer_cb` does run
again and again is not assumed; it is what `PerformReturns` tests. Peers may
be silent for ever: `HandleSocket` and `ConnectionEnds` have no fairness.

`HttpClient`, `Router` and `Exchange` are checked for safety only and assume no
fairness.

### What the liveness properties of the connections except

`AsyncAnswered` says that the answer of an application is handed to `async_write` on
a socket that is still open, not that the client gets it: a live client may stop
reading. It is not promised when the one hour runs out first or an idle timer that had
already run out cuts the connection (finding 1), nor after an exception has left
`run()`; what becomes of a connection that was shut is `ShutReleased`.
`IdleReadShut` promises less of HTTPS than `IdleReadEnds` of HTTP: `handle_timer` begins
the SSL shutdown and cancels nothing, so whether the read ends is up to the
peer. And that the reply sent to a waiting HTTPS request is the one the
application makes is not so (finding 4); hence no property there corresponds to
`AsyncAnswered`.

### What the liveness properties of `Program` except

They say what the code ensures, and their exceptions what it does not:
`CloseEndsRun` is about a `close` that finds no keep-alive handler queued: such a
handler arms its timer again and `run()` never returns, so the samples' `th.join()`
would not either. Otherwise `run()` returns, or one of two things keeps it for ever,
since `close` touches no socket: transfers that have lost their timer to `close`
(`[]Stranded`), or a read on a connection that curl keeps (`[]lingering`), both only with
peers that stay silent. What the property rules out is anything else, such as a timer
that is armed again, or a transfer that nobody waits for although its timer runs.
`PerformReturns` excepts calls that are lost in curl, a client that was closed meanwhile, and a server in
the same program whose connection has thrown. `ClientsServed` excepts a failed
accept (http_server.cpp:63: no further accept is started) and an exception that
has left `run()`. No comment or test of the repository promises more, so none of
these is reported as a finding.

## 4. What the checks found

1. **A stale timer cuts a connection that waits for the application**
   (`NotCutWhileWaiting`). The idle timer runs out in the same instant as the
   request arrives: both handlers are queued, `handle_read` goes first and
   dispatches, then `handle_timer` shuts the socket down without asking what the
   connection does. The comment at server/http_connection.cpp:115 is "wait very
   long since we cant be dead when async call returns".
2. **A 400 without a reply buffer** (`StockReplyCreated`). The first bytes of a
   connection fail to parse before `on_message_begin` was called; `reply_t` has
   no constructor, its buffer is still null, and `create`, documented at
   server/reply.h:30 as "Get a stock reply.", writes through it.
3. **Pipelined requests are lost** (`NoRequestLost`). Two requests in one read:
   the callbacks of the second overwrite the first, one reply is sent, and the
   connection goes back to reading. README.md:11 of the repository claims support
   of HTTP 1.1, which lets a client send requests without waiting.
4. **The reply to a waiting HTTPS request leaves before it is made**
   (`ReplyStable`). `handle_read` re-arms the one timer after the request
   handler has called `wait_for_async_reply`; that cancels the handler's own
   wait, whose cancellation means "the reply is ready". The application then
   changes the reply during the write, against server/reply.h:36.

5. **The client loses the context of a transfer that goes on**
   (`ContextKnown`). `sock_cb` takes CURL_POLL_REMOVE for the end of the transfer
   and clears CURLOPT_PRIVATE (client/http_client.cpp:185). curl sends it also
   when a transfer leaves one socket for another, as after the redirects
   line 455 asks for; the next `sock_cb` then fails `assert(context)` at line 138.
6. **A call that ends without a socket is never released** (`ReleasedWhenDone`).
   Nothing reads curl's completion messages. If the name does not resolve or the
   socket is closed before curl tells that it leaves it, no
   CURL_POLL_REMOVE for a known socket comes, the call keeps itself for ever
   against the comment at client/http_client.cpp:376, its callback does not run,
   and `perform()` waits for ever.

For HTTPS, the properties whose names begin with `Prompt` say what remains true:
while every handler answers before it returns, replies are created, stable and
reads are timed.

## 5. Proofs

### The connection

`HttpConnectionProofs` proves, for every `MaxPerRead` and `MaxOwed`
(assumption `ConnectionAssumption`: both are positive), from `Spec` without
fairness:

| theorem | property |
|---|---|
| `TypeCorrect` | `[]TypeOK` |
| `HalfDuplexInvariant` | `[]TakesTurns` |
| `OnlyCreatedRepliesSent` | `[]SentReplyCreated` |
| `ReadsAreGuarded` | `[]ReadGuarded` |
| `AwaitsAreGuarded` | `[]AwaitGuarded` |
| `ErrorsNeverServed` | `[]ErrorOnlyRejects` |
| `ReplyStableDuringWrite` | `ReplyStable`, an action property |
| `PoliteRequestsAnswered` | `[]RepliesMatchRequests` |
| `TakesTurnsWithClient` | `ImplementsHalfDuplex`: every step of the connection is a step or a stutter of `HalfDuplex` |
| `Inductive` | `[]IInv`, the strengthening they rest on |

The properties are not inductive one by one. `IInv` joins `StateTypeOK` with
`Safe`: all of the properties, and what ties them together. `TakesTurns`, for
example, needs that a fresh connection that is still being accepted has nothing
outstanding (`AcceptingIsFresh`); `SentReplyCreated` needs that an application
that has notified has created the reply (`NotifiedIsCreated`), and that nobody
resets it in between, which is `TakesTurns` again. The step proof has one case
per action; the case of `HandleRead` splits into its five outcomes.
`owed` is unbounded, so its type is proved apart from the finite flags
(`OwedStep`), and `RepliesMatchRequests` after it, from `IInv`: a polite chunk
adds exactly one request or none (`PoliteChunk`). The refinement then follows
step by step from `IInv` and `RepliesMatchRequests`.

### The dispatcher

`RouterProofs` proves, from `LevelsAssumption` (the two wildcards are different
levels) and `RouterAssumption` (patterns and urls are non-empty sequences of
levels; the bounds are numbers, what memory holds is some value of a counter, and all
calls together, `MaxHandlers * MaxCalls`, stay below `Wrap`, which is 2^64):

| theorem | property |
|---|---|
| `MatchIsCovers` | for all patterns and urls, `Match` is `Covers` |
| `TypeCorrect` | `[]TypeOK` |
| `OneThreadPerHandler` | `[]HandlersExclusive` |
| `FirstRuleIsServed` | `FirstRuleServes`, an action property |
| `StatPlausible` | `[]StatIsPlausible` |

`MatchIsCovers` says that three tests of lengths and a loop are the rule "replace
each `+` by one level and a final `#` by one level or more", which mentions no
lengths: the number of levels `#` stands for is fixed by the lengths of pattern
and url, so the existential in `Covers` has one candidate, and the length tests
say that it is one. `TypeOK /\ HandlersExclusive` is inductive:
a thread enters a handler only with its lock free, and leaving, by return or
exception, frees it. `FirstRuleIsServed` needs `TypeOK` so that `MatchIsCovers`
applies to the handlers in the list.

`StatIsPlausible` speaks of two results, so it needs an invariant for the way to
each (`StatInv`). What a counter started with need not be remembered: it is the
counter less its calls, wrapped around (`Start`), and no step changes that. The
result so far is the sum of these values for the handlers looked at and a number
`c` of calls, up to multiples of `Wrap` (`IsCount`). `Result` bounds `c`: it is
at most the calls of the handlers looked at, and with the calls of those still to come at
least all the calls there were when the count began. A call of a handler that has
been looked at only leaves `c` further below; a call of one that has not raises
what is still to come (`RestGrows`); adding a counter moves both (`AddStep`). When
`Ask` begins the next count, `Result` becomes `LastResult`. For the same handlers the
sums of the start values are equal and fall out of the difference (`DifferenceWraps`);
and only because all calls together are fewer than `Wrap` does it name one number.
The sums are the library's fold over sets, which takes the
elements in an order of its own: `SumOf` shows that the order does not matter, and
`SumTo`, `SumGrows` and `SumBounded` follow by induction over positions. The
inductions use the set that contains 0 and each successor (`AllNumbers`) and, for
finite sets, the one that contains what its smaller sets give it (`AllSubsets`),
both from the library's well-founded orders.

### The HTTPS connection

`HttpsConnectionProofs` proves, for every `MaxPerRead`, `MaxOwed` and `MaxApps`:

| theorem | property |
|---|---|
| `TypeCorrect` | `[]TypeOK` |
| `OneChain` | `[]OneIoChain` |
| `WaitingFlagExact` | `[]WaitingExact` |
| `PromptRepliesCreated`, `PromptReadsGuarded` | `[]PromptReplyCreated`, `[]PromptReadGuarded` |
| `PromptReplyStableDuringWrite` | `PromptReplyStable`, an action property |
| `PoliteRequestsAnswered` | `[]RepliesMatchRequests`: a request that has arrived is answered once, with whatever reply |
| `TakesTurnsWithClient` | `ImplementsHalfDuplex` |
| `Inductive` | `[]IInv` |

The proof has the shape of the one above. `IInv` needs two more phases in which
nothing may be outstanding (`AcceptingIsFresh`, `HandshakeIsFresh`), and
`PromptIsIdle`: while every handler has been prompt the application holds nothing,
so nobody is left who could change the reply during the write. That a late
notification sends nothing is `WaitingExact`: the flag falls in the same step in
which the cancelled wait's handler runs.

### The request and its reply

`ExchangeProofs` proves, for every set of messages, every way to cut them into
pieces, every length of header buffers and every decoder:

| theorem | property |
|---|---|
| `TypeCorrect` | `[]ExchangeTypeOK` |
| `RequestsAsSent` | `[]RequestAsSent` |
| `RequestsIdentified` | `[]RequestIdentified` |
| `RepliesFramed` | `[]ReplyFramed` |
| `AnswersRequest` | `[]AnswersThisRequest` |
| `Inductive` | `[]IInv` |

`RequestAsSent` has two parts. At every moment no more than one header of the
message is in the header buffers (`OneHeaderBuffered`) and the headers stored so far are
in order. A complete request has the method and body that were sent and the
headers, which trailers may follow; its url is claimed only if it was cut in front
of slashes of its path (the code parses each piece as a url). The theorem rests on
`MessagesAssumption`, in which names and values are shorter than `MAX_HEADER_SIZE`: the
code compares no length with it, and what longer ones do is undefined behaviour, so the
theorem says nothing of them. That only such a name or value can overrun the buffers is
what `OneHeaderBuffered` shows.

Most of `RequestAsSent` speaks of a complete request. Before that, `IInv` says what has been
stored when the parser is at element `at` with `off` characters of it reported
(`ParserInv`): which headers are in the list and which one is still in the
buffers (`HeadersSoFar`), that in the trailers the buffers hold pieces of the present
element only (`BuffersSoFar`), and that url, query and body are those of the part
read so far (`RestSoFar`). `ReplyInv` ties the headers of a created reply to its
content until `to_buffers` has taken both; `AnswerInv` says that a request which
waits for its answer is one that gets it; `IdInv` that the ids are unknown until the
request is dispatched.

The argument has three layers. Lemmas about data: `ElementsOf`, `ElementAt`
and `KindFacts` say where the elements of a message are, `StoredFacts` and
`PrefixFacts` what its first `k` headers are, and `PathJoins` is why `on_url`,
which parses each piece of a url by itself, still stores its path and its query as
long as it is cut only in front of a slash of its path (`clean`). Then one step lemma per callback (`UrlStep` to
`CompleteStep`), joined in `CallbackStep`; then one per action of `Exchange`,
joined in `NextStep`. `get_header` and the search for `?` take the first
match; that there is one is `LeastExists`, which gets the least element of a set of
natural numbers from the well-founded order on them.

Of the constants it assumes `MessagesAssumption` and `ExchangeAssumption`. Two parts
of the former are there because proofs failed without them: an empty text is
no uuid (`request_uuid` would find none again and again), and
`MAX_HEADER_SIZE` (connection.h:26) is positive.

### The client

`HttpClientProofs` proves, for any number of calls, descriptors and socket objects
and a queue of any length (assumption `ClientAssumption`: `None` and `"cache"` are
not among them, and `MaxQueue` is positive):

| theorem | property |
|---|---|
| `TypeCorrect` | `[]TypeOK` |
| `SocketsOutlive` | `[]SocketsOutliveHandlers` |
| `AssignedMapped` | `[]AssignedIsMapped` |
| `CallOutlives` | `[]CallOutlivesTransfer` |
| `NeverTwice` | `[]NeverCalledBackTwice` |
| `ReadsKeep` | `[]ReadsKeepComing` |
| `Inductive` | `[]IInv` |

`IInv` has four parts beyond the types. `Proper` is about the order of the queue: no
handler of a socket is behind the deletion of its object (`DeletedLast`), and
neither a deletion nor a call to curl is posted twice (`QueuedOnce`). `SockInv`:
an object is in the map under one descriptor while it is open and closed from then
until its deletion; with `DeletedLast` no handler meets a deleted one. `CallInv`
says of each call who keeps it alive: itself as long as CURLOPT_PRIVATE is set, and
then the handler that will remove it. It also says that a callback is owed exactly
while the call is posted or kept, hence at most once. `UserInv`: curl watches
a descriptor only for a call whose transfer it has. `ReadsKeepComing` is
inductive with these. There is one lemma per action; `Post` and `Pop` say what a
step that only lengthens or shortens the queue keeps.

### The program

`ProgramProofs` proves, for any number of clients and threads, `TypeCorrect`
(`[]ProgramTypeOK`), `RunLasts` (`[]RunLastsUntilClose`) and `Inductive`
(`[]IInv`). `RunLastsUntilClose` is inductive with `KeptAlive`: only `close`
cancels the keep-alive timer, so until then the timer or its queued handler is work
for `run()`.

### Only model-checked

* Everything with fairness, which is out of the prover's reach: `IdleReadEnds`,
  `AsyncAnswered`, `ShutReleased`, `IdleReadShut`, `CloseEndsRun`, `PerformReturns`,
  `ClientsServed`.

## 6. Not modelled

* http_parser, curl, boost and the kernel are external: only what the code can
  observe of them is modelled. The library versions are those of
  `doc/third_part_versions`.
* `handle_shutdown` of `http_connection` is bound to nothing.
* The texts of status lines, headers and mime types, and the Avro and JSON formats:
  conversions without state. Of a body the model knows whether a decoder accepts it
  and what answer it asks for.
* The stock texts of reply.cpp:149-276, which nothing uses, and the `extra_headers`
  of `create`, which every caller leaves at 0.
* More than one thread in `run()`. The samples have one. `Router` considers several
  because handler_data has a lock for them, and the thread of the
  samples that prints statistics. `notify_async_reply_done` of `http_connection`
  may be called from another thread, and is modelled so (it posts). Nothing else
  in the connections or the client is locked or modelled for several threads.
* Of the client: the destructor's `curl_multi_cleanup`, the result fields, headers
  and body buffers of a call, and `perform()` on the thread in `run()`, where it
  would wait for itself.
* `connection_count` of connections and calls, which only log lines read; a stopped
  acceptor, since the servers have no `stop`; resolving and binding.
* The HTTPS server sample has the request handler of the HTTP one with another encoding;
  the asynchronous client samples differ from `avro_http_client_sample` in the calls
  they make.
* Of the router: a handler that is dispatched to again by its own thread, which
  would spin for ever.
* Header names and values of `MAX_HEADER_SIZE` and more: the callbacks write past
  their arrays then (connection.cpp:119, 132-133), which has no defined behaviour.

## 7. Plan

In this order:

1. Request parser: the assertion at server/request.h:31 read in a handler of a
   request without Content-Length, and trailers, as runs of their own.
2. A call that its callback sends again while curl still has it: `add_handle` is
   refused and the second callback never comes.
3. A refinement between `HttpClient` and the calls of `ClientLoop`.

------------------------------ MODULE Exchange ------------------------------
(***************************************************************************)
(* One http_connection from the bytes of a request to the bytes of its     *)
(* reply: the parser callbacks (RequestParser), handle_read, an            *)
(* application, the reply it creates (Reply) and handle_write.  Timers,    *)
(* errors of the socket and the loss of the client are in HttpConnection;  *)
(* here it is the contents that matter.  The applications are those of the *)
(* repository's server samples, which end the request in every way the     *)
(* library knows: at once, later, by the 404 of the server, or by an       *)
(* exception.                                                              *)
(***************************************************************************)
EXTENDS RequestParser, Reply, FiniteSets

CONSTANTS
  Rest,      \* the url the application is registered for
  Decoded,   \* the bodies avro's decoder accepts, with what it makes of them
  Objects,   \* the bodies json_spirit accepts
  Greeting,  \* what the avro samples answer later
  Nothing    \* nothing is on the wire

ASSUME ExchangeAssumption ==
  /\ Rest \in Text /\ Greeting \in Text /\ Objects \subseteq Text
  /\ \A b \in DOMAIN Decoded :
       b \in Text /\ Decoded[b] \in [message : Text, delay : {"none", "some"}]

VARIABLES
  sample,  \* which application this is: that of avro_http_server_sample or of
           \* json_spirit_http_server_sample
  phase,   \* what the connection does: reading, working (the application
           \* has the request), notified, writing, over, or the exception of
           \* a handler has left io_service::run()
  reply,   \* _reply
  wire,    \* the reply that is being written
  asked    \* history: is the last message complete, or taken to be answered?

exchange == <<sample, phase, reply, wire, asked>>
evars == <<vars, exchange>>

ExchangeTypeOK ==
  /\ TypeOK
  /\ sample \in {"avro", "json"}
  /\ phase \in {"reading", "working", "notified", "writing", "over", "thrown"}
  /\ reply.status \in Statuses \union {"undefined"}
  /\ reply.content \in Text \union {NoBuffer}
  /\ wire # Nothing => wire.status \in Statuses /\ wire.content \in Text
  /\ asked \in {"no", "complete", "taken"}

ExchangeInit ==
  /\ Init
  /\ sample \in {"avro", "json"}
  /\ phase = "reading" /\ reply = NewReply /\ wire = Nothing /\ asked = "no"

---------------------------------------------------------------------------
(* Reading *)

(* The rest of on_message_begin: the reply is reset with the request. *)
MessageBegins ==
  /\ phase = "reading" /\ OnMessageBegin
  /\ reply' = Reset(reply) /\ asked' = "no"
  /\ UNCHANGED <<sample, phase, wire>>

ParserReports ==
  /\ phase = "reading" /\ Callback
  /\ asked' = IF requestComplete' THEN "complete" ELSE asked
  /\ UNCHANGED <<sample, phase, reply, wire>>

(* send_reply of reply r *)
SendReply(r) ==
  LET whole == IF keepAlive THEN r ELSE Added(r, Header("Connection", "close"))
  IN  reply' = whole /\ wire' = ToBuffers(whole) /\ phase' = "writing"

(* handle_read, bad parse: on_url has refused its piece, or the parser     *)
(* refuses the bytes at any other place, for good.  Before the first       *)
(* message there is no buffer to create the 400 in (see HttpConnection).   *)
RejectBytes ==
  /\ phase = "reading" /\ reply.content # NoBuffer
  /\ refused' = TRUE /\ asked' = "no"
  /\ SendReply(Created(reply, "bad_request", "text/html", 0))
  /\ RequestId
  /\ UNCHANGED <<target, headers, body, contentLength, method, current, verdict,
                 sent, at, off, clean, sample>>

---------------------------------------------------------------------------
(* The request is complete: handle_request *)

(* handle_read with a complete request: one that has just ended, or, after *)
(* a stray empty line, what handle_write has left of the one before.       *)
Dispatch ==
  /\ phase = "reading" /\ requestComplete /\ ~refused
  /\ asked' = (IF asked = "complete" THEN "taken" ELSE "no")
  /\ RequestId
  /\ UNCHANGED <<target, headers, body, contentLength, method, current, verdict,
                 parser, sample>>

(* No pattern matches: server<>::handle_request creates the 404. *)
NotFound ==
  /\ Dispatch /\ url # Rest
  /\ SendReply(Created(reply, "not_found", "text/html", 0))

(* avro_json_decode returns, or else throws; json_spirit_decode returns    *)
(* true or false.                                                          *)
AvroDecodes == body \in DOMAIN Decoded
JsonDecodes == body \in Objects

(* avro_http_server_sample: only POST; the decoder throws, and nothing     *)
(* below run() catches that; without a delay the reply is written and then *)
(* created, with one sample_service::post waits.                           *)
AvroHandleRequest ==
  /\ Dispatch /\ sample = "avro" /\ url = Rest
  /\ \/ /\ method # "POST"
        /\ SendReply(Created(reply, "bad_request", "text/html", 0))
     \/ /\ method = "POST" /\ ~AvroDecodes
        /\ phase' = "thrown" /\ UNCHANGED <<reply, wire>>
     \/ /\ method = "POST" /\ AvroDecodes /\ Decoded[body].delay = "none"
        /\ SendReply(Created(Written(reply, Decoded[body].message), "ok", "text/html", 0))
     \/ /\ method = "POST" /\ AvroDecodes /\ Decoded[body].delay = "some"
        /\ phase' = "working" /\ UNCHANGED <<reply, wire>>

(* json_spirit_http_server_sample: only POST, and every request waits. *)
JsonHandleRequest ==
  /\ Dispatch /\ sample = "json" /\ url = Rest
  /\ \/ /\ method # "POST" \/ ~JsonDecodes
        /\ SendReply(Created(reply, "bad_request", "text/html", 0))
     \/ /\ method = "POST" /\ JsonDecodes
        /\ phase' = "working" /\ UNCHANGED <<reply, wire>>

---------------------------------------------------------------------------
(* The answer that comes later *)

(* sample_service::_handle_post of the avro sample, with create before     *)
(* encode.                                                                 *)
AvroHandlePost_CreatesFirst ==
  /\ phase = "working" /\ sample = "avro" /\ phase' = "notified"
  /\ reply' = Written(Created(reply, "ok", "text/html", 0), Greeting)
  /\ UNCHANGED <<vars, sample, wire, asked>>

(* sample_service::_handle_post of the avro sample: encode, create, and    *)
(* notify_async_reply_done.                                                *)
AvroHandlePost ==
  /\ phase = "working" /\ sample = "avro" /\ phase' = "notified"
  /\ reply' = Created(Written(reply, Greeting), "ok", "text/html", 0)
  /\ UNCHANGED <<vars, sample, wire, asked>>

(* The same of the json_spirit sample, which has no content. *)
JsonHandlePost ==
  /\ phase = "working" /\ sample = "json" /\ phase' = "notified"
  /\ reply' = Created(reply, "ok", "text/html", 0)
  /\ UNCHANGED <<vars, sample, wire, asked>>

(* An application that has the request may ask for its uuid. *)
AskUuid ==
  /\ phase \in {"working", "notified"} /\ RequestUuid
  /\ UNCHANGED <<target, headers, body, contentLength, method, current, verdict,
                 parser, exchange>>

(* handle_async_reply_done *)
HandleAsyncReplyDone ==
  /\ phase = "notified" /\ SendReply(reply)
  /\ UNCHANGED <<vars, sample, asked>>

(* handle_write: reset both and read on, or end. *)
HandleWrite ==
  /\ phase = "writing" /\ wire' = Nothing /\ asked' = "no"
  /\ IF keepAlive
     THEN /\ reply' = Reset(reply) /\ ResetRequest
          /\ phase' = "reading"
     ELSE phase' = "over" /\ UNCHANGED <<request, reply>>
  /\ UNCHANGED <<current, verdict, parser, sample>>

ExchangeNext ==
  \/ MessageBegins \/ ParserReports \/ RejectBytes
  \/ NotFound \/ AvroHandleRequest \/ JsonHandleRequest
  \/ AvroHandlePost \/ JsonHandlePost \/ AskUuid \/ HandleAsyncReplyDone
  \/ HandleWrite

Spec == ExchangeInit /\ [][ExchangeNext]_evars

---------------------------------------------------------------------------
(* Properties *)

(* However a request is cut into pieces, and whatever the connection has   *)
(* received before, the fields the callbacks fill are those of this        *)
(* message when it is complete, and as long as it is being answered:       *)
(* method and body always; the url if every cut was in front of a "/" of   *)
(* its path; the headers, behind which trailers may follow.  And no        *)
(* callback leaves the text of one header in the buffers of the next.      *)
RequestAsSent ==
  /\ OneHeaderBuffered
  /\ at # 0 => HeadersInOrder
  /\ asked # "no" => MethodAsSent /\ UrlAsSent /\ HeadersAsSent /\ BodyAsSent

(* The id of a request is never that of an earlier one: it is the one its  *)
(* own headers hold, or a generated one, though request_id and request_uuid*)
(* cache what they find, in two fields, in either order of the calls.  A   *)
(* uuid, once there, agrees with the id the log shows.                     *)
RequestIdentified ==
  /\ requestUuid \in {NoText, requestId}
  /\ asked = "taken" =>
       LET id == GetHeader(IdHeader) IN
       \/ requestId = id /\ id # NoText
       \/ requestId = Random /\ id \notin Uuids

HeaderValues(r, name) == {r.headers[i].value : i \in {j \in DOMAIN r.headers : r.headers[j].name = name}}
HeaderCount(r, name) == Cardinality({j \in DOMAIN r.headers : r.headers[j].name = name})

(* Every reply that goes over the wire, on a connection that has been used *)
(* for others before, has exactly one Content-Length, and it is the number *)
(* of bytes that follow; a Content-Type iff bytes follow.  The length is   *)
(* fixed by create and the bytes by to_buffers, later.                     *)
ReplyFramed ==
  wire # Nothing =>
    /\ HeaderCount(wire, "Content-Length") = 1
    /\ HeaderValues(wire, "Content-Length") = {Len(wire.content)}
    /\ HeaderCount(wire, "Content-Type") = IF wire.content = <<>> THEN 0 ELSE 1

(* What a client should get for message m. *)
Accepted(m) == m.method = "POST" /\ m.body \in IF sample = "avro" THEN DOMAIN Decoded ELSE Objects
ExpectedStatus(m) ==
  IF PathOf(m.url) # Rest THEN "not_found" ELSE IF Accepted(m) THEN "ok" ELSE "bad_request"
ExpectedContent(m) ==
  IF ExpectedStatus(m) # "ok" \/ sample = "json" THEN <<>>
  ELSE IF Decoded[m.body].delay = "some" THEN Greeting ELSE Decoded[m.body].message

(* The reply to a request answers this request and no other: status and    *)
(* content are functions of the message the client sent, whatever went     *)
(* over the connection before; and the client is told of the close iff it  *)
(* did not ask to keep the connection.                                     *)
AnswersThisRequest ==
  wire # Nothing /\ asked = "taken" /\ clean =>
    /\ wire.status = ExpectedStatus(sent)
    /\ wire.content = ExpectedContent(sent)
    /\ HeaderValues(wire, "Connection") = IF sent.keep THEN {} ELSE {"close"}
===========================================================================

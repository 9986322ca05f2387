--------------------------- MODULE RequestParser ---------------------------
(***************************************************************************)
(* How the callbacks of class connection (server/connection.cpp) put a     *)
(* request together from the pieces in which it arrives.  http_parser is   *)
(* external: it reports the elements of a message in their order, and each *)
(* text in as many pieces as the reads cut it into.                        *)
(***************************************************************************)
EXTENDS Integers, Sequences, SequencesExt

CONSTANTS
  Chars,          \* the characters that messages are made of
  Slash,          \* "/"
  Question,       \* "?"
  Lower,          \* to_lower of a character
  Messages,       \* the messages clients send: method, url, headers, body,
                  \* whether there is a Content-Length, trailers after the
                  \* body, and whether the connection is to be kept alive
  MaxHeaderSize,  \* MAX_HEADER_SIZE.  The callbacks compare no length with
                  \* it: only messages whose names and values are shorter
                  \* have a defined behaviour, and a model
  Methods,        \* the methods of requests
  IdHeader,       \* "request_id", the header request_id() looks for
  Uuids,          \* the texts that are uuids
  Random          \* a generated uuid; each is taken for the same

Text == Seq(Chars)
Field == [name : Text, value : Text]
NoText == <<>>

ASSUME MessagesAssumption ==
  /\ Slash \in Chars /\ Question \in Chars \ {Slash}
  /\ Lower \in [Chars -> Chars]
  /\ MaxHeaderSize \in Nat \ {0}
  /\ Messages \subseteq [method : Methods, url : Text, headers : Seq(Field), body : Text,
                         sized : BOOLEAN, trailers : Seq(Field), keep : BOOLEAN]
  /\ IdHeader \in Text /\ Uuids \subseteq Text \ {NoText} /\ Random \in Uuids
  /\ \A m \in Messages :
       /\ m.url # <<>> /\ Head(m.url) = Slash
       /\ m.sized => m.trailers = <<>>
       /\ \A f \in ToSet(m.headers \o m.trailers) :
            f.name # <<>> /\ Len(f.name) < MaxHeaderSize /\ Len(f.value) < MaxHeaderSize

VARIABLES
  \* the code
  url, query,       \* _request._url, _request._query
  headers,          \* _request._headers
  body,             \* _request._avro_rx_buffer
  contentLength,    \* _request._content_length
  method,           \* _request._method, undefined at first
  requestId,        \* _request._request_id, found or made up on demand
  requestUuid,      \* _request._request_uuid, as a text; NoText is the nil uuid
  key, val,         \* _current_header_key and _val, with their lengths
  lastWasValue,     \* _last_header_was_value
  requestComplete,  \* _request_complete
  keepAlive,        \* _keep_alive
  \* the parser
  sent,             \* the message that is parsed, or was parsed last
  at, off,          \* the element reported next (0 between messages) and how
                    \* much of its text has been reported
  refused,          \* has on_url made the parser give up?
  clean             \* history: was the url cut only in front of a "/" of its
                    \* path?

target  == <<url, query>>
ids     == <<requestId, requestUuid>>
request == <<target, headers, body, contentLength, method, ids>>
verdict == <<requestComplete, keepAlive>>
current == <<key, val, lastWasValue>>
parser  == <<sent, at, off, refused, clean>>
vars    == <<request, current, verdict, parser>>

Unknown == -1  \* 2^64 - 1, the parser's content_length if none was given

TypeOK ==
  /\ url \in Text /\ query \in Text /\ body \in Text
  /\ headers \in Seq(Field)
  /\ contentLength \in Nat \union {Unknown}
  /\ method \in Methods
  /\ requestId \in Text /\ requestUuid \in Uuids \union {NoText}
  /\ key \in Text /\ val \in Text
  /\ lastWasValue \in BOOLEAN /\ requestComplete \in BOOLEAN /\ keepAlive \in BOOLEAN
  /\ sent \in Messages /\ at \in Nat /\ off \in Nat
  /\ refused \in BOOLEAN /\ clean \in BOOLEAN

(* The constructors; the header buffers are set before they are used. *)
Init ==
  /\ url = <<>> /\ query = <<>> /\ headers = <<>> /\ body = <<>>
  /\ contentLength = 0 /\ method \in Methods
  /\ requestId = NoText /\ requestUuid = NoText
  /\ key = <<>> /\ val = <<>> /\ lastWasValue = FALSE
  /\ requestComplete = FALSE /\ keepAlive = FALSE
  /\ sent \in Messages /\ at = 0 /\ off = 0
  /\ refused = FALSE /\ clean = TRUE

---------------------------------------------------------------------------
(* The parser *)

Lowered(text) == [i \in DOMAIN text |-> Lower[text[i]]]

Element(kind, text) == [kind |-> kind, text |-> text]
Fields(fields) ==
  [i \in 1..2 * Len(fields) |->
    IF i % 2 = 1 THEN Element("field", fields[(i + 1) \div 2].name)
                 ELSE Element("value", fields[i \div 2].value)]

(* What the parser reports of a message after it has begun. *)
Elements(m) ==
  <<Element("url", m.url)>> \o Fields(m.headers) \o <<Element("headersComplete", <<>>)>>
    \o (IF m.body = <<>> THEN <<>> ELSE <<Element("body", m.body)>>)
    \o Fields(m.trailers) \o <<Element("complete", <<>>)>>

Now == Elements(sent)[at]
Piece(n) == SubSeq(Now.text, off + 1, off + n)

(* A piece is empty only if the whole text is. *)
Sizes == {n \in 0..Len(Now.text) - off : n > 0 \/ Now.text = <<>>}

Advance(n) ==
  /\ IF off + n < Len(Now.text) THEN at' = at /\ off' = off + n
     ELSE /\ off' = 0
          /\ at' = IF at = Len(Elements(sent)) THEN 0 ELSE at + 1
  /\ UNCHANGED sent

(* http_parser_parse_url splits a text that begins with "/" into path and  *)
(* query.                                                                  *)
Mark(text) == SelectInSeq(text, LAMBDA c : c = Question)
PathOf(text)  == IF Mark(text) = 0 THEN text ELSE SubSeq(text, 1, Mark(text) - 1)
QueryOf(text) == IF Mark(text) = 0 THEN <<>> ELSE SubSeq(text, Mark(text) + 1, Len(text))

---------------------------------------------------------------------------
(* The callbacks *)

(* request_t::reset that keeps the body. *)
ResetRequest_KeepsBody ==
  /\ url' = <<>> /\ query' = <<>> /\ headers' = <<>>
  /\ contentLength' = 0
  /\ requestId' = NoText /\ requestUuid' = NoText
  /\ UNCHANGED <<body, method>>

(* request_t::reset that keeps the id. *)
ResetRequest_KeepsId ==
  /\ url' = <<>> /\ query' = <<>> /\ headers' = <<>> /\ body' = <<>>
  /\ contentLength' = 0
  /\ UNCHANGED <<method, ids>>

(* request_t::reset; the method stays. *)
ResetRequest ==
  /\ url' = <<>> /\ query' = <<>> /\ headers' = <<>> /\ body' = <<>>
  /\ contentLength' = 0
  /\ requestId' = NoText /\ requestUuid' = NoText
  /\ UNCHANGED method

(* on_message_begin, on the first byte of the next message. *)
OnMessageBegin ==
  /\ at = 0 /\ ~refused
  /\ ResetRequest
  /\ key' = <<>> /\ val' = <<>> /\ lastWasValue' = FALSE
  /\ requestComplete' = FALSE /\ UNCHANGED keepAlive
  /\ sent' \in Messages /\ at' = 1 /\ off' = 0
  /\ clean' = TRUE /\ UNCHANGED refused

(* on_url: each piece is parsed as a url of its own.  One that does not    *)
(* begin with "/" is refused, or leaves the path out: the result depends on*)
(* what _parser_url held before.                                           *)
OnUrl(piece) ==
  /\ IF Head(piece) = Slash
     THEN /\ url' = url \o PathOf(piece) /\ query' = query \o QueryOf(piece)
          /\ UNCHANGED refused
     ELSE /\ refused' \in BOOLEAN
          /\ UNCHANGED <<url, query>>
  /\ clean' = (clean /\ Head(piece) = Slash /\ (Mark(sent.url) = 0 \/ off < Mark(sent.url)))
  /\ UNCHANGED <<headers, body, contentLength, method, ids, current, verdict>>

(* The current header is complete: it goes to the request in lower case. *)
Push == headers' = Append(headers, [name |-> Lowered(key), value |-> Lowered(val)])

(* on_header_field that does not reset the length of the value. *)
OnHeaderField_KeepsValue(piece) ==
  /\ IF lastWasValue THEN Push /\ key' = piece
                     ELSE key' = key \o piece /\ UNCHANGED headers
  /\ lastWasValue' = FALSE
  /\ UNCHANGED <<target, body, contentLength, val, method, ids, verdict, refused, clean>>

(* on_header_field: the first piece after a value begins a new header. *)
OnHeaderField(piece) ==
  /\ IF lastWasValue THEN Push /\ key' = piece /\ val' = <<>>
                     ELSE key' = key \o piece /\ UNCHANGED <<headers, val>>
  /\ lastWasValue' = FALSE
  /\ UNCHANGED <<target, body, contentLength, method, ids, verdict, refused, clean>>

(* on_header_value *)
OnHeaderValue(piece) ==
  /\ val' = val \o piece
  /\ lastWasValue' = TRUE
  /\ UNCHANGED <<request, key, verdict, refused, clean>>

(* on_headers_complete: the last header goes to the request;               *)
(* _last_header_was_value stays.                                           *)
OnHeadersComplete ==
  /\ IF lastWasValue THEN Push /\ key' = <<>> /\ val' = <<>>
                     ELSE UNCHANGED <<headers, key, val>>
  /\ contentLength' = IF sent.sized THEN Len(sent.body) ELSE Unknown
  /\ method' = sent.method
  /\ UNCHANGED <<target, body, ids, lastWasValue, verdict, refused, clean>>

(* on_body *)
OnBody(piece) ==
  /\ body' = body \o piece
  /\ UNCHANGED <<target, headers, contentLength, method, ids, current, verdict, refused, clean>>

(* on_message_complete *)
OnMessageComplete ==
  /\ requestComplete' = TRUE /\ keepAlive' = sent.keep
  /\ UNCHANGED <<request, current, refused, clean>>

(* The parser reports the next piece of the element it is in. *)
Callback ==
  /\ at # 0 /\ ~refused
  /\ \E n \in Sizes :
       /\ \/ Now.kind = "url" /\ OnUrl(Piece(n))
          \/ Now.kind = "field" /\ OnHeaderField(Piece(n))
          \/ Now.kind = "value" /\ OnHeaderValue(Piece(n))
          \/ Now.kind = "headersComplete" /\ OnHeadersComplete
          \/ Now.kind = "body" /\ OnBody(Piece(n))
          \/ Now.kind = "complete" /\ OnMessageComplete
       /\ Advance(n)

---------------------------------------------------------------------------
(* The request as the application and the log see it *)

(* get_header; the names in headers are in lower case. *)
GetHeader(name) ==
  LET hit == SelectInSeq(headers, LAMBDA f : f.name = Lowered(name))
  IN  IF hit = 0 THEN NoText ELSE headers[hit].value

(* request_id that takes the client's id for a uuid without a look. *)
RequestId_TakesAnyUuid ==
  LET id == GetHeader(IdHeader) IN
  IF requestId # NoText THEN UNCHANGED ids
  ELSE IF id = NoText THEN requestId' = Random /\ requestUuid' = Random
  ELSE requestId' = id /\ requestUuid' = id

(* request_id: the id found before, the client's, or a generated one. *)
RequestId ==
  LET id == GetHeader(IdHeader) IN
  IF requestId # NoText THEN UNCHANGED ids
  ELSE IF id = NoText THEN requestId' = Random /\ requestUuid' = Random
  ELSE requestId' = id /\ requestUuid' = IF id \in Uuids THEN id ELSE NoText

(* request_uuid: an id of the client's that is no uuid is replaced. *)
RequestUuid ==
  LET id == GetHeader(IdHeader) IN
  IF requestUuid # NoText THEN UNCHANGED ids
  ELSE LET found == IF id \in Uuids THEN id ELSE Random
       IN  requestId' = found /\ requestUuid' = found

---------------------------------------------------------------------------
(* What is to hold of a request; module Exchange says when *)

(* Its url is the one that was sent if every cut was in front of a "/" of  *)
(* the path: what is left of on_url, which parses each piece by itself.    *)
UrlAsSent == clean => url = PathOf(sent.url) /\ query = QueryOf(sent.url)

LoweredFields(fields) ==
  [i \in DOMAIN fields |-> [name |-> Lowered(fields[i].name), value |-> Lowered(fields[i].value)]]

(* The headers so far are those of this message, each once and in order.   *)
HeadersInOrder ==
  \/ IsPrefix(headers, LoweredFields(sent.headers))
  \/ IsPrefix(LoweredFields(sent.headers), headers)

(* _current_header_key and _val hold one header at a time, or as much of   *)
(* it as has arrived, and nothing of the one before: however many headers  *)
(* a message has, they never need more room than one of them.              *)
OneHeaderBuffered ==
  \/ key = <<>> /\ val = <<>>
  \/ \E f \in ToSet(sent.headers \o sent.trailers) :
       IsPrefix(key, f.name) /\ IsPrefix(val, f.value)

(* Method and keep-alive are those of this message, not of an earlier one. *)
MethodAsSent == method = sent.method /\ keepAlive = sent.keep

(* All headers are there, the last one too; trailers may follow them.      *)
HeadersAsSent ==
  /\ IsPrefix(LoweredFields(sent.headers), headers)
  /\ sent.trailers = <<>> => Len(headers) = Len(sent.headers)

(* The body is the one that was sent, and if there was a Content-Length    *)
(* the assertion of request_t::content_length (request.h:31) holds.        *)
BodyAsSent ==
  /\ body = sent.body
  /\ sent.sized /\ contentLength > 0 => Len(body) = contentLength
===========================================================================

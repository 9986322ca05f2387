------------------------------- MODULE Reply -------------------------------
(***************************************************************************)
(* reply_t (server/reply.cpp): operators on a reply, which the connection  *)
(* resets, the application fills, and to_buffers turns into what goes over *)
(* the wire.  The content is a text of bytes; NoBuffer stands for the      *)
(* content of a reply that was never reset.                                *)
(***************************************************************************)
EXTENDS Integers, Sequences

CONSTANT NoBuffer

Header(name, value) == [name |-> name, value |-> value]
Blank == Header("", "")

(* The statuses to_buffer has a line for. *)
Statuses == {"ok", "created", "accepted", "no_content", "multiple_choices",
             "moved_permanently", "moved_temporarily", "not_modified",
             "bad_request", "unauthorized", "forbidden", "not_found",
             "precondition_failed", "internal_server_error",
             "not_implemented", "bad_gateway", "service_unavailable"}

(* A reply when its connection is made: no status yet, and no buffer. *)
NewReply == [status |-> "undefined", headers |-> <<>>, content |-> NoBuffer]

(* reset that keeps the content. *)
Reset_KeepsContent(r) ==
  [r EXCEPT !.headers = <<>>, !.content = IF @ = NoBuffer THEN <<>> ELSE @]

(* reset; the status stays. *)
Reset(r) == [r EXCEPT !.headers = <<>>, !.content = <<>>]

(* An encoder writes to content(). *)
Written(r, text) == [r EXCEPT !.content = @ \o text]

(* vector::resize *)
Resized(headers, n) ==
  [i \in 1..n |-> IF i <= Len(headers) THEN headers[i] ELSE Blank]

(* create: the first `extra` headers are left to the caller; behind them   *)
(* come the length of what the content holds now, and its type if it holds *)
(* anything.                                                               *)
Created(r, status, type, extra) ==
  LET length == Header("Content-Length", Len(r.content))
      own == IF r.content = <<>> THEN <<length>>
             ELSE <<length, Header("Content-Type", type)>>
  IN  [r EXCEPT !.status = status, !.headers = Resized(@, extra) \o own]

(* add *)
Added(r, header) == [r EXCEPT !.headers = Append(@, header)]

(* to_buffer: the status line, 500 for a status without one. *)
StatusLine(status) == IF status \in Statuses THEN status ELSE "internal_server_error"

(* to_buffers: status line, headers, an empty line, a copy of the content. *)
ToBuffers(r) ==
  [status |-> StatusLine(r.status), headers |-> r.headers, content |-> r.content]
===========================================================================

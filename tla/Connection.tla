---------------------------- MODULE Connection ----------------------------
(***************************************************************************)
(* What http_connection and https_connection inherit from class connection *)
(* (server/connection.cpp): the flags of a connection and the callbacks    *)
(* through which the parser library sets them.  The library is external;   *)
(* what it makes of the bytes of one read is a record c of Chunks.         *)
(*                                                                         *)
(* Here and in the modules that extend this one, a definition X_Change is  *)
(* X with one plausible programming error; it is no part of the            *)
(* specification and serves to show that a property can fail.              *)
(***************************************************************************)
EXTENDS Integers

CONSTANTS
  MaxPerRead,  \* bound: requests that end within the bytes of one read
  MaxOwed      \* bound on the distance of owed from 0

ASSUME ConnectionAssumption ==
  /\ MaxPerRead \in Nat \ {0}
  /\ MaxOwed \in Nat \ {0}

VARIABLES
  waiting,         \* _waiting_for_async_reply
  parser,          \* where _parser stopped: between or inside messages, error
  requestComplete, \* _request_complete
  keepAlive,       \* _keep_alive
  reply,           \* _reply: buffer never allocated, reset, or created
  manners,         \* history: has the client been "polite", that is, sent
                   \* one request at a time, or did it once run "ahead"?
  owed             \* history: requests received minus replies written

request == <<parser, requestComplete, keepAlive, manners>>

ConnectionTypeOK ==
  /\ waiting \in BOOLEAN
  /\ parser \in {"between", "inside", "error"}
  /\ requestComplete \in BOOLEAN
  /\ keepAlive \in BOOLEAN
  /\ reply \in {"null", "empty", "created"}
  /\ manners \in {"polite", "ahead"}

(* The constructor: reply_t has none of its own, so its buffer stays null. *)
ConnectionInit ==
  /\ waiting = FALSE
  /\ parser = "between" /\ requestComplete = FALSE /\ keepAlive = FALSE
  /\ reply = "null"
  /\ manners = "polite" /\ owed = 0

(* What http_parser_execute does with the bytes of one read: how many      *)
(* messages end in them, whether they stop within a message, the           *)
(* keep-alive verdict on the last one that ended, and whether all bytes    *)
(* were taken.  "error" is sticky; an "upgraded" request leaves the bytes  *)
(* after it unparsed without an error.                                     *)
Chunks == [completed : 0..MaxPerRead, open : BOOLEAN, keep : BOOLEAN,
           verdict : {"ok", "upgraded", "error"}]

(* The parses possible in the parser's present state: in state error it    *)
(* consumes nothing, and inside a message something must follow.           *)
Possible(c) ==
  /\ parser = "error" => c.completed = 0 /\ ~c.open /\ c.verdict = "error"
  /\ parser = "inside" => c.completed > 0 \/ c.open
  /\ c.verdict = "upgraded" => c.completed > 0 /\ ~c.open

(* A client that waits for its reply stops at the end of its request, and  *)
(* sends no empty line between requests.                                   *)
Polite(c) ==
  /\ c.completed > 0 => c.completed = 1 /\ ~c.open /\ c.verdict = "ok"
  /\ c.completed = 0 /\ ~c.open => c.verdict = "error"

(* Whole requests, and malformed ones, that the read adds to the account.  *)
Arrived(c) == c.completed + (IF c.verdict = "error" THEN 1 ELSE 0)

(* on_message_begin was called, which resets request and reply. *)
Begins(c) ==
  IF parser = "inside" THEN c.completed > 1 \/ (c.completed = 1 /\ c.open)
                       ELSE c.completed > 0 \/ c.open

(* Without the reset of _request_complete in on_message_begin. *)
CompleteAfter_NotReset(c) == c.completed > 0 \/ requestComplete

(* _request_complete after the parse: the last callback decides, and       *)
(* without a callback the old value stays.                                 *)
CompleteAfter(c) == ~c.open /\ (c.completed > 0 \/ requestComplete)

ReplyAfter(c) == IF Begins(c) THEN "empty" ELSE reply

(* With the parser's state replaced by the verdict on the bytes. *)
Parse_KeepsVerdict(c) ==
  /\ parser' = IF c.open THEN "inside" ELSE c.verdict
  /\ requestComplete' = CompleteAfter(c)
  /\ keepAlive' = IF c.completed > 0 THEN c.keep ELSE keepAlive
  /\ manners' = IF Polite(c) THEN manners ELSE "ahead"

(* http_parse with its callbacks, except for what they do to the reply. *)
Parse(c) ==
  /\ parser' = IF c.verdict = "error" THEN "error"
               ELSE IF c.open THEN "inside" ELSE "between"
  /\ requestComplete' = CompleteAfter(c)
  /\ keepAlive' = IF c.completed > 0 THEN c.keep ELSE keepAlive
  /\ manners' = IF Polite(c) THEN manners ELSE "ahead"
===========================================================================

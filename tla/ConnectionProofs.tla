------------------------- MODULE ConnectionProofs -------------------------
(***************************************************************************)
(* Lemmas about what http_parse makes of the bytes of one read             *)
(* (server/connection.cpp), for HttpConnectionProofs and                   *)
(* HttpsConnectionProofs.                                                  *)
(***************************************************************************)
EXTENDS Connection, TLAPS

(* What the parser leaves behind has the right type, and an intermediate   *)
(* parse never leaves the sticky error state (http_parse, connection.cpp). *)
LEMMA ParseType ==
  ASSUME ConnectionTypeOK, NEW c \in Chunks, Parse(c)
  PROVE  /\ parser' \in {"between", "inside", "error"}
         /\ requestComplete' \in BOOLEAN
         /\ keepAlive' \in BOOLEAN
         /\ manners' \in {"polite", "ahead"}
         /\ ReplyAfter(c) \in {"null", "empty", "created"}
         /\ c.verdict = "ok" => parser' # "error"
<1>1. /\ c.open \in BOOLEAN /\ c.keep \in BOOLEAN
      /\ c.verdict \in {"ok", "upgraded", "error"}
  BY DEF Chunks
<1>2. parser' \in {"between", "inside", "error"}
      /\ (c.verdict = "ok" => parser' # "error")
  BY <1>1 DEF Parse
<1>3. requestComplete' \in BOOLEAN
  BY <1>1 DEF Parse, CompleteAfter
<1>4. keepAlive' \in BOOLEAN /\ manners' \in {"polite", "ahead"}
  BY <1>1 DEF Parse, ConnectionTypeOK
<1>5. ReplyAfter(c) \in {"null", "empty", "created"}
  BY DEF ReplyAfter, ConnectionTypeOK
<1> QED
  BY <1>2, <1>3, <1>4, <1>5

(* What one read adds to the account of requests and replies is a number.  *)
LEMMA ArrivedType ==
  ASSUME NEW c \in Chunks
  PROVE  Arrived(c) \in Int
BY ConnectionAssumption DEF Chunks, Arrived

(* A polite read is one whole request, a part of one, or an error. *)
LEMMA PoliteChunk ==
  ASSUME NEW c \in Chunks, Possible(c), Polite(c)
  PROVE  /\ c.verdict = "ok" /\ CompleteAfter(c) => Arrived(c) = 1
         /\ c.verdict = "ok" /\ ~CompleteAfter(c) => Arrived(c) = 0
         /\ c.verdict # "ok" => Arrived(c) = 1
<1>1. /\ c.completed \in Nat /\ c.open \in BOOLEAN
      /\ c.verdict \in {"ok", "upgraded", "error"}
  BY ConnectionAssumption DEF Chunks
<1>2. c.completed > 0 => c.completed = 1 /\ ~c.open /\ c.verdict = "ok"
  BY DEF Polite
<1>3. ~(c.completed > 0) => c.completed = 0
  BY <1>1
<1>4. c.completed = 0 /\ ~c.open => c.verdict = "error"
  BY DEF Polite
<1>5. c.verdict = "upgraded" => c.completed > 0
  BY DEF Possible
<1>6. CompleteAfter(c) => ~c.open
  BY DEF CompleteAfter
<1>7. c.completed > 0 /\ ~c.open => CompleteAfter(c)
  BY DEF CompleteAfter
<1>8. Arrived(c) = c.completed + (IF c.verdict = "error" THEN 1 ELSE 0)
  BY DEF Arrived
<1>9. CASE c.verdict = "ok" /\ CompleteAfter(c)
  BY <1>9, <1>2, <1>3, <1>4, <1>6, <1>8
<1>10. CASE c.verdict = "ok" /\ ~CompleteAfter(c)
  BY <1>10, <1>1, <1>2, <1>3, <1>7, <1>8
<1>11. CASE c.verdict # "ok"
  BY <1>11, <1>1, <1>2, <1>3, <1>5, <1>8
<1> QED
  BY <1>9, <1>10, <1>11
===========================================================================

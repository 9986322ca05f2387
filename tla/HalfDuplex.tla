---------------------------- MODULE HalfDuplex ----------------------------
(***************************************************************************)
(* What a csi-http server connection promises the client at its other end: *)
(* the two take turns.  The client sends one request, the server answers   *)
(* exactly that request, and only when the reply has left does the client  *)
(* have the turn again.  A connection may end at any moment, and once over *)
(* it stays over.  HttpConnection and HttpsConnection implement this       *)
(* module.                                                                 *)
(***************************************************************************)
EXTENDS Naturals

VARIABLES
  turn,   \* whose turn it is: the client's, the server's (it prepares an
          \* answer), the wire's (a reply is being written), or nobody's
  owed    \* complete requests the client has sent and got no reply to

vars == <<turn, owed>>

Turns == {"client", "server", "wire", "over"}

TypeOK == turn \in Turns /\ owed \in {0, 1}

Init == turn = "client" /\ owed = 0

(* A request arrives and the server keeps it, to answer it later. *)
Take == turn = "client" /\ turn' = "server" /\ owed = 0 /\ owed' = 1

(* The answer to the request that was kept starts on its way. *)
Answer == turn = "server" /\ turn' = "wire" /\ owed = 1 /\ owed' = 0

(* A request arrives and is answered on the spot. *)
TakeAndAnswer == turn = "client" /\ turn' = "wire" /\ owed = 0 /\ owed' = 0

(* The whole reply has been written. *)
Deliver == turn = "wire" /\ turn' = "client" /\ UNCHANGED owed

(* The connection ends, and nothing is owed any more. *)
End == turn # "over" /\ turn' = "over" /\ owed' = 0

Next == Take \/ Answer \/ TakeAndAnswer \/ Deliver \/ End

Spec == Init /\ [][Next]_vars
===========================================================================

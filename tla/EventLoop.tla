----------------------------- MODULE EventLoop -----------------------------
(***************************************************************************)
(* The io_service a program hands to its servers and clients, and the one  *)
(* thread that is in io_service::run() (the samples' main programs).  The  *)
(* library is external: run() calls the handlers that are ready, one after *)
(* the other, each at last; it returns for good when nothing is queued or  *)
(* outstanding; an exception of a handler leaves it.                       *)
(***************************************************************************)

VARIABLE
  loop  \* run(): running, returned, or left by an exception (thrown)

LoopTypeOK == loop \in {"running", "returned", "thrown"}

LoopInit == loop = "running"
===========================================================================

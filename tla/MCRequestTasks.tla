----------------------------- MODULE MCRequestTasks -----------------------------
(***************************************************************************)
(* RequestTasks for TLC: the requests of one thread, under either stack.   *)
(***************************************************************************)
EXTENDS RequestTasks

MCStacks == {"flask", "django"}
=================================================================================

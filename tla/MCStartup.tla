------------------------------- MODULE MCStartup -------------------------------
(***************************************************************************)
(* One workload A and one process that fetches the key.  Of the real       *)
(* 2 minutes, 3 and 10 seconds the runs keep that the wait is the longest. *)
(***************************************************************************)
EXTENDS Startup
==============================================================================

------------------------------ MODULE MCService ------------------------------
(* Instance of Service for TLC: two clients of the process, two tasks that *)
(* call the manager, with a worker each, and two collectors' ids.          *)
EXTENDS Service
=============================================================================

------------------------------ MODULE MCServer ------------------------------
(***************************************************************************)
(* Model of the life of the process: two requests and two background tasks *)
(* and every database that an earlier release can have left behind.        *)
(***************************************************************************)
EXTENDS Server
=============================================================================

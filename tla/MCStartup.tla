------------------------------ MODULE MCStartup -----------------------------
(***************************************************************************)
(* Startup over the instances of MCInjection.                              *)
(***************************************************************************)
EXTENDS MCInjection, Startup
=============================================================================

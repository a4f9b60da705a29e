------------------------------ MODULE MCServing -----------------------------
(***************************************************************************)
(* Serving with the default replica count of a required webhook, and one   *)
(* more.                                                                   *)
(***************************************************************************)
EXTENDS Serving

MCReplicas == 1 .. 3
MCPair == 1 .. 2
=============================================================================

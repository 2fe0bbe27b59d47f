----------------------------- MODULE MCCIServer -----------------------------
(* CIServer on small instances. *)
EXTENDS CIServer
=============================================================================

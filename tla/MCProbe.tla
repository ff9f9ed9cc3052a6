------------------------------ MODULE MCProbe ------------------------------
(***************************************************************************)
(* One probe, and a server that may give out two sessions.                 *)
(***************************************************************************)
EXTENDS Probe
=============================================================================

--------------------------- MODULE MCHostOwnership ---------------------------
(* Model-checking wrapper of HostOwnership.                                *)
EXTENDS HostOwnership
=============================================================================

---------------------------- MODULE MCDescriptors ----------------------------
(* Model checking Descriptors.                                             *)
EXTENDS Descriptors
=============================================================================

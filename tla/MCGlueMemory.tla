---------------------------- MODULE MCGlueMemory ----------------------------
(* Values for model checking GlueMemory.                                   *)
EXTENDS GlueMemory, TLC

CONSTANTS l1, l2
Variables == {l1, l2}
Symmetric == Permutations(Variables)

(* On either side of what fits into a string itself.                       *)
ShortAndLong == {0, StrSize - 1, StrSize}
=============================================================================

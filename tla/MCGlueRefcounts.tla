--------------------------- MODULE MCGlueRefcounts ---------------------------
(* Values for model checking GlueRefcounts.                                *)
EXTENDS GlueRefcounts

CONSTANTS l1, l2, l3
Variables == {l1, l2, l3}
Symmetric == Permutations(Variables)

(* Each subscription alone, all and none.                                  *)
NoneOneAll == {{s} : s \in Subscriptions} \cup {{}, Subscriptions}
=============================================================================

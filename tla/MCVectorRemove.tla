--------------------------- MODULE MCVectorRemove ---------------------------
(***************************************************************************)
(* VectorRemove for TLC: every vector of up to MaxOrig elements with every *)
(* sorted list of keys.  The elements are different, so that each can be   *)
(* told from the others.                                                   *)
(***************************************************************************)
EXTENDS VectorRemove

MCInit ==
    /\ orig \in {[i \in 0 .. k - 1 |-> i] : k \in 0 .. MaxOrig}
    /\ RemoveInit

MCSpec == MCInit /\ [][RemoveNext]_loop_vars

=============================================================================

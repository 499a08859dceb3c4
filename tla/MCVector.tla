------------------------------ MODULE MCVector ------------------------------
(***************************************************************************)
(* Instances of Vector and of VectorRemove for TLC.  Two vectors double    *)
(* their places, one takes exactly what it is asked for; at most two have  *)
(* places at a time.                                                       *)
(***************************************************************************)
EXTENDS Vector, TLC

CONSTANTS o1, o2, o3, e1, e2

ThreeObjects == {o1, o2, o3}
TwoValues == {e1, e2}

Policies == o1 :> "double" @@ o2 :> "double" @@ o3 :> "page"

PAGE_ALLOC == 1

\* grow_policy_double::grow: the first double that is enough.
Doubled(original, requested) ==
    LET start == IF original = 0 THEN 1 ELSE original
        doubles == {d \in {start * 2 ^ k : k \in 0 .. requested} : d >= requested}
    IN CHOOSE d \in doubles : \A c \in doubles : d <= c

\* grow_policy_identity, grow_policy_page and grow_policy_double.
GrowPolicy(policy, original, requested) ==
    CASE policy = "identity" -> requested
      [] policy = "page" -> (requested \div PAGE_ALLOC) * PAGE_ALLOC + PAGE_ALLOC
      [] policy = "double" -> Doubled(original, requested)

\* At most one vector has more than SmallCapacity places.
CONSTANT SmallCapacity
FewPlaces ==
    /\ \A p, q \in Obj : p # q => vec[p].cap <= SmallCapacity \/ vec[q].cap <= SmallCapacity
    /\ \E p \in Obj : vec[p].cap = 0

MCNext == Next /\ FewPlaces'

MCSpec == Init /\ [][MCNext]_vars

Symmetry == Permutations({o1, o2}) \union Permutations(Val)

=============================================================================

------------------------ MODULE MCDelegationDelivery ------------------------
(***************************************************************************)
(* Instances of DelegationDelivery for TLC.  Drains are interchangeable.    *)
(***************************************************************************)
EXTENDS DelegationDelivery, TLC

CONSTANTS e1, e2, parent, kid1

DrainSymmetry == Permutations(Drainers)

\* one child, or one background job, reporting to one parent
OneParentOf == [e \in {e1} |-> parent]
OneChildOf == [e \in {e1} |-> kid1]
JobChildOf == [e \in {e1} |-> NoSession]

\* a child and a background job of the same parent
TwoParentOf == [e \in {e1, e2} |-> parent]
TwoChildOf == [e \in {e1, e2} |-> IF e = e1 THEN kid1 ELSE NoSession]
=============================================================================

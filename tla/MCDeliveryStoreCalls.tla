------------------------ MODULE MCDeliveryStoreCalls ------------------------
(***************************************************************************)
(* Instances of DeliveryStoreCalls for TLC.                                 *)
(***************************************************************************)
EXTENDS DeliveryStoreCalls

CONSTANTS e1, parent, kid

\* one child reporting to one parent
OneParentOf == [e \in {e1} |-> parent]
OneChildOf == [e \in {e1} |-> kid]
=============================================================================

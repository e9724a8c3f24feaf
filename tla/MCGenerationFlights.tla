------------------------ MODULE MCGenerationFlights ------------------------
(* Instances of GenerationFlights for TLC.                                 *)
EXTENDS GenerationFlights, TLC

CONSTANTS s1, s2, r1, r2, r3, p1, p2

\* r2 and r3 overlap with r1 in one product and in both, and r2 comes on
\* another connection.
Connections == [r \in Request |-> IF r = r2 /\ s2 \in Session THEN s2 ELSE s1]
Overlapping ==
  [r \in Request |-> CASE r = r1 -> <<p1, p2>> [] OTHER -> <<p2>>]
SamePriority == [r \in Request |-> "visible"]
=============================================================================

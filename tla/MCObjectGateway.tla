--------------------------- MODULE MCObjectGateway ---------------------------
(***************************************************************************)
(* Deployments of ObjectGateway for TLC: requests to one gateway process,  *)
(* to two, and conditional PUTs that expect the same version.              *)
(***************************************************************************)
EXTENDS ObjectGateway

CONSTANTS p1, p2, p3, d1, d2, g1, g2

\* docker-compose.yml starts one gateway.
OneLoop == [r \in Requests |-> g1]

\* Two gateway processes behind a balancer.
TwoLoops == [r \in Requests |-> IF r \in {p2, d2} THEN g2 ELSE g1]

Unconditional == [p \in Puts |-> AnyVersion]

\* p1 may come at any time; p2 expects version 1.
Mixed == [p \in Puts |-> IF p = p1 THEN AnyVersion ELSE 1]

\* p1 creates the object; p2 and p3 both expect version 1.
Conditional == [p \in Puts |-> IF p = p1 THEN 0 ELSE 1]
=============================================================================

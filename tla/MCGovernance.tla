---- MODULE MCGovernance ----
(***************************************************************************)
(* An instance of Governance: two folders; two requests, declared in one   *)
(* of them, and a third that may be merged into either and then wait for   *)
(* its apply for good; one name only the console uses; one hand-made       *)
(* object beside one minted and one inherited; one declared zone.          *)
(***************************************************************************)
EXTENDS Governance

CONSTANTS edge, core, q1, q2, q3, x, hand, minted, anc, z1

TwoRoots == <<edge, core>>
TwoInEdge == {[s \in Scopes |-> IF s = edge THEN {q1, q2} ELSE {}]}
ThreeInOrder == <<q1, q2, q3>>
SomeZones == [s \in Scopes |-> IF s = edge THEN {z1} ELSE {}]
NoZones == [s \in Scopes |-> {}]
AllScopes == Scopes
====

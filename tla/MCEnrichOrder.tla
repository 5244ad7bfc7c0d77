---- MODULE MCEnrichOrder ----
(* Small instances of EnrichOrder: three managed rules whose name order is *)
(* not their deployment order, and one foreign rule that may stand above,  *)
(* between or below them, or be absent.                                    *)
EXTENDS EnrichOrder

CONSTANTS r1, r2, r3, f

InDeployedOrder == <<r2, r1, r3>>
InNameOrder == <<r1, r2, r3>>
TheForeign == {f}

\* No opinion, to the top, and next to a managed or a foreign rule.
SomeDirectives ==
    {NoOpinion,
     [rel |-> "top", target |-> "none"],
     [rel |-> "before", target |-> r2],
     [rel |-> "after", target |-> f]}

====

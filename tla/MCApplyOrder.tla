---- MODULE MCApplyOrder ----
(* Every way to spread the kinds over three scopes: for every dependency   *)
(* relation over three kinds; the interface catalog declares variables for *)
(* the folder `edge` or for none.                                          *)
EXTENDS ApplyOrder

CONSTANTS access, interface, zone, device, edge, shared

ThreeKinds == <<access, interface, zone>>
ThreeRoots == <<device, edge, shared>>
AnyRegistry == [ToSet(ThreeKinds) -> SUBSET ToSet(ThreeKinds)]
VariablesOfEdge == {{}, {edge}}

====

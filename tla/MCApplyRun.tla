---- MODULE MCApplyRun ----
(***************************************************************************)
(* Instances of ApplyRun.                                                  *)
(* Flat: one folder, two requests, rules that share a tag, one of them     *)
(* naming an object.  Nested: a shared folder and the folder that inherits *)
(* from it, one request in each, both naming one object.  One: a single    *)
(* request, small enough for the liveness properties.                      *)
(***************************************************************************)
EXTENDS ApplyRun, TLC

CONSTANTS edge, shared, q1, q2, a, b, tag, x, y

FlatScopes == {edge}
FlatOrder == <<edge>>
FlatLineage == [s \in {edge} |-> {edge}]
FlatHome == [r \in {q1, q2} |-> edge]
Symmetric == Permutations({q1, q2})
FlatUses == (a :> {tag, x}) @@ (b :> {tag})

OneHome == [r \in {q1} |-> edge]
OneUses == (a :> {x}) @@ (b :> {x, y})

NestedScopes == {shared, edge}
NestedOrder == <<shared, edge>>
NestedLineage == (shared :> {shared}) @@ (edge :> {shared, edge})
NestedHome == (q1 :> shared) @@ (q2 :> edge)
NestedUses == (a :> {x})

====

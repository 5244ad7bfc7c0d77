---- MODULE ApplyOrder ----
(***************************************************************************)
(* In which order the scopes are applied.  kind_apply_order sorts the      *)
(* request kinds by their declared dependencies; `fwgitops apply-order`    *)
(* sorts the Terraform roots by the earliest kind each holds, and refuses  *)
(* when that leaves a dependency behind; the loop of the apply job walks   *)
(* what it printed (what happens inside a scope is module ApplyRun).       *)
(***************************************************************************)
EXTENDS Selection, FiniteSets

CONSTANTS
    KindsByName,   \* the registered kinds in alphabetical order
    RootsByName,   \* the Terraform roots in alphabetical order
    Registries,    \* registries to sort: kind -> depends_on_kinds
    VariableSets   \* sets of roots the interface catalog declares variables for

Kinds == ToSet(KindsByName)
Roots == ToSet(RootsByName)

ASSUME NamesAssumption ==
    /\ KindsByName \in Seq(Kinds) /\ IsInjective(KindsByName)
    /\ RootsByName \in Seq(Roots) /\ IsInjective(RootsByName)
    /\ Registries \subseteq [Kinds -> SUBSET Kinds]
    /\ VariableSets \subseteq SUBSET Roots

VARIABLES
    needs,      \* the registry
    holds,      \* root -> the kinds a tfvars file was compiled for
    variables,  \* the roots with interface_vars.auto.tfvars.json, written from
                \* the interface catalog for no kind of the registry
    pc,         \* where the apply job is
    refused,    \* `apply-order` exited non-zero
    queue,      \* the roots it printed that the loop has yet to enter
    applied     \* the roots the loop has applied, in order

vars == <<needs, holds, variables, pc, refused, queue, applied>>

Init ==
    /\ needs \in Registries
    /\ holds \in [Roots -> SUBSET Kinds]
    /\ variables \in VariableSets
    /\ pc = "order"
    /\ refused = FALSE
    /\ queue = <<>>
    /\ applied = <<>>

----
(* kind_apply_order: rounds, each putting out the kinds none of whose      *)
(* dependencies are still pending.                                         *)

\* Slip: a kind is ready as soon as one of its dependencies is out.
PartlyReady(registry, pending) ==
    {k \in pending : registry[k] = {} \/ ~ registry[k] \subseteq pending}

Ready(registry, pending) == {k \in pending : registry[k] \cap pending = {}}

\* A round with nothing ready leaves the order short of the pending kinds,
\* where the code raises KindOrderError; no order takes more rounds than kinds.
KindOrder(registry) ==
    LET out[round \in 0 .. Len(KindsByName)] ==
            IF round = 0 THEN <<>>
            ELSE LET pending == Kinds \ ToSet(out[round - 1])
                 IN  out[round - 1] \o KeepOnly(KindsByName, Ready(registry, pending))
    IN  out[Len(KindsByName)]

IsCyclic(registry) == ToSet(KindOrder(registry)) # Kinds

----
(* run_apply_order: roots by the earliest kind they hold, then by name.    *)

\* Slip: only a scope with rules counts, as before v1.39.2.
WithRules(scopes) == {root \in Roots : KindsByName[1] \in scopes[root]}

\* The roots it sorts: a file counts when its name is a registered kind's.
Listed(scopes) == {root \in Roots : scopes[root] # {}}

Earliest(held, order) ==
    CHOOSE p \in 1 .. Len(order) :
        order[p] \in held /\ \A q \in 1 .. p - 1 : order[q] \notin held

Before(scopes, order, r, q) ==
    \/ Earliest(scopes[r], order) < Earliest(scopes[q], order)
    \/ /\ Earliest(scopes[r], order) = Earliest(scopes[q], order)
       /\ PositionOf(RootsByName, r) < PositionOf(RootsByName, q)

NoLater(scopes, order, root) ==
    {r \in Listed(scopes) : r = root \/ Before(scopes, order, r, root)}

\* The n-th root is the one that n roots come no later than, itself included.
Ordered(registry, scopes) ==
    LET order == KindOrder(registry)
    IN  [n \in 1 .. Cardinality(Listed(scopes)) |->
            CHOOSE root \in Listed(scopes) : Cardinality(NoLater(scopes, order, root)) = n]

\* Slip: a dependency that applies later is not looked for.
Unchecked(registry, scopes, roots) == {}

\* <<root, kind, other>>: `root` holds a kind that needs one `other` brings later.
Violations(registry, scopes, roots) ==
    {v \in Listed(scopes) \X Kinds \X Listed(scopes) :
        /\ v[2] \in scopes[v[1]]
        /\ v[3] # v[1]
        /\ registry[v[2]] \cap scopes[v[3]] # {}
        /\ PositionOf(roots, v[3]) > PositionOf(roots, v[1])}

----
(* The apply job.  A command that fails inside `for root in $(...)` does   *)
(* not stop the shell: the loop then has nothing to walk.                  *)

PrintOrder ==
    /\ pc = "order"
    /\ LET roots == Ordered(needs, holds)
       IN  /\ refused' = (IsCyclic(needs) \/ Violations(needs, holds, roots) # {})
           /\ queue' = IF refused' THEN <<>> ELSE roots
    /\ pc' = "loop"
    /\ UNCHANGED <<needs, holds, variables, applied>>

ApplyRoot ==
    /\ pc = "loop"
    /\ queue # <<>>
    /\ applied' = Append(applied, Head(queue))
    /\ queue' = Tail(queue)
    /\ UNCHANGED <<needs, holds, variables, pc, refused>>

\* A scope that fails ends the job.
FailRoot ==
    /\ pc = "loop"
    /\ queue # <<>>
    /\ pc' = "failed"
    /\ UNCHANGED <<needs, holds, variables, refused, queue, applied>>

LoopDone ==
    /\ pc = "loop"
    /\ queue = <<>>
    /\ pc' = "green"
    /\ UNCHANGED <<needs, holds, variables, refused, queue, applied>>

Next == PrintOrder \/ ApplyRoot \/ FailRoot \/ LoopDone

Spec == Init /\ [][Next]_vars

----
(* Properties *)

\* The kinds come out complete and each after all it depends on, exactly when
\* the registry has no cycle; the reference definition of a cycle is a set of
\* kinds each of which needs another of the set (kinds.py:320).
KindsAreSorted ==
    LET order == KindOrder(needs)
        Knot(S) == S # {} /\ \A k \in S : needs[k] \cap S # {}
    IN  /\ IsCyclic(needs) <=> \E S \in SUBSET Kinds : Knot(S)
        /\ \A i, j \in 1 .. Len(order) : i <= j => order[j] \notin needs[order[i]]

\* No scope is applied before a scope that holds what it depends on, even when
\* the run dies between two scopes (cli.py:1836): what it depends on by the
\* declared dependencies of the kinds it holds.
DependenciesFirst ==
    \A i \in 1 .. Len(applied) : \A other \in Roots \ {applied[i]} :
        (\E k \in holds[applied[i]] : needs[k] \cap holds[other] # {}) =>
            other \in ToSet(SubSeq(applied, 1, i))

HasTfvars(root) == holds[root] # {} \/ root \in variables

\* What a green run whose order was accepted passed over: of the scopes with a
\* tfvars file, exactly those whose only one is that of the interface variables.
\* apply.yml:394 says "ANY compiled tfvars, not just RULES" of the scopes it
\* applies, and the guard it explains would let such a scope through, but
\* `apply-order` never prints it (cli.py:1864).  A scope that holds a kind, rules
\* or not, is never missed, and nothing else is applied.
SkipsOnlyVariables ==
    pc = "green" /\ ~refused =>
        \A r \in Roots :
            r \notin ToSet(applied) <=> ~HasTfvars(r) \/ (holds[r] = {} /\ r \in variables)

====

---- MODULE MCChangeset ----
(* Two folders, shared above branch; three files.   *)
EXTENDS Changeset

Net(path) == [type |-> "cidr", value |-> path]
Https == [protocol |-> "tcp", lo |-> 443, hi |-> 443]

Rule(action, sources) ==
    [kind |-> "AccessRequest",
     spec |-> [env |-> "prod", action |-> action, sources |-> sources, destinations |-> "db",
               services |-> {Https}, negated |-> FALSE, profile |-> TRUE, disabled |-> FALSE]]

Zone(env) ==
    [kind |-> "ZoneRequest",
     spec |-> [env |-> env, zone |-> "dmz", populated |-> TRUE, protected |-> FALSE,
               userId |-> TRUE]]

MCPathOrder == << <<"a", "R1">>, <<"a", "R2">>, <<"b", "R3">> >>

MCDocs ==
    <<"a", "R1">> :> {Rule("allow", "ten"), Rule("deny", "any")}
    @@ <<"a", "R2">> :> {Rule("allow", "web"), Rule("allow", "any"), Zone("edge")}
    @@ <<"b", "R3">> :> {Zone("edge")}

Home == [prod |-> [folder |-> "branch", from |-> "trust", to |-> "dmz"],
         edge |-> [folder |-> "shared", from |-> "wan", to |-> "dmz"]]
Apps == [web |-> {Net(<<"10", "1", "0">>)}, ten |-> {Net(<<"10">>)}, any |-> {Net(<<>>)},
         db |-> {Net(<<"10", "2", "0">>)}]

\* The catalog at first; web grown; prod moved to shared; no edge any more.
First == [envs |-> Home, apps |-> Apps]
MCCatalogs == {First,
               [envs |-> Home, apps |-> [Apps EXCEPT !.web = {Net(<<"10", "1">>)}]],
               [envs |-> [Home EXCEPT !.prod.folder = "shared"], apps |-> Apps],
               [envs |-> [prod |-> Home.prod], apps |-> Apps]}

MCSettledCatalog == {First}

MCHierarchy == [shared |-> {"branch"}, branch |-> {}]

At0(doc) == [kind |-> doc.kind, spec |-> doc.spec, ticket |-> 0]

Tree(r1, r2) == <<"a", "R1">> :> At0(r1) @@ <<"a", "R2">> :> r2 @@ <<"b", "R3">> :> Absent

MCOrigins == {[tree |-> Tree(Rule("allow", "ten"), Absent), catalog |-> First],
              [tree |-> Tree(Rule("deny", "any"), At0(Zone("edge"))), catalog |-> First]}
====

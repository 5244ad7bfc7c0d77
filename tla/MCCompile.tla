---- MODULE MCCompile ----
(* A folder "edge" with one firewall that may be named and one that may    *)
(* not, its parent "shared", and one environment on "edge".                *)
EXTENDS Compile, TLC

P1 == [dir |-> "x", stem |-> "R1"]
P2 == [dir |-> "x", stem |-> "R2"]
P3 == [dir |-> "y", stem |-> "R2"]
MCPaths == {P1, P2, P3}

Meta(id) == [id |-> id, requester |-> "me", ticket |-> "T1", justification |-> "so",
             requested |-> "today", extra |-> {}]

Doc(kind, id, spec) == [kind |-> kind, api |-> "v1", metadata |-> Meta(id), spec |-> spec]

Web == [form |-> "app", value |-> "web"]
Net == [form |-> "cidr", value |-> "n1"]
Https == [name |-> "https", protocol |-> Absent, port |-> Absent]
Ping == [name |-> Absent, protocol |-> "icmp", port |-> Absent]
Tcp == [name |-> Absent, protocol |-> "tcp", port |-> "443"]

Rule(id) == Doc("AccessRequest", id,
    [environment |-> "prod", action |-> "allow", source |-> {Web}, destination |-> {Net},
     service |-> {Https}, log |-> Absent, application |-> Absent, profile |-> Absent,
     log_forwarding |-> Absent, position |-> Absent, plain |-> Absent, users |-> Absent,
     extra |-> {}])

Zone(id) == Doc("ZoneRequest", id,
    [folder |-> "edge", device |-> Absent, environment |-> Absent, zone |-> "dmz",
     type |-> "layer3", interfaces |-> Absent, protection_profile |-> "zp",
     log_forwarding |-> Absent, dos_log_forwarding |-> Absent, plain |-> Absent, extra |-> {}])

Interface(id) == Doc("InterfaceRequest", id,
    [folder |-> Absent, device |-> "fw1", environment |-> Absent, interface |-> "wan",
     ip |-> {"n1"}, dhcp |-> Absent, mtu |-> Absent, plain |-> Absent,
     management_profile |-> Absent, extra |-> {}])

Route(id) == Doc("RouteRequest", id,
    [folder |-> Absent, device |-> Absent, environment |-> "prod", destination |-> "n1",
     router |-> Absent, vrf |-> Absent, nexthop |-> "a1", nexthop_interface |-> Absent,
     metric |-> Absent, admin_dist |-> Absent, extra |-> {}])

(* The same, naming their scope the other way.                             *)
At(doc, folder, device) ==
    [doc EXCEPT !.spec.folder = folder, !.spec.device = device, !.spec.environment = Absent]

All(id) == {Rule(id), Zone(id), Interface(id), Route(id)}

MCTemplates ==
    (P1 :> (All("R1") \cup {Bad, At(Interface("R1"), "edge", Absent), At(Zone("R1"), Absent, "fw1")}))
    @@ (P2 :> (All("R2") \cup {At(Route("R2"), "edge", Absent), At(Route("R2"), Absent, "fw1")}))
    @@ (P3 :> {Rule("R2"), Zone("R2"), [Rule("R2") EXCEPT !.kind = "Other"]})

MCMetaValues == [id |-> {"R1", "R2", "not safe", Absent}, ticket |-> {"not safe"},
                 requested |-> {Absent}, extra |-> {{}, {"expires"}}]

Target == [folder |-> {Absent, Bad, "edge", "shared", "fw1"},
           device |-> {Absent, "fw1", "fw2", "edge"},
           environment |-> {Absent, "prod", "nowhere"},
           extra |-> {{}, {"note"}}]

MCSpecValues ==
    [AccessRequest |-> [environment |-> {Absent, "prod", "nowhere"}, action |-> {"permit"},
        source |-> {{}, {Web, Net}, {Bad}}, destination |-> {{Web}},
        service |-> {{Ping}, {Ping, Tcp}, {Tcp}, {Bad}}, log |-> {Bad}, application |-> {Bad, {"ssl"}},
        profile |-> {"unheard"}, log_forwarding |-> {"unheard"},
        position |-> {Bad}, plain |-> {Bad}, extra |-> {{"folder"}}],
     ZoneRequest |-> Target @@ [zone |-> {Absent, "dmz", "lan", "trust"}, type |-> {"layer7"},
        interfaces |-> {Bad}, protection_profile |-> {Absent, "zp", "unheard"},
        dos_log_forwarding |-> {"unheard"}],
     InterfaceRequest |-> Target @@ [interface |-> {Absent, "wan", "lan"}, ip |-> {{}, {"n1"}, Bad},
        dhcp |-> {TRUE, Bad}, mtu |-> {Bad}, management_profile |-> {"unheard"}],
     RouteRequest |-> Target @@ [destination |-> {Absent, Bad, "n1"}, router |-> {"spare", Bad},
        vrf |-> {"blue"}, nexthop |-> {Absent, "a1", "n1", Bad},
        nexthop_interface |-> {Absent, "wan"}, metric |-> {Bad}]]

Tree(a, b, c) == (P1 :> a) @@ (P2 :> b) @@ (P3 :> c)

MCInitialTrees == {Tree(Rule("R1"), Zone("R2"), Absent),
                   Tree(Route("R1"), Interface("R2"), Absent)}

----
Empty == [x \in {} |-> Absent]

MCFolders == [shared |-> [children |-> {"edge"}, targetable |-> FALSE, devices |-> Empty],
              edge |-> [children |-> {}, targetable |-> TRUE,
                        devices |-> [fw1 |-> [targetable |-> TRUE, display |-> Absent],
                                     fw2 |-> [targetable |-> FALSE, display |-> Absent]]]]

MCInterfaces == [wan |-> [folder |-> "$wan", devices |-> [fw1 |-> "e1"],
                          create_in |-> [edge |-> "e1"], site_specific |-> Absent],
                 lan |-> [folder |-> "$lan", devices |-> Empty, create_in |-> Empty,
                          site_specific |-> TRUE]]

MCRouters == (<<"folder", "edge">> :> [default |-> [default |-> {"$wan"}]])
             @@ (<<"device", "fw1">> :> [default |-> [default |-> {"e1"}]])

Main == [services |-> [https |-> [protocol |-> "tcp", port |-> "443"]],
         apps |-> [web |-> [folder |-> Absent, environment |-> "prod", zone |-> "dmz",
                            addresses |-> {"n1"}, fqdns |-> {}]],
         profiles |-> {"best"}, applications |-> {"dns"}, logs |-> {"panorama"},
         routers |-> MCRouters, management |-> {"ssh-only"}, protection |-> {"zp"},
         folders |-> MCFolders, interfaces |-> MCInterfaces,
         environments |-> [prod |-> [folder |-> "edge", from_zone |-> "trust",
                                     to_zone |-> "untrust", baseline |-> {"lan"},
                                     log |-> "panorama"]]]

Live == [shared |-> [device |-> FALSE, parent |-> Absent],
         edge |-> [device |-> FALSE, parent |-> "shared"],
         fw1 |-> [device |-> TRUE, parent |-> "edge"],
         fw2 |-> [device |-> TRUE, parent |-> "edge"]]

Without(names) == [n \in DOMAIN Live \ names |-> Live[n]]

World(catalog, tenant) == [files |-> catalog, live |-> tenant]

Root(kinds) == [declared |-> kinds, wired |-> kinds, lacking |-> {}]

MCModules == (<<"folder", "edge">> :> Root(Kinds))
             @@ (<<"folder", "shared">> :> [Root(Kinds) EXCEPT !.wired = {"ZoneRequest"}])
             @@ (<<"device", "fw1">> :> Root({"InterfaceRequest", "ZoneRequest", "RouteRequest"}))

MCFolderOrder == <<"edge", "shared">>

(* Catalogs with files missing, unusable or contradicting each other, and  *)
(* tenants that lack something.                                            *)
MCWorlds ==
    {World(Main, Without({"fw2", "shared"})),
     World([Main EXCEPT !.routers = Absent, !.applications = Absent],
           [Live EXCEPT !.fw1.parent = "shared"]),
     World([Main EXCEPT !.folders = Absent, !.apps = Absent], Live),
     World([Main EXCEPT !.interfaces.wan.create_in = [edge |-> "e2"]], Live),
     World([Main EXCEPT !.apps.web.folder = "edge"], Live)}
====

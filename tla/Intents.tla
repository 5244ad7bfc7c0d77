---- MODULE Intents ----
(***************************************************************************)
(* load_intent and compile_any: an intent document, as parsed from YAML,   *)
(* becomes a typed request or a set of problems; a request becomes the     *)
(* object Terraform will be given.                                         *)
(*                                                                         *)
(* A document is Bad (not a mapping) or [kind, api, metadata, spec].  Its  *)
(* metadata and spec are Bad or records; a field is Absent, Bad (of a      *)
(* wrong type, blank or malformed) or a value, and "extra" is the set of   *)
(* unknown keys.  Lists are sets.  In a spec, "plain" stands for the       *)
(* optional fields that are only checked for their type.                   *)
(***************************************************************************)
EXTENDS Catalog

CONSTANTS
    SafeNames,      \* ids and tickets that may become a tag
    Networks,       \* valid CIDRs
    Hosts,          \* valid FQDNs
    Addresses       \* valid IP addresses

Kinds == {"AccessRequest", "InterfaceRequest", "RouteRequest", "ZoneRequest"}
Actions == {"allow", "deny", "drop", "reset-client", "reset-server", "reset-both"}
ZoneTypes == {"layer3", "layer2", "virtual-wire", "tap", "external", "tunnel"}
Positions == {"top", "bottom", "before", "after"}

(* What a loader answers: the paths it reports, and None or a value.       *)
Answer(problems, value) == [problems |-> problems, value |-> value]
Failed(problems) == Answer(problems, Absent)

Required(obj, keys) == {k \in keys : obj[k] \in Unset}
Malformed(obj, keys) == {k \in keys : obj[k] = Bad}
Value(v) == IF v = Bad THEN Absent ELSE v

(* _validate_name: without a catalog any name will do.                     *)
UnknownName(v, catalog) == v \notin Unset /\ catalog # Absent /\ v \notin catalog

----
(* Metadata, and the scope a Day-1 kind names.                             *)

MetadataKeys == {"id", "requester", "ticket", "justification", "requested"}

LoadMetadata(md) ==
    IF md = Bad THEN Failed({"metadata"}) ELSE
    LET missing == Required(md, MetadataKeys)
        unsafe == {k \in {"id", "ticket"} \ missing : md[k] \notin SafeNames}
    IN  Answer(missing \cup unsafe \cup md.extra, IF missing # {} THEN Absent ELSE [k \in MetadataKeys |-> md[k]])

TargetKeys == {"folder", "device", "environment"}
NoTarget == [k \in TargetKeys |-> Absent]

(* Exactly one target; a folder or a firewall only if the hierarchy knows  *)
(* it and lets it be named.  An environment is left to compile.            *)
LoadTarget(sp, h) ==
    LET given == {k \in TargetKeys : sp[k] # Absent}
        k == CHOOSE k \in given : TRUE
        refused == /\ k # "environment"
                   /\ \/ h = Absent
                      \/ k = "folder" /\ \/ DeviceKnown(h, sp[k]) \/ ~Known(h, sp[k])
                                         \/ sp[k] \notin h.targetable
                      \/ k = "device" /\ \/ Known(h, sp[k]) \/ ~DeviceKnown(h, sp[k])
                                         \/ sp[k] \notin h.targetableDevices
    IN  IF Malformed(sp, TargetKeys) # {} THEN Answer(Malformed(sp, TargetKeys), NoTarget)
        ELSE IF Cardinality(given) # 1 \/ refused THEN Answer({"target"}, NoTarget)
        ELSE Answer({}, [NoTarget EXCEPT ![k] = sp[k]])

\* A plausible bug: the kinds once could name nothing but a folder.
HasFolder(target) == target.folder # Absent

HasTarget(target) == target # NoTarget

\* A plausible bug: an environment's routers are not looked up.
NamedScope(target, envs) ==
    IF target.folder # Absent THEN <<"folder", target.folder>>
    ELSE IF target.device # Absent THEN <<"device", target.device>>
    ELSE Absent

(* The key of the router catalog; None when the environment is unknown.    *)
TargetScope(target, envs) ==
    IF target.folder # Absent THEN <<"folder", target.folder>>
    ELSE IF target.device # Absent THEN <<"device", target.device>>
    ELSE IF target.environment \in DOMAIN envs THEN <<"folder", envs[target.environment].folder>>
    ELSE Absent

----
(* AccessRequest.                                                          *)

(* The endpoints one item stands for: an app has several.                  *)
LoadEndpoint(item, cats, env) ==
    CASE item = Bad -> Bad
      [] item # Bad /\ item.form = "app" ->
            IF cats.apps = Absent \/ item.value \in Unset THEN Bad
            ELSE IF item.value \notin DOMAIN cats.apps THEN Bad
            ELSE LET app == cats.apps[item.value]
                 IN  IF env # Absent /\ app.environment # env THEN Bad
                     ELSE {[value |-> v, zone |-> app.zone] : v \in app.addresses \cup app.fqdns}
      [] OTHER -> IF item.value \in (IF item.form = "cidr" THEN Networks ELSE Hosts)
                  THEN {[value |-> item.value, zone |-> Absent]} ELSE Bad

LoadEndpoints(raw, cats, env) ==
    IF raw \in Unset \cup {{}} THEN Bad
    ELSE LET got == {LoadEndpoint(i, cats, env) : i \in raw}
         IN  IF Bad \in got THEN Bad ELSE UNION got

LoadService(item, cats) ==
    CASE item = Bad -> Bad
      [] item # Bad /\ item.name # Absent ->
            IF cats.services = Absent THEN Bad
            ELSE IF item.name \notin DOMAIN cats.services THEN Bad ELSE cats.services[item.name]
      [] OTHER -> IF \/ item.protocol = "icmp" /\ item.port = Absent
                     \/ item.protocol \in PortProtocols /\ item.port \in IntentPorts
                  THEN [protocol |-> item.protocol, port |-> item.port] ELSE Bad

(* icmp is matched by application, so it cannot share a rule with ports.   *)
LoadServices(raw, cats) ==
    IF raw \in Unset \cup {{}} THEN Bad
    ELSE LET got == {LoadService(i, cats) : i \in raw}
         IN  IF Bad \in got THEN Bad
             ELSE IF Cardinality({svc.protocol = "icmp" : svc \in got}) = 2 THEN Bad ELSE got

LoadSpec(sp, cats) ==
    IF sp = Bad THEN Failed({"spec"}) ELSE
    LET env == Value(sp.environment)
        loaded == [source |-> LoadEndpoints(sp.source, cats, env),
                   destination |-> LoadEndpoints(sp.destination, cats, env),
                   service |-> LoadServices(sp.service, cats)]
        apps == IF sp.application = Absent THEN {"any"} ELSE sp.application
        unusable == Required(sp, {"environment"})
                    \cup {k \in {"action"} : sp.action \notin Actions}
                    \cup Malformed(loaded, DOMAIN loaded)
                    \cup Malformed(sp, {"log", "application", "profile", "log_forwarding",
                                        "plain", "users"})
                    \cup {k \in {"position"} : sp.position \notin Positions \cup {Absent}}
        unknown == {k \in {"application"} : /\ apps # Bad /\ cats.applications # Absent
                                            /\ ~(apps \subseteq cats.applications)}
                   \cup {k \in {"profile"} : UnknownName(sp.profile, cats.profiles)}
                   \cup {k \in {"log_forwarding"} : UnknownName(sp.log_forwarding, cats.logs)}
    IN  Answer(unusable \cup unknown \cup sp.extra,
               IF unusable # {} THEN Absent
               ELSE [environment |-> env, action |-> sp.action, application |-> apps,
                     source |-> loaded.source, destination |-> loaded.destination,
                     service |-> loaded.service, log |-> sp.log_forwarding])

----
(* The Day-1 kinds.                                                        *)

LoadZoneSpec(sp, cats) ==
    IF sp = Bad THEN Failed({"spec"}) ELSE
    LET target == LoadTarget(sp, cats.folders)
        unusable == Required(sp, {"zone"}) \cup {k \in {"type"} : sp.type \notin ZoneTypes}
                    \cup Malformed(sp, {"interfaces", "plain", "protection_profile",
                                        "log_forwarding", "dos_log_forwarding"})
        unknown == {k \in {"protection_profile"} : UnknownName(sp[k], cats.protection)}
                   \cup {k \in {"log_forwarding", "dos_log_forwarding"} :
                            UnknownName(sp[k], cats.logs)}
    IN  Answer(target.problems \cup unusable \cup unknown \cup sp.extra,
               IF unusable # {} \/ ~HasTarget(target.value) THEN Absent
               ELSE [target |-> target.value, zone |-> sp.zone,
                     protection |-> sp.protection_profile])

(* The role is resolved for the firewall the target names, if it does.     *)
LoadInterfaceSpec(sp, cats) ==
    IF sp = Bad THEN Failed({"spec"}) ELSE
    LET target == LoadTarget(sp, cats.folders)
        name == IF cats.interfaces = Absent \/ sp.interface \in Unset THEN Bad
                ELSE ResolveRole(cats.interfaces, sp.interface, target.value.device)
        ip == IF sp.ip = Absent THEN {} ELSE sp.ip
        optional == Malformed(sp, {"ip", "dhcp", "mtu", "plain", "management_profile"})
        clash == {"ip", "dhcp"} \cap optional = {} /\ ((ip # {}) <=> (sp.dhcp = TRUE))
        found == target.problems \cup sp.extra \cup optional
                 \cup {k \in {"interface"} : name = Bad}
                 \cup {k \in {"management_profile"} : UnknownName(sp[k], cats.management)}
    IN  IF clash THEN Failed(found \cup {"addressing"})
        ELSE Answer(found, IF ~HasTarget(target.value) \/ name = Bad \/ optional # {} THEN Absent
                           ELSE [target |-> target.value, interface |-> name, ip |-> ip])

(* Three checks return at once, so what comes after them goes unreported.  *)
LoadRouteSpec(sp, cats, envs) ==
    IF sp = Bad THEN Failed({"spec"}) ELSE
    LET target == LoadTarget(sp, cats.folders)
        router == IF sp.router \in Unset THEN "default" ELSE sp.router
        vrf == IF sp.vrf \in Unset THEN "default" ELSE sp.vrf
        hops == {"nexthop", "nexthop_interface"}
        early == Malformed(sp, {"router", "vrf"} \cup hops)
                 \cup Required(sp, {"destination"})
                 \cup target.problems \cup sp.extra
        late == Malformed(sp, {"metric", "admin_dist"})
        scope == TargetScope(target.value, envs)
        members == IF scope = Absent \/ cats.routers = Absent THEN {}
                   ELSE InterfacesFor(cats.routers, scope, router, vrf)
    IN  IF Malformed(sp, hops) = {} /\ Cardinality({k \in hops : sp[k] # Absent}) # 1
        THEN Failed(early \cup {"hops"})
        ELSE IF sp.nexthop \notin Addresses \cup Unset THEN Failed(early \cup {"nexthop"})
        ELSE IF members = Absent THEN Failed(early \cup late \cup {"router"})
        ELSE Answer(early \cup late,
                    IF Required(sp, {"destination"}) # {} \/ ~HasTarget(target.value)
                       \/ late # {} \/ Malformed(sp, {"router", "vrf"} \cup hops) # {}
                    THEN Absent
                    ELSE [target |-> target.value, router |-> router, vrf |-> vrf,
                          destination |-> sp.destination, members |-> members])

LoadKind(doc, cats, envs) ==
    CASE doc.kind = "AccessRequest" -> LoadSpec(doc.spec, cats)
      [] doc.kind = "ZoneRequest" -> LoadZoneSpec(doc.spec, cats)
      [] doc.kind = "InterfaceRequest" -> LoadInterfaceSpec(doc.spec, cats)
      [] OTHER -> LoadRouteSpec(doc.spec, cats, envs)

(* A request is the document's kind with the two loaded parts.             *)
Request(doc, md, sp) ==
    Answer(md.problems \cup sp.problems \cup {k \in {"api"} : doc.api = Bad},
           [kind |-> doc.kind, metadata |-> md.value, spec |-> sp.value])

LoadIntent(doc, cats, envs) ==
    IF doc = Bad THEN Failed({"document"})
    ELSE IF doc.kind \notin Kinds THEN Failed({"kind"})
    ELSE Request(doc, LoadMetadata(doc.metadata), LoadKind(doc, cats, envs))

----
(* Compiling a request: Bad when its environment cannot be resolved.       *)

ScopeOf(target, envs) ==
    IF target.device # Absent THEN <<"device", target.device>>
    ELSE IF target.folder # Absent THEN <<"folder", target.folder>>
    ELSE IF ResolveEnv(envs, target.environment) = Bad THEN Bad
    ELSE <<"folder", envs[target.environment].folder>>

ZonesFor(endpoints, default) ==
    {IF ep.zone = Absent THEN default ELSE ep.zone : ep \in endpoints}

ApplicationDefault == [protocol |-> "application-default", port |-> Absent]

CompileRequest(req, envs) ==
    LET sp == req.spec
        res == ResolveEnv(envs, sp.environment)
        icmp == \E svc \in sp.service : svc.protocol = "icmp"
    IN  IF res = Bad THEN Bad
        ELSE [kind |-> req.kind, scope |-> <<"folder", res.folder>>, name |-> req.metadata.id,
              from |-> ZonesFor(sp.source, res.from_zone),
              to |-> ZonesFor(sp.destination, res.to_zone),
              objects |-> {ep.value : ep \in sp.source \cup sp.destination},
              services |-> IF icmp THEN {ApplicationDefault} ELSE sp.service,
              application |-> IF icmp THEN {"ping"} ELSE sp.application,
              log |-> IF sp.log = Absent THEN res.log ELSE sp.log]

CompileZone(req, scope) ==
    [kind |-> req.kind, scope |-> scope, name |-> req.spec.zone, protection |-> req.spec.protection]

CompileInterface(req, scope) ==
    [kind |-> req.kind, scope |-> scope, name |-> req.spec.interface, ip |-> req.spec.ip]

CompileRoute(req, scope) ==
    [kind |-> req.kind, scope |-> scope, name |-> req.metadata.id, router |-> req.spec.router,
     vrf |-> req.spec.vrf, destination |-> req.spec.destination, members |-> req.spec.members]

CompileAny(req, envs) ==
    IF req.kind = "AccessRequest" THEN CompileRequest(req, envs)
    ELSE LET scope == ScopeOf(req.spec.target, envs)
         IN  IF scope = Bad THEN Bad
             ELSE CASE req.kind = "ZoneRequest" -> CompileZone(req, scope)
                    [] req.kind = "InterfaceRequest" -> CompileInterface(req, scope)
                    [] OTHER -> CompileRoute(req, scope)
====

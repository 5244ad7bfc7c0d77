---- MODULE Classify ----
(***************************************************************************)
(* How much review a compiled object, or the removal of one, asks for.     *)
(*                                                                         *)
(* An address is the path of its network in the address tree, octet by     *)
(* octet: <<>> is 0.0.0.0/0 and <<"10", "1">> is 10.1.0.0/16.  A host name *)
(* has the type "fqdn".  A service is a protocol and a range of ports.     *)
(***************************************************************************)
EXTENDS Integers, FiniteSets, SequencesExt

CONSTANT
    InternetZones,      \* zones that face the internet
    RiskyPorts          \* ports nobody should reach from there

Tiers == <<"LOW", "HIGH", "CRITICAL">>
Rank(tier) == CHOOSE i \in DOMAIN Tiers : Tiers[i] = tier

(* The most severe of some checks, LOW when nothing fired.                 *)
Worst(checks) ==
    LET tiers == {c.tier : c \in checks} \cup {"LOW"}
    IN  CHOOSE t \in tiers : \A u \in tiers : Rank(u) <= Rank(t)

Check(name, tier, fires) == IF fires THEN {[check |-> name, tier |-> tier]} ELSE {}

----
(* What a rule matches.                                                    *)

BroadPrefixMax == 16
WidePortSpan == 1024

Prefix(addr) == 8 * Len(addr.value)
IsCidr(addr) == addr.type = "cidr"
IsAny(addr) == IsCidr(addr) /\ Prefix(addr) = 0

\* A plausible bug: 0.0.0.0/0 has checks of its own, so it is left out here.
BroadButNotAny(addr) == IsCidr(addr) /\ Prefix(addr) \in 1 .. BroadPrefixMax

IsBroad(addr) == IsCidr(addr) /\ Prefix(addr) <= BroadPrefixMax

PortSpan(svc) == svc.hi - svc.lo + 1
Ports(svc) == svc.lo .. svc.hi

Covers(values, addr) ==
    \/ addr \in values
    \/ \E v \in values : IsAny(v)
    \/ IsCidr(addr) /\ \E v \in values : IsCidr(v) /\ IsPrefix(v.value, addr.value)

ServiceCovered(services, svc) ==
    \E s \in services : s.protocol = svc.protocol /\ s.lo <= svc.lo /\ svc.hi <= s.hi

(* Whatever rule r matches, rule o matches too.                            *)
Covered(r, o) ==
    /\ r.from \subseteq o.from /\ r.to \subseteq o.to
    /\ \A a \in r.sources : Covers(o.sources, a)
    /\ \A a \in r.destinations : Covers(o.destinations, a)
    /\ \A s \in r.services : ServiceCovered(o.services, s)

Signature(r) == <<r.from, r.to, r.sources, r.destinations, r.services, r.action>>

(* The policy context is the rules of the tree; r's own entry is ignored.  *)
Others(r, policy) == {o \in policy : o.scope = r.scope /\ o.name # r.name}

NovelPairs(r, policy) ==
    (r.from \X r.to) \ UNION {o.from \X o.to : o \in Others(r, policy)}

Duplicated(r, policy) == \E o \in Others(r, policy) : Signature(o) = Signature(r)

Shadowed(r, policy) ==
    \E o \in Others(r, policy) : o.action = "allow" /\ Covered(r, o)

----
(* The checks, kind by kind.  The hierarchy maps a folder to its children; *)
(* current maps <<scope, name>> to what SCM holds, if that was exported.   *)

BlastRadius(scope, hierarchy) ==
    Check("folder_with_children", "HIGH",
          scope[1] = "folder" /\ scope[2] \in DOMAIN hierarchy /\ hierarchy[scope[2]] # {})

AllowChecks(r) ==
    LET inbound == r.from \cap InternetZones # {}
        any(side) == \E a \in side : IsAny(a)
    IN  Check("any_any_allow", "CRITICAL", any(r.sources) /\ any(r.destinations))
        \cup Check("inbound_any_from_internet", "CRITICAL", inbound /\ any(r.sources))
        \cup Check("broad_source", "HIGH", \E a \in r.sources : IsBroad(a))
        \cup Check("broad_destination", "HIGH", \E a \in r.destinations : IsBroad(a))
        \cup Check("any_service", "HIGH", \E s \in r.services : PortSpan(s) > WidePortSpan)
        \cup Check("risky_port_from_internet", "HIGH",
                   inbound /\ \E s \in r.services : Ports(s) \cap RiskyPorts # {})
        \cup Check("negated_match", "HIGH", r.negated)
        \cup Check("allow_without_inspection", "LOW", ~r.profile)

PolicyChecks(r, policy) ==
    LET twin == Duplicated(r, policy)
    IN  Check("novel_zone_pair", "HIGH", NovelPairs(r, policy) # {})
        \cup Check("redundant_rule", "LOW", twin)
        \cup Check("shadowed_by", "LOW", ~twin /\ r.action = "allow" /\ Shadowed(r, policy))

ClassifyRule(r, policy) ==
    (IF r.action = "allow" THEN AllowChecks(r) ELSE {}) \cup PolicyChecks(r, policy)

InScm(o, name, current) == <<o.scope, name>> \in DOMAIN current
AsInScm(o, name, current) == current[<<o.scope, name>>]

ClassifyRoute(o, current) ==
    Check("default_route", "HIGH", o.default)
    \cup Check("router_becomes_locally_owned", "HIGH",
               InScm(o, o.router, current) /\ AsInScm(o, o.router, current).owner # o.scope)

ClassifyInterface(o, current) ==
    Check("interface_becomes_addressed", "HIGH",
          o.addressed /\ InScm(o, o.name, current) /\ ~AsInScm(o, o.name, current).addressed)

ClassifyZone(o, current) ==
    Check("zone_becomes_traffic_bearing", "HIGH",
          o.populated /\ InScm(o, o.name, current) /\ ~AsInScm(o, o.name, current).populated)
    \cup Check("zone_without_protection", "HIGH", ~o.protected)
    \cup Check("user_id_disabled_on_zone", "LOW", ~o.userId)

Checks(o, policy, hierarchy, current) ==
    BlastRadius(o.scope, hierarchy) \cup
    CASE o.kind = "AccessRequest" -> ClassifyRule(o, policy)
      [] o.kind = "RouteRequest" -> ClassifyRoute(o, current)
      [] o.kind = "InterfaceRequest" -> ClassifyInterface(o, current)
      [] OTHER -> ClassifyZone(o, current)

TierOf(o, policy, hierarchy, current) == Worst(Checks(o, policy, hierarchy, current))

(* Taking away an allow opens nothing; every other removal is looked at.   *)
ClassifyRemoval(kind, action) ==
    IF kind = "AccessRequest" /\ action = "allow" THEN "LOW" ELSE "HIGH"
====

---- MODULE Changeset_proofs ----
(***************************************************************************)
(* A change from its pull request to its audit record, for any history of  *)
(* merges, runs and evidence branches.  The invariant relates the commits  *)
(* to the records: every commit of main is an accepted pull request, squash*)
(* merged, or a branch of records that landed; every branch holds what the *)
(* run of its commit wrote; and unless records crossed, main or the one    *)
(* open branch holds what the run of the live commit wrote.                *)
(***************************************************************************)
EXTENDS Changeset, RuleOrder_proofs

----
(* Tiers.                                                                  *)

AllTiers == {"LOW", "HIGH", "CRITICAL"}

\* The ranks of the three tiers.
LEMMA Ranks == Rank("LOW") = 1 /\ Rank("HIGH") = 2 /\ Rank("CRITICAL") = 3
<1>1. /\ DOMAIN Tiers = 1 .. 3
      /\ Tiers[1] = "LOW" /\ Tiers[2] = "HIGH" /\ Tiers[3] = "CRITICAL"
  BY DEF Tiers
<1>2. /\ \A i \in 1 .. 3 : Tiers[i] = "LOW" => i = 1
      /\ \A i \in 1 .. 3 : Tiers[i] = "HIGH" => i = 2
      /\ \A i \in 1 .. 3 : Tiers[i] = "CRITICAL" => i = 3
  BY <1>1
<1> QED
  BY <1>1, <1>2 DEF Rank

\* The worst of some checks is the worst tier among them.
LEMMA WorstIs ==
    ASSUME NEW checks, \A c \in checks : c.tier \in AllTiers
    PROVE  /\ Worst(checks) = IF \E c \in checks : c.tier = "CRITICAL" THEN "CRITICAL"
                              ELSE IF \E c \in checks : c.tier = "HIGH" THEN "HIGH" ELSE "LOW"
           /\ Worst(checks) \in AllTiers
           /\ \A c \in checks : Rank(c.tier) <= Rank(Worst(checks))
<1> DEFINE tiers == {c.tier : c \in checks} \cup {"LOW"}
           top == IF \E c \in checks : c.tier = "CRITICAL" THEN "CRITICAL"
                  ELSE IF \E c \in checks : c.tier = "HIGH" THEN "HIGH" ELSE "LOW"
<1>1. tiers \subseteq AllTiers /\ \A c \in checks : c.tier \in tiers
  BY DEF AllTiers
<1>2. /\ "CRITICAL" \in tiers <=> \E c \in checks : c.tier = "CRITICAL"
      /\ "HIGH" \in tiers <=> \E c \in checks : c.tier = "HIGH"
      /\ "LOW" \in tiers
  OBVIOUS
<1>3. Worst(checks) = CHOOSE t \in tiers : \A u \in tiers : Rank(u) <= Rank(t)
  BY DEF Worst
<1> HIDE DEF tiers
<1>4. \A t \in AllTiers : Rank(t) \in 1 .. 3
  BY Ranks DEF AllTiers
<1>5. top \in tiers /\ \A u \in tiers : Rank(u) <= Rank(top)
  BY <1>1, <1>2, Ranks DEF AllTiers
<1>6. \A t \in tiers : (\A u \in tiers : Rank(u) <= Rank(t)) => t = top
  <2> SUFFICES ASSUME NEW t \in tiers, \A u \in tiers : Rank(u) <= Rank(t) PROVE t = top
    OBVIOUS
  <2>1. Rank(top) <= Rank(t) /\ Rank(t) <= Rank(top)
    BY <1>5
  <2>2. t \in AllTiers /\ top \in AllTiers
    BY <1>1, <1>5
  <2> HIDE DEF top
  <2> QED
    BY <2>1, <2>2, Ranks DEF AllTiers
<1>7. Worst(checks) = top
  <2> HIDE DEF top
  <2> QED
    BY <1>3, <1>5, <1>6
<1>8. Worst(checks) \in AllTiers
  BY <1>7 DEF AllTiers
<1>9. \A c \in checks : Rank(c.tier) <= Rank(Worst(checks))
  <2> HIDE DEF top
  <2> QED
    BY <1>1, <1>5, <1>7
<1> QED
  BY <1>7, <1>8, <1>9

\* A check that fires is one of the tier it names, and no other is there.
LEMMA CheckIs ==
    ASSUME NEW name, NEW tier, NEW fires \in BOOLEAN
    PROVE  /\ \A c \in Check(name, tier, fires) : c.tier = tier
           /\ (\E c \in Check(name, tier, fires) : TRUE) <=> fires
<1>1. CASE fires
  <2>1. Check(name, tier, fires) = {[check |-> name, tier |-> tier]}
    BY <1>1 DEF Check
  <2>2. [check |-> name, tier |-> tier].tier = tier
    OBVIOUS
  <2> QED
    BY <1>1, <2>1, <2>2, Zenon
<1>2. CASE ~fires
  <2>1. Check(name, tier, fires) = {}
    BY <1>2 DEF Check
  <2> QED
    BY <1>2, <2>1
<1> QED
  BY <1>1, <1>2

SomeAny(side) == \E a \in side : IsAny(a)

Broad(side) == \E a \in side : IsBroad(a)

Wide(services) == \E s \in services : PortSpan(s) > WidePortSpan

Risky(services) == \E s \in services : Ports(s) \cap RiskyPorts # {}

Inbound(r) == r.from \cap InternetZones # {}

Critical(r) == r.action = "allow" /\ SomeAny(r.sources) /\ (SomeAny(r.destinations) \/ Inbound(r))

High(r, policy, hierarchy) ==
    \/ r.scope[1] = "folder" /\ r.scope[2] \in DOMAIN hierarchy /\ hierarchy[r.scope[2]] # {}
    \/ /\ r.action = "allow"
       /\ \/ Broad(r.sources) \/ Broad(r.destinations) \/ r.negated
          \/ Wide(r.services) \/ (Inbound(r) /\ Risky(r.services))
    \/ NovelPairs(r, policy) # {}

\* A tier together with the condition it fires under.
Fired(checks, tier) == \E c \in checks : c.tier = tier

\* A check is there when it fires.
LEMMA FiredIs ==
    ASSUME NEW name, NEW tier, NEW fires \in BOOLEAN, NEW t
    PROVE  Fired(Check(name, tier, fires), t) <=> fires /\ t = tier
BY CheckIs DEF Fired

\* Checks put together fire each for itself.
LEMMA FiredUnion ==
    ASSUME NEW A, NEW B, NEW t
    PROVE  Fired(A \cup B, t) <=> Fired(A, t) \/ Fired(B, t)
BY DEF Fired

\* The tier of a rule, without the detour over its checks.
LEMMA RuleTier ==
    ASSUME NEW r, r.kind = "AccessRequest", r.negated \in BOOLEAN, NEW policy, NEW hierarchy, NEW current
    PROVE  TierOf(r, policy, hierarchy, current) =
             IF Critical(r) THEN "CRITICAL" ELSE IF High(r, policy, hierarchy) THEN "HIGH" ELSE "LOW"
<1> DEFINE blast == BlastRadius(r.scope, hierarchy)
           allow == AllowChecks(r)
           inPolicy == PolicyChecks(r, policy)
           all == Checks(r, policy, hierarchy, current)
<1>1. all = blast \cup ((IF r.action = "allow" THEN allow ELSE {}) \cup inPolicy)
  BY DEF Checks, ClassifyRule
<1>2. \A t : Fired(blast, t) <=> /\ t = "HIGH" /\ r.scope[1] = "folder" /\ r.scope[2] \in DOMAIN hierarchy
                                /\ hierarchy[r.scope[2]] # {}
  BY FiredIs DEF BlastRadius
<1>3. /\ Fired(inPolicy, "HIGH") <=> NovelPairs(r, policy) # {}
      /\ ~Fired(inPolicy, "CRITICAL")
      /\ \A t : Fired(inPolicy, t) => t \in AllTiers
  <2> DEFINE twin == Duplicated(r, policy)
             a == Check("novel_zone_pair", "HIGH", NovelPairs(r, policy) # {})
             b == Check("redundant_rule", "LOW", twin)
             c == Check("shadowed_by", "LOW", ~twin /\ r.action = "allow" /\ Shadowed(r, policy))
  <2>1. inPolicy = (a \cup b) \cup c
    BY DEF PolicyChecks
  <2>2. twin \in BOOLEAN /\ Shadowed(r, policy) \in BOOLEAN
    BY DEF Duplicated, Shadowed
  <2>3. /\ \A t : Fired(a, t) <=> (NovelPairs(r, policy) # {}) /\ t = "HIGH"
        /\ \A t : Fired(b, t) => t = "LOW"
        /\ \A t : Fired(c, t) => t = "LOW"
    <3> HIDE DEF twin
    <3> QED
      BY ZenonT(60), <2>2, FiredIs
  <2> HIDE DEF a, b, c
  <2>4. \A t : Fired(inPolicy, t) <=> Fired(a, t) \/ Fired(b, t) \/ Fired(c, t)
    BY <2>1 DEF Fired
  <2> HIDE DEF inPolicy
  <2> QED
    BY <2>3, <2>4 DEF AllTiers
<1>4. /\ Fired(allow, "CRITICAL") <=> SomeAny(r.sources) /\ (SomeAny(r.destinations) \/ Inbound(r))
      /\ Fired(allow, "HIGH") <=>
            \/ Broad(r.sources) \/ Broad(r.destinations) \/ r.negated
            \/ Wide(r.services) \/ (Inbound(r) /\ Risky(r.services))
      /\ \A t : Fired(allow, t) => t \in AllTiers
  <2> DEFINE wide == Wide(r.services)
             risky == Risky(r.services)
             a == Check("any_any_allow", "CRITICAL", SomeAny(r.sources) /\ SomeAny(r.destinations))
             b == Check("inbound_any_from_internet", "CRITICAL", Inbound(r) /\ SomeAny(r.sources))
             c == Check("broad_source", "HIGH", Broad(r.sources))
             d == Check("broad_destination", "HIGH", Broad(r.destinations))
             e == Check("any_service", "HIGH", wide)
             f == Check("risky_port_from_internet", "HIGH", Inbound(r) /\ risky)
             g == Check("negated_match", "HIGH", r.negated)
             h == Check("allow_without_inspection", "LOW", ~r.profile)
  <2>1. allow = a \cup b \cup c \cup d \cup e \cup f \cup g \cup h
    BY DEF AllowChecks, SomeAny, Broad, Inbound, Wide, Risky
  <2>2. /\ wide \in BOOLEAN /\ risky \in BOOLEAN /\ (~r.profile) \in BOOLEAN
        /\ SomeAny(r.sources) \in BOOLEAN /\ SomeAny(r.destinations) \in BOOLEAN /\ Inbound(r) \in BOOLEAN
        /\ Broad(r.sources) \in BOOLEAN /\ Broad(r.destinations) \in BOOLEAN
    BY DEF SomeAny, Broad, Inbound, Wide, Risky
  <2> HIDE DEF wide, risky
  <2>3. /\ \A t : Fired(a, t) <=> (SomeAny(r.sources) /\ SomeAny(r.destinations)) /\ t = "CRITICAL"
        /\ \A t : Fired(b, t) <=> (Inbound(r) /\ SomeAny(r.sources)) /\ t = "CRITICAL"
        /\ \A t : Fired(c, t) <=> Broad(r.sources) /\ t = "HIGH"
        /\ \A t : Fired(d, t) <=> Broad(r.destinations) /\ t = "HIGH"
        /\ \A t : Fired(e, t) <=> wide /\ t = "HIGH"
        /\ \A t : Fired(f, t) <=> (Inbound(r) /\ risky) /\ t = "HIGH"
        /\ \A t : Fired(g, t) <=> r.negated /\ t = "HIGH"
        /\ \A t : Fired(h, t) => t = "LOW"
    BY ZenonT(60), <2>2, FiredIs
  <2> HIDE DEF a, b, c, d, e, f, g, h
  <2>4. \A t : Fired(allow, t) <=> \/ Fired(a, t) \/ Fired(b, t) \/ Fired(c, t) \/ Fired(d, t)
                                  \/ Fired(e, t) \/ Fired(f, t) \/ Fired(g, t) \/ Fired(h, t)
    BY <2>1 DEF Fired
  <2> HIDE DEF allow
  <2>5. Fired(allow, "CRITICAL") <=> SomeAny(r.sources) /\ (SomeAny(r.destinations) \/ Inbound(r))
    BY <2>3, <2>4
  <2>6. Fired(allow, "HIGH") <=>
            \/ Broad(r.sources) \/ Broad(r.destinations) \/ r.negated \/ wide \/ (Inbound(r) /\ risky)
    BY <2>3, <2>4
  <2>7. \A t : Fired(allow, t) => t \in AllTiers
    BY <2>3, <2>4 DEF AllTiers
  <2> QED
    BY <2>5, <2>6, <2>7 DEF wide, risky
<1> HIDE DEF blast, allow, inPolicy, all
<1> DEFINE some == IF r.action = "allow" THEN allow ELSE {}
<1>5. \A t : Fired(some, t) <=> r.action = "allow" /\ Fired(allow, t)
  BY DEF Fired
<1> HIDE DEF some
<1>6. \A t : Fired(all, t) <=> Fired(blast, t) \/ Fired(some, t) \/ Fired(inPolicy, t)
  BY <1>1, FiredUnion DEF some
<1>7. /\ Fired(all, "CRITICAL") <=> Critical(r)
      /\ Fired(all, "HIGH") <=> High(r, policy, hierarchy)
      /\ \A t : Fired(all, t) => t \in AllTiers
  BY <1>2, <1>3, <1>4, <1>5, <1>6 DEF Critical, High, AllTiers
<1>8. \A c \in all : c.tier \in AllTiers
  BY <1>7 DEF Fired
<1>9. Worst(all) = IF Fired(all, "CRITICAL") THEN "CRITICAL" ELSE IF Fired(all, "HIGH") THEN "HIGH" ELSE "LOW"
  BY <1>8, WorstIs DEF Fired
<1> QED
  BY <1>7, <1>9 DEF TierOf, all

----
(* A rule that matches more is not tiered below one that matches less.     *)

\* What the comparison needs to know of a rule.
Comparable(r) ==
    /\ r.kind = "AccessRequest" /\ r.negated \in BOOLEAN
    /\ \A addr \in r.sources \cup r.destinations : addr.type = "cidr" => addr.value \in Seq(STRING)
    /\ \A s \in r.services : s.lo \in Nat /\ s.hi \in Nat

\* What covers the addresses of a broad side is broad, and any when it is any.
LEMMA CoveredSide ==
    ASSUME NEW small, NEW large, \A addr \in small : Covers(large, addr),
           \A addr \in small \cup large : addr.type = "cidr" => addr.value \in Seq(STRING)
    PROVE  (SomeAny(small) => SomeAny(large)) /\ (Broad(small) => Broad(large))
<1>1. ASSUME NEW a \in small, IsCidr(a), NEW v \in large, IsCidr(v), IsPrefix(v.value, a.value)
      PROVE  Prefix(v) \in Nat /\ Prefix(a) \in Nat /\ Prefix(v) <= Prefix(a)
  <2>1. v.value \in Seq(STRING) /\ a.value \in Seq(STRING)
    BY <1>1 DEF IsCidr
  <2>2. Len(v.value) \in Nat /\ Len(a.value) \in Nat /\ Len(v.value) <= Len(a.value)
    BY <1>1, <2>1 DEF IsPrefix
  <2> QED
    BY <2>2 DEF Prefix
<1>2. ASSUME NEW a \in small, IsAny(a) PROVE SomeAny(large)
  <2>1. Covers(large, a) /\ IsCidr(a) /\ Prefix(a) = 0
    BY <1>2 DEF IsAny
  <2>2. ASSUME NEW v \in large, IsCidr(v), IsPrefix(v.value, a.value) PROVE IsAny(v)
    <3>1. Prefix(v) \in Nat /\ Prefix(v) <= 0
      BY <1>1, <2>1, <2>2
    <3> QED
      BY <2>2, <3>1 DEF IsAny
  <2> QED
    BY <1>2, <2>1, <2>2 DEF Covers, SomeAny
<1>3. ASSUME NEW a \in small, IsBroad(a) PROVE Broad(large)
  <2>1. Covers(large, a) /\ IsCidr(a) /\ Prefix(a) <= 16
    BY <1>3 DEF IsBroad, BroadPrefixMax
  <2>2. ASSUME NEW v \in large, IsCidr(v), IsPrefix(v.value, a.value) PROVE IsBroad(v)
    <3>1. Prefix(v) \in Nat /\ Prefix(a) \in Nat /\ Prefix(v) <= Prefix(a)
      BY <1>1, <2>1, <2>2
    <3>2. Prefix(v) <= 16
      BY <2>1, <3>1
    <3> QED
      BY <2>2, <3>2 DEF IsBroad, BroadPrefixMax
  <2>3. ASSUME NEW v \in large, IsAny(v) PROVE IsBroad(v)
    BY <2>3 DEF IsAny, IsBroad, BroadPrefixMax
  <2> QED
    BY <1>3, <2>1, <2>2, <2>3 DEF Covers, Broad
<1> QED
  BY <1>2, <1>3 DEF SomeAny, Broad

\* What covers a wide or risky service is so too.
LEMMA CoveredPorts ==
    ASSUME NEW small, NEW large, \A s \in small : ServiceCovered(large, s),
           \A s \in small \cup large : s.lo \in Nat /\ s.hi \in Nat
    PROVE  (Wide(small) => Wide(large)) /\ (Risky(small) => Risky(large))
<1>1. ASSUME NEW s \in small
      PROVE  \E t \in large : t.lo <= s.lo /\ s.hi <= t.hi
  BY DEF ServiceCovered
<1>2. ASSUME NEW s \in small, NEW t \in large, t.lo <= s.lo, s.hi <= t.hi
      PROVE  PortSpan(s) <= PortSpan(t) /\ PortSpan(s) \in Int /\ PortSpan(t) \in Int /\ Ports(s) \subseteq Ports(t)
  <2>1. s.lo \in Nat /\ s.hi \in Nat /\ t.lo \in Nat /\ t.hi \in Nat
    OBVIOUS
  <2>2. s.lo .. s.hi \subseteq t.lo .. t.hi
    BY <1>2, <2>1
  <2> QED
    BY <1>2, <2>1, <2>2 DEF PortSpan, Ports
<1>3. ASSUME NEW s \in small, PortSpan(s) > WidePortSpan
      PROVE  \E t \in large : PortSpan(t) > WidePortSpan
  <2>1. PICK t \in large : t.lo <= s.lo /\ s.hi <= t.hi
    BY <1>1
  <2>2. PortSpan(s) <= PortSpan(t) /\ PortSpan(s) \in Int /\ PortSpan(t) \in Int
    BY <1>2, <2>1
  <2> QED
    BY <1>3, <2>2 DEF WidePortSpan
<1>4. ASSUME NEW s \in small, Ports(s) \cap RiskyPorts # {}
      PROVE  \E t \in large : Ports(t) \cap RiskyPorts # {}
  <2>1. PICK t \in large : t.lo <= s.lo /\ s.hi <= t.hi
    BY <1>1
  <2>2. Ports(s) \subseteq Ports(t)
    BY <1>2, <2>1
  <2> QED
    BY <1>4, <2>2
<1> QED
  BY <1>3, <1>4 DEF Wide, Risky

\* Covering a rule raises the tier: every reason the narrow rule has, the wide one has.
LEMMA WiderIsHigher ==
    ASSUME NEW policy, NEW a \in policy, NEW b \in policy, Comparable(a), Comparable(b),
           a.action = "allow", b.action = "allow", ~a.negated, ~b.negated,
           a.scope = b.scope, Covered(a, b), NEW hierarchy, NEW current
    PROVE  Rank(TierOf(a, policy, hierarchy, current)) <= Rank(TierOf(b, policy, hierarchy, current))
<1>1. /\ SomeAny(a.sources) => SomeAny(b.sources)
      /\ SomeAny(a.destinations) => SomeAny(b.destinations)
      /\ Broad(a.sources) => Broad(b.sources)
      /\ Broad(a.destinations) => Broad(b.destinations)
  BY CoveredSide DEF Covered, Comparable
<1>2. (Wide(a.services) => Wide(b.services)) /\ (Risky(a.services) => Risky(b.services))
  BY CoveredPorts DEF Covered, Comparable
<1>3. Inbound(a) => Inbound(b)
  BY DEF Inbound, Covered
<1>4. NovelPairs(a, policy) # {} => NovelPairs(b, policy) # {}
  <2> SUFFICES ASSUME NEW pair \in NovelPairs(a, policy) PROVE pair \in NovelPairs(b, policy)
    OBVIOUS
  <2>1. /\ pair \in a.from \X a.to
        /\ \A o \in Others(a, policy) : pair \notin o.from \X o.to
    BY DEF NovelPairs
  <2>2. pair \in b.from \X b.to
    BY <2>1 DEF Covered
  <2>3. a.name = b.name
    BY <2>1, <2>2 DEF Others
  <2>4. Others(a, policy) = Others(b, policy)
    BY <2>3 DEF Others
  <2> QED
    BY <2>1, <2>2, <2>4 DEF NovelPairs
<1>5. Critical(a) => Critical(b)
  BY <1>1, <1>3 DEF Critical
<1>6. High(a, policy, hierarchy) => High(b, policy, hierarchy)
  BY <1>1, <1>2, <1>3, <1>4 DEF High
<1>7. /\ TierOf(a, policy, hierarchy, current) =
            IF Critical(a) THEN "CRITICAL" ELSE IF High(a, policy, hierarchy) THEN "HIGH" ELSE "LOW"
      /\ TierOf(b, policy, hierarchy, current) =
            IF Critical(b) THEN "CRITICAL" ELSE IF High(b, policy, hierarchy) THEN "HIGH" ELSE "LOW"
  BY RuleTier DEF Comparable
<1> QED
  BY <1>5, <1>6, <1>7, Ranks

----
(* Records.                                                                *)

Written(T, records, entries) ==
    {after \in [0 .. Len(entries) -> [Pages -> T]] :
        /\ after[0] = records
        /\ \A n \in 1 .. Len(entries) :
              after[n] = WriteIfChanged(after[n - 1], entries[n].page, entries[n].bundle)}

Listed(entries) == entries = [i \in 1 .. Len(entries) |-> entries[i]] /\ Len(entries) \in Nat

\* A write leaves a page for each page.
LEMMA OneWrite ==
    ASSUME NEW T, NEW records \in [Pages -> T], NEW page, NEW bundle \in T
    PROVE  WriteIfChanged(records, page, bundle) \in [Pages -> T]
BY DEF WriteIfChanged

\* The evidence step writes one bundle after the other.
LEMMA WrittenSteps ==
    ASSUME NEW T, NEW records \in [Pages -> T], NEW entries, Listed(entries),
           \A n \in 1 .. Len(entries) : entries[n].bundle \in T
    PROVE  \E after \in Written(T, records, entries) :
              WriteAll(records, entries) = after[Len(entries)]
<1> DEFINE N == Len(entries)
           S == [Pages -> T]
           Put(n, done) == WriteIfChanged(done, entries[n].page, entries[n].bundle)
           step == [p \in Nat \X S |-> IF p[1] \in 1 .. N THEN Put(p[1], p[2]) ELSE p[2]]
           Def(k) == [n \in 0 .. N |-> IF n = 0 THEN records ELSE Put(n, k[n - 1])]
           after == CHOOSE k : k = Def(k)
<1>1. N \in Nat
  BY DEF Listed
<1>2. records \in S /\ \A n \in 1 .. N : \A done \in S : Put(n, done) \in S
  BY OneWrite
<1>3. WriteAll(records, entries) = after[N]
  BY DEF WriteAll
<1> HIDE DEF N, S, Put
<1>4. step \in Steps(S)
  BY <1>2 DEF Steps
<1>5. \A n \in 1 .. N : \A done \in S : step[<<n, done>>] = Put(n, done)
  BY <1>1
<1>6. PICK g \in [0 .. N -> S] : g[0] = records /\ \A n \in 1 .. N : g[n] = step[<<n, g[n - 1]>>]
  <2> HIDE DEF step
  <2>1. Climbs(S, N, records, step) # {}
    BY <1>1, <1>2, <1>4, Climb
  <2> QED
    BY <2>1 DEF Climbs
<1> HIDE DEF step
<1>7. g = Def(g)
  <2>1. \A n \in 1 .. N : n - 1 \in 0 .. N /\ n # 0
    BY <1>1
  <2>2. \A n \in 0 .. N : n # 0 => n \in 1 .. N
    BY <1>1
  <2>3. \A n \in 0 .. N : g[n] = IF n = 0 THEN records ELSE Put(n, g[n - 1])
    BY <2>1, <2>2, <1>5, <1>6
  <2> QED
    BY <2>3
<1>8. after = Def(after)
  <2> HIDE DEF Def
  <2> QED
    BY <1>7
<1> HIDE DEF after
<1>9. after = [n \in 0 .. N |-> after[n]] /\ after[0] = records
  BY <1>1, <1>8
<1>10. \A n \in 1 .. N : after[n] = Put(n, after[n - 1])
  <2>1. \A n \in 1 .. N : n \in 0 .. N /\ n # 0
    BY <1>1
  <2>2. \A n \in 0 .. N : after[n] = IF n = 0 THEN records ELSE Put(n, after[n - 1])
    BY <1>8
  <2> QED
    BY <2>1, <2>2
<1>11. after \in Climbs(S, N, records, step)
  BY ZenonT(60), <1>1, <1>2, <1>4, <1>5, <1>9, <1>10, ClimbType
<1>12. after \in Written(T, records, entries)
  BY <1>9, <1>10, <1>11 DEF N, S, Put, Written, Climbs
<1> QED
  BY <1>3, <1>12 DEF N

\* One of the first n entries put new on the page.
Placed(new, page, entries, n) ==
    \E i \in 1 .. n : entries[i].page = page /\ new = entries[i].bundle

\* It describes another change than old did.
Rewritten(old, new, page, entries, n) ==
    Placed(new, page, entries, n) /\ (old = Absent \/ new.change # old.change)

Apart(entries) == \A i, j \in 1 .. Len(entries) : entries[i].page = entries[j].page => i = j

Shown(records, entry) ==
    records[entry.page] # Absent /\ records[entry.page].change = entry.bundle.change

\* A page that is written holds an entry of its own; entries for different
\* pages do not get in each other's way.
LEMMA WriteAllIs ==
    ASSUME NEW T, NEW records \in [Pages -> T], NEW entries, Listed(entries),
           \A n \in 1 .. Len(entries) : entries[n].bundle \in T
    PROVE  LET w == WriteAll(records, entries)
           IN  /\ w \in [Pages -> T]
               /\ \A page \in Pages :
                     w[page] = records[page] \/ Placed(w[page], page, entries, Len(entries))
               /\ Apart(entries) => \A page \in Pages :
                     \/ w[page] = records[page]
                     \/ Rewritten(records[page], w[page], page, entries, Len(entries))
               /\ Apart(entries) => \A i \in 1 .. Len(entries) :
                     entries[i].page \in Pages /\ entries[i].bundle # Absent => Shown(w, entries[i])
<1> DEFINE N == Len(entries)
           w == WriteAll(records, entries)
<1>0. PICK after \in Written(T, records, entries) : w = after[N]
  BY WrittenSteps
<1>1. /\ after \in [0 .. N -> [Pages -> T]] /\ after[0] = records
      /\ \A n \in 1 .. N :
           after[n] = WriteIfChanged(after[n - 1], entries[n].page, entries[n].bundle)
  BY <1>0 DEF Written
<1>2. N \in Nat
  BY DEF Listed
<1>a. Apart(entries) <=> \A i, j \in 1 .. N : entries[i].page = entries[j].page => i = j
  BY DEF Apart
<1> HIDE DEF N, w
<1>3. w \in [Pages -> T]
  BY <1>0, <1>1, <1>2
<1>b. ASSUME NEW n \in 1 .. N
      PROVE  /\ n - 1 \in 0 .. N /\ n \in 0 .. N /\ 1 .. n - 1 \subseteq 1 .. n /\ n \in 1 .. n
             /\ after[n - 1] \in [Pages -> T] /\ after[n] \in [Pages -> T]
             /\ \A page \in Pages \ {entries[n].page} : after[n][page] = after[n - 1][page]
             /\ entries[n].page \in Pages =>
                  \/ after[n][entries[n].page] = after[n - 1][entries[n].page]
                  \/ /\ after[n][entries[n].page] = entries[n].bundle
                     /\ \/ after[n - 1][entries[n].page] = Absent
                        \/ entries[n].bundle.change # after[n - 1][entries[n].page].change
             /\ entries[n].page \in Pages /\ entries[n].bundle # Absent =>
                  Shown(after[n], entries[n])
  <2>1. n - 1 \in 0 .. N /\ n \in 0 .. N /\ 1 .. n - 1 \subseteq 1 .. n /\ n \in 1 .. n
    BY <1>2
  <2>2. /\ after[n - 1] \in [Pages -> T] /\ after[n] \in [Pages -> T] /\ entries[n].bundle \in T
        /\ after[n] = WriteIfChanged(after[n - 1], entries[n].page, entries[n].bundle)
    BY <1>1, <2>1 DEF N
  <2> DEFINE page == entries[n].page
             bundle == entries[n].bundle
             done == after[n - 1]
             put == WriteIfChanged(done, page, bundle)
  <2>3. done \in [Pages -> T] /\ bundle \in T /\ after[n] = put
    BY <2>2
  <2> HIDE DEF page, bundle, done
  <2>a. \A q \in Pages : q # page => put[q] = done[q]
    BY <2>3 DEF WriteIfChanged, DescribesSameChange
  <2>b. ASSUME page \in Pages
        PROVE  \/ put[page] = done[page]
               \/ put[page] = bundle /\ (done[page] = Absent \/ bundle.change # done[page].change)
    BY <2>3, <2>b DEF WriteIfChanged, DescribesSameChange
  <2>c. ASSUME page \in Pages, bundle # Absent
        PROVE  put[page] # Absent /\ put[page].change = bundle.change
    BY <2>3, <2>c DEF WriteIfChanged, DescribesSameChange
  <2> HIDE DEF put
  <2>5. page \in Pages /\ entries[n].bundle # Absent => Shown(put, entries[n])
    BY <2>c DEF Shown, page, bundle
  <2> QED
    BY <2>1, <2>2, <2>3, <2>a, <2>b, <2>5 DEF page, bundle, done
<1>4. ASSUME NEW page \in Pages
      PROVE  w[page] = records[page] \/ Placed(w[page], page, entries, N)
  <2> DEFINE Fine(n) == \/ after[n][page] = records[page]
                        \/ Placed(after[n][page], page, entries, n)
             I == {n \in 0 .. N : Fine(n)}
  <2>1. Fine(0)
    BY <1>1
  <2>2. ASSUME NEW n \in 1 .. N, Fine(n - 1) PROVE Fine(n)
    <3>1. \/ after[n][page] = after[n - 1][page]
          \/ entries[n].page = page /\ after[n][page] = entries[n].bundle
      BY <1>b
    <3> QED
      BY <1>b, <2>2, <3>1 DEF Placed
  <2> HIDE DEF Fine
  <2>3. 0 \in I /\ \A n \in 1 .. N : n - 1 \in I => n \in I
    BY <1>2, <1>b, <2>1, <2>2
  <2>4. N \in I
    <3> HIDE DEF I
    <3> QED
      BY <1>2, <2>3, Upward
  <2> QED
    BY <1>0, <2>4 DEF Fine
<1>5. ASSUME Apart(entries), NEW page \in Pages
      PROVE  w[page] = records[page] \/ Rewritten(records[page], w[page], page, entries, N)
  <2> DEFINE Fine(n) == \/ after[n][page] = records[page]
                        \/ Rewritten(records[page], after[n][page], page, entries, n)
             I == {n \in 0 .. N : Fine(n)}
  <2>1. Fine(0)
    BY <1>1
  <2>2. ASSUME NEW n \in 1 .. N, Fine(n - 1) PROVE Fine(n)
    <3>3. \/ after[n][page] = after[n - 1][page]
          \/ /\ entries[n].page = page
             /\ after[n][page] = entries[n].bundle
             /\ after[n - 1][page] = Absent \/ entries[n].bundle.change # after[n - 1][page].change
      BY <1>b
    <3>4. CASE after[n][page] = after[n - 1][page]
      BY <1>b, <2>2, <3>4 DEF Rewritten, Placed
    <3>5. CASE /\ entries[n].page = page
               /\ after[n][page] = entries[n].bundle
               /\ after[n - 1][page] = Absent \/ entries[n].bundle.change # after[n - 1][page].change
      <4>1. CASE after[n - 1][page] = records[page]
        BY <1>b, <3>5, <4>1 DEF Rewritten, Placed
      <4>2. CASE Rewritten(records[page], after[n - 1][page], page, entries, n - 1)
        <5>1. PICK i \in 1 .. n - 1 : entries[i].page = page
          BY <4>2 DEF Rewritten, Placed
        <5>2. i \in 1 .. N /\ i # n
          BY <1>2
        <5> QED
          BY <3>5, <5>1, <5>2, <1>5, <1>a
      <4> QED
        BY <2>2, <4>1, <4>2
    <3> QED
      BY <3>3, <3>4, <3>5
  <2> HIDE DEF Fine
  <2>3. 0 \in I /\ \A n \in 1 .. N : n - 1 \in I => n \in I
    BY <1>2, <1>b, <2>1, <2>2
  <2>4. N \in I
    <3> HIDE DEF I
    <3> QED
      BY <1>2, <2>3, Upward
  <2> QED
    BY <1>0, <2>4 DEF Fine
<1>6. ASSUME Apart(entries), NEW i \in 1 .. N, entries[i].page \in Pages, entries[i].bundle # Absent
      PROVE  Shown(w, entries[i])
  <2> DEFINE Fine(n) == i <= n => Shown(after[n], entries[i])
             I == {n \in 0 .. N : Fine(n)}
  <2>1. Fine(0)
    BY <1>2
  <2>2. ASSUME NEW n \in 1 .. N, Fine(n - 1) PROVE Fine(n)
    <3>1. CASE i = n
      BY <1>b, <1>6, <3>1
    <3>2. CASE i < n
      <4>1. entries[i].page # entries[n].page
        BY <1>a, <1>6, <3>2
      <4>2. after[n][entries[i].page] = after[n - 1][entries[i].page]
        BY <1>b, <1>6, <4>1
      <4>3. i <= n - 1
        BY <3>2
      <4> QED
        BY <2>2, <4>2, <4>3 DEF Shown
    <3>3. CASE i > n
      BY <3>3
    <3> QED
      BY <3>1, <3>2, <3>3
  <2> HIDE DEF Fine
  <2>3. 0 \in I /\ \A n \in 1 .. N : n - 1 \in I => n \in I
    BY <1>2, <1>b, <2>1, <2>2
  <2>4. N \in I
    <3> HIDE DEF I
    <3> QED
      BY <1>2, <2>3, Upward
  <2> QED
    BY <1>0, <1>2, <2>4 DEF Fine
<1> QED
  BY <1>3, <1>4, <1>5, <1>6 DEF w, N

\* The same of the records of a commit, whatever a bundle is.
LEMMA WriteAllDomain ==
    ASSUME NEW records, records = [page \in Pages |-> records[page]], NEW entries, Listed(entries)
    PROVE  LET w == WriteAll(records, entries)
           IN  /\ w = [page \in Pages |-> w[page]]
               /\ \A page \in Pages :
                     w[page] = records[page] \/ Placed(w[page], page, entries, Len(entries))
               /\ Apart(entries) => \A page \in Pages :
                     \/ w[page] = records[page]
                     \/ Rewritten(records[page], w[page], page, entries, Len(entries))
               /\ Apart(entries) => \A i \in 1 .. Len(entries) :
                     entries[i].page \in Pages /\ entries[i].bundle # Absent => Shown(w, entries[i])
<1> DEFINE T == {records[page] : page \in Pages} \cup {entries[n].bundle : n \in 1 .. Len(entries)}
           w == WriteAll(records, entries)
<1>1. records \in [Pages -> T]
  OBVIOUS
<1>2. \A n \in 1 .. Len(entries) : entries[n].bundle \in T
  OBVIOUS
<1> HIDE DEF T
<1>3. /\ w \in [Pages -> T]
      /\ \A page \in Pages :
            w[page] = records[page] \/ Placed(w[page], page, entries, Len(entries))
      /\ Apart(entries) => \A page \in Pages :
            \/ w[page] = records[page]
            \/ Rewritten(records[page], w[page], page, entries, Len(entries))
      /\ Apart(entries) => \A i \in 1 .. Len(entries) :
            entries[i].page \in Pages /\ entries[i].bundle # Absent => Shown(w, entries[i])
  BY <1>1, <1>2, WriteAllIs
<1> HIDE DEF w
<1>4. w = [page \in Pages |-> w[page]]
  BY <1>3
<1> QED
  BY <1>3, <1>4 DEF w

----
(* Files and keys.                                                         *)

\* The files of a commit are the paths with a document, each once.
LEMMA FilesAre ==
    ASSUME NEW c
    PROVE  /\ Files(c) \in Seq(Paths) /\ IsInjective(Files(c))
           /\ ToSet(Files(c)) = {p \in Paths : c.tree[p] # Absent}
<1>1. PathOrder \in Seq(Paths) /\ IsInjective(PathOrder) /\ ToSet(PathOrder) = Paths
  BY PathsAreListed DEF Paths
<1> DEFINE there == {p \in Paths : c.tree[p] # Absent}
<1>2. Files(c) = KeepOnly(PathOrder, there)
  BY DEF Files
<1>3. there \subseteq Paths
  OBVIOUS
<1> HIDE DEF there
<1>4. /\ KeepOnly(PathOrder, there) \in Seq(Paths) /\ IsInjective(KeepOnly(PathOrder, there))
      /\ ToSet(KeepOnly(PathOrder, there)) = Paths \cap there
  BY <1>1, KeepOnlyMembers
<1>5. ToSet(Files(c)) = there
  BY <1>2, <1>3, <1>4
<1> QED
  BY <1>2, <1>4, <1>5 DEF there

\* At finds a file of the kind and id it is asked for.
LEMMA AtKeyed ==
    ASSUME NEW c, NEW k \in KeysOf(c)
    PROVE  At(c, k) \in ToSet(Files(c)) /\ Key(c, At(c, k)) = k
<1> DEFINE files == Files(c)
           named == {p \in ToSet(files) : Key(c, p) = k}
           found == KeepOnly(files, named)
<1>1. files \in Seq(Paths)
  BY FilesAre
<1>2. At(c, k) = Last(found)
  BY DEF At
<1>3. named # {} /\ named \subseteq ToSet(files)
  BY DEF KeysOf
<1> HIDE DEF files, named
<1>4. found \in Seq(Paths) /\ ToSet(found) = named
  <2>1. found \in Seq(Paths) /\ ToSet(found) = ToSet(files) \cap named
    BY <1>1, KeepOnlyMembers
  <2> HIDE DEF found
  <2> QED
    BY <1>3, <2>1
<1> HIDE DEF found
<1>5. /\ DOMAIN found = 1 .. Len(found) /\ Len(found) \in Nat /\ found # <<>>
      /\ \A e : e \in ToSet(found) <=> \E i \in DOMAIN found : found[i] = e
  BY <1>3, <1>4, Members
<1>6. Len(found) \in DOMAIN found
  BY <1>3, <1>4, <1>5
<1>7. Last(found) \in named
  BY <1>4, <1>5, <1>6 DEF Last
<1> QED
  BY <1>2, <1>7 DEF named, files

\* Where no two files share a kind and id, it is the file itself.
LEMMA AtOwn ==
    ASSUME NEW c, NEW p \in ToSet(Files(c)),
           \A q \in ToSet(Files(c)) : Key(c, q) = Key(c, p) => q = p
    PROVE  At(c, Key(c, p)) = p /\ DocAt(c, Key(c, p)) = c.tree[p]
<1>1. Key(c, p) \in KeysOf(c)
  BY DEF KeysOf
<1> QED
  BY <1>1, AtKeyed DEF DocAt

\* A commit has finitely many keys.
LEMMA KeysAreFinite ==
    ASSUME NEW c
    PROVE  IsFiniteSet(KeysOf(c))
<1> DEFINE files == Files(c)
           keys == [i \in 1 .. Len(files) |-> Key(c, files[i])]
           T == KeysOf(c)
<1>1. files \in Seq(Paths)
  BY FilesAre
<1>2. /\ DOMAIN files = 1 .. Len(files) /\ Len(files) \in Nat
      /\ \A p : p \in ToSet(files) <=> \E i \in DOMAIN files : files[i] = p
  BY <1>1, Members
<1>3. \A i \in 1 .. Len(files) : Key(c, files[i]) \in T
  BY <1>2 DEF KeysOf
<1>4. \A k \in T : \E i \in 1 .. Len(files) : k = Key(c, files[i])
  BY <1>2 DEF KeysOf
<1> HIDE DEF files, T
<1>5. keys \in Seq(T) /\ DOMAIN keys = 1 .. Len(files)
  BY <1>2, <1>3
<1>6. \A i \in DOMAIN keys : keys[i] = Key(c, files[i])
  BY <1>5
<1> HIDE DEF keys
<1>7. /\ ToSet(keys) \subseteq T /\ IsFiniteSet(ToSet(keys))
      /\ \A e : e \in ToSet(keys) <=> \E i \in DOMAIN keys : keys[i] = e
  BY <1>5, Members
<1>8. T \subseteq ToSet(keys)
  BY <1>4, <1>5, <1>6, <1>7
<1>9. ToSet(keys) = T
  BY <1>7, <1>8
<1> QED
  BY <1>7, <1>9 DEF T

----
(* Commits.                                                                *)

Proper(doc, p) == \E d \in Docs[p] : doc.kind = d.kind /\ doc.spec = d.spec

Commit(c) ==
    /\ c = [tree |-> c.tree, catalog |-> c.catalog, message |-> c.message, by |-> c.by,
            records |-> c.records]
    /\ c.tree = [p \in Paths |-> c.tree[p]]
    /\ \A p \in Paths : c.tree[p] # Absent => Proper(c.tree[p], p)
    /\ c.catalog \in Catalogs /\ c.by \in {"people", "evidence"}
    /\ c.records = [page \in Pages |-> c.records[page]]

\* A check has the tier it names.
LEMMA CheckTier ==
    ASSUME NEW name, NEW tier, NEW fires
    PROVE  \A c \in Check(name, tier, fires) : c.tier = tier
BY DEF Check

\* No check has a tier of its own invention.
LEMMA ChecksAreTiered ==
    ASSUME NEW o, NEW policy, NEW hierarchy, NEW current
    PROVE  /\ \A c \in Checks(o, policy, hierarchy, current) : c.tier \in AllTiers
           /\ TierOf(o, policy, hierarchy, current) \in AllTiers
<1>1. \A c \in BlastRadius(o.scope, hierarchy) : c.tier \in AllTiers
  BY CheckTier DEF BlastRadius, AllTiers
<1>2. \A c \in AllowChecks(o) : c.tier \in AllTiers
  <2>1. \A name, tier, fires, c : c \in Check(name, tier, fires) => c.tier = tier
    BY CheckTier
  <2>2. ASSUME NEW c \in AllowChecks(o)
        PROVE  \E name, tier, fires : tier \in AllTiers /\ c \in Check(name, tier, fires)
    <3>1. "LOW" \in AllTiers /\ "HIGH" \in AllTiers /\ "CRITICAL" \in AllTiers
      BY DEF AllTiers
    <3> QED
      BY <3>1, Zenon DEF AllowChecks
  <2> QED
    BY <2>1, <2>2
<1>3. \A c \in PolicyChecks(o, policy) : c.tier \in AllTiers
  BY CheckTier DEF PolicyChecks, AllTiers
<1>4. \A c \in ClassifyRule(o, policy) : c.tier \in AllTiers
  BY <1>2, <1>3 DEF ClassifyRule
<1>5. \A c \in ClassifyRoute(o, current) : c.tier \in AllTiers
  BY CheckTier DEF ClassifyRoute, AllTiers
<1>6. \A c \in ClassifyInterface(o, current) : c.tier \in AllTiers
  BY CheckTier DEF ClassifyInterface, AllTiers
<1>7. \A c \in ClassifyZone(o, current) : c.tier \in AllTiers
  BY CheckTier DEF ClassifyZone, AllTiers
<1>8. \A c \in Checks(o, policy, hierarchy, current) : c.tier \in AllTiers
  BY <1>1, <1>4, <1>5, <1>6, <1>7 DEF Checks
<1>9. TierOf(o, policy, hierarchy, current) \in AllTiers
  BY <1>8, WorstIs DEF TierOf
<1> QED
  BY <1>8, <1>9

\* What classify --max-tier prints is the worst tier of what it lists.
LEMMA ClassifyIs ==
    ASSUME NEW base, NEW c, Classify(base, c) # "rejected"
    PROVE  /\ Valid(c) /\ StaleTickets(base, c) = {} /\ Unauthorised(base, c) = {}
           /\ Classify(base, c) \in AllTiers
           /\ \A p \in ToSet(Files(c)) :
                 p[2] \in ChangedIds(base, c) => Rank(TierAt(c, p)) <= Rank(Classify(base, c))
           /\ \A k \in Removals(base, c) :
                 Rank(RemovalTier(base, k)) <= Rank(Classify(base, c))
<1> DEFINE kept == {p \in ToSet(Files(c)) : p[2] \in ChangedIds(base, c)}
           listed == {[tier |-> TierAt(c, p)] : p \in kept}
           gone == {[tier |-> RemovalTier(base, k)] : k \in Removals(base, c)}
           checks == listed \cup gone
<1>1. /\ Valid(c) /\ StaleTickets(base, c) = {} /\ Unauthorised(base, c) = {}
      /\ Classify(base, c) = Worst(checks)
  BY DEF Classify
<1>2. \A p : TierAt(c, p) \in AllTiers
  BY ChecksAreTiered DEF TierAt
<1>3. \A k : RemovalTier(base, k) \in AllTiers
  BY DEF RemovalTier, ClassifyRemoval, AllTiers
<1>4. \A check \in checks : check.tier \in AllTiers
  BY <1>2, <1>3
<1>5. \A p \in kept : [tier |-> TierAt(c, p)] \in checks
  OBVIOUS
<1>6. \A k \in Removals(base, c) : [tier |-> RemovalTier(base, k)] \in checks
  OBVIOUS
<1>7. \A p \in ToSet(Files(c)) : p[2] \in ChangedIds(base, c) => p \in kept
  OBVIOUS
<1> HIDE DEF kept, checks
<1>8. Worst(checks) \in AllTiers /\ \A check \in checks : Rank(check.tier) <= Rank(Worst(checks))
  BY <1>4, WorstIs
<1> QED
  BY <1>1, <1>5, <1>6, <1>7, <1>8

----
(* The history only grows, a commit at a time.                             *)

\* Append adds one at the end and touches nothing else.
LEMMA Grown ==
    ASSUME NEW s, Listed(s), NEW e
    PROVE  /\ Listed(Append(s, e)) /\ Len(Append(s, e)) = Len(s) + 1
           /\ Append(s, e)[Len(s) + 1] = e
           /\ \A n \in 1 .. Len(s) : Append(s, e)[n] = s[n]
<1> DEFINE T == {s[n] : n \in 1 .. Len(s)} \cup {e}
           a == Append(s, e)
<1>1. s \in Seq(T) /\ e \in T
  BY DEF Listed
<1> HIDE DEF T
<1>2. /\ a \in Seq(T) /\ Len(a) = Len(s) + 1 /\ a[Len(s) + 1] = e
      /\ \A n \in 1 .. Len(s) : a[n] = s[n]
  BY <1>1
<1> HIDE DEF a
<1>3. Listed(a)
  BY <1>2 DEF Listed
<1> QED
  BY <1>2, <1>3 DEF a

Editable(p, doc, catalog) ==
    p \in Paths /\ (doc # Absent => Proper(doc, p)) /\ catalog \in Catalogs

\* An edit of a commit is a commit with the records it had.
LEMMA EditedIs ==
    ASSUME NEW c, Commit(c), NEW p, NEW doc, NEW catalog, NEW message, Editable(p, doc, catalog),
           NEW e, e = Edited(c, p, doc, catalog, message)
    PROVE  /\ Commit(e)
           /\ \A q \in Paths : e.tree[q] = IF q = p THEN doc ELSE c.tree[q]
           /\ e.catalog = catalog /\ e.message = message /\ e.by = "people"
           /\ e.records = c.records
<1> DEFINE tree == [q \in Paths |-> IF q = p THEN doc ELSE c.tree[q]]
<1>1. PICK t, m, b, r, g :
        c = [tree |-> t, catalog |-> g, message |-> m, by |-> b, records |-> r]
  BY DEF Commit
<1>2. t = c.tree /\ r = c.records
  BY <1>1
<1> USE DEF Editable
<1>3. [t EXCEPT ![p] = doc] = tree
  BY <1>2 DEF Commit
<1>4. e = [tree |-> [t EXCEPT ![p] = doc], catalog |-> catalog, message |-> message,
           by |-> "people", records |-> r]
  <2> DEFINE t2 == [c.tree EXCEPT ![p] = doc]
             c1 == [c EXCEPT !.tree = t2]
             c2 == [c1 EXCEPT !.catalog = catalog]
             c3 == [c2 EXCEPT !.message = message]
  <2>1. e = [c3 EXCEPT !.by = "people"] /\ t2 = [t EXCEPT ![p] = doc]
    BY <1>2 DEF Edited
  <2> HIDE DEF t2
  <2>2. c1 = [tree |-> t2, catalog |-> g, message |-> m, by |-> b, records |-> r]
    BY <1>1
  <2> HIDE DEF c1
  <2>3. c2 = [tree |-> t2, catalog |-> catalog, message |-> m, by |-> b, records |-> r]
    BY <2>2
  <2> HIDE DEF c2
  <2>4. c3 = [tree |-> t2, catalog |-> catalog, message |-> message, by |-> b, records |-> r]
    BY <2>3
  <2> HIDE DEF c3
  <2> QED
    BY <2>1, <2>4
<1>5. /\ e.tree = tree /\ e.catalog = catalog /\ e.message = message /\ e.by = "people"
      /\ e.records = c.records
  BY <1>2, <1>3, <1>4
<1>6. /\ e.tree = [q \in Paths |-> e.tree[q]]
      /\ \A q \in Paths : e.tree[q] # Absent => Proper(e.tree[q], q)
  BY <1>5 DEF Commit
<1>7. e = [tree |-> e.tree, catalog |-> e.catalog, message |-> e.message, by |-> e.by,
           records |-> e.records]
  BY <1>2, <1>3, <1>4, <1>5
<1>8. e.records = [page \in Pages |-> e.records[page]]
  BY <1>5 DEF Commit
<1>9. Commit(e)
  BY <1>5, <1>6, <1>7, <1>8 DEF Commit
<1> QED
  BY <1>5, <1>9

\* Landed(c, b, old): what main becomes when branch b lands on c.
Landed(c, b, old) ==
    [c EXCEPT !.by = "evidence", !.message = <<>>,
              !.records = [page \in Pages |->
                  IF page \in {q \in Pages : b.records[q] # old[q]} THEN b.records[page]
                  ELSE @[page]]]

\* A landed branch changes the pages it touched and nothing else.
LEMMA LandedIs ==
    ASSUME NEW c, Commit(c), NEW b, NEW old, NEW e, e = Landed(c, b, old)
    PROVE  /\ Commit(e) /\ e.tree = c.tree /\ e.catalog = c.catalog /\ e.by = "evidence"
           /\ \A page \in Pages :
                 e.records[page] = IF b.records[page] # old[page] THEN b.records[page]
                                   ELSE c.records[page]
<1> DEFINE touched == {q \in Pages : b.records[q] # old[q]}
           New(r) == [page \in Pages |-> IF page \in touched THEN b.records[page] ELSE r[page]]
<1>1. PICK t, m, y, r, g :
        c = [tree |-> t, catalog |-> g, message |-> m, by |-> y, records |-> r]
  BY DEF Commit
<1>2. t = c.tree /\ r = c.records /\ g = c.catalog
  BY <1>1
<1>3. e = [tree |-> t, catalog |-> g, message |-> <<>>, by |-> "evidence", records |-> New(r)]
  <2> DEFINE c1 == [c EXCEPT !.by = "evidence"]
             c2 == [c1 EXCEPT !.message = <<>>]
  <2>0. c1 = [tree |-> t, catalog |-> g, message |-> m, by |-> "evidence", records |-> r]
    BY <1>1
  <2>1. c2.records = r /\ e = [c2 EXCEPT !.records = New(c2.records)]
    <3>1. c2.records = c.records
      <4> HIDE DEF c1
      <4> QED
        BY <1>1, <2>0
    <3> QED
      BY <1>2, <3>1 DEF Landed
  <2> HIDE DEF c1
  <2>2. c2 = [tree |-> t, catalog |-> g, message |-> <<>>, by |-> "evidence", records |-> r]
    BY <2>0
  <2> HIDE DEF c2, New
  <2> QED
    BY <2>1, <2>2
<1> HIDE DEF New
<1>4. /\ e.tree = c.tree /\ e.catalog = c.catalog /\ e.message = <<>> /\ e.by = "evidence"
      /\ e.records = New(c.records)
  BY <1>2, <1>3
<1>5. /\ New(c.records) = [page \in Pages |-> New(c.records)[page]]
      /\ \A page \in Pages :
            New(c.records)[page] = IF b.records[page] # old[page] THEN b.records[page]
                                   ELSE c.records[page]
  BY DEF New
<1>6. e = [tree |-> e.tree, catalog |-> e.catalog, message |-> e.message, by |-> e.by,
           records |-> e.records]
  BY <1>2, <1>3, <1>4
<1>7. Commit(e)
  BY <1>4, <1>5, <1>6 DEF Commit
<1> QED
  BY <1>4, <1>5, <1>7

----
(* Evidence.                                                               *)

FileEntry(c, p, n) ==
    Entry("applied", c.tree[p], ObjectAt(c, p), p[2], n, c.tree[p].ticket)

GoneEntry(base, c, k, n) ==
    Entry("removed", DocAt(base, k), Compile(DocAt(base, k), k[2], c.catalog), k[2], n,
          c.message[k[2]])

\* The entry of a file is on the page of its object and id.
LEMMA FileEntryIs ==
    ASSUME NEW c, NEW p, NEW n
    PROVE  /\ FileEntry(c, p, n).page = <<ObjectAt(c, p).scope[2], p[2]>>
           /\ FileEntry(c, p, n).page[2] = p[2]
           /\ FileEntry(c, p, n).bundle =
                 Bundle("applied", c.tree[p], ObjectAt(c, p), n, c.tree[p].ticket)
BY DEF FileEntry, Entry, Page

\* The entry of a removal is on a page of its id.
LEMMA GoneEntryIs ==
    ASSUME NEW base, NEW c, NEW k, NEW n
    PROVE  /\ GoneEntry(base, c, k, n).page[2] = k[2]
           /\ \E object : GoneEntry(base, c, k, n).bundle =
                 Bundle("removed", DocAt(base, k), object, n, c.message[k[2]])
BY DEF GoneEntry, Entry, Page

\* The run writes an entry per file, then one per removal.
LEMMA AppliedWrites ==
    ASSUME NEW records, NEW c, NEW n
    PROVE  \E entries :
              /\ Listed(entries) /\ Applied(records, c, n) = WriteAll(records, entries)
              /\ \A i \in 1 .. Len(entries) : \E p \in ToSet(Files(c)) : entries[i] = FileEntry(c, p, n)
              /\ \A p \in ToSet(Files(c)) : \E i \in 1 .. Len(entries) : entries[i] = FileEntry(c, p, n)
              /\ UniqueIds(c) => Apart(entries)
<1> DEFINE files == Files(c)
           entries == [i \in DOMAIN files |-> FileEntry(c, files[i], n)]
<1>1. Applied(records, c, n) = WriteAll(records, entries)
  BY DEF Applied, FileEntry
<1>2. /\ files \in Seq(Paths) /\ IsInjective(files)
      /\ DOMAIN files = 1 .. Len(files) /\ Len(files) \in Nat
      /\ \A p : p \in ToSet(files) <=> \E i \in DOMAIN files : files[i] = p
  BY FilesAre, Members
<1> HIDE DEF files
<1>3. entries = [i \in 1 .. Len(files) |-> entries[i]]
  BY <1>2
<1>4. Len(entries) = Len(files)
  BY <1>2, <1>3
<1>5. \A i \in 1 .. Len(files) : entries[i] = FileEntry(c, files[i], n)
  BY <1>2
<1> HIDE DEF entries
<1>6. Listed(entries)
  BY <1>2, <1>3, <1>4 DEF Listed
<1>7. ASSUME UniqueIds(c), NEW i \in 1 .. Len(entries), NEW j \in 1 .. Len(entries),
             entries[i].page = entries[j].page
      PROVE  i = j
  <2>1. entries[i].page[2] = files[i][2] /\ entries[j].page[2] = files[j][2]
    BY <1>4, <1>5, FileEntryIs
  <2>2. files[i] \in ToSet(files) /\ files[j] \in ToSet(files)
    BY <1>2, <1>4
  <2>3. files[i] = files[j]
    BY <1>7, <2>1, <2>2 DEF UniqueIds, files
  <2> QED
    BY <1>2, <1>4, <2>3 DEF IsInjective
<1> QED
  BY <1>1, <1>2, <1>4, <1>5, <1>6, <1>7 DEF Apart, files

\* The removals are written in some order, each once.
LEMMA TombstonedWrites ==
    ASSUME NEW records, NEW base, NEW c, NEW n
    PROVE  \E entries :
              /\ Listed(entries) /\ Tombstoned(records, base, c, n) = WriteAll(records, entries)
              /\ \A i \in 1 .. Len(entries) :
                    \E k \in Removals(base, c) : entries[i] = GoneEntry(base, c, k, n)
              /\ (\A k, l \in Removals(base, c) : k[2] = l[2] => k = l) => Apart(entries)
<1> DEFINE gone == SetToSeq(Removals(base, c))
           entries == [i \in DOMAIN gone |-> GoneEntry(base, c, gone[i], n)]
<1>1. Tombstoned(records, base, c, n) = WriteAll(records, entries)
  BY DEF Tombstoned, GoneEntry
<1>2. IsFiniteSet(Removals(base, c))
  BY KeysAreFinite, FS_Subset DEF Removals
<1>3. Distinct(gone) /\ ToSet(gone) = Removals(base, c)
  BY <1>2, SomeOrder
<1> HIDE DEF gone
<1>4. /\ DOMAIN gone = 1 .. Len(gone) /\ Len(gone) \in Nat
      /\ \A i, j \in 1 .. Len(gone) : gone[i] = gone[j] => i = j
      /\ \A k : k \in ToSet(gone) <=> \E i \in 1 .. Len(gone) : gone[i] = k
  BY <1>3, DistinctDomain
<1>5. entries = [i \in 1 .. Len(gone) |-> entries[i]]
  BY <1>4
<1>6. Len(entries) = Len(gone)
  BY <1>4, <1>5
<1>7. \A i \in 1 .. Len(gone) : entries[i] = GoneEntry(base, c, gone[i], n)
  BY <1>4
<1> HIDE DEF entries
<1>8. Listed(entries)
  BY <1>4, <1>5, <1>6 DEF Listed
<1>9. ASSUME \A k, l \in Removals(base, c) : k[2] = l[2] => k = l,
             NEW i \in 1 .. Len(entries), NEW j \in 1 .. Len(entries),
             entries[i].page = entries[j].page
      PROVE  i = j
  <2>1. entries[i].page[2] = gone[i][2] /\ entries[j].page[2] = gone[j][2]
    BY <1>6, <1>7, GoneEntryIs
  <2>2. gone[i] \in Removals(base, c) /\ gone[j] \in Removals(base, c)
    BY <1>3, <1>4, <1>6
  <2> QED
    BY <1>4, <1>6, <1>9, <2>1, <2>2
<1>10. \A i \in 1 .. Len(entries) : gone[i] \in Removals(base, c)
  BY <1>3, <1>4, <1>6
<1> QED
  BY <1>1, <1>6, <1>7, <1>8, <1>9, <1>10 DEF Apart

\* The records are a book: an entry or Absent on every page.
Book(records) == records = [page \in Pages |-> records[page]]

\* A bundle of run n.
WrittenBy(new, n) ==
    new.commit = n /\ \E status, doc, object, ticket : new = Bundle(status, doc, object, n, ticket)

\* Absent, the blank page, is none of the bundles.
AbsentIsNoBundle ==
    \A status, doc, object, n, ticket : Bundle(status, doc, object, n, ticket) # Absent

\* No id is used by two of the files and removals of a change.
OneEach(base, c) ==
    /\ UniqueIds(c)
    /\ \A k, l \in Removals(base, c) : k[2] = l[2] => k = l
    /\ \A k \in Removals(base, c) : \A p \in ToSet(Files(c)) : k[2] # p[2]

\* What a record says of a file that is there.
AppliedChange(c, p) ==
    [status |-> "applied", kind |-> c.tree[p].kind, doc |-> c.tree[p], object |-> ObjectAt(c, p)]

Differs(old, new) == old = Absent \/ new.change # old.change

\* What the files leave: their own pages changed, and where no id is used
\* twice each says what is applied.
LEMMA AppliedIs ==
    ASSUME NEW records, Book(records), NEW c, NEW n, NEW w, w = Applied(records, c, n)
    PROVE  /\ Book(w)
           /\ \A page \in Pages : w[page] = records[page] \/ WrittenBy(w[page], n)
           /\ UniqueIds(c) => \A page \in Pages :
                \/ w[page] = records[page]
                \/ /\ Differs(records[page], w[page])
                   /\ \E p \in ToSet(Files(c)) : page[2] = p[2]
           /\ UniqueIds(c) /\ AbsentIsNoBundle => \A p \in ToSet(Files(c)) :
                <<ObjectAt(c, p).scope[2], p[2]>> \in Pages =>
                   /\ w[<<ObjectAt(c, p).scope[2], p[2]>>] # Absent
                   /\ w[<<ObjectAt(c, p).scope[2], p[2]>>].change = AppliedChange(c, p)
<1>1. PICK entries :
        /\ Listed(entries) /\ Applied(records, c, n) = WriteAll(records, entries)
        /\ \A i \in 1 .. Len(entries) : \E p \in ToSet(Files(c)) : entries[i] = FileEntry(c, p, n)
        /\ \A p \in ToSet(Files(c)) : \E i \in 1 .. Len(entries) : entries[i] = FileEntry(c, p, n)
        /\ UniqueIds(c) => Apart(entries)
  BY AppliedWrites
<1>2. /\ w = [page \in Pages |-> w[page]]
      /\ \A page \in Pages :
            w[page] = records[page] \/ Placed(w[page], page, entries, Len(entries))
      /\ Apart(entries) => \A page \in Pages :
            \/ w[page] = records[page]
            \/ Rewritten(records[page], w[page], page, entries, Len(entries))
      /\ Apart(entries) => \A i \in 1 .. Len(entries) :
            entries[i].page \in Pages /\ entries[i].bundle # Absent => Shown(w, entries[i])
  BY <1>1, WriteAllDomain DEF Book
<1>3. ASSUME NEW page \in Pages, Placed(w[page], page, entries, Len(entries))
      PROVE  WrittenBy(w[page], n) /\ \E p \in ToSet(Files(c)) : page[2] = p[2]
  <2>1. PICK i \in 1 .. Len(entries) : entries[i].page = page /\ w[page] = entries[i].bundle
    BY <1>3 DEF Placed
  <2>2. PICK p \in ToSet(Files(c)) : entries[i] = FileEntry(c, p, n)
    BY <1>1
  <2>3. page[2] = p[2]
    BY <2>1, <2>2, FileEntryIs
  <2>4. w[page] = Bundle("applied", c.tree[p], ObjectAt(c, p), n, c.tree[p].ticket)
    BY <2>1, <2>2, FileEntryIs
  <2>5. w[page].commit = n
    BY <2>4 DEF Bundle
  <2>6. WrittenBy(w[page], n)
    BY <2>4, <2>5, Zenon DEF WrittenBy
  <2> QED
    BY <2>3, <2>6
<1>4. ASSUME UniqueIds(c), AbsentIsNoBundle, NEW p \in ToSet(Files(c)),
             NEW page \in Pages, page = <<ObjectAt(c, p).scope[2], p[2]>>
      PROVE  /\ w[page] # Absent
             /\ w[page].change = AppliedChange(c, p)
  <2>1. PICK i \in 1 .. Len(entries) : entries[i] = FileEntry(c, p, n)
    BY <1>1
  <2>2. /\ entries[i].page = page
        /\ entries[i].bundle = Bundle("applied", c.tree[p], ObjectAt(c, p), n, c.tree[p].ticket)
    BY <1>4, <2>1, FileEntryIs
  <2>3. entries[i].bundle # Absent
    BY <1>4, <2>2 DEF AbsentIsNoBundle
  <2>4. Shown(w, entries[i])
    BY <1>1, <1>2, <1>4, <2>2, <2>3
  <2>5. w[page] # Absent /\ w[page].change = entries[i].bundle.change
    BY <2>2, <2>4 DEF Shown
  <2> QED
    BY <2>2, <2>5 DEF Bundle, AppliedChange
<1> QED
  BY <1>1, <1>2, <1>3, <1>4 DEF Book, Differs, Rewritten

\* What the removals leave: only pages of removed ids changed.
LEMMA TombstonedIs ==
    ASSUME NEW records, Book(records), NEW base, NEW c, NEW n,
           NEW w, w = Tombstoned(records, base, c, n)
    PROVE  /\ Book(w)
           /\ \A page \in Pages : w[page] = records[page] \/ WrittenBy(w[page], n)
           /\ OneEach(base, c) => \A page \in Pages :
                \/ w[page] = records[page]
                \/ /\ Differs(records[page], w[page])
                   /\ \E k \in Removals(base, c) : page[2] = k[2]
<1>1. PICK entries :
        /\ Listed(entries) /\ Tombstoned(records, base, c, n) = WriteAll(records, entries)
        /\ \A i \in 1 .. Len(entries) :
              \E k \in Removals(base, c) : entries[i] = GoneEntry(base, c, k, n)
        /\ (\A k, l \in Removals(base, c) : k[2] = l[2] => k = l) => Apart(entries)
  BY TombstonedWrites
<1>2. /\ w = [page \in Pages |-> w[page]]
      /\ \A page \in Pages :
            w[page] = records[page] \/ Placed(w[page], page, entries, Len(entries))
      /\ Apart(entries) => \A page \in Pages :
            \/ w[page] = records[page]
            \/ Rewritten(records[page], w[page], page, entries, Len(entries))
  BY <1>1, WriteAllDomain DEF Book
<1>3. ASSUME NEW page \in Pages, Placed(w[page], page, entries, Len(entries))
      PROVE  WrittenBy(w[page], n) /\ \E k \in Removals(base, c) : page[2] = k[2]
  <2>1. PICK i \in 1 .. Len(entries) : entries[i].page = page /\ w[page] = entries[i].bundle
    BY <1>3 DEF Placed
  <2>2. PICK k \in Removals(base, c) : entries[i] = GoneEntry(base, c, k, n)
    BY <1>1
  <2>3. page[2] = k[2]
    BY <2>1, <2>2, GoneEntryIs
  <2>4. PICK object :
          w[page] = Bundle("removed", DocAt(base, k), object, n, c.message[k[2]])
    BY <2>1, <2>2, GoneEntryIs
  <2>5. w[page].commit = n
    BY <2>4 DEF Bundle
  <2>6. WrittenBy(w[page], n)
    BY <2>4, <2>5, Zenon DEF WrittenBy
  <2> QED
    BY <2>3, <2>6
<1> QED
  BY <1>1, <1>2, <1>3 DEF Book, Differs, Rewritten, OneEach

\* The evidence of a run: every page as it was, or with a bundle of the run;
\* where no id is used twice, one that differs from what stood there.
LEMMA EvidenceIs ==
    ASSUME NEW records, Book(records), NEW base, NEW c, NEW n,
           NEW w, w = Evidence(records, base, c, n)
    PROVE  /\ Book(w)
           /\ \A page \in Pages : w[page] = records[page] \/ WrittenBy(w[page], n)
           /\ OneEach(base, c) => \A page \in Pages :
                w[page] = records[page] \/ Differs(records[page], w[page])
           /\ OneEach(base, c) /\ AbsentIsNoBundle => \A p \in ToSet(Files(c)) :
                <<ObjectAt(c, p).scope[2], p[2]>> \in Pages =>
                   /\ w[<<ObjectAt(c, p).scope[2], p[2]>>] # Absent
                   /\ w[<<ObjectAt(c, p).scope[2], p[2]>>].change = AppliedChange(c, p)
<1> DEFINE v == Applied(records, c, n)
<1>1. w = Tombstoned(v, base, c, n)
  BY DEF Evidence
<1>2. /\ Book(v)
      /\ \A page \in Pages : v[page] = records[page] \/ WrittenBy(v[page], n)
      /\ UniqueIds(c) => \A page \in Pages :
           \/ v[page] = records[page]
           \/ /\ Differs(records[page], v[page])
              /\ \E p \in ToSet(Files(c)) : page[2] = p[2]
      /\ UniqueIds(c) /\ AbsentIsNoBundle => \A p \in ToSet(Files(c)) :
           <<ObjectAt(c, p).scope[2], p[2]>> \in Pages =>
              /\ v[<<ObjectAt(c, p).scope[2], p[2]>>] # Absent
              /\ v[<<ObjectAt(c, p).scope[2], p[2]>>].change = AppliedChange(c, p)
  BY AppliedIs
<1> HIDE DEF v
<1>3. /\ Book(w)
      /\ \A page \in Pages : w[page] = v[page] \/ WrittenBy(w[page], n)
      /\ OneEach(base, c) => \A page \in Pages :
           \/ w[page] = v[page]
           \/ /\ Differs(v[page], w[page])
              /\ \E k \in Removals(base, c) : page[2] = k[2]
  BY <1>1, <1>2, TombstonedIs
<1>4. ASSUME OneEach(base, c), NEW page \in Pages
      PROVE  w[page] = records[page] \/ Differs(records[page], w[page])
  <2>1. UniqueIds(c) /\ \A k \in Removals(base, c) : \A p \in ToSet(Files(c)) : k[2] # p[2]
    BY <1>4 DEF OneEach
  <2>2. CASE w[page] = v[page]
    BY <1>2, <2>1, <2>2
  <2>3. CASE w[page] # v[page]
    <3>1. Differs(v[page], w[page]) /\ \E k \in Removals(base, c) : page[2] = k[2]
      BY <1>3, <1>4, <2>3
    <3>2. v[page] = records[page]
      BY <1>2, <2>1, <3>1
    <3> QED
      BY <3>1, <3>2
  <2> QED
    BY <2>2, <2>3
<1>5. ASSUME OneEach(base, c), NEW p \in ToSet(Files(c)), NEW page \in Pages, page[2] = p[2]
      PROVE  w[page] = v[page]
  BY <1>3, <1>5 DEF OneEach
<1>6. ASSUME OneEach(base, c), AbsentIsNoBundle, NEW p \in ToSet(Files(c)),
             NEW page \in Pages, page = <<ObjectAt(c, p).scope[2], p[2]>>
      PROVE  /\ w[page] # Absent
             /\ w[page].change = AppliedChange(c, p)
  <2>1. UniqueIds(c) /\ page[2] = p[2]
    BY <1>6 DEF OneEach
  <2>2. w[page] = v[page]
    BY <1>5, <1>6, <2>1
  <2> QED
    BY <1>2, <1>6, <2>1, <2>2
<1>7. \A page \in Pages : w[page] = records[page] \/ WrittenBy(w[page], n)
  BY <1>2, <1>3
<1> QED
  BY <1>3, <1>4, <1>6, <1>7

----
(* The inductive invariant: what main, the pull requests, the evidence     *)
(* branches, the run and what is live have to do with each other.          *)

RecordsIn(commits, n) == Evidence(commits[n].records, commits[n - 1], commits[n], n)

Proposal(commits, pull) ==
    /\ pull.base \in 1 .. Len(commits) /\ pull.path \in Paths /\ pull.catalog \in Catalogs
    /\ pull.doc # Absent => Proper(pull.doc, pull.path)
    /\ Classify(commits[pull.base],
                Edited(commits[pull.base], pull.path, pull.doc, pull.catalog, pull.message))
         # "rejected"

\* Commit n is the merge of a pull request that was accepted.
Merged(commits, n, pull) ==
    LET base == commits[pull.base]
        prev == commits[n - 1]
        moved == pull.catalog # base.catalog
    IN  /\ Proposal(commits, pull) /\ pull.base < n
        /\ prev.tree[pull.path] = base.tree[pull.path] /\ (moved => prev.catalog = base.catalog)
        /\ commits[n] = Edited(prev, pull.path, pull.doc,
                               IF moved THEN pull.catalog ELSE prev.catalog, pull.message)

\* Commit n lands evidence: it changes records only, and to those of an earlier run.
Lands(commits, n) ==
    /\ commits[n].by = "evidence"
    /\ commits[n].tree = commits[n - 1].tree /\ commits[n].catalog = commits[n - 1].catalog

\* No record is dated after the commit that holds it.
Dated(c, n) ==
    \A page \in Pages :
        c.records[page] # Absent =>
            c.records[page].commit \in Nat /\ (c.records[page].commit < n \/ (n = 1 /\ c.records[page].commit = 1))

HistoryOK(commits) ==
    /\ Listed(commits) /\ Len(commits) # 0
    /\ commits[1].by = "people" /\ Valid(commits[1])
    /\ commits[1].records = Applied(Blanks, commits[1], 1)
    /\ \A n \in 1 .. Len(commits) : Commit(commits[n]) /\ Dated(commits[n], n)
    /\ \A n \in 2 .. Len(commits) :
          (\E pull : Merged(commits, n, pull)) \/ Lands(commits, n)

BranchOK(commits, b) ==
    b.base \in 2 .. Len(commits) /\ b.records = RecordsIn(commits, b.base)

RunOK(commits, r) ==
    \/ r = NoRun
    \/ /\ r = [commit |-> r.commit, tier |-> r.tier, at |-> r.at]
       /\ r.commit \in 2 .. Len(commits) /\ r.at \in {"waiting", "applied"}
       /\ r.tier = Classify(commits[r.commit - 1], commits[r.commit]) /\ r.tier # "rejected"

LiveOK(commits, l) ==
    /\ l = [commit |-> l.commit, recorded |-> l.recorded]
    /\ l.commit \in 1 .. Len(commits)

\* As long as records did not overtake each other, those of what is live are on
\* main, or on the one branch that is open and will land on what it was made from.
CaughtUp(commits, l, bs) ==
    LET n == l.commit
        tip == commits[Len(commits)]
    IN  \/ n = 1 /\ bs = {} /\ tip.records = commits[1].records
        \/ /\ n \in 2 .. Len(commits) /\ Valid(commits[n])
           /\ \/ bs = {} /\ tip.records = RecordsIn(commits, n)
              \/ /\ bs = {[base |-> n, records |-> RecordsIn(commits, n)]}
                 /\ tip.records = commits[n].records

Inv ==
    /\ HistoryOK(main)
    /\ \A pull \in pulls : Proposal(main, pull)
    /\ \A b \in branches : BranchOK(main, b)
    /\ RunOK(main, run)
    /\ LiveOK(main, live)
    /\ started \in 1 .. Len(main)
    /\ run.at = "applied" => live.commit = run.commit /\ ~live.recorded
    /\ ~crossed /\ live.recorded => CaughtUp(main, live, branches)

\* What was so of a history stays so when it grows.
LEMMA PrefixStays ==
    ASSUME NEW commits, Listed(commits), NEW e, NEW g, g = Append(commits, e)
    PROVE  /\ Listed(g) /\ Len(g) = Len(commits) + 1 /\ Len(commits) \in Nat
           /\ g[Len(commits) + 1] = e
           /\ \A n \in 1 .. Len(commits) : g[n] = commits[n]
BY Grown DEF Listed

\* So do the records a run writes,
LEMMA RecordsStay ==
    ASSUME NEW commits, Listed(commits), NEW e, NEW g, g = Append(commits, e),
           NEW n \in 2 .. Len(commits)
    PROVE  RecordsIn(g, n) = RecordsIn(commits, n)
<1>1. n \in 1 .. Len(commits) /\ n - 1 \in 1 .. Len(commits)
  BY DEF Listed
<1>2. g[n] = commits[n] /\ g[n - 1] = commits[n - 1]
  BY <1>1, PrefixStays
<1> QED
  BY <1>2 DEF RecordsIn

\* a pull request,
LEMMA ProposalStays ==
    ASSUME NEW commits, Listed(commits), NEW e, NEW g, g = Append(commits, e), NEW pull,
           Proposal(commits, pull)
    PROVE  Proposal(g, pull)
<1>1. g[pull.base] = commits[pull.base] /\ pull.base \in 1 .. Len(g)
  BY PrefixStays DEF Proposal
<1> QED
  BY <1>1 DEF Proposal

\* a merge,
LEMMA MergedStays ==
    ASSUME NEW commits, Listed(commits), NEW e, NEW g, g = Append(commits, e), NEW pull,
           NEW n \in 2 .. Len(commits), Merged(commits, n, pull)
    PROVE  Merged(g, n, pull)
<1>1. /\ g[pull.base] = commits[pull.base] /\ g[n] = commits[n] /\ g[n - 1] = commits[n - 1]
      /\ Proposal(g, pull)
  BY PrefixStays, ProposalStays DEF Proposal, Merged
<1> QED
  BY <1>1 DEF Merged

\* the history with one more commit,
LEMMA HistoryStays ==
    ASSUME NEW commits, HistoryOK(commits), NEW e, NEW g, g = Append(commits, e),
           Commit(e), Dated(e, Len(commits) + 1),
           (\E pull : Merged(g, Len(commits) + 1, pull)) \/ Lands(g, Len(commits) + 1)
    PROVE  HistoryOK(g)
<1> DEFINE N == Len(commits)
<1>1. /\ Listed(commits) /\ N # 0 /\ commits[1].by = "people" /\ Valid(commits[1])
      /\ commits[1].records = Applied(Blanks, commits[1], 1)
      /\ \A n \in 1 .. N : Commit(commits[n]) /\ Dated(commits[n], n)
      /\ \A n \in 2 .. N : (\E pull : Merged(commits, n, pull)) \/ Lands(commits, n)
  BY DEF HistoryOK
<1>2. /\ Listed(g) /\ Len(g) = N + 1 /\ N \in Nat /\ g[N + 1] = e
      /\ \A n \in 1 .. N : g[n] = commits[n]
  <2>1. Listed(commits)
    BY <1>1
  <2> DEFINE a == Append(commits, e)
  <2>2. /\ Listed(a) /\ Len(a) = N + 1 /\ a[N + 1] = e
        /\ \A n \in 1 .. N : a[n] = commits[n]
    BY <2>1, Grown
  <2> QED
    BY <2>1, <2>2 DEF Listed
<1>3. 1 \in 1 .. N /\ g[1] = commits[1]
  BY <1>1, <1>2
<1>4. ASSUME NEW n \in 1 .. N + 1 PROVE Commit(g[n]) /\ Dated(g[n], n)
  <2>1. CASE n = N + 1
    BY <1>2, <2>1
  <2>2. CASE n # N + 1
    <3>1. n \in 1 .. N
      BY <1>2, <2>2
    <3> QED
      BY <1>1, <1>2, <3>1
  <2> QED
    BY <2>1, <2>2
<1>5. ASSUME NEW n \in 2 .. N + 1 PROVE (\E pull : Merged(g, n, pull)) \/ Lands(g, n)
  <2>1. CASE n = N + 1
    BY <2>1
  <2>2. CASE n # N + 1
    <3>1. n \in 2 .. N /\ n - 1 \in 1 .. N /\ n \in 1 .. N
      BY <1>2, <2>2
    <3>2. CASE \E pull : Merged(commits, n, pull)
      BY <1>1, <3>1, <3>2, MergedStays
    <3>3. CASE Lands(commits, n)
      BY <1>2, <3>1, <3>3 DEF Lands
    <3> QED
      BY <1>1, <3>1, <3>2, <3>3
  <2> QED
    BY <2>1, <2>2
<1> QED
  BY <1>1, <1>2, <1>3, <1>4, <1>5 DEF HistoryOK

\* and the branches, the run and what is live.
LEMMA OthersStay ==
    ASSUME NEW commits, Listed(commits), NEW e, NEW g, g = Append(commits, e)
    PROVE  /\ \A b : BranchOK(commits, b) => BranchOK(g, b)
           /\ \A r : RunOK(commits, r) => RunOK(g, r)
           /\ \A l : LiveOK(commits, l) => LiveOK(g, l)
<1> USE PrefixStays
<1>1. ASSUME NEW b, BranchOK(commits, b) PROVE BranchOK(g, b)
  <2>1. b.base \in 2 .. Len(commits) /\ b.records = RecordsIn(commits, b.base)
    BY <1>1 DEF BranchOK
  <2>2. \A n \in 2 .. Len(commits) : RecordsIn(g, n) = RecordsIn(commits, n)
    BY RecordsStay
  <2>3. 2 .. Len(commits) \subseteq 2 .. Len(g)
    OBVIOUS
  <2> QED
    BY <2>1, <2>2, <2>3 DEF BranchOK
<1>2. ASSUME NEW r, RunOK(commits, r) PROVE RunOK(g, r)
  <2>1. CASE r = NoRun
    BY <2>1 DEF RunOK
  <2>2. CASE r # NoRun
    <3>1. /\ r = [commit |-> r.commit, tier |-> r.tier, at |-> r.at]
          /\ r.commit \in 2 .. Len(commits) /\ r.at \in {"waiting", "applied"}
          /\ r.tier = Classify(commits[r.commit - 1], commits[r.commit]) /\ r.tier # "rejected"
      BY <1>2, <2>2 DEF RunOK
    <3>2. /\ r.commit \in 2 .. Len(g) /\ g[r.commit] = commits[r.commit]
          /\ g[r.commit - 1] = commits[r.commit - 1]
      BY <3>1
    <3> QED
      BY <3>1, <3>2 DEF RunOK
  <2> QED
    BY <2>1, <2>2
<1>3. ASSUME NEW l, LiveOK(commits, l) PROVE LiveOK(g, l)
  BY <1>3 DEF LiveOK
<1> QED
  BY <1>1, <1>2, <1>3

\* A commit that leaves the records as they were leaves main caught up.
LEMMA CaughtUpStays ==
    ASSUME NEW commits, HistoryOK(commits), NEW e, NEW g, g = Append(commits, e),
           e.records = commits[Len(commits)].records, NEW l, NEW bs, CaughtUp(commits, l, bs)
    PROVE  CaughtUp(g, l, bs)
<1> DEFINE n == l.commit
           N == Len(commits)
<1>1. Listed(commits) /\ N # 0
  BY DEF HistoryOK
<1>2. /\ Len(g) = N + 1 /\ N \in Nat /\ g[N + 1].records = commits[N].records
      /\ \A m \in 1 .. N : g[m] = commits[m]
  BY <1>1, PrefixStays
<1>a. \A m \in 2 .. N : RecordsIn(g, m) = RecordsIn(commits, m)
  BY <1>1, RecordsStay
<1>3. 1 \in 1 .. N /\ \A m \in 2 .. N : m \in 2 .. N + 1 /\ m \in 1 .. N
  BY <1>1, <1>2
<1> QED
  BY <1>2, <1>a, <1>3 DEF CaughtUp

\* People's merges leave the records alone, evidence leaves the intents alone.
LEMMA StepIs ==
    ASSUME NEW commits, HistoryOK(commits), NEW n \in 2 .. Len(commits)
    PROVE  /\ commits[n].by # "evidence" => commits[n].records = commits[n - 1].records
           /\ commits[n].by # "people" =>
                /\ commits[n].tree = commits[n - 1].tree
                /\ commits[n].catalog = commits[n - 1].catalog
<1>1. n - 1 \in 1 .. Len(commits) /\ Commit(commits[n - 1]) /\ Commit(commits[n])
  BY DEF HistoryOK, Listed
<1>2. ASSUME NEW pull, Merged(commits, n, pull)
      PROVE  commits[n].records = commits[n - 1].records /\ commits[n].by = "people"
  <2> DEFINE prev == commits[n - 1]
             cat == IF pull.catalog # commits[pull.base].catalog THEN pull.catalog ELSE prev.catalog
  <2>1. Editable(pull.path, pull.doc, cat)
    BY <1>1, <1>2 DEF Merged, Proposal, Commit, Editable
  <2>2. commits[n] = Edited(prev, pull.path, pull.doc, cat, pull.message)
    BY <1>2 DEF Merged
  <2> HIDE DEF cat
  <2> QED
    BY <1>1, <2>1, <2>2, EditedIs
<1>3. (\E pull : Merged(commits, n, pull)) \/ Lands(commits, n)
  BY DEF HistoryOK
<1> QED
  BY <1>2, <1>3 DEF Lands

\* Without evidence the records stay as they were.
LEMMA QuietRecords ==
    ASSUME NEW commits, HistoryOK(commits), NEW n \in 1 .. Len(commits),
           \A m \in n + 1 .. Len(commits) : commits[m].by # "evidence"
    PROVE  commits[Len(commits)].records = commits[n].records
<1> DEFINE N == Len(commits)
           I == {k \in 0 .. N - n : commits[n + k].records = commits[n].records}
<1>1. N \in Nat /\ n \in Nat /\ N - n \in Nat /\ n + 0 = n /\ n + (N - n) = N
  BY DEF HistoryOK, Listed
<1>2. 0 \in I
  BY <1>1
<1>3. ASSUME NEW k \in 1 .. N - n, k - 1 \in I PROVE k \in I
  <2>1. /\ n + k \in 2 .. N /\ n + k \in n + 1 .. N /\ n + k - 1 = n + (k - 1)
        /\ k \in 0 .. N - n
    BY <1>1
  <2>2. commits[n + k].records = commits[n + k - 1].records
    BY <2>1, StepIs
  <2>3. commits[n + (k - 1)].records = commits[n].records
    BY <1>3
  <2>4. commits[n + k].records = commits[n].records
    BY <2>1, <2>2, <2>3
  <2> QED
    BY <2>1, <2>4
<1>4. N - n \in I
  <2> HIDE DEF I
  <2> QED
    BY <1>1, <1>2, <1>3, Upward
<1> QED
  BY <1>1, <1>4

\* With nothing but evidence the intents stay as they were.
LEMMA QuietTrees ==
    ASSUME NEW commits, HistoryOK(commits), NEW n \in 1 .. Len(commits),
           \A m \in n + 1 .. Len(commits) : commits[m].by = "evidence"
    PROVE  /\ commits[Len(commits)].tree = commits[n].tree
           /\ commits[Len(commits)].catalog = commits[n].catalog
<1> DEFINE N == Len(commits)
           I == {k \in 0 .. N - n : /\ commits[n + k].tree = commits[n].tree
                                    /\ commits[n + k].catalog = commits[n].catalog}
<1>1. N \in Nat /\ n \in Nat /\ N - n \in Nat /\ n + 0 = n /\ n + (N - n) = N
  BY DEF HistoryOK, Listed
<1>2. 0 \in I
  BY <1>1
<1>3. ASSUME NEW k \in 1 .. N - n, k - 1 \in I PROVE k \in I
  <2>1. /\ n + k \in 2 .. N /\ n + k \in n + 1 .. N /\ n + k - 1 = n + (k - 1)
        /\ k \in 0 .. N - n
    BY <1>1
  <2>2. /\ commits[n + k].tree = commits[n + k - 1].tree
        /\ commits[n + k].catalog = commits[n + k - 1].catalog
    BY <2>1, StepIs
  <2>3. /\ commits[n + (k - 1)].tree = commits[n].tree
        /\ commits[n + (k - 1)].catalog = commits[n].catalog
    BY <1>3
  <2>4. commits[n + k].tree = commits[n].tree /\ commits[n + k].catalog = commits[n].catalog
    BY <2>1, <2>2, <2>3
  <2> QED
    BY <2>1, <2>4
<1>4. N - n \in I
  <2> HIDE DEF I
  <2> QED
    BY <1>1, <1>2, <1>3, Upward
<1> QED
  BY <1>1, <1>4

----
(* The invariant holds at first, and every step keeps it.                  *)

\* The tip is a commit like the others.
LEMMA TipIs ==
    ASSUME HistoryOK(main)
    PROVE  /\ Len(main) \in Nat /\ Len(main) # 0 /\ Len(main) \in 1 .. Len(main)
           /\ Listed(main) /\ Tip = main[Len(main)] /\ Commit(Tip) /\ Dated(Tip, Len(main))
BY DEF HistoryOK, Listed, Tip

LEMMA BlanksAreABook == Book(Blanks)
BY DEF Book, Blanks

LEMMA InitInv == Init => Inv
<1> SUFFICES ASSUME Init PROVE Inv
  OBVIOUS
<1>1. PICK o \in Origins :
        main = <<[tree |-> o.tree, catalog |-> o.catalog, message |-> <<>>, by |-> "people",
                  records |-> Applied(Blanks, o, 1)]>>
  BY Zenon DEF Init
<1>2. /\ Valid(main[1]) /\ live = [commit |-> 1, recorded |-> TRUE] /\ run = NoRun
      /\ started = 1 /\ pulls = {} /\ branches = {}
  BY Zenon DEF Init
<1> DEFINE c == main[1]
           w == Applied(Blanks, c, 1)
<1>3. /\ Listed(main) /\ Len(main) = 1
      /\ c = [tree |-> o.tree, catalog |-> o.catalog, message |-> <<>>, by |-> "people",
              records |-> Applied(Blanks, o, 1)]
  BY <1>1 DEF Listed
<1>4. c.tree = o.tree /\ c.catalog = o.catalog /\ c.by = "people" /\ c.records = Applied(Blanks, o, 1)
  BY <1>3
<1>5. Applied(Blanks, o, 1) = w
  BY <1>4 DEF Applied, Files, ObjectAt
<1>6. /\ Book(w)
      /\ \A page \in Pages : w[page] = Blanks[page] \/ WrittenBy(w[page], 1)
  <2> HIDE DEF c
  <2> QED
    BY BlanksAreABook, AppliedIs
<1> HIDE DEF w
<1>7. Commit(c)
  <2>1. /\ c.tree = [p \in Paths |-> c.tree[p]] /\ c.catalog \in Catalogs
        /\ \A p \in Paths : c.tree[p] # Absent => Proper(c.tree[p], p)
    <3>1. ASSUME NEW p \in Paths, o.tree[p] # Absent
          PROVE  \E d \in Docs[p] : o.tree[p].kind = d.kind /\ o.tree[p].spec = d.spec
      <4> DEFINE d == [kind |-> o.tree[p].kind, spec |-> o.tree[p].spec]
      <4>1. d \in Docs[p] /\ o.tree[p].kind = d.kind /\ o.tree[p].spec = d.spec
        BY <3>1, TreesHaveDocs
      <4> QED
        BY <4>1
    <3>2. o.tree = [p \in Paths |-> o.tree[p]] /\ o.catalog \in Catalogs
      BY TreesHaveDocs
    <3> HIDE DEF c
    <3> QED
      BY <1>4, <3>1, <3>2 DEF Proper
  <2>2. c = [tree |-> c.tree, catalog |-> c.catalog, message |-> c.message, by |-> c.by,
             records |-> c.records]
    BY <1>3
  <2>3. c.records = [page \in Pages |-> c.records[page]]
    BY <1>4, <1>5, <1>6 DEF Book
  <2> HIDE DEF c
  <2> QED
    BY <1>4, <2>1, <2>2, <2>3 DEF Commit
<1>8. Dated(c, 1)
  <2>1. \A page \in Pages : w[page] = Absent \/ w[page].commit = 1
    BY <1>6 DEF WrittenBy, Blanks
  <2> QED
    BY <1>4, <1>5, <2>1 DEF Dated
<1> HIDE DEF c
<1>9. HistoryOK(main)
  BY <1>2, <1>3, <1>4, <1>5, <1>7, <1>8 DEF HistoryOK, c, w
<1>10. LiveOK(main, live) /\ RunOK(main, run) /\ started \in 1 .. Len(main)
  BY <1>2, <1>3 DEF LiveOK, RunOK
<1>11. CaughtUp(main, live, branches)
  BY <1>2, <1>3 DEF CaughtUp
<1>12. run.at # "applied"
  BY <1>2 DEF NoRun
<1> QED
  BY <1>2, <1>9, <1>10, <1>11, <1>12 DEF Inv

\* A proposal was accepted when it was opened.
LEMMA ProposeKeeps ==
    ASSUME Inv, NEW p, NEW doc, NEW catalog, NEW message, Editable(p, doc, catalog),
           Propose(p, doc, catalog, message)
    PROVE  Inv'
<1> DEFINE pull == [path |-> p, doc |-> doc, catalog |-> catalog, message |-> message,
                    base |-> Len(main)]
<1>1. /\ pulls' = pulls \cup {pull} /\ UNCHANGED <<main, run, live, started, branches, crossed>>
      /\ Classify(Tip, Edited(Tip, p, doc, catalog, message)) # "rejected"
  BY DEF Propose, Accepted
<1>2. Proposal(main, pull)
  <2>1. /\ pull.path = p /\ pull.doc = doc /\ pull.catalog = catalog /\ pull.message = message
        /\ pull.base = Len(main)
    OBVIOUS
  <2>2. main[pull.base] = Tip /\ pull.base \in 1 .. Len(main)
    BY <2>1, TipIs DEF Inv
  <2> HIDE DEF pull
  <2> QED
    BY <1>1, <2>1, <2>2 DEF Proposal, Editable
<1> HIDE DEF pull
<1>3. \A q \in pulls' : Proposal(main, q)
  BY <1>1, <1>2 DEF Inv
<1> QED
  BY <1>1, <1>3 DEF Inv

\* A merge adds a commit with the records of the tip.
LEMMA MergeKeeps ==
    ASSUME Inv, NEW pull \in pulls, Merge(pull)
    PROVE  Inv'
<1> DEFINE base == main[pull.base]
           moved == pull.catalog # base.catalog
           cat == IF moved THEN pull.catalog ELSE Tip.catalog
           e == Edited(Tip, pull.path, pull.doc, cat, pull.message)
           N == Len(main)
<1>1. /\ Tip.tree[pull.path] = base.tree[pull.path] /\ (moved => Tip.catalog = base.catalog)
      /\ main' = Append(main, e) /\ pulls' = pulls \ {pull}
      /\ UNCHANGED <<run, live, started, branches, crossed>>
  BY DEF Merge
<1>2. Proposal(main, pull)
  BY DEF Inv
<1>3. /\ HistoryOK(main) /\ Listed(main) /\ N \in Nat /\ N # 0 /\ Tip = main[N] /\ Commit(Tip)
      /\ Dated(Tip, N)
  BY TipIs DEF Inv
<1>4. Editable(pull.path, pull.doc, cat)
  BY <1>2, <1>3 DEF Proposal, Editable, Commit
<1> HIDE DEF cat
<1>5. Commit(e) /\ e.records = Tip.records
  BY <1>3, <1>4, EditedIs
<1> DEFINE g == Append(main, e)
<1>6. Merged(g, N + 1, pull)
  <2>1. Proposal(g, pull)
    <3> HIDE DEF e
    <3> QED
      BY <1>2, <1>3, ProposalStays
  <2>2. /\ g[N + 1] = e /\ g[N] = Tip /\ g[pull.base] = base
        /\ pull.base < N + 1 /\ N + 1 - 1 = N
    <3>1. pull.base \in 1 .. N
      BY <1>2 DEF Proposal
    <3> HIDE DEF e
    <3> QED
      BY <1>3, <3>1, PrefixStays
  <2> HIDE DEF g
  <2> QED
    BY <1>1, <2>1, <2>2 DEF Merged, cat
<1>7. Dated(e, N + 1)
  <2> HIDE DEF e
  <2> QED
    BY <1>3, <1>5 DEF Dated
<1> HIDE DEF e
<1>8. HistoryOK(g)
  BY <1>3, <1>5, <1>6, <1>7, HistoryStays
<1>9. \A q \in pulls : Proposal(g, q)
  BY <1>3, ProposalStays DEF Inv
<1>10. (\A b \in branches : BranchOK(g, b)) /\ RunOK(g, run) /\ LiveOK(g, live)
  BY <1>3, OthersStay DEF Inv
<1>11. started \in 1 .. Len(g)
  BY <1>3, PrefixStays DEF Inv
<1>12. CaughtUp(main, live, branches) => CaughtUp(g, live, branches)
  BY <1>3, <1>5, CaughtUpStays
<1>13. main' = g
  BY <1>1
<1> HIDE DEF g
<1> QED
  BY <1>1, <1>8, <1>9, <1>10, <1>11, <1>12, <1>13 DEF Inv

\* A run begins with the tier of its classification.
LEMMA StartKeeps ==
    ASSUME Inv, NEW n \in 2 .. Len(main), Start(n) \/ StartAgain(n)
    PROVE  Inv'
<1> DEFINE tier == Classify(main[n - 1], main[n])
           begun == [commit |-> n, tier |-> tier, at |-> "waiting"]
<1>1. /\ run' = IF tier = "rejected" THEN NoRun ELSE begun
      /\ started' \in {started, n} /\ UNCHANGED <<main, pulls, live, branches, crossed>>
  BY DEF Start, StartAgain, Begin
<1>2. RunOK(main, NoRun) /\ NoRun.at = "none"
  BY DEF RunOK, NoRun
<1>3. tier # "rejected" => RunOK(main, begun)
  <2>1. /\ begun = [commit |-> begun.commit, tier |-> begun.tier, at |-> begun.at]
        /\ begun.commit = n /\ begun.tier = tier /\ begun.at = "waiting"
    OBVIOUS
  <2> HIDE DEF begun, tier
  <2> QED
    BY <2>1 DEF RunOK, tier
<1>4. begun.at = "waiting"
  OBVIOUS
<1>5. started' \in 1 .. Len(main)
  BY <1>1 DEF Inv, HistoryOK, Listed
<1> HIDE DEF begun, tier
<1>6. RunOK(main, run') /\ run'.at # "applied"
  BY <1>1, <1>2, <1>3, <1>4
<1> QED
  BY <1>1, <1>5, <1>6 DEF Inv

LEMMA ApplyKeeps == Inv /\ Apply => Inv'
<1> SUFFICES ASSUME Inv, Apply PROVE Inv'
  OBVIOUS
<1> DEFINE done == [run EXCEPT !.at = "applied"]
           now == [commit |-> run.commit, recorded |-> FALSE]
<1>1. /\ run.at = "waiting" /\ run' = done /\ live' = now
      /\ UNCHANGED <<main, pulls, started, branches, crossed>>
  BY DEF Apply
<1>2. /\ run = [commit |-> run.commit, tier |-> run.tier, at |-> run.at]
      /\ run.commit \in 2 .. Len(main)
      /\ run.tier = Classify(main[run.commit - 1], main[run.commit]) /\ run.tier # "rejected"
  BY <1>1 DEF Inv, RunOK, NoRun
<1>3. done = [commit |-> run.commit, tier |-> run.tier, at |-> "applied"]
  BY <1>2
<1>4. /\ done = [commit |-> done.commit, tier |-> done.tier, at |-> done.at]
      /\ done.commit = run.commit /\ done.tier = run.tier /\ done.at = "applied"
  BY <1>3
<1>5. /\ now = [commit |-> now.commit, recorded |-> now.recorded]
      /\ now.commit = run.commit /\ ~now.recorded
  OBVIOUS
<1> HIDE DEF done, now
<1>6. RunOK(main, done)
  BY <1>2, <1>4 DEF RunOK
<1>7. LiveOK(main, now)
  BY <1>2, <1>5 DEF LiveOK, Inv, HistoryOK, Listed
<1> QED
  BY <1>1, <1>4, <1>5, <1>6, <1>7 DEF Inv

LEMMA StopKeeps == Inv /\ (Abandon \/ Refused) => Inv'
<1> SUFFICES ASSUME Inv, Abandon \/ Refused PROVE Inv'
  OBVIOUS
<1>1. run' = NoRun /\ UNCHANGED <<main, pulls, live, started, branches, crossed>>
  BY DEF Abandon, Refused
<1>2. RunOK(main, NoRun) /\ NoRun.at = "none"
  BY DEF RunOK, NoRun
<1> QED
  BY <1>1, <1>2 DEF Inv

\* The records of a run are on a branch, or on main already.
LEMMA RecordKeeps == Inv /\ Record => Inv'
<1> SUFFICES ASSUME Inv, Record PROVE Inv'
  OBVIOUS
<1> DEFINE n == run.commit
           b == [base |-> n, records |-> RecordsIn(main, n)]
           done == [live EXCEPT !.recorded = TRUE]
           N == Len(main)
<1>1. /\ run.at = "applied" /\ run' = NoRun /\ live' = done
      /\ branches' = branches \cup (IF RecordsIn(main, n) = main[n].records THEN {} ELSE {b})
      /\ crossed' = \/ crossed \/ branches # {}
                    \/ \E m \in n + 1 .. N : main[m].by = "evidence"
      /\ UNCHANGED <<main, pulls, started>>
  BY DEF Record, RecordsOf, RecordsIn
<1>2. /\ n \in 2 .. N /\ Classify(main[n - 1], main[n]) # "rejected"
  BY <1>1 DEF Inv, RunOK, NoRun
<1>3. live.commit = n /\ live = [commit |-> live.commit, recorded |-> live.recorded]
  BY <1>1 DEF Inv, LiveOK
<1>4. done = [commit |-> n, recorded |-> TRUE] /\ done.commit = n
  <2> HIDE DEF n
  <2>1. PICK r : live = [commit |-> n, recorded |-> r]
    BY <1>3
  <2>2. done = [commit |-> n, recorded |-> TRUE]
    <3> DEFINE yes == TRUE
    <3> HIDE DEF yes
    <3>1. [live EXCEPT !.recorded = yes] = [commit |-> n, recorded |-> yes]
      BY <2>1
    <3> QED
      BY <3>1 DEF yes
  <2> HIDE DEF done
  <2> QED
    BY <2>2
<1>5. LiveOK(main, done)
  BY <1>3, <1>4 DEF Inv, LiveOK
<1>6. BranchOK(main, b)
  BY <1>2 DEF BranchOK
<1>7. Valid(main[n])
  BY <1>2, ClassifyIs
<1>8. RunOK(main, NoRun) /\ NoRun.at = "none"
  BY DEF RunOK, NoRun
<1>9. \A x \in branches' : BranchOK(main, x)
  <2> HIDE DEF b
  <2> QED
    BY <1>1, <1>6 DEF Inv
<1>10. ASSUME ~crossed' PROVE CaughtUp(main, done, branches')
  <2>1. branches = {} /\ \A m \in n + 1 .. N : main[m].by # "evidence"
    BY <1>1, <1>10
  <2>2. main[N].records = main[n].records
    <3>1. HistoryOK(main) /\ n \in 1 .. N
      BY <1>2 DEF Inv
    <3> QED
      BY <2>1, <3>1, QuietRecords
  <2>3. branches' = IF RecordsIn(main, n) = main[n].records THEN {} ELSE {b}
    BY <1>1, <2>1
  <2> HIDE DEF done
  <2> QED
    BY <1>2, <1>4, <1>7, <2>2, <2>3 DEF CaughtUp
<1> HIDE DEF done, n, b
<1> QED
  BY <1>1, <1>5, <1>8, <1>9, <1>10 DEF Inv

\* A branch lands with the records of its run.
LEMMA LandKeeps ==
    ASSUME Inv, NEW b \in branches, Land(b)
    PROVE  Inv'
<1> DEFINE old == main[b.base].records
           e == Landed(Tip, b, old)
           N == Len(main)
           g == Append(main, e)
<1>1. /\ \A page \in Pages : b.records[page] # old[page] => Tip.records[page] = old[page]
      /\ main' = g /\ branches' = branches \ {b}
      /\ UNCHANGED <<pulls, run, live, started, crossed>>
  BY DEF Land, Landed, Touched
<1>2. /\ HistoryOK(main) /\ Listed(main) /\ N \in Nat /\ N # 0 /\ Tip = main[N] /\ Commit(Tip)
      /\ Dated(Tip, N)
  BY TipIs DEF Inv
<1>3. b.base \in 2 .. N /\ b.records = RecordsIn(main, b.base)
  BY DEF Inv, BranchOK
<1>4. /\ Commit(e) /\ e.tree = Tip.tree /\ e.catalog = Tip.catalog /\ e.by = "evidence"
      /\ \A page \in Pages :
            e.records[page] = IF b.records[page] # old[page] THEN b.records[page]
                              ELSE Tip.records[page]
  BY <1>2, LandedIs
<1>5. /\ Book(b.records)
      /\ \A page \in Pages : b.records[page] = old[page] \/ WrittenBy(b.records[page], b.base)
  <2>1. b.base \in 1 .. N /\ Commit(main[b.base])
    BY <1>2, <1>3 DEF HistoryOK
  <2>2. Book(old)
    BY <2>1 DEF Commit, Book
  <2> QED
    BY <1>3, <2>2, EvidenceIs DEF RecordsIn
<1> HIDE DEF e
<1>6. Dated(e, N + 1)
  <2>1. \A page \in Pages :
          \/ e.records[page] = Tip.records[page]
          \/ e.records[page].commit = b.base
    BY <1>4, <1>5 DEF WrittenBy
  <2>2. b.base \in Nat /\ b.base < N + 1
    BY <1>2, <1>3
  <2> QED
    BY <1>2, <2>1, <2>2 DEF Dated
<1>7. /\ Len(g) = N + 1 /\ g[N + 1] = e /\ \A m \in 1 .. N : g[m] = main[m]
  BY <1>2, PrefixStays
<1>8. Lands(g, N + 1)
  <2>1. g[N + 1 - 1] = Tip
    BY <1>2, <1>7
  <2> HIDE DEF g
  <2> QED
    BY <1>4, <1>7, <2>1 DEF Lands
<1>9. HistoryOK(g)
  BY <1>2, <1>4, <1>6, <1>8, HistoryStays
<1>10. \A q \in pulls : Proposal(g, q)
  BY <1>2, ProposalStays DEF Inv
<1>11. (\A x \in branches : BranchOK(g, x)) /\ RunOK(g, run) /\ LiveOK(g, live)
  BY <1>2, OthersStay DEF Inv
<1>12. started \in 1 .. Len(g)
  BY <1>2, <1>7 DEF Inv
<1>13. ASSUME CaughtUp(main, live, branches) PROVE CaughtUp(g, live, branches \ {b})
  <2> DEFINE n == live.commit
  <2>1. /\ n \in 2 .. N /\ Valid(main[n])
        /\ branches = {[base |-> n, records |-> RecordsIn(main, n)]}
        /\ Tip.records = main[n].records
    BY <1>2, <1>13 DEF CaughtUp
  <2>2. b.base = n /\ branches \ {b} = {}
    BY <2>1
  <2>3. \A page \in Pages : e.records[page] = b.records[page]
    BY <1>4, <2>1, <2>2
  <2>4. e.records = b.records
    BY <1>4, <1>5, <2>3 DEF Commit, Book
  <2>5. RecordsIn(g, n) = RecordsIn(main, n)
    BY <1>2, <2>1, RecordsStay
  <2>6. g[n] = main[n] /\ n \in 2 .. N + 1
    BY <1>2, <1>7, <2>1
  <2> HIDE DEF g, n
  <2> QED
    BY <1>3, <1>7, <2>1, <2>2, <2>4, <2>5, <2>6 DEF CaughtUp, n
<1> HIDE DEF g
<1> QED
  BY <1>1, <1>9, <1>10, <1>11, <1>12, <1>13 DEF Inv

\* What people propose can be written into the tree.
LEMMA DraftsAreProper ==
    ASSUME Inv, NEW p \in Paths, NEW doc \in Drafts(p)
    PROVE  Editable(p, doc, Tip.catalog)
<1>1. Tip.catalog \in Catalogs
  BY TipIs DEF Inv, Commit
<1>2. PICK d \in Docs[p] : \E t : doc = [kind |-> d.kind, spec |-> d.spec, ticket |-> t]
  BY DEF Drafts
<1>3. doc.kind = d.kind /\ doc.spec = d.spec
  BY <1>2
<1> QED
  BY <1>1, <1>3 DEF Editable, Proper

\* The invariant is inductive, one step per action.
LEMMA NextInv == Inv /\ [Next]_vars => Inv'
<1> SUFFICES ASSUME Inv, [Next]_vars PROVE Inv'
  OBVIOUS
<1>1. Commit(Tip) /\ Tip.catalog \in Catalogs
  BY TipIs DEF Inv, Commit
<1>2. ASSUME NEW p \in Paths, NEW doc \in Drafts(p), NEW message,
             Propose(p, doc, Tip.catalog, message)
      PROVE  Inv'
  BY <1>2, DraftsAreProper, ProposeKeeps
<1>3. ASSUME NEW p \in ToSet(Files(Tip)), NEW catalog \in Catalogs, NEW message,
             Propose(p, Absent, catalog, message)
      PROVE  Inv'
  <2>1. Editable(p, Absent, catalog)
    BY FilesAre DEF Editable
  <2> QED
    BY <1>3, <2>1, ProposeKeeps
<1>4. ASSUME NEW catalog \in Catalogs,
             Propose(Head(PathOrder), Tip.tree[Head(PathOrder)], catalog, <<>>)
      PROVE  Inv'
  <2> DEFINE p == Head(PathOrder)
  <2>1. p \in Paths
    BY PathsAreListed
  <2> HIDE DEF p
  <2>2. Editable(p, Tip.tree[p], catalog)
    BY <1>1, <2>1 DEF Editable, Commit
  <2>3. Propose(p, Tip.tree[p], catalog, <<>>)
    BY <1>4 DEF p
  <2> QED
    BY <2>2, <2>3, ProposeKeeps
<1>5. CASE UNCHANGED vars
  BY <1>5 DEF vars, Inv
<1>6. ASSUME Next PROVE Inv'
  <2>1. CASE \E p \in Paths : \E doc \in Drafts(p) :
               \E message \in IF Rekinded(p, doc) THEN Trailers(p) ELSE {<<>>} :
                  Propose(p, doc, Tip.catalog, message)
    BY <1>2, <2>1
  <2>2. CASE \E p \in ToSet(Files(Tip)), catalog \in Catalogs :
               \E message \in Trailers(p) : Propose(p, Absent, catalog, message)
    BY <1>3, <2>2
  <2>3. CASE \E catalog \in Catalogs :
               Propose(Head(PathOrder), Tip.tree[Head(PathOrder)], catalog, <<>>)
    BY <1>4, <2>3
  <2>4. CASE \E pull \in pulls : Merge(pull)
    BY <2>4, MergeKeeps
  <2>5. CASE \E n \in 2 .. Len(main) : Start(n) \/ StartAgain(n)
    BY <2>5, StartKeeps
  <2>6. CASE \E b \in branches : Land(b)
    BY <2>6, LandKeeps
  <2> QED
    BY <1>6, <2>1, <2>2, <2>3, <2>4, <2>5, <2>6, ApplyKeeps, StopKeeps, RecordKeeps DEF Next
<1> QED
  BY <1>5, <1>6

LEMMA Invariance == Spec => []Inv
<1> QED
  BY InitInv, NextInv, PTL DEF Spec

----
(* Theorems.                                                               *)

\* Commits, runs and branches stay as the steps expect them, and nothing runs
\* whose classification was rejected (run_classify's exit codes, apply.yml).
THEOREM RunsWereClassified == Spec => []TypeOK
<1>1. Inv => TypeOK
  <2> SUFFICES ASSUME Inv PROVE TypeOK
    OBVIOUS
  <2>1. /\ DOMAIN main = 1 .. Len(main) /\ Len(main) \in Nat
        /\ \A n \in 1 .. Len(main) : Commit(main[n])
    BY DEF Inv, HistoryOK, Listed
  <2>2. ASSUME NEW c, Commit(c)
        PROVE  /\ DOMAIN c.tree = Paths /\ DOMAIN c.records = Pages
               /\ c.catalog \in Catalogs /\ c.by \in {"people", "evidence"}
    BY <2>2 DEF Commit
  <2>3. ToSet(Tiers) = AllTiers
    BY DEF ToSet, Tiers, AllTiers
  <2>4. /\ run.tier \in AllTiers /\ run.at \in {"none", "waiting", "applied"}
        /\ run.commit \in 0 .. Len(main)
    <3>1. CASE run = NoRun
      BY <2>1, <3>1 DEF NoRun, AllTiers
    <3>2. CASE run # NoRun
      <4>1. /\ run.commit \in 2 .. Len(main) /\ run.at \in {"waiting", "applied"}
            /\ run.tier = Classify(main[run.commit - 1], main[run.commit]) /\ run.tier # "rejected"
        BY <3>2 DEF Inv, RunOK
      <4>2. run.tier \in AllTiers
        BY <4>1, ClassifyIs
      <4> QED
        BY <2>1, <4>1, <4>2
    <3> QED
      BY <3>1, <3>2
  <2>5. live.commit \in 1 .. Len(main) /\ started \in 1 .. Len(main)
    BY DEF Inv, LiveOK
  <2>6. ASSUME NEW b \in branches PROVE b.base \in DOMAIN main /\ DOMAIN b.records = Pages
    <3>1. b.base \in 2 .. Len(main) /\ b.records = RecordsIn(main, b.base)
      BY DEF Inv, BranchOK
    <3>2. b.base \in 1 .. Len(main) /\ Commit(main[b.base])
      BY <2>1, <3>1
    <3>3. Book(main[b.base].records)
      BY <3>2 DEF Commit, Book
    <3>4. Book(b.records)
      BY <3>1, <3>3, EvidenceIs DEF RecordsIn
    <3> QED
      BY <2>1, <3>2, <3>4 DEF Book
  <2>7. \A pull \in pulls : pull.base \in DOMAIN main /\ pull.path \in Paths
    BY <2>1 DEF Inv, Proposal
  <2>8. \A n \in DOMAIN main :
           /\ DOMAIN main[n].tree = Paths /\ DOMAIN main[n].records = Pages
           /\ main[n].catalog \in Catalogs /\ main[n].by \in {"people", "evidence"}
    BY <2>1, <2>2
  <2>9. {run.commit, live.commit, started} \subseteq 0 .. Len(main)
    BY <2>4, <2>5
  <2> QED
    BY <2>3, <2>4, <2>6, <2>7, <2>8, <2>9 DEF TypeOK
<1> QED
  BY <1>1, Invariance, PTL

\* A rule's document has the fields a rule has, and compiles to a rule.
LEMMA RuleAt ==
    ASSUME NEW c, Commit(c), NEW p \in ToSet(Files(c)), c.tree[p].kind = "AccessRequest",
           NEW o, o = ObjectAt(c, p)
    PROVE  /\ Comparable(o) /\ o.action = c.tree[p].spec.action /\ o.kind = "AccessRequest"
           /\ o.scope = <<"folder", c.catalog.envs[c.tree[p].spec.env].folder>>
<1> DEFINE doc == c.tree[p]
           cat == c.catalog
           sp == LoadedSpec(doc, cat)
<1>1. p \in Paths /\ doc # Absent /\ cat \in Catalogs
  BY FilesAre DEF Commit
<1>2. PICK d \in Docs[p] : doc.kind = d.kind /\ doc.spec = d.spec
  BY <1>1 DEF Commit, Proper
<1> DEFINE spec == doc.spec
<1>3. /\ spec = [f \in RuleFields |-> spec[f]] /\ spec.negated \in BOOLEAN
      /\ \A s \in spec.services : s.lo \in Nat /\ s.hi \in Nat
      /\ spec.sources \in DOMAIN cat.apps /\ spec.destinations \in DOMAIN cat.apps
  BY <1>1, <1>2, RulesNameApps
<1>4. sp = [[spec EXCEPT !.sources = cat.apps[@]] EXCEPT !.destinations = cat.apps[@]]
  BY DEF LoadedSpec
<1>5. o = [kind |-> "AccessRequest", scope |-> <<"folder", cat.envs[sp.env].folder>>,
           name |-> p[2], from |-> {cat.envs[sp.env].from},
              to |-> {cat.envs[sp.env].to}, action |-> sp.action, sources |-> sp.sources,
              destinations |-> sp.destinations, services |-> sp.services,
              negated |-> sp.negated, profile |-> sp.profile, disabled |-> sp.disabled]
  BY DEF ObjectAt, Compile
<1> HIDE DEF doc, cat, sp, spec
<1>6. /\ sp.sources = cat.apps[spec.sources] /\ sp.destinations = cat.apps[spec.destinations]
      /\ sp.action = spec.action /\ sp.services = spec.services /\ sp.negated = spec.negated
      /\ sp.env = spec.env
  BY <1>3, <1>4 DEF RuleFields
<1>7. /\ o.kind = "AccessRequest" /\ o.negated = sp.negated /\ o.sources = sp.sources
      /\ o.destinations = sp.destinations /\ o.services = sp.services /\ o.action = sp.action
      /\ o.scope = <<"folder", cat.envs[sp.env].folder>>
  BY <1>5
<1>8. \A addr \in o.sources \cup o.destinations : addr.type = "cidr" => addr.value \in Seq(STRING)
  BY <1>1, <1>3, <1>6, <1>7, AddressesArePaths
<1>9. Comparable(o)
  BY <1>3, <1>6, <1>7, <1>8 DEF Comparable
<1> QED
  BY <1>6, <1>7, <1>9 DEF doc, cat, spec

\* Of two allow rules of a folder, the one that matches whatever the other
\* matches is not tiered below it (classify's checks and its policy context).
THEOREM WiderIsTieredHigher == Spec => []WiderIsNotSafer
<1>1. ASSUME Inv PROVE WiderIsNotSafer
  <2>1. Commit(Tip)
    BY <1>1, TipIs DEF Inv
  <2>2. ASSUME NEW r \in Policy(Tip) PROVE Comparable(r)
    <3>1. PICK p \in ToSet(Files(Tip)) : r = ObjectAt(Tip, p)
      BY DEF Policy, Objects
    <3>2. r.kind = "AccessRequest"
      BY DEF Policy
    <3>3. Tip.tree[p].kind = "AccessRequest"
      BY <3>1, <3>2 DEF ObjectAt, Compile
    <3> QED
      BY <2>1, <3>1, <3>3, RuleAt
  <2>3. ASSUME NEW a \in Policy(Tip), a.action = "allow", ~a.negated,
               NEW b \in Policy(Tip), b.action = "allow", ~b.negated,
               a.scope = b.scope, Covered(a, b)
        PROVE  Rank(TierOf(a, Policy(Tip), Hierarchy, NoSnapshot))
                  <= Rank(TierOf(b, Policy(Tip), Hierarchy, NoSnapshot))
    BY <2>2, <2>3, WiderIsHigher
  <2> QED
    BY <2>3 DEF WiderIsNotSafer
<1> QED
  BY <1>1, Invariance, PTL

\* Where no id is used twice, a file and its key stand for each other.
LEMMA KeyIs ==
    ASSUME NEW c, UniqueIds(c), NEW p \in ToSet(Files(c))
    PROVE  /\ Key(c, p) \in KeysOf(c) /\ Key(c, p) = <<c.tree[p].kind, p[2]>>
           /\ At(c, Key(c, p)) = p /\ DocAt(c, Key(c, p)) = c.tree[p]
           /\ \A k \in KeysOf(c) : k[2] = p[2] => k = Key(c, p)
<1>1. Key(c, p) = <<c.tree[p].kind, p[2]>> /\ Key(c, p) \in KeysOf(c)
  BY DEF Key, KeysOf
<1>2. \A q \in ToSet(Files(c)) : Key(c, q)[2] = q[2]
  BY DEF Key
<1>3. \A q \in ToSet(Files(c)) : Key(c, q) = Key(c, p) => q = p
  BY <1>2 DEF UniqueIds
<1>4. ASSUME NEW k \in KeysOf(c), k[2] = p[2] PROVE k = Key(c, p)
  <2>1. PICK q \in ToSet(Files(c)) : k = Key(c, q)
    BY DEF KeysOf
  <2>2. q[2] = p[2]
    BY <1>2, <1>4, <2>1
  <2> QED
    BY <2>1, <2>2 DEF UniqueIds
<1> QED
  BY <1>1, <1>3, <1>4, AtOwn

\* An object depends on the kind, the loaded spec, the id and the environments.
LEMMA SameObject ==
    ASSUME NEW c, NEW d, NEW p, NEW q, p[2] = q[2], c.tree[p].kind = d.tree[q].kind,
           LoadedSpec(c.tree[p], c.catalog) = LoadedSpec(d.tree[q], d.catalog),
           c.catalog.envs = d.catalog.envs
    PROVE  ObjectAt(c, p) = ObjectAt(d, q)
BY DEF ObjectAt, Compile

\* A run waits with a tier at least that of each object its commit makes
\* different, and of each deny or zone it takes away (run_classify's
\* changed_ids), where no id is used twice and the environments stay.
THEOREM TheTierCovers == Spec => []TierCoversTheChange
<1>1. ASSUME Inv PROVE TierCoversTheChange
  <2> SUFFICES ASSUME run.at = "waiting", UniqueIds(main[run.commit - 1]),
                      UniqueIds(main[run.commit]),
                      main[run.commit].catalog.envs = main[run.commit - 1].catalog.envs,
                      Valid(main[run.commit - 1])
               PROVE  /\ \A p \in ToSet(Files(main[run.commit])) :
                            ObjectAt(main[run.commit], p) \notin Objects(main[run.commit - 1]) =>
                               Rank(TierAt(main[run.commit], p)) <= Rank(run.tier)
                      /\ \A p \in ToSet(Files(main[run.commit - 1])) :
                            LET o == ObjectAt(main[run.commit - 1], p)
                            IN  /\ \A q \in ToSet(Files(main[run.commit])) : q[2] # p[2]
                                /\ o.kind = "AccessRequest" => o.action # "allow"
                                => run.tier # "LOW"
    BY DEF TierCoversTheChange
  <2> DEFINE n == run.commit
             b == main[n - 1]
             c == main[n]
  <2>1. /\ n \in 2 .. Len(main) /\ run.tier = Classify(b, c) /\ run.tier # "rejected"
    BY <1>1 DEF Inv, RunOK, NoRun
  <2>2. n - 1 \in 1 .. Len(main) /\ Commit(b) /\ Commit(c)
    BY <1>1, <2>1 DEF Inv, HistoryOK, Listed
  <2>3. /\ UniqueIds(b) /\ UniqueIds(c) /\ c.catalog.envs = b.catalog.envs
    OBVIOUS
  <2> HIDE DEF b, c
  <2>4. /\ \A p \in ToSet(Files(c)) :
              p[2] \in ChangedIds(b, c) => Rank(TierAt(c, p)) <= Rank(run.tier)
        /\ \A k \in Removals(b, c) : Rank(RemovalTier(b, k)) <= Rank(run.tier)
        /\ run.tier \in AllTiers
    BY <2>1, ClassifyIs
  <2>5. ASSUME NEW p \in ToSet(Files(c)), ObjectAt(c, p) \notin Objects(b)
        PROVE  p[2] \in ChangedIds(b, c)
    <3>1. CASE p[2] \notin IdsOf(b)
      BY <3>1 DEF ChangedIds, IdsOf
    <3>2. CASE p[2] \in IdsOf(b)
      <4>1. PICK q \in ToSet(Files(b)) : q[2] = p[2]
        BY <3>2 DEF IdsOf
      <4> DEFINE k == Key(b, q)
      <4>2. /\ k \in KeysOf(b) /\ k = <<b.tree[q].kind, q[2]>> /\ DocAt(b, k) = b.tree[q]
            /\ k[2] = p[2]
        BY <2>3, <4>1, KeyIs
      <4>3. /\ Key(c, p) = <<c.tree[p].kind, p[2]>> /\ DocAt(c, Key(c, p)) = c.tree[p]
            /\ Key(c, p) \in KeysOf(c) /\ \A l \in KeysOf(c) : l[2] = p[2] => l = Key(c, p)
        BY <2>3, KeyIs
      <4> HIDE DEF k
      <4>4. CASE k \notin KeysOf(c)
        <5>1. k \in Removals(b, c)
          BY <4>2, <4>4 DEF Removals
        <5> QED
          BY <4>2, <5>1 DEF ChangedIds
      <4>5. CASE k \in KeysOf(c)
        <5>1. k = Key(c, p)
          BY <4>2, <4>3, <4>5
        <5>2. b.tree[q].kind = c.tree[p].kind
          BY <4>2, <4>3, <5>1
        <5>3. LoadedSpec(c.tree[p], c.catalog) # LoadedSpec(b.tree[q], b.catalog)
          <6> SUFFICES ASSUME LoadedSpec(c.tree[p], c.catalog) = LoadedSpec(b.tree[q], b.catalog)
                       PROVE  FALSE
            OBVIOUS
          <6>1. ObjectAt(c, p) = ObjectAt(b, q)
            BY <2>3, <4>1, <5>2, SameObject
          <6> QED
            BY <2>5, <6>1 DEF Objects
        <5>4. k \in Modifications(b, c)
          BY <4>2, <4>3, <4>5, <5>1, <5>3 DEF Modifications
        <5> QED
          BY <4>2, <5>4 DEF ChangedIds
      <4> QED
        BY <4>4, <4>5
    <3> QED
      BY <3>1, <3>2
  <2>6. ASSUME NEW p \in ToSet(Files(b)), \A q \in ToSet(Files(c)) : q[2] # p[2],
               ObjectAt(b, p).kind = "AccessRequest" => ObjectAt(b, p).action # "allow"
        PROVE  run.tier # "LOW"
    <3> DEFINE k == Key(b, p)
               doc == b.tree[p]
    <3>1. k \in KeysOf(b) /\ k = <<doc.kind, p[2]>> /\ DocAt(b, k) = doc
      BY <2>3, KeyIs
    <3>2. k \notin KeysOf(c)
      <4>1. \A q \in ToSet(Files(c)) : Key(c, q)[2] = q[2]
        BY DEF Key
      <4>2. k[2] = p[2]
        BY <3>1
      <4> HIDE DEF k
      <4> QED
        BY <2>6, <4>1, <4>2 DEF KeysOf
    <3>3. k \in Removals(b, c)
      BY <3>1, <3>2 DEF Removals
    <3>4. doc.kind = "AccessRequest" => doc.spec.action # "allow"
      BY <2>2, <2>6, RuleAt
    <3> HIDE DEF k, doc
    <3>5. RemovalTier(b, k) = "HIGH"
      BY <3>1, <3>4 DEF RemovalTier, ClassifyRemoval
    <3> QED
      BY <2>4, <3>3, <3>5, Ranks
  <2> QED
    BY <2>4, <2>5, <2>6 DEF b, c
<1> QED
  BY <1>1, Invariance, PTL

\* A catalog tells two apps apart if they have different addresses.
AppsTellApart == \A cat \in Catalogs : IsInjective(cat.apps)

\* Then two rules that load as the same are written as the same.
LEMMA SpecsTellApart ==
    ASSUME NEW cat \in Catalogs, IsInjective(cat.apps), NEW p \in Paths,
           NEW old, Proper(old, p), NEW new, Proper(new, p), old.kind = new.kind,
           LoadedSpec(old, cat) = LoadedSpec(new, cat)
    PROVE  old.spec = new.spec
<1>1. CASE old.kind # "AccessRequest"
  BY <1>1 DEF LoadedSpec
<1>2. CASE old.kind = "AccessRequest"
  <2> DEFINE s == old.spec
             t == new.spec
  <2>1. /\ s = [f \in RuleFields |-> s[f]] /\ s.sources \in DOMAIN cat.apps
        /\ s.destinations \in DOMAIN cat.apps
    BY <1>2, RulesNameApps DEF Proper
  <2>2. /\ t = [f \in RuleFields |-> t[f]] /\ t.sources \in DOMAIN cat.apps
        /\ t.destinations \in DOMAIN cat.apps
    BY <1>2, RulesNameApps DEF Proper
  <2>3. /\ LoadedSpec(old, cat) =
              [[s EXCEPT !.sources = cat.apps[@]] EXCEPT !.destinations = cat.apps[@]]
        /\ LoadedSpec(new, cat) =
              [[t EXCEPT !.sources = cat.apps[@]] EXCEPT !.destinations = cat.apps[@]]
    BY <1>2 DEF LoadedSpec
  <2> DEFINE u == LoadedSpec(old, cat)
  <2> HIDE DEF s, t
  <2>4. /\ u.sources = cat.apps[s.sources] /\ u.destinations = cat.apps[s.destinations]
        /\ \A f \in RuleFields \ {"sources", "destinations"} : u[f] = s[f]
    BY <2>1, <2>3 DEF RuleFields
  <2>5. /\ u.sources = cat.apps[t.sources] /\ u.destinations = cat.apps[t.destinations]
        /\ \A f \in RuleFields \ {"sources", "destinations"} : u[f] = t[f]
    BY ZenonT(60), <2>2, <2>3 DEF RuleFields
  <2> HIDE DEF u
  <2>6. s.sources = t.sources /\ s.destinations = t.destinations
    BY ZenonT(60), <2>1, <2>2, <2>4, <2>5 DEF IsInjective
  <2>7. \A f \in RuleFields : s[f] = t[f]
    BY <2>4, <2>5, <2>6
  <2> QED
    BY <2>1, <2>2, <2>7 DEF s, t
<1> QED
  BY <1>1, <1>2

\* An accepted edit takes a file away with a trailer, and changes it on another ticket.
LEMMA AcceptedIsTicketed ==
    ASSUME NEW base, Commit(base), UniqueIds(base), NEW e, Commit(e), e.catalog = base.catalog,
           IsInjective(base.catalog.apps), Classify(base, e) # "rejected",
           NEW x \in ToSet(Files(base)), \A q \in Paths : q # x => e.tree[q] = base.tree[q],
           NEW old, old = base.tree[x], NEW new, new = e.tree[x]
    PROVE  /\ new = Absent \/ new.kind # old.kind => x[2] \in DOMAIN e.message
           /\ new # Absent /\ new.kind = old.kind /\ new.spec # old.spec =>
                 new.ticket # old.ticket
<1> DEFINE k == <<old.kind, x[2]>>
<1>1. StaleTickets(base, e) = {} /\ Unauthorised(base, e) = {}
  BY ClassifyIs
<1>2. k = Key(base, x) /\ k \in KeysOf(base) /\ DocAt(base, k) = old
  BY KeyIs
<1>3. \A q \in ToSet(Files(e)) : q = x \/ q \in ToSet(Files(base))
  <2>1. /\ \A q : q \in ToSet(Files(e)) <=> q \in Paths /\ e.tree[q] # Absent
        /\ \A q : q \in ToSet(Files(base)) <=> q \in Paths /\ base.tree[q] # Absent
    BY FilesAre
  <2> QED
    BY <2>1
<1>4. \A q \in ToSet(Files(e)) : q[2] = x[2] => q = x
  BY <1>3 DEF UniqueIds
<1>5. \A q : Key(e, q) = <<e.tree[q].kind, q[2]>> /\ Key(e, q)[2] = q[2]
  BY DEF Key
<1>6. k[1] = old.kind /\ k[2] = x[2]
  OBVIOUS
<1>7. x \in Paths /\ old # Absent /\ (new # Absent <=> x \in ToSet(Files(e)))
  BY FilesAre
<1> HIDE DEF k
<1>8. ASSUME new = Absent \/ new.kind # old.kind PROVE x[2] \in DOMAIN e.message
  <2>1. k \notin KeysOf(e)
    <3> SUFFICES ASSUME NEW q \in ToSet(Files(e)), k = Key(e, q) PROVE FALSE
      BY DEF KeysOf
    <3>1. q[2] = x[2] /\ e.tree[q].kind = old.kind
      BY <1>5, <1>6
    <3>2. q = x
      BY <1>4, <3>1
    <3> QED
      BY <1>7, <1>8, <3>1, <3>2
  <2>2. k \in Removals(base, e)
    BY <1>2, <2>1 DEF Removals
  <2> QED
    BY <1>1, <1>6, <2>2 DEF Unauthorised
<1>9. ASSUME new # Absent, new.kind = old.kind, new.spec # old.spec PROVE new.ticket # old.ticket
  <2>1. x \in ToSet(Files(e)) /\ Key(e, x) = k
    BY <1>2, <1>5, <1>7, <1>9 DEF k
  <2>2. \A q \in ToSet(Files(e)) : Key(e, q) = Key(e, x) => q = x
    BY <1>4, <1>5
  <2>3. DocAt(e, k) = new /\ k \in KeysOf(e)
    <3>1. DocAt(e, Key(e, x)) = new
      BY <2>1, <2>2, AtOwn
    <3> QED
      BY <2>1, <3>1 DEF KeysOf
  <2>4. LoadedSpec(old, base.catalog) # LoadedSpec(new, base.catalog)
    <3>1. Proper(old, x) /\ Proper(new, x) /\ base.catalog \in Catalogs
      BY <1>7, <1>9 DEF Commit
    <3> QED
      BY <1>7, <1>9, <3>1, SpecsTellApart
  <2>5. k \in Modifications(base, e)
    BY <1>2, <2>3, <2>4 DEF Modifications
  <2> QED
    BY <1>1, <1>2, <2>3, <2>5 DEF StaleTickets
<1> QED
  BY <1>8, <1>9

\* What the property says of two commits that follow each other.
Ticketed(prev, c) ==
    \A p \in ToSet(Files(prev)) :
        LET old == prev.tree[p]
            same == {q \in ToSet(Files(c)) : q[2] = p[2] /\ c.tree[q].kind = old.kind}
        IN  IF same = {} THEN p[2] \in DOMAIN c.message
            ELSE \A q \in same : c.tree[q].spec # old.spec => c.tree[q].ticket # old.ticket

\* An edit of one file is ticketed if that file is.
LEMMA EditsAreTicketed ==
    ASSUME NEW prev, Commit(prev), UniqueIds(prev), NEW c, Commit(c), UniqueIds(c), NEW x,
           \A q \in Paths : q # x => c.tree[q] = prev.tree[q],
           x \in ToSet(Files(prev)) =>
              /\ c.tree[x] = Absent \/ c.tree[x].kind # prev.tree[x].kind => x[2] \in DOMAIN c.message
              /\ c.tree[x] # Absent /\ c.tree[x].kind = prev.tree[x].kind
                   /\ c.tree[x].spec # prev.tree[x].spec => c.tree[x].ticket # prev.tree[x].ticket
    PROVE  Ticketed(prev, c)
<1> SUFFICES ASSUME NEW p \in ToSet(Files(prev))
             PROVE  LET old == prev.tree[p]
                        same == {q \in ToSet(Files(c)) :
                                    q[2] = p[2] /\ c.tree[q].kind = old.kind}
                    IN  IF same = {} THEN p[2] \in DOMAIN c.message
                        ELSE \A q \in same :
                                c.tree[q].spec # old.spec => c.tree[q].ticket # old.ticket
  BY DEF Ticketed
<1> DEFINE old == prev.tree[p]
           same == {q \in ToSet(Files(c)) : q[2] = p[2] /\ c.tree[q].kind = old.kind}
<1>1. /\ \A q : q \in ToSet(Files(c)) <=> q \in Paths /\ c.tree[q] # Absent
      /\ \A q : q \in ToSet(Files(prev)) <=> q \in Paths /\ prev.tree[q] # Absent
  BY FilesAre
<1>2. ASSUME NEW q \in same PROVE q = p
  <2>1. q \in ToSet(Files(c)) /\ q[2] = p[2]
    OBVIOUS
  <2>2. CASE q = x
    <3>1. p # x => p \in ToSet(Files(c))
      BY <1>1
    <3> QED
      BY <2>1, <2>2, <3>1 DEF UniqueIds
  <2>3. CASE q # x
    <3>1. q \in ToSet(Files(prev))
      BY <1>1, <2>1, <2>3
    <3> QED
      BY <2>1, <3>1 DEF UniqueIds
  <2> QED
    BY <2>2, <2>3
<1>3. p \in same <=> c.tree[p] # Absent /\ c.tree[p].kind = old.kind
  BY <1>1
<1>a. p \in Paths /\ old # Absent
  BY <1>1
<1> DEFINE Fine == IF same = {} THEN p[2] \in DOMAIN c.message
                   ELSE \A q \in same : c.tree[q].spec # old.spec => c.tree[q].ticket # old.ticket
<1> HIDE DEF same
<1>4. ASSUME p # x PROVE Fine
  <2>1. c.tree[p] = old
    BY <1>4, <1>a
  <2>2. p \in same
    BY <1>3, <1>a, <2>1
  <2> QED
    BY <1>2, <2>1, <2>2 DEF Fine
<1>5. ASSUME p = x PROVE Fine
  <2>1. CASE p \in same
    BY <1>2, <1>3, <1>5, <2>1 DEF Fine
  <2>2. CASE p \notin same
    <3>1. same = {}
      BY <1>2, <2>2
    <3> QED
      BY <1>3, <1>5, <2>2, <3>1 DEF Fine
  <2> QED
    BY <2>1, <2>2
<1> QED
  BY <1>4, <1>5 DEF same

\* A merge repeats, on the tip, the edit that was accepted on its base.
LEMMA HistoryIsTicketed ==
    ASSUME NEW commits, HistoryOK(commits), NEW n \in 2 .. Len(commits),
           IsInjective(commits[1].catalog.apps),
           \A m \in 1 .. n : commits[m].catalog = commits[1].catalog /\ UniqueIds(commits[m])
    PROVE  Ticketed(commits[n - 1], commits[n])
<1> DEFINE prev == commits[n - 1]
           c == commits[n]
<1>1. Len(commits) \in Nat /\ n - 1 \in 1 .. n /\ n \in 1 .. n /\ n - 1 \in 1 .. Len(commits)
  BY DEF HistoryOK, Listed
<1>2. Commit(prev) /\ Commit(c) /\ UniqueIds(prev) /\ UniqueIds(c)
  BY <1>1 DEF HistoryOK
<1>3. CASE Lands(commits, n)
  <2>1. c.tree = prev.tree
    BY <1>3 DEF Lands
  <2>2. \A q \in Paths : q # <<>> => c.tree[q] = prev.tree[q]
    BY <2>1
  <2>3. /\ ~(c.tree[<<>>].kind # prev.tree[<<>>].kind)
        /\ ~(c.tree[<<>>].spec # prev.tree[<<>>].spec)
        /\ <<>> \in ToSet(Files(prev)) => c.tree[<<>>] # Absent
    BY <2>1, FilesAre
  <2> HIDE DEF prev, c
  <2> QED
    BY <1>2, <2>2, <2>3, EditsAreTicketed DEF prev, c
<1>4. ASSUME NEW pull, Merged(commits, n, pull) PROVE Ticketed(prev, c)
  <2> DEFINE base == commits[pull.base]
             x == pull.path
             e == Edited(base, x, pull.doc, pull.catalog, pull.message)
             moved == pull.catalog # base.catalog
             cat == IF moved THEN pull.catalog ELSE prev.catalog
  <2>1. /\ pull.base \in 1 .. Len(commits) /\ x \in Paths /\ pull.catalog \in Catalogs
        /\ pull.doc # Absent => Proper(pull.doc, x)
        /\ Classify(base, e) # "rejected"
        /\ pull.base < n /\ prev.tree[x] = base.tree[x]
        /\ c = Edited(prev, x, pull.doc, cat, pull.message)
    BY <1>4 DEF Merged, Proposal
  <2>2. pull.base \in 1 .. n
    BY <1>1, <2>1
  <2>3. /\ Commit(base) /\ UniqueIds(base)
        /\ base.catalog = commits[1].catalog /\ prev.catalog = commits[1].catalog
        /\ c.catalog = commits[1].catalog
    BY <1>1, <2>1, <2>2 DEF HistoryOK
  <2>4. Editable(x, pull.doc, pull.catalog) /\ Editable(x, pull.doc, cat)
    BY <1>2, <2>1 DEF Editable, Commit
  <2> HIDE DEF base, e, prev, c, moved, cat
  <2>5. /\ Commit(e) /\ e.catalog = pull.catalog /\ e.message = pull.message
        /\ \A q \in Paths : e.tree[q] = IF q = x THEN pull.doc ELSE base.tree[q]
    BY <2>3, <2>4, EditedIs DEF e
  <2>6. /\ c.catalog = cat /\ c.message = pull.message
        /\ \A q \in Paths : c.tree[q] = IF q = x THEN pull.doc ELSE prev.tree[q]
    BY <1>2, <2>1, <2>4, EditedIs
  <2>7. pull.catalog = base.catalog
    BY <2>3, <2>6 DEF cat, moved
  <2>8. IsInjective(base.catalog.apps)
    BY <2>3
  <2>9. ASSUME x \in ToSet(Files(prev))
        PROVE  /\ c.tree[x] = Absent \/ c.tree[x].kind # prev.tree[x].kind =>
                     x[2] \in DOMAIN c.message
               /\ c.tree[x] # Absent /\ c.tree[x].kind = prev.tree[x].kind
                    /\ c.tree[x].spec # prev.tree[x].spec => c.tree[x].ticket # prev.tree[x].ticket
    <3>1. x \in ToSet(Files(base))
      BY <2>1, <2>9, FilesAre
    <3>2. \A q \in Paths : q # x => e.tree[q] = base.tree[q]
      BY <2>5
    <3>3. e.tree[x] = c.tree[x] /\ e.message = c.message /\ prev.tree[x] = base.tree[x]
      BY <2>1, <2>5, <2>6
    <3>4. e.catalog = base.catalog
      BY <2>5, <2>7
    <3>5. Commit(base) /\ UniqueIds(base) /\ Commit(e) /\ Classify(base, e) # "rejected"
      BY <2>1, <2>3, <2>5
    <3> DEFINE old == base.tree[x]
               new == e.tree[x]
    <3>6. /\ new = Absent \/ new.kind # old.kind => x[2] \in DOMAIN e.message
          /\ new # Absent /\ new.kind = old.kind /\ new.spec # old.spec =>
                new.ticket # old.ticket
      BY SMTT(60), <2>8, <3>1, <3>2, <3>4, <3>5, AcceptedIsTicketed
    <3> QED
      BY <3>3, <3>6
  <2>10. \A q \in Paths : q # x => c.tree[q] = prev.tree[q]
    BY <2>6
  <2> QED
    BY <1>2, <2>9, <2>10, EditsAreTicketed
<1> QED
  BY <1>3, <1>4 DEF HistoryOK

\* While the catalog and the ids are left alone, no pull requests together merge
\* into a commit that changes or removes an object on the ticket of something
\* else (stale_ticket_problems, removal_ticket_problems): where no two apps have
\* the same addresses, because the check compares loaded requests.
THEOREM ChangesHaveTickets == AppsTellApart => (Spec => []EveryChangeHasItsTicket)
<1> SUFFICES ASSUME AppsTellApart PROVE Spec => []EveryChangeHasItsTicket
  OBVIOUS
<1>1. ASSUME Inv PROVE EveryChangeHasItsTicket
  <2>1. ASSUME NEW n \in 2 .. Len(main),
               \A m \in 1 .. n : main[m].catalog = main[1].catalog /\ UniqueIds(main[m])
        PROVE  Ticketed(main[n - 1], main[n])
    <3>1. HistoryOK(main) /\ 1 \in 1 .. Len(main) /\ Commit(main[1])
      BY <1>1 DEF Inv, HistoryOK, Listed
    <3>2. IsInjective(main[1].catalog.apps)
      BY <3>1 DEF Commit, AppsTellApart
    <3> QED
      BY <2>1, <3>1, <3>2, HistoryIsTicketed
  <2> QED
    BY <2>1 DEF EveryChangeHasItsTicket, Ticketed
<1> QED
  BY <1>1, Invariance, PTL

\* Where ids keep their kind, no id is used by two of what a run records.
LEMMA IdsAreOneEach ==
    ASSUME IdsKeepTheirKind, DOMAIN main = 1 .. Len(main), NEW n \in 2 .. Len(main),
           n - 1 \in 1 .. Len(main)
    PROVE  OneEach(main[n - 1], main[n])
<1> DEFINE base == main[n - 1]
           c == main[n]
<1>1. n \in DOMAIN main /\ n - 1 \in DOMAIN main
  OBVIOUS
<1>2. /\ UniqueIds(c)
      /\ \A k, l \in KeysOf(base) : k[2] = l[2] => k = l
      /\ \A k \in KeysOf(base), l \in KeysOf(c) : k[2] = l[2] => k = l
  BY <1>1, Zenon DEF IdsKeepTheirKind
<1> HIDE DEF base, c
<1>3. \A p \in ToSet(Files(c)) : Key(c, p) \in KeysOf(c) /\ Key(c, p)[2] = p[2]
  BY DEF KeysOf, Key
<1>4. OneEach(base, c)
  BY <1>2, <1>3 DEF OneEach, Removals
<1> QED
  BY <1>4 DEF base, c

\* A merge leaves the records of main as they are.
LEMMA MergesLeaveRecords ==
    ASSUME Inv, NEW pull \in pulls, Merge(pull)
    PROVE  Tip'.records = Tip.records
<1> DEFINE cat == IF pull.catalog # main[pull.base].catalog THEN pull.catalog ELSE Tip.catalog
           e == Edited(Tip, pull.path, pull.doc, cat, pull.message)
           g == Append(main, e)
<1>1. main' = g
  BY DEF Merge
<1>2. Listed(main) /\ Commit(Tip)
  BY TipIs DEF Inv
<1>3. Editable(pull.path, pull.doc, cat)
  BY <1>2 DEF Inv, Proposal, Editable, Commit
<1> HIDE DEF cat
<1>4. e.records = Tip.records
  BY <1>2, <1>3, EditedIs
<1> HIDE DEF e
<1>5. g[Len(g)] = e
  BY <1>2, PrefixStays
<1>6. Tip' = e
  BY <1>1, <1>5 DEF Tip
<1> QED
  BY <1>4, <1>6

\* A landing branch writes a page over only for another change and a later commit.
LEMMA LandingsEnter ==
    ASSUME Inv, IdsKeepTheirKind, AbsentIsNoBundle, NEW b \in branches, Land(b)
    PROVE  /\ DOMAIN Tip'.records = Pages
           /\ \A page \in Pages :
                 \/ Tip'.records[page] = Tip.records[page]
                 \/ /\ Tip'.records[page] # Absent
                    /\ TheLedger!Later(Tip.records[page], Tip'.records[page])
<1> DEFINE old == main[b.base].records
           e == Landed(Tip, b, old)
           N == Len(main)
           g == Append(main, e)
<1>1. /\ \A page \in Pages : b.records[page] # old[page] => Tip.records[page] = old[page]
      /\ main' = g
  BY DEF Land, Landed, Touched
<1>2. HistoryOK(main) /\ Listed(main) /\ N \in Nat /\ Commit(Tip) /\ DOMAIN main = 1 .. N
  BY TipIs DEF Inv, Listed
<1>3. b.base \in 2 .. N /\ b.records = RecordsIn(main, b.base)
  BY DEF Inv, BranchOK
<1>4. /\ Commit(e)
      /\ \A page \in Pages :
            e.records[page] = IF b.records[page] # old[page] THEN b.records[page]
                              ELSE Tip.records[page]
  BY <1>2, LandedIs
<1>5. b.base \in 1 .. N /\ b.base - 1 \in 1 .. N
  BY <1>2, <1>3
<1>6. Book(old) /\ Dated(main[b.base], b.base)
  BY <1>2, <1>5 DEF Commit, Book, HistoryOK
<1>7. OneEach(main[b.base - 1], main[b.base])
  BY <1>2, <1>3, <1>5, IdsAreOneEach
<1>8. \A page \in Pages :
         \/ b.records[page] = old[page]
         \/ WrittenBy(b.records[page], b.base) /\ Differs(old[page], b.records[page])
  BY <1>3, <1>6, <1>7, EvidenceIs DEF RecordsIn
<1> HIDE DEF e
<1>9. Tip' = e
  <2>1. g[Len(g)] = e
    BY <1>2, PrefixStays
  <2> QED
    BY <1>1, <2>1 DEF Tip
<1>10. ASSUME NEW page \in Pages, e.records[page] # Tip.records[page]
       PROVE  e.records[page] # Absent /\ TheLedger!Later(Tip.records[page], e.records[page])
  <2> DEFINE new == e.records[page]
             was == Tip.records[page]
  <2>1. was = old[page] /\ WrittenBy(new, b.base) /\ Differs(was, new)
    BY <1>1, <1>4, <1>8, <1>10
  <2>2. was # Absent => was.commit \in Nat /\ was.commit < b.base
    BY <1>3, <1>6, <2>1 DEF Dated
  <2> HIDE DEF new, was
  <2>3. new # Absent /\ new.commit = b.base
    BY <2>1 DEF WrittenBy, AbsentIsNoBundle
  <2>4. TheLedger!Later(was, new)
    BY <1>3, <2>1, <2>2, <2>3 DEF TheLedger!Later, Differs
  <2> QED
    BY <2>3, <2>4 DEF new, was
<1>11. DOMAIN e.records = Pages
  BY <1>4 DEF Commit
<1> QED
  BY <1>9, <1>10, <1>11

\* Every step enters pages into the ledger or leaves it alone.
LEMMA StepsKeepTheLedger ==
    AbsentIsNoBundle =>
        (Inv /\ IdsKeepTheirKind /\ [Next]_vars => [TheLedger!Enter]_(Tip.records))
<1> SUFFICES ASSUME AbsentIsNoBundle, Inv, IdsKeepTheirKind, [Next]_vars, Tip'.records # Tip.records
             PROVE  TheLedger!Enter
  OBVIOUS
<1>1. CASE main' = main
  BY <1>1 DEF Tip
<1>2. ASSUME NEW pull \in pulls, Merge(pull) PROVE TheLedger!Enter
  BY <1>2, MergesLeaveRecords
<1>3. ASSUME NEW b \in branches, Land(b) PROVE TheLedger!Enter
  BY <1>3, LandingsEnter DEF TheLedger!Enter
<1>4. \A p, doc, catalog, message : Propose(p, doc, catalog, message) => main' = main
  BY DEF Propose
<1>5. \A n : Start(n) \/ StartAgain(n) => main' = main
  BY DEF Start, StartAgain
<1>6. Apply \/ Abandon \/ Refused \/ Record => main' = main
  BY DEF Apply, Abandon, Refused, Record
<1> QED
  BY <1>1, <1>2, <1>3, <1>4, <1>5, <1>6 DEF Next, vars

\* The records of main keep what the audit record promises, for any number of
\* pull requests, runs and evidence branches, in any order: a page is written
\* over only for another change, by a later commit, and never goes blank
\* (write_bundle_if_changed, apply.yml's evidence step) - as long as no id is
\* used twice or changes its kind.
THEOREM RecordsAreALedger ==
    AbsentIsNoBundle => (Spec /\ []IdsKeepTheirKind => KeepsTheLedger)
<1> SUFFICES ASSUME AbsentIsNoBundle PROVE Spec /\ []IdsKeepTheirKind => KeepsTheLedger
  OBVIOUS
<1>1. Inv => TheLedger!Init
  BY TipIs DEF Inv, Commit, TheLedger!Init
<1>2. Inv /\ IdsKeepTheirKind /\ [Next]_vars => [TheLedger!Enter]_(Tip.records)
  BY StepsKeepTheLedger
<1> QED
  BY <1>1, <1>2, Invariance, PTL DEF Spec, KeepsTheLedger, TheLedger!Spec

\* There is a last commit that people made.
LEMMA LastChangeIs ==
    ASSUME HistoryOK(main)
    PROVE  /\ LastChange \in 1 .. Len(main) /\ main[LastChange].by = "people"
           /\ \A m \in LastChange + 1 .. Len(main) : main[m].by = "evidence"
<1> DEFINE N == Len(main)
           Ends(l, n) == main[l].by = "people" /\ \A m \in l + 1 .. n : main[m].by = "evidence"
           I == {k \in 0 .. N - 1 : \E l \in 1 .. k + 1 : Ends(l, k + 1)}
<1>1. /\ N \in Nat /\ N - 1 \in Nat /\ N - 1 + 1 = N /\ DOMAIN main = 1 .. N
      /\ main[1].by = "people"
      /\ \A n \in 1 .. N : main[n].by \in {"people", "evidence"}
  <2>1. N \in Nat /\ N # 0 /\ DOMAIN main = 1 .. N /\ main[1].by = "people"
    BY DEF HistoryOK, Listed
  <2>2. \A n \in 1 .. N : main[n].by \in {"people", "evidence"}
    BY DEF HistoryOK, Commit
  <2> QED
    BY <2>1, <2>2
<1>2. 0 \in I
  <2>1. 1 \in 1 .. 0 + 1 /\ Ends(1, 0 + 1)
    BY <1>1
  <2> QED
    BY <1>1, <2>1
<1>3. ASSUME NEW k \in 1 .. N - 1, k - 1 \in I PROVE k \in I
  <2>1. k - 1 + 1 = k /\ k \in 0 .. N - 1 /\ k + 1 \in 1 .. N /\ k \in Nat
    BY <1>1
  <2>2. PICK l \in 1 .. k : Ends(l, k)
    BY <1>3, <2>1
  <2>3. CASE main[k + 1].by = "people"
    <3>1. k + 1 \in 1 .. k + 1 /\ Ends(k + 1, k + 1)
      BY <2>1, <2>3
    <3> QED
      BY <2>1, <3>1
  <2>4. CASE main[k + 1].by = "evidence"
    <3>1. \A m \in l + 1 .. k + 1 : m = k + 1 \/ m \in l + 1 .. k
      BY <2>1
    <3>2. l \in 1 .. k + 1 /\ Ends(l, k + 1)
      BY <2>1, <2>2, <2>4, <3>1
    <3> QED
      BY <2>1, <3>2
  <2> QED
    BY <1>1, <2>1, <2>3, <2>4
<1>4. N - 1 \in I
  <2> HIDE DEF I
  <2> QED
    BY <1>1, <1>2, <1>3, Upward
<1>5. \E l \in DOMAIN main : Ends(l, N)
  BY <1>1, <1>4
<1>6. LastChange \in DOMAIN main /\ Ends(LastChange, N)
  BY <1>5 DEF LastChange
<1> QED
  BY <1>1, <1>6

\* In a valid commit the folder of an object is one of the catalog's.
LEMMA ObjectHasPage ==
    ASSUME NEW c, Commit(c), Valid(c), NEW p \in ToSet(Files(c)), NEW o, o = ObjectAt(c, p)
    PROVE  <<o.scope[2], p[2]>> \in Pages /\ o.kind = c.tree[p].kind
<1> DEFINE doc == c.tree[p]
           cat == c.catalog
<1>1. p \in Paths /\ cat \in Catalogs /\ doc.spec.env \in DOMAIN cat.envs
  BY FilesAre DEF Commit, Valid, Resolvable
<1>2. o.scope = <<"folder", cat.envs[doc.spec.env].folder>> /\ o.kind = doc.kind
  <2>1. CASE doc.kind = "AccessRequest"
    BY <2>1, RuleAt
  <2>2. CASE doc.kind # "AccessRequest"
    BY <2>2 DEF ObjectAt, Compile, LoadedSpec
  <2> QED
    BY <2>1, <2>2
<1> HIDE DEF doc, cat
<1>3. cat.envs[doc.spec.env].folder \in Folders /\ p[2] \in Ids
  <2> DEFINE e == doc.spec.env
  <2>1. cat.envs[e].folder \in {cat.envs[x].folder : x \in DOMAIN cat.envs}
    BY <1>1
  <2>2. cat.envs[e].folder \in Folders
    BY <1>1, <2>1 DEF Folders
  <2>3. p[2] \in Ids
    BY <1>1 DEF Ids
  <2> QED
    BY <2>2, <2>3
<1> QED
  BY SMTT(60), <1>2, <1>3 DEF Pages, doc

\* Once everything merged is applied, recorded and landed, each declared object
\* has a record that says it is applied from its current document and as its
\* current object (write_bundle_if_changed, _IDENTITY), unless records overtook
\* each other or an id changed its kind.
THEOREM SettledMeansRecorded == AbsentIsNoBundle => (Spec => []RecordsInStep)
<1> SUFFICES ASSUME AbsentIsNoBundle PROVE Spec => []RecordsInStep
  OBVIOUS
<1>1. ASSUME Inv PROVE RecordsInStep
  <2> SUFFICES ASSUME Settled, ~crossed, IdsKeepTheirKind, NEW p \in ToSet(Files(Tip)),
                      NEW o, o = ObjectAt(Tip, p), NEW page, page = <<o.scope[2], p[2]>>
               PROVE  /\ Tip.records[page] # Absent
                      /\ Tip.records[page].change =
                            [status |-> "applied", kind |-> o.kind, doc |-> Tip.tree[p],
                             object |-> o]
    BY DEF RecordsInStep
  <2> DEFINE l == LastChange
             c == main[l]
             N == Len(main)
  <2>1. /\ HistoryOK(main) /\ N \in Nat /\ DOMAIN main = 1 .. N /\ Tip = main[N]
        /\ branches = {} /\ live.commit = l /\ live.recorded
    BY <1>1, TipIs DEF Inv, Settled, Listed
  <2>2. l \in 1 .. N /\ \A m \in l + 1 .. N : main[m].by = "evidence"
    BY <2>1, LastChangeIs
  <2> HIDE DEF l, N
  <2>3. Commit(c) /\ Tip.tree = c.tree /\ Tip.catalog = c.catalog
    BY <2>1, <2>2, QuietTrees DEF HistoryOK, N
  <2>4. CaughtUp(main, live, branches)
    BY <1>1, <2>1 DEF Inv
  <2>5. \/ l = 1 /\ Tip.records = c.records
        \/ l \in 2 .. N /\ Valid(c) /\ Tip.records = RecordsIn(main, l)
    BY <2>1, <2>4 DEF CaughtUp, N
  <2>6. Files(Tip) = Files(c) /\ o = ObjectAt(c, p)
    BY <2>3 DEF Files, ObjectAt
  <2>7. UniqueIds(c)
    BY <2>1, <2>2 DEF IdsKeepTheirKind
  <2>8. ASSUME Valid(c)
        PROVE  page \in Pages /\ o.kind = c.tree[p].kind
    BY <2>3, <2>6, <2>8, ObjectHasPage
  <2> SUFFICES Tip.records[page] # Absent /\ Tip.records[page].change = AppliedChange(c, p)
               /\ Valid(c)
    BY <2>3, <2>6, <2>8 DEF AppliedChange
  <2>9. CASE l = 1 /\ Tip.records = c.records
    <3>1. Valid(c) /\ c.records = Applied(Blanks, c, 1)
      BY <2>1, <2>9 DEF HistoryOK
    <3>2. page \in Pages /\ page = <<ObjectAt(c, p).scope[2], p[2]>>
      BY <2>6, <2>8, <3>1
    <3> HIDE DEF c
    <3> QED
      BY <2>6, <2>7, <2>9, <3>1, <3>2, BlanksAreABook, AppliedIs
  <2>10. CASE l \in 2 .. N /\ Valid(c) /\ Tip.records = RecordsIn(main, l)
    <3>1. l - 1 \in 1 .. N
      BY <2>1, <2>10
    <3>2. OneEach(main[l - 1], c) /\ Book(c.records)
      BY <2>1, <2>3, <2>10, <3>1, IdsAreOneEach DEF Commit, Book, N
    <3>3. page \in Pages /\ page = <<ObjectAt(c, p).scope[2], p[2]>>
      BY <2>6, <2>8, <2>10
    <3>4. Tip.records = Evidence(c.records, main[l - 1], c, l)
      BY <2>10 DEF RecordsIn
    <3> HIDE DEF c
    <3> QED
      BY <2>6, <2>10, <3>2, <3>3, <3>4, EvidenceIs
  <2> QED
    BY <2>5, <2>9, <2>10
<1> QED
  BY <1>1, Invariance, PTL
====

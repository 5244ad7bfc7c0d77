---- MODULE ApplyOrder_proofs ----
(***************************************************************************)
(* Why the kinds come after what they depend on and no scope is left out,  *)
(* for any registry and any set of roots.  The heart is kind_apply_order:  *)
(* its rounds never pick a kind early, and they stop short of the whole    *)
(* registry exactly when some kinds wait for one another.                  *)
(***************************************************************************)
EXTENDS ApplyOrder, RuleOrder_proofs

NK == Len(KindsByName)

\* A registry names, for each kind, the kinds it depends on.
Registry == [Kinds -> SUBSET Kinds]

\* The kinds and the roots are listed once each.
LEMMA Names ==
    /\ Distinct(KindsByName) /\ NK \in Nat
    /\ Distinct(RootsByName)
    /\ IsFiniteSet(Kinds) /\ Cardinality(Kinds) = NK
    /\ IsFiniteSet(Roots)
<1>1. Distinct(KindsByName) /\ NK \in Nat
  BY NamesAssumption DEF Distinct, NK
<1>2. Distinct(RootsByName)
  BY NamesAssumption DEF Distinct
<1> QED
  BY <1>1, <1>2, DistinctCardinality DEF Kinds, Roots, NK

----
(* kind_apply_order, a round at a time.                                    *)

Pending(done) == Kinds \ ToSet(done)

Round(registry, done) == done \o KeepOnly(KindsByName, Ready(registry, Pending(done)))

\* No kind twice, and each after all it depends on.
Sound(registry, done) ==
    /\ Distinct(done)
    /\ ToSet(done) \subseteq Kinds
    /\ \A j \in 1 .. Len(done) : \A d \in registry[done[j]] : \E m \in 1 .. j - 1 : done[m] = d

\* A set of kinds each of which needs another of the set.
Knotted(registry, S) == S # {} /\ \A k \in S : registry[k] \cap S # {}

\* A round appends the kinds that are ready, each once.
LEMMA RoundAdds ==
    ASSUME NEW registry \in Registry, NEW done, Sound(registry, done)
    PROVE  LET ready == Ready(registry, Pending(done))
               added == KeepOnly(KindsByName, ready)
           IN  /\ Distinct(added) /\ ToSet(added) = ready
               /\ ToSet(Round(registry, done)) = ToSet(done) \cup ready
               /\ Distinct(Round(registry, done))
               /\ Len(Round(registry, done)) = Len(done) + Len(added)
               /\ \A j \in 1 .. Len(done) : Round(registry, done)[j] = done[j]
               /\ \A j \in 1 .. Len(Round(registry, done)) :
                    j > Len(done) => Round(registry, done)[j] \in ready
<1> DEFINE ready == Ready(registry, Pending(done))
           added == KeepOnly(KindsByName, ready)
<1>1. ready \subseteq Kinds /\ ready \cap ToSet(done) = {}
  BY DEF Ready, Pending
<1>2. KindsByName \in Seq(Kinds) /\ ToSet(KindsByName) = Kinds /\ IsInjective(KindsByName)
  BY NamesAssumption DEF Kinds
<1>3. added \in Seq(Kinds) /\ ToSet(added) = ready /\ IsInjective(added)
  <2>1. added \in Seq(Kinds) /\ ToSet(added) = Kinds \cap ready /\ IsInjective(added)
    BY <1>2, KeepOnlyMembers
  <2> QED
    BY <1>1, <2>1
<1> HIDE DEF added, ready
<1>4. Distinct(added)
  BY <1>3 DEF Distinct
<1>5. Distinct(done \o added) /\ ToSet(done \o added) = ToSet(done) \cup ready
  BY <1>1, <1>3, <1>4, Followed DEF Sound
<1>6. /\ Len(done \o added) = Len(done) + Len(added)
      /\ \A j \in 1 .. Len(done) : (done \o added)[j] = done[j]
      /\ \A j \in 1 .. Len(done \o added) : j > Len(done) => (done \o added)[j] \in ready
  <2>1. done \in Seq(Kinds) /\ Len(done) \in Nat /\ Len(added) \in Nat
    <3>1. done \in Seq(ToSet(done)) /\ Len(done) \in Nat
      BY DistinctDomain DEF Sound
    <3> QED
      BY <3>1, <1>3 DEF Sound
  <2>2. /\ Len(done \o added) = Len(done) + Len(added)
        /\ done \o added = [i \in 1 .. Len(done) + Len(added) |->
                              IF i <= Len(done) THEN done[i] ELSE added[i - Len(done)]]
    BY <2>1, <1>3, Concatenated
  <2>3. \A k \in 1 .. Len(added) : added[k] \in ready
    BY <1>3, <1>4, DistinctDomain
  <2>4. \A j \in 1 .. Len(done) + Len(added) : j > Len(done) => j - Len(done) \in 1 .. Len(added)
    BY <2>1
  <2> QED
    BY <2>1, <2>2, <2>3, <2>4
<1> QED
  BY <1>3, <1>4, <1>5, <1>6 DEF Round, ready, added

\* A round keeps every kind after what it depends on.
LEMMA RoundSound ==
    ASSUME NEW registry \in Registry, NEW done, Sound(registry, done)
    PROVE  Sound(registry, Round(registry, done))
<1> DEFINE ready == Ready(registry, Pending(done))
           next == Round(registry, done)
<1>1. /\ Distinct(next) /\ ToSet(next) = ToSet(done) \cup ready
      /\ \A j \in 1 .. Len(done) : next[j] = done[j]
      /\ \A j \in 1 .. Len(next) : j > Len(done) => next[j] \in ready
      /\ Len(next) >= Len(done) /\ Len(next) \in Nat /\ Len(done) \in Nat
  <2>1. Len(next) = Len(done) + Len(KeepOnly(KindsByName, ready)) /\ Distinct(KeepOnly(KindsByName, ready))
    BY RoundAdds
  <2>2. Len(KeepOnly(KindsByName, ready)) \in Nat /\ Len(done) \in Nat
    BY <2>1 DEF Distinct, Sound
  <2> QED
    BY <2>1, <2>2, RoundAdds
<1>2. ready \subseteq Kinds
  BY DEF Ready, Pending
<1> HIDE DEF next
<1>3. ASSUME NEW j \in 1 .. Len(next), NEW d \in registry[next[j]]
      PROVE  \E m \in 1 .. j - 1 : next[m] = d
  <2>1. CASE j <= Len(done)
    <3>1. next[j] = done[j] /\ j \in 1 .. Len(done)
      BY <1>1, <2>1
    <3>2. PICK m \in 1 .. j - 1 : done[m] = d
      BY <1>3, <3>1 DEF Sound
    <3>3. m \in 1 .. Len(done)
      BY <3>1, <1>1
    <3> QED
      BY <1>1, <3>2, <3>3
  <2>2. CASE j > Len(done)
    <3>1. next[j] \in ready
      BY <1>1, <2>2
    <3>2. next[j] \in Kinds /\ registry[next[j]] \cap Pending(done) = {}
      BY <1>2, <3>1 DEF Ready
    <3>3. registry[next[j]] \subseteq Kinds
      BY <3>2 DEF Registry
    <3>4. d \in ToSet(done)
      BY <1>3, <3>2, <3>3 DEF Pending
    <3>5. PICK m \in 1 .. Len(done) : done[m] = d
      BY <3>4, DistinctDomain DEF Sound
    <3>6. m \in 1 .. j - 1
      BY <1>1, <2>2, <3>5
    <3> QED
      BY <1>1, <3>5, <3>6
  <2> QED
    BY <1>1, <2>1, <2>2
<1> QED
  BY <1>1, <1>2, <1>3 DEF Sound, next

\* A round adds a kind, or nothing is ready any more.
LEMMA RoundProgress ==
    ASSUME NEW registry \in Registry, NEW done, Sound(registry, done)
    PROVE  IF Ready(registry, Pending(done)) = {} THEN Round(registry, done) = done
           ELSE Len(Round(registry, done)) > Len(done)
<1> DEFINE ready == Ready(registry, Pending(done))
           added == KeepOnly(KindsByName, ready)
<1>1. /\ Distinct(added) /\ ToSet(added) = ready
      /\ Len(Round(registry, done)) = Len(done) + Len(added)
  BY RoundAdds
<1>2. Len(added) \in Nat /\ Len(done) \in Nat
  BY <1>1 DEF Distinct, Sound
<1>3. added = <<>> <=> ready = {}
  <2>1. Len(added) = Cardinality(ready) /\ IsFiniteSet(ready)
    BY <1>1, DistinctCardinality
  <2>2. Len(added) = 0 <=> ready = {}
    BY <2>1, FS_EmptySet
  <2>3. added \in Seq(ToSet(added))
    BY <1>1, DistinctDomain
  <2> HIDE DEF added
  <2> QED
    BY <2>2, <2>3
<1>4. CASE ready = {}
  <2>1. Round(registry, done) = done \o <<>>
    BY <1>3, <1>4 DEF Round
  <2>2. done \in Seq(ToSet(done))
    BY DistinctDomain DEF Sound
  <2> QED
    BY <1>4, <2>1, <2>2
<1>5. CASE ready # {}
  <2>1. Len(added) # 0
    <3>1. added \in Seq(ToSet(added))
      BY <1>1, DistinctDomain
    <3> HIDE DEF added
    <3> QED
      BY <1>3, <1>5, <3>1
  <2> QED
    BY <1>1, <1>2, <1>5, <2>1
<1> QED
  BY <1>4, <1>5

\* A kind of a knot is never ready while the whole knot is pending.
LEMMA KnotsWait ==
    ASSUME NEW registry \in Registry, NEW done, Sound(registry, done), NEW S \in SUBSET Kinds,
           Knotted(registry, S), S \cap ToSet(done) = {}
    PROVE  S \cap ToSet(Round(registry, done)) = {}
<1>1. S \cap Ready(registry, Pending(done)) = {}
  BY DEF Knotted, Ready, Pending
<1> QED
  BY <1>1, RoundAdds

\* The rounds of a sort: what kind_apply_order has put out after each.
Rounds(registry) ==
    {out \in [0 .. NK -> Seq(Kinds)] :
        out[0] = <<>> /\ \A n \in 1 .. NK : out[n] = Round(registry, out[n - 1])}

\* kind_apply_order is as many rounds as there are kinds.
LEMMA KindOrderRounds ==
    ASSUME NEW registry
    PROVE  \E out \in Rounds(registry) : KindOrder(registry) = out[NK]
<1> DEFINE S == Seq(Kinds)
           x0 == <<>>
           Take(done) == Round(registry, done)
           step == [p \in Nat \X S |-> Take(p[2])]
           Def(k) == [n \in 0 .. NK |-> IF n = 0 THEN x0 ELSE Take(k[n - 1])]
           out == CHOOSE k : k = Def(k)
<1>1. NK \in Nat
  BY Names
<1>2. x0 \in S /\ \A done \in S : Take(done) \in S
  <2>1. ASSUME NEW done \in S PROVE Take(done) \in S
    <3>1. KindsByName \in Seq(Kinds)
      BY NamesAssumption
    <3>2. KeepOnly(KindsByName, Ready(registry, Pending(done))) \in Seq(Kinds)
      BY <3>1, KeepOnlyMembers
    <3> QED
      BY <3>2 DEF Round
  <2> QED
    BY <2>1
<1>3. KindOrder(registry) = out[NK]
  BY DEF KindOrder, Round, Pending, NK
<1> HIDE DEF S, x0, Take
<1>4. step \in Steps(S)
  BY <1>2 DEF Steps
<1>5. \A n \in 1 .. NK : \A done \in S : step[<<n, done>>] = Take(done)
  BY <1>1
<1>6. PICK g \in [0 .. NK -> S] : g[0] = x0 /\ \A n \in 1 .. NK : g[n] = step[<<n, g[n - 1]>>]
  <2> HIDE DEF step
  <2>1. Climbs(S, NK, x0, step) # {}
    BY <1>1, <1>2, <1>4, Climb
  <2> QED
    BY <2>1 DEF Climbs
<1> HIDE DEF step
<1>7. g = Def(g)
  <2>1. \A n \in 1 .. NK : n - 1 \in 0 .. NK /\ n # 0
    BY <1>1
  <2>2. \A n \in 0 .. NK : n # 0 => n \in 1 .. NK
    BY <1>1
  <2>3. \A n \in 0 .. NK : g[n] = IF n = 0 THEN x0 ELSE Take(g[n - 1])
    BY <2>1, <2>2, <1>5, <1>6
  <2> QED
    BY <2>3
<1>8. out = Def(out)
  <2> HIDE DEF Def
  <2> QED
    BY <1>7
<1> HIDE DEF out
<1>9. out = [n \in 0 .. NK |-> out[n]] /\ out[0] = x0
  BY <1>1, <1>8
<1>10. \A n \in 1 .. NK : out[n] = Take(out[n - 1])
  <2>1. \A n \in 1 .. NK : n \in 0 .. NK /\ n # 0
    BY <1>1
  <2>2. \A n \in 0 .. NK : out[n] = IF n = 0 THEN x0 ELSE Take(out[n - 1])
    BY <1>8
  <2> QED
    BY <2>1, <2>2
<1>11. out \in Climbs(S, NK, x0, step)
  BY <1>1, <1>2, <1>4, <1>5, <1>9, <1>10, ClimbType
<1>12. out \in Rounds(registry)
  BY <1>9, <1>10, <1>11 DEF S, x0, Take, Climbs, Rounds
<1> QED
  BY <1>3, <1>12

\* What the sort puts out is sound, holds no kind of a knot, and is complete
\* unless what it leaves out is a knot.
LEMMA KindOrderSound ==
    ASSUME NEW registry \in Registry
    PROVE  /\ Sound(registry, KindOrder(registry))
           /\ \A S \in SUBSET Kinds : Knotted(registry, S) => S \cap ToSet(KindOrder(registry)) = {}
           /\ IsCyclic(registry) => Knotted(registry, Pending(KindOrder(registry)))
<1>1. PICK out \in Rounds(registry) : KindOrder(registry) = out[NK]
  BY KindOrderRounds
<1>2. out[0] = <<>> /\ \A n \in 1 .. NK : out[n] = Round(registry, out[n - 1])
  BY <1>1 DEF Rounds
<1>3. NK \in Nat
  BY Names
<1> DEFINE Stuck(done) == Ready(registry, Pending(done)) = {}
           Holds(n) == /\ Sound(registry, out[n])
                       /\ \A S \in SUBSET Kinds : Knotted(registry, S) => S \cap ToSet(out[n]) = {}
                       /\ Stuck(out[n]) \/ Len(out[n]) >= n
           I == {n \in 0 .. NK : Holds(n)}
<1>4. Holds(0)
  BY <1>2 DEF Sound, Distinct, ToSet, IsInjective
<1>5. ASSUME NEW n \in 1 .. NK, Holds(n - 1) PROVE Holds(n)
  <2>1. out[n] = Round(registry, out[n - 1]) /\ Sound(registry, out[n - 1])
    BY <1>2, <1>5
  <2>2. Sound(registry, out[n])
    BY <2>1, RoundSound
  <2>3. \A S \in SUBSET Kinds : Knotted(registry, S) => S \cap ToSet(out[n]) = {}
    <3> SUFFICES ASSUME NEW S \in SUBSET Kinds, Knotted(registry, S) PROVE S \cap ToSet(out[n]) = {}
      OBVIOUS
    <3>1. S \cap ToSet(out[n - 1]) = {}
      BY <1>5
    <3> QED
      BY <2>1, <3>1, KnotsWait
  <2>4. Stuck(out[n]) \/ Len(out[n]) >= n
    <3>1. CASE Stuck(out[n - 1])
      <4>1. out[n] = out[n - 1]
        BY <2>1, <3>1, RoundProgress
      <4> QED
        BY <3>1, <4>1
    <3>2. CASE ~Stuck(out[n - 1])
      <4>1. Len(out[n]) > Len(out[n - 1])
        BY <2>1, <3>2, RoundProgress
      <4>2. Len(out[n - 1]) >= n - 1
        BY <1>5, <3>2
      <4>3. Len(out[n]) \in Nat /\ Len(out[n - 1]) \in Nat
        BY <2>1, <2>2 DEF Sound, Distinct
      <4> QED
        BY <4>1, <4>2, <4>3
    <3> QED
      BY <3>1, <3>2
  <2> QED
    BY <2>2, <2>3, <2>4
<1> HIDE DEF Holds
<1>6. 0 .. NK \subseteq I
  <2>1. 0 \in I
    BY <1>3, <1>4
  <2>2. ASSUME NEW n \in 0 .. NK - 1, n \in I PROVE n + 1 \in I
    <3>1. n + 1 \in 1 .. NK /\ n + 1 \in 0 .. NK /\ n + 1 - 1 = n
      BY <1>3
    <3>2. Holds(n)
      BY <2>2
    <3>3. Holds(n + 1)
      BY <1>5, <3>1, <3>2
    <3> QED
      BY <3>1, <3>3
  <2> HIDE DEF I
  <2> QED
    BY <1>3, <2>1, <2>2, UpTo
<1>7. Holds(NK)
  BY <1>3, <1>6
<1> DEFINE order == KindOrder(registry)
<1>8. /\ Sound(registry, order)
      /\ \A S \in SUBSET Kinds : Knotted(registry, S) => S \cap ToSet(order) = {}
      /\ Stuck(order) \/ Len(order) >= NK
  BY <1>1, <1>7 DEF Holds
<1> HIDE DEF order
<1>9. ASSUME ToSet(order) # Kinds PROVE Knotted(registry, Pending(order))
  <2>1. ToSet(order) \subseteq Kinds /\ Distinct(order)
    BY <1>8 DEF Sound
  <2>2. Pending(order) # {}
    BY <1>9, <2>1 DEF Pending
  <2>3. ~ (Len(order) >= NK)
    <3>1. Cardinality(ToSet(order)) = Len(order) /\ Len(order) \in Nat
      BY <2>1, DistinctCardinality DEF Distinct
    <3>2. Cardinality(ToSet(order)) <= NK /\ (Cardinality(ToSet(order)) = NK => ToSet(order) = Kinds)
      BY <2>1, Names, FS_Subset
    <3> QED
      BY <1>3, <1>9, <3>1, <3>2
  <2>4. Stuck(order)
    BY <1>8, <2>3
  <2> QED
    BY <2>2, <2>4 DEF Knotted, Ready, Pending
<1> QED
  BY <1>8, <1>9 DEF IsCyclic, order

----
(* run_apply_order: the roots in a row.                                    *)

\* The earliest of some kinds in an order that has one of them.
LEMMA EarliestFound ==
    ASSUME NEW held, NEW order, Distinct(order), held \cap ToSet(order) # {}
    PROVE  Earliest(held, order) \in 1 .. Len(order)
<1> DEFINE T == {p \in 1 .. Len(order) : order[p] \in held}
<1>1. T # {} /\ T \in SUBSET Nat
  BY SMTT(60), DistinctDomain
<1>2. PICK p \in T : \A q \in T : p <= q
  <2> HIDE DEF T
  <2> QED
    BY <1>1, LeastNat
<1>3. order[p] \in held /\ p \in 1 .. Len(order) /\ Len(order) \in Nat
  BY <1>2, DistinctDomain
<1>4. \A q \in 1 .. p - 1 : order[q] \notin held
  <2>1. SUFFICES ASSUME NEW q \in 1 .. p - 1, order[q] \in held PROVE FALSE
    OBVIOUS
  <2>2. q \in 1 .. Len(order) /\ ~(p <= q)
    BY <1>3
  <2>3. q \in T
    BY <2>1, <2>2
  <2> HIDE DEF T
  <2> QED
    BY <1>2, <2>2, <2>3
<1> QED
  BY <1>3, <1>4 DEF Earliest

\* The scopes, and how many come no later than each.
LEMMA OrderedIs ==
    ASSUME NEW registry \in Registry, NEW scopes \in [Roots -> SUBSET Kinds], ~IsCyclic(registry)
    PROVE  Distinct(Ordered(registry, scopes)) /\ ToSet(Ordered(registry, scopes)) = Listed(scopes)
<1> DEFINE order == KindOrder(registry)
           C == Listed(scopes)
           early(r) == Earliest(scopes[r], order)
           place(r) == PositionOf(RootsByName, r)
           upto(r) == NoLater(scopes, order, r)
           rank == [r \in C |-> Cardinality(upto(r))]
           N == Cardinality(C)
<1>1. C \subseteq Roots /\ IsFiniteSet(C) /\ N \in Nat
  <2>1. C \subseteq Roots
    BY DEF Listed
  <2>2. IsFiniteSet(C)
    BY <2>1, Names, FS_Subset
  <2> QED
    BY <2>1, <2>2, FS_CardinalityType
<1>2. \A r \in C : early(r) \in Int
  <2> SUFFICES ASSUME NEW r \in C PROVE early(r) \in Int
    OBVIOUS
  <2>1. Distinct(order) /\ ToSet(order) = Kinds
    BY KindOrderSound DEF IsCyclic, Sound
  <2>2. scopes[r] \cap ToSet(order) # {}
    BY <2>1 DEF Listed
  <2> HIDE DEF order
  <2>3. early(r) \in 1 .. Len(order) /\ Len(order) \in Nat
    BY <2>1, <2>2, EarliestFound DEF Distinct
  <2> QED
    BY <2>3
<1>3. \A r, q \in C : place(r) \in Int /\ (place(r) = place(q) => r = q)
  <2>1. \A r \in Roots : place(r) \in 1 .. Len(RootsByName) /\ RootsByName[place(r)] = r
    BY Names, PositionType DEF Roots
  <2>2. Len(RootsByName) \in Nat
    BY Names DEF Distinct
  <2> QED
    BY <1>1, <2>1, <2>2
<1> DEFINE before(q, r) == Before(scopes, order, q, r)
<1> HIDE DEF order
<1>4. \A q, r \in C : before(q, r) <=> early(q) < early(r) \/ (early(q) = early(r) /\ place(q) < place(r))
  BY DEF Before
<1>5. \A r \in C : upto(r) = {q \in C : q = r \/ before(q, r)}
  BY DEF NoLater
<1> HIDE DEF upto, before, early, place, C
<1>6. \A r \in C : upto(r) \in SUBSET C /\ r \in upto(r) /\ IsFiniteSet(upto(r)) /\ Cardinality(upto(r)) \in 1 .. N
  <2> SUFFICES ASSUME NEW r \in C
               PROVE  upto(r) \in SUBSET C /\ r \in upto(r) /\ IsFiniteSet(upto(r)) /\ Cardinality(upto(r)) \in 1 .. N
    OBVIOUS
  <2>1. upto(r) \in SUBSET C /\ r \in upto(r)
    BY <1>5
  <2>2. IsFiniteSet(upto(r)) /\ Cardinality(upto(r)) <= N
    BY <1>1, <2>1, FS_Subset
  <2>3. Cardinality(upto(r)) \in Nat /\ Cardinality(upto(r)) # 0
    BY <2>1, <2>2, FS_CardinalityType, FS_EmptySet
  <2> QED
    BY <1>1, <2>1, <2>2, <2>3
<1>7. ASSUME NEW q \in C, NEW r \in C, before(q, r), q # r PROVE rank[q] # rank[r]
  <2>1. upto(q) \subseteq upto(r)
    BY <1>2, <1>3, <1>4, <1>5, <1>7
  <2>2. r \notin upto(q)
    BY <1>2, <1>3, <1>4, <1>5, <1>7
  <2>3. Cardinality(upto(r)) = Cardinality(upto(q)) => upto(r) = upto(q)
    BY <1>6, <2>1, FS_Subset
  <2> QED
    BY <1>6, <2>2, <2>3
<1>8. \A q, r \in C : rank[q] = rank[r] => q = r
  <2>1. \A q, r \in C : q = r \/ before(q, r) \/ before(r, q)
    BY <1>2, <1>3, <1>4
  <2> QED
    BY <1>7, <2>1
<1>9. rank \in Surjection(C, 1 .. N)
  <2>1. rank \in Injection(C, 1 .. N)
    BY <1>6, <1>8 DEF Injection, IsInjective
  <2>2. IsFiniteSet(1 .. N) /\ Cardinality(1 .. N) = N
    <3>1. N \in Int /\ 1 \in Int
      BY <1>1
    <3>2. IsFiniteSet(1 .. N) /\ Cardinality(1 .. N) = IF 1 > N THEN 0 ELSE N - 1 + 1
      BY <3>1, FS_Interval
    <3> QED
      BY <1>1, <3>2
  <2> HIDE DEF rank
  <2> QED
    BY <2>1, <2>2, FS_Injection
<1>10. \A n \in 1 .. N : \E r \in C : Cardinality(upto(r)) = n
  BY <1>9 DEF Surjection
<1>11. Ordered(registry, scopes) = [n \in 1 .. N |-> CHOOSE r \in C : Cardinality(upto(r)) = n]
  BY DEF Ordered, order, C, upto
<1> DEFINE pick(n) == CHOOSE r \in C : Cardinality(upto(r)) = n
           row == [n \in 1 .. N |-> pick(n)]
<1>12. \A n \in 1 .. N : pick(n) \in C /\ Cardinality(upto(pick(n))) = n
  BY <1>10
<1>13. \A r \in C : Cardinality(upto(r)) \in 1 .. N /\ pick(Cardinality(upto(r))) = r
  <2>1. \A q, r \in C : Cardinality(upto(q)) = Cardinality(upto(r)) => q = r
    BY <1>8
  <2> HIDE DEF pick
  <2> QED
    BY <1>6, <1>12, <2>1
<1> HIDE DEF pick
<1>14. row \in Seq(C) /\ Len(row) = N /\ DOMAIN row = 1 .. N
  BY <1>1, <1>12
<1>15. Distinct(row)
  BY <1>1, <1>12, <1>14 DEF Distinct, IsInjective
<1>16. ToSet(row) = C
  BY <1>12, <1>13, <1>14 DEF ToSet
<1> QED
  BY <1>11, <1>15, <1>16 DEF row, pick, C

----
(* The specification's invariant: what was printed was accepted, and the   *)
(* roots applied are the first ones of it.                                 *)

Accepted ==
    /\ ~IsCyclic(needs)
    /\ Violations(needs, holds, Ordered(needs, holds)) = {}
    /\ LET row == Ordered(needs, holds)
       IN  /\ Len(applied) + Len(queue) = Len(row)
           /\ \A n \in 1 .. Len(applied) : applied[n] = row[n]
           /\ \A n \in 1 .. Len(queue) : queue[n] = row[Len(applied) + n]

IInv ==
    /\ needs \in Registry
    /\ holds \in [Roots -> SUBSET Kinds]
    /\ pc \in {"order", "loop", "failed", "green"}
    /\ applied \in Seq(Roots) /\ queue \in Seq(Roots)
    /\ pc = "order" => applied = <<>> /\ queue = <<>>
    /\ refused => applied = <<>> /\ queue = <<>>
    /\ pc # "order" /\ ~refused => Accepted
    /\ pc = "green" => queue = <<>>

\* The row of the roots, as a sequence of roots.
LEMMA RowOfRoots ==
    ASSUME NEW registry \in Registry, NEW scopes \in [Roots -> SUBSET Kinds], ~IsCyclic(registry)
    PROVE  Ordered(registry, scopes) \in Seq(Roots)
<1>1. Ordered(registry, scopes) \in Seq(Listed(scopes))
  <2>1. Distinct(Ordered(registry, scopes)) /\ ToSet(Ordered(registry, scopes)) = Listed(scopes)
    BY OrderedIs
  <2> QED
    BY <2>1, DistinctDomain
<1>2. Listed(scopes) \subseteq Roots
  BY DEF Listed
<1> QED
  BY <1>1, <1>2

LEMMA InitIInv == Init => IInv
BY NamesAssumption DEF Init, IInv, Registry

\* The invariant is inductive, one step per action.
LEMMA NextIInv == IInv /\ [Next]_vars => IInv'
<1> SUFFICES ASSUME IInv, [Next]_vars PROVE IInv'
  OBVIOUS
<1>1. CASE PrintOrder
  <2>1. needs' = needs /\ holds' = holds /\ applied' = applied /\ pc' = "loop" /\ applied = <<>>
    BY <1>1 DEF PrintOrder, IInv
  <2> DEFINE row == Ordered(needs, holds)
  <2>2. /\ refused' = (IsCyclic(needs) \/ Violations(needs, holds, row) # {})
        /\ queue' = IF refused' THEN <<>> ELSE row
    BY <1>1 DEF PrintOrder
  <2>3. CASE refused'
    BY <2>1, <2>2, <2>3 DEF IInv
  <2>4. CASE ~refused'
    <3>1. ~IsCyclic(needs) /\ Violations(needs, holds, row) = {} /\ queue' = row
      BY <2>2, <2>4
    <3>2. row \in Seq(Roots)
      BY <3>1, RowOfRoots DEF IInv
    <3> HIDE DEF row
    <3>3. Len(applied') = 0 /\ Len(row) \in Nat
      BY <2>1, <3>2
    <3>4. Len(applied') + Len(queue') = Len(row) /\ \A n \in 1 .. Len(queue') : queue'[n] = row[Len(applied') + n]
      BY <3>1, <3>3
    <3>5. \A n \in 1 .. Len(applied') : applied'[n] = row[n]
      BY <3>3
    <3>6. Accepted'
      BY <2>1, <3>1, <3>4, <3>5 DEF Accepted, row
    <3> QED
      BY <2>1, <2>4, <3>1, <3>2, <3>6 DEF IInv
  <2> QED
    BY <2>3, <2>4
<1>2. CASE ApplyRoot
  <2> DEFINE row == Ordered(needs, holds)
  <2>1. /\ UNCHANGED <<needs, holds, pc, refused>> /\ pc = "loop" /\ queue # <<>>
        /\ applied' = Append(applied, Head(queue)) /\ queue' = Tail(queue)
        /\ applied \in Seq(Roots) /\ queue \in Seq(Roots) /\ ~refused /\ Accepted
    BY <1>2 DEF ApplyRoot, IInv
  <2>2. /\ applied' \in Seq(Roots) /\ queue' \in Seq(Roots)
        /\ Len(applied') = Len(applied) + 1 /\ Len(queue') = Len(queue) - 1
        /\ Len(applied) \in Nat /\ Len(queue) \in Nat /\ Len(queue) >= 1
        /\ \A n \in 1 .. Len(applied) : applied'[n] = applied[n]
        /\ applied'[Len(applied) + 1] = queue[1]
        /\ \A n \in 1 .. Len(queue) - 1 : queue'[n] = queue[n + 1]
    BY <2>1
  <2>3. Len(applied) + Len(queue) = Len(row) /\ \A n \in 1 .. Len(applied) : applied[n] = row[n]
    BY <2>1 DEF Accepted
  <2>4. \A n \in 1 .. Len(queue) : queue[n] = row[Len(applied) + n]
    BY <2>1 DEF Accepted
  <2> HIDE DEF row
  <2>5. Len(applied') + Len(queue') = Len(row) /\ \A n \in 1 .. Len(applied') : applied'[n] = row[n]
    <3>1. ASSUME NEW n \in 1 .. Len(applied) + 1 PROVE applied'[n] = row[n]
      <4>1. CASE n \in 1 .. Len(applied)
        BY <2>2, <2>3, <4>1
      <4>2. CASE n = Len(applied) + 1
        <5>1. 1 \in 1 .. Len(queue)
          BY <2>2
        <5>2. queue[1] = row[Len(applied) + 1]
          BY <2>4, <5>1
        <5> QED
          BY <2>2, <4>2, <5>2
      <4> QED
        BY <2>2, <4>1, <4>2
    <3>2. Len(applied') + Len(queue') = Len(row)
      <4>1. Len(applied') = Len(applied) + 1 /\ Len(queue') = Len(queue) - 1
        BY <2>2
      <4>2. Len(applied) \in Nat /\ Len(queue) \in Nat /\ Len(applied) + Len(queue) = Len(row)
        BY <2>2, <2>3
      <4> QED
        BY <4>1, <4>2
    <3>3. \A n \in 1 .. Len(applied') : applied'[n] = row[n]
      BY <2>2, <3>1
    <3> QED
      BY <3>2, <3>3
  <2>6. ASSUME NEW n \in 1 .. Len(queue') PROVE queue'[n] = row[Len(applied') + n]
    <3>1. n + 1 \in 1 .. Len(queue) /\ n \in 1 .. Len(queue) - 1 /\ Len(applied') + n = Len(applied) + (n + 1)
      BY <2>2
    <3>2. queue[n + 1] = row[Len(applied) + (n + 1)]
      BY <2>4, <3>1
    <3> QED
      BY <2>2, <3>1, <3>2
  <2>7. Accepted'
    BY <2>1, <2>5, <2>6 DEF Accepted, row
  <2> QED
    BY <2>1, <2>2, <2>7 DEF IInv
<1>3. CASE FailRoot
  BY <1>3 DEF FailRoot, IInv, Accepted
<1>4. CASE LoopDone
  BY <1>4 DEF LoopDone, IInv, Accepted
<1>5. CASE UNCHANGED vars
  BY <1>5 DEF vars, IInv, Accepted
<1> QED
  BY <1>1, <1>2, <1>3, <1>4, <1>5 DEF Next

LEMMA IInvHolds == Spec => []IInv
BY InitIInv, NextIInv, PTL DEF Spec

----
(* The theorems.                                                           *)

\* The kinds come out complete and each after all it depends on, exactly when
\* the registry has no cycle, whatever the registry.
THEOREM SortsTheKinds == Spec => []KindsAreSorted
<1>1. IInv => KindsAreSorted
  <2> SUFFICES ASSUME IInv PROVE KindsAreSorted
    OBVIOUS
  <2> DEFINE order == KindOrder(needs)
  <2>1. needs \in Registry
    BY DEF IInv
  <2>2. /\ Sound(needs, order)
        /\ \A S \in SUBSET Kinds : Knotted(needs, S) => S \cap ToSet(order) = {}
        /\ IsCyclic(needs) => Knotted(needs, Pending(order))
    BY <2>1, KindOrderSound
  <2>3. IsCyclic(needs) <=> ToSet(order) # Kinds
    BY DEF IsCyclic
  <2> HIDE DEF order
  <2>4. IsCyclic(needs) <=> \E S \in SUBSET Kinds : Knotted(needs, S)
    <3>1. Pending(order) \in SUBSET Kinds
      BY DEF Pending
    <3>2. \A S \in SUBSET Kinds : Knotted(needs, S) => ToSet(order) # Kinds
      BY <2>2 DEF Knotted
    <3> QED
      BY <2>2, <2>3, <3>1, <3>2
  <2>5. \A i, j \in 1 .. Len(order) : i <= j => order[j] \notin needs[order[i]]
    <3> SUFFICES ASSUME NEW i \in 1 .. Len(order), NEW j \in 1 .. Len(order), i <= j,
                        order[j] \in needs[order[i]]
                 PROVE  FALSE
      OBVIOUS
    <3>1. PICK m \in 1 .. i - 1 : order[m] = order[j]
      BY <2>2 DEF Sound
    <3>2. Distinct(order) /\ m \in 1 .. Len(order) /\ m # j
      BY <2>2, <3>1 DEF Sound, Distinct
    <3> QED
      BY <3>1, <3>2, DistinctDomain
  <2> QED
    BY <2>4, <2>5 DEF KindsAreSorted, order, Knotted
<1> QED
  BY <1>1, IInvHolds, PTL

\* No scope is applied before a scope that holds what it depends on, wherever
\* the run ends.
THEOREM AppliesDependenciesFirst == Spec => []DependenciesFirst
<1>1. IInv => DependenciesFirst
  <2> SUFFICES ASSUME IInv, NEW i \in 1 .. Len(applied), NEW other \in Roots \ {applied[i]},
                      NEW k \in holds[applied[i]], needs[k] \cap holds[other] # {}
               PROVE  other \in ToSet(SubSeq(applied, 1, i))
    BY DEF DependenciesFirst
  <2> DEFINE row == Ordered(needs, holds)
             root == applied[i]
  <2>1. ~refused /\ pc # "order"
    BY DEF IInv
  <2>2. /\ Accepted /\ ~IsCyclic(needs) /\ Violations(needs, holds, row) = {}
        /\ Len(applied) + Len(queue) = Len(row)
        /\ \A n \in 1 .. Len(applied) : applied[n] = row[n]
    BY <2>1 DEF IInv, Accepted
  <2>3. Distinct(row) /\ ToSet(row) = Listed(holds)
    BY <2>2, OrderedIs DEF IInv
  <2> HIDE DEF row
  <2>4. Len(applied) \in Nat /\ Len(queue) \in Nat /\ Len(row) \in Nat /\ root = row[i] /\ i \in 1 .. Len(row)
    BY <2>2 DEF IInv
  <2>5. root \in Listed(holds) /\ root \in Roots /\ holds \in [Roots -> SUBSET Kinds]
    BY <2>3, <2>4, DistinctDomain DEF IInv, Listed
  <2>6. k \in Kinds /\ other \in Listed(holds)
    BY <2>5 DEF Listed
  <2>7. ~ (PositionOf(row, other) > PositionOf(row, root))
    <3>1. <<root, k, other>> \in Listed(holds) \X Kinds \X Listed(holds)
      BY <2>5, <2>6
    <3> QED
      BY SMTT(60), <2>2, <3>1 DEF Violations
  <2> DEFINE p == PositionOf(row, other)
  <2>8. p \in 1 .. Len(row) /\ row[p] = other /\ PositionOf(row, root) = i
    BY <2>3, <2>4, <2>6, PositionType, PositionFound
  <2>9. p \in 1 .. i
    BY <2>4, <2>7, <2>8
  <2> HIDE DEF p
  <2>10. applied[p] = other /\ p \in 1 .. Len(applied)
    BY <2>2, <2>4, <2>8, <2>9
  <2>11. SubSeq(applied, 1, i)[p] = other /\ DOMAIN SubSeq(applied, 1, i) = 1 .. i
    BY <2>4, <2>9, <2>10 DEF IInv
  <2> QED
    BY <2>9, <2>11 DEF ToSet
<1> QED
  BY <1>1, IInvHolds, PTL

\* A green run whose order was accepted passes over no scope with a tfvars file
\* but those that only have interface variables, for any registry and any roots.
THEOREM PassesOverVariables == Spec => []SkipsOnlyVariables
<1>1. IInv => SkipsOnlyVariables
  <2> SUFFICES ASSUME IInv, pc = "green", ~refused
               PROVE  ToSet(applied) = {r \in Roots : holds[r] # {}}
    BY DEF SkipsOnlyVariables, HasTfvars
  <2> DEFINE row == Ordered(needs, holds)
  <2>1. /\ Accepted /\ ~IsCyclic(needs) /\ queue = <<>>
        /\ Len(applied) + Len(queue) = Len(row)
        /\ \A n \in 1 .. Len(applied) : applied[n] = row[n]
    BY DEF IInv, Accepted
  <2>2. Distinct(row) /\ ToSet(row) = Listed(holds)
    BY <2>1, OrderedIs DEF IInv
  <2> HIDE DEF row
  <2>3. Len(applied) = Len(row) /\ DOMAIN applied = 1 .. Len(applied)
    <3>1. Len(queue) = 0 /\ Len(applied) \in Nat /\ DOMAIN applied = 1 .. Len(applied)
      BY <2>1 DEF IInv
    <3> QED
      BY <3>1, <2>1
  <2>4. DOMAIN row = 1 .. Len(row)
    BY <2>2, DistinctDomain
  <2>5. ToSet(applied) = ToSet(row)
    BY <2>1, <2>3, <2>4 DEF ToSet
  <2> QED
    BY <2>2, <2>5 DEF Listed
<1> QED
  BY <1>1, IInvHolds, PTL
====

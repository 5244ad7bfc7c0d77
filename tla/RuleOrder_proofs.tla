---- MODULE RuleOrder_proofs ----
(***************************************************************************)
(* Lemmas the other proofs rest on.  Induction and recursion over the      *)
(* natural numbers are stated of sets and functions, so that any proof can *)
(* cite them: an invariant of a recursion is the set of the indices it     *)
(* holds at, a step is a function.  From them follows what the operators   *)
(* of Selection return for every sequence.                                 *)
(***************************************************************************)
EXTENDS RuleOrder, FiniteSetTheorems, TLAPS

\* A set of naturals that has 0 and the successor of each of its members has
\* them all.
LEMMA NatInd ==
    ASSUME NEW I \in SUBSET Nat, 0 \in I, \A n \in I : n + 1 \in I
    PROVE  I = Nat
<1> SUFFICES ASSUME Nat \ I # {} PROVE FALSE
  OBVIOUS
<1>1. PICK x \in Nat \ I : \A y \in Nat \ I : ~ (<<y, x>> \in OpToRel(<, Nat))
  <2>1. Nat \ I \subseteq Nat
    OBVIOUS
  <2> QED
    BY <2>1, WFMin, NatLessThanWellFounded
<1>2. \A y \in Nat \ I : ~ (y < x)
  BY <1>1 DEF OpToRel
<1>3. x # 0 /\ x - 1 \in Nat
  OBVIOUS
<1>4. x - 1 \in I
  BY <1>2, <1>3
<1> QED
  BY <1>3, <1>4

\* Every nonempty set of naturals has a least element.
LEMMA LeastNat ==
    ASSUME NEW T \in SUBSET Nat, T # {}
    PROVE  \E n \in T : \A m \in T : n <= m
<1>1. PICK x \in T : \A y \in T : ~ (<<y, x>> \in OpToRel(<, Nat))
  BY WFMin, NatLessThanWellFounded
<1>2. \A y \in T : ~ (y < x)
  BY <1>1 DEF OpToRel
<1> QED
  BY <1>2

\* What holds at 0 and is handed from each index below N to the next holds at
\* all of 0 .. N.
LEMMA UpTo ==
    ASSUME NEW N \in Nat, NEW I, 0 \in I, \A n \in 0 .. N - 1 : n \in I => n + 1 \in I
    PROVE  0 .. N \subseteq I
<1> DEFINE J == {n \in Nat : n <= N => n \in I}
<1>1. 0 \in J
  OBVIOUS
<1>2. \A n \in J : n + 1 \in J
  OBVIOUS
<1>3. J = Nat
  <2> HIDE DEF J
  <2>1. J \subseteq Nat
    BY DEF J
  <2> QED
    BY <1>1, <1>2, <2>1, NatInd
<1> QED
  BY <1>3

\* Induction along 0 .. N.
LEMMA Upward ==
    ASSUME NEW N \in Nat, NEW I, 0 \in I, \A n \in 1 .. N : n - 1 \in I => n \in I
    PROVE  N \in I
<1>1. ASSUME NEW n \in 0 .. N - 1, n \in I PROVE n + 1 \in I
  <2>1. n + 1 \in 1 .. N /\ n + 1 - 1 = n
    OBVIOUS
  <2> QED
    BY <1>1, <2>1
<1>2. 0 .. N \subseteq I
  BY <1>1, UpTo
<1> QED
  BY <1>2

\* A start and a step define a sequence of values.
Steps(S) == [Nat \X S -> S]

Unfoldings(S, x0, step) ==
    {f \in [Nat -> S] : f[0] = x0 /\ \A n \in Nat : f[n + 1] = step[<<n, f[n]>>]}

\* A recursion along the naturals has a solution.
LEMMA Recursion ==
    ASSUME NEW S, NEW x0 \in S, NEW step \in Steps(S)
    PROVE  Unfoldings(S, x0, step) # {}
<1>0. step \in [Nat \X S -> S]
  BY DEF Steps
<1> DEFINE Runs(n) == {g \in [0 .. n -> S] :
                         g[0] = x0 /\ \A k \in 0 .. n - 1 : g[k + 1] = step[<<k, g[k]>>]}
           G == {n \in Nat : Runs(n) # {}}
<1>1. G = Nat
  <2>1. [k \in 0 .. 0 |-> x0] \in Runs(0)
    OBVIOUS
  <2>2. ASSUME NEW n \in Nat, NEW g \in Runs(n)
        PROVE  [k \in 0 .. n + 1 |-> IF k = n + 1 THEN step[<<n, g[n]>>] ELSE g[k]] \in Runs(n + 1)
    <3> DEFINE h == [k \in 0 .. n + 1 |-> IF k = n + 1 THEN step[<<n, g[n]>>] ELSE g[k]]
    <3>1. n \in 0 .. n /\ g[n] \in S /\ step[<<n, g[n]>>] \in S
      BY <1>0
    <3>2. h \in [0 .. n + 1 -> S] /\ h[0] = x0
      BY <3>1
    <3>3. ASSUME NEW k \in 0 .. n PROVE h[k + 1] = step[<<k, h[k]>>]
      <4>1. h[k] = g[k]
        OBVIOUS
      <4>2. CASE k = n
        <5>1. h[n + 1] = step[<<n, g[n]>>]
          OBVIOUS
        <5> HIDE DEF h
        <5> QED
          BY <4>1, <4>2, <5>1
      <4>3. CASE k # n
        <5>1. k \in 0 .. n - 1 /\ k + 1 \in 0 .. n + 1 /\ k + 1 # n + 1
          BY <4>3
        <5>2. g[k + 1] = step[<<k, g[k]>>]
          BY <5>1
        <5>3. h[k + 1] = g[k + 1]
          BY <5>1
        <5> QED
          BY <4>1, <5>2, <5>3
      <4> QED
        BY <4>2, <4>3
    <3>4. n + 1 - 1 = n
      OBVIOUS
    <3> HIDE DEF h
    <3>5. h \in Runs(n + 1)
      BY <3>2, <3>3, <3>4
    <3> QED
      BY <3>5 DEF h
  <2>3. 0 \in G /\ \A n \in G : n + 1 \in G
    <3> HIDE DEF Runs
    <3>1. 0 \in G
      BY <2>1
    <3>2. ASSUME NEW n \in G PROVE n + 1 \in G
      <4>1. PICK g \in Runs(n) : TRUE
        OBVIOUS
      <4>2. n \in Nat
        OBVIOUS
      <4>3. Runs(n + 1) # {}
        BY <2>2, <4>1, <4>2
      <4> QED
        BY <4>2, <4>3
    <3> QED
      BY <3>1, <3>2
  <2>4. G \subseteq Nat
    OBVIOUS
  <2> HIDE DEF G
  <2> QED
    BY <2>3, <2>4, NatInd
<1> DEFINE h == [n \in Nat |-> CHOOSE g \in Runs(n) : TRUE]
<1>2. ASSUME NEW n \in Nat PROVE h[n] \in Runs(n)
  <2>1. Runs(n) # {}
    BY <1>1
  <2> HIDE DEF Runs
  <2> QED
    BY <2>1
<1>3. ASSUME NEW n \in Nat, NEW k \in 0 .. n PROVE h[n + 1][k] = h[n][k]
  <2> DEFINE Agree == {j \in Nat : j <= n => h[n + 1][j] = h[n][j]}
             a == h[n]
             b == h[n + 1]
  <2>1. a \in Runs(n) /\ b \in Runs(n + 1)
    <3> HIDE DEF h, Runs
    <3>1. n + 1 \in Nat
      OBVIOUS
    <3> QED
      BY <3>1, <1>2
  <2> HIDE DEF h, a, b
  <2>2. /\ a[0] = x0 /\ \A j \in 0 .. n - 1 : a[j + 1] = step[<<j, a[j]>>]
        /\ b[0] = x0 /\ \A j \in 0 .. n : b[j + 1] = step[<<j, b[j]>>]
    BY <2>1
  <2>3. 0 \in Agree
    BY <2>2 DEF a, b
  <2>4. ASSUME NEW j \in Agree PROVE j + 1 \in Agree
    <3> SUFFICES ASSUME j + 1 <= n PROVE b[j + 1] = a[j + 1]
      BY <2>4 DEF a, b
    <3>1. j \in 0 .. n - 1 /\ j \in 0 .. n /\ b[j] = a[j]
      BY <2>4 DEF a, b
    <3>2. a[j + 1] = step[<<j, a[j]>>]
      BY <2>2, <3>1
    <3>3. b[j + 1] = step[<<j, b[j]>>]
      BY <2>2, <3>1
    <3> QED
      BY <3>1, <3>2, <3>3
  <2>5. Agree = Nat
    <3>1. Agree \subseteq Nat
      OBVIOUS
    <3> HIDE DEF Agree
    <3> QED
      BY <2>3, <2>4, <3>1, NatInd
  <2> QED
    BY <2>5
<1> DEFINE f == [n \in Nat |-> h[n][n]]
<1>4. ASSUME NEW n \in Nat
      PROVE  /\ h[n] \in [0 .. n -> S] /\ h[n][0] = x0
             /\ \A k \in 0 .. n - 1 : h[n][k + 1] = step[<<k, h[n][k]>>]
  BY <1>2
<1> HIDE DEF h, Runs
<1>5. f \in [Nat -> S] /\ f[0] = x0
  BY <1>4
<1>6. ASSUME NEW n \in Nat PROVE f[n + 1] = step[<<n, f[n]>>]
  <2>1. h[n + 1][n + 1] = step[<<n, h[n + 1][n]>>]
    <3>1. n + 1 \in Nat /\ n \in 0 .. (n + 1) - 1
      OBVIOUS
    <3> QED
      BY <3>1, <1>4
  <2>2. h[n + 1][n] = h[n][n]
    BY <1>3
  <2> QED
    BY <2>1, <2>2
<1>7. f \in Unfoldings(S, x0, step)
  BY <1>5, <1>6 DEF Unfoldings
<1> QED
  BY <1>7

\* The same up to a bound: how the recursive functions of the model, each over
\* 0 .. N, are known to exist and to stay within their type.
Climbs(S, N, x0, step) ==
    {g \in [0 .. N -> S] : g[0] = x0 /\ \A n \in 1 .. N : g[n] = step[<<n, g[n - 1]>>]}

\* A recursion along 0 .. N has a solution.
LEMMA Climb ==
    ASSUME NEW S, NEW N \in Nat, NEW x0 \in S, NEW step \in Steps(S)
    PROVE  Climbs(S, N, x0, step) # {}
<1> DEFINE shifted == [p \in Nat \X S |-> step[<<p[1] + 1, p[2]>>]]
<1>0. step \in [Nat \X S -> S]
  BY DEF Steps
<1>1. shifted \in Steps(S)
  <2>1. \A p \in Nat \X S : <<p[1] + 1, p[2]>> \in Nat \X S
    OBVIOUS
  <2> QED
    BY <1>0, <2>1 DEF Steps
<1>2. PICK f \in [Nat -> S] : f[0] = x0 /\ \A n \in Nat : f[n + 1] = shifted[<<n, f[n]>>]
  <2> HIDE DEF shifted
  <2>1. Unfoldings(S, x0, shifted) # {}
    BY <1>1, Recursion
  <2> QED
    BY <2>1 DEF Unfoldings
<1>3. ASSUME NEW n \in 1 .. N PROVE f[n] = step[<<n, f[n - 1]>>]
  <2>1. n - 1 \in Nat /\ n - 1 + 1 = n /\ f[n - 1] \in S
    BY <1>2
  <2>2. f[n] = shifted[<<n - 1, f[n - 1]>>]
    BY <2>1, <1>2
  <2> QED
    BY <2>1, <2>2
<1> DEFINE g == [n \in 0 .. N |-> f[n]]
<1>4. g \in [0 .. N -> S] /\ g[0] = x0
  BY <1>2
<1>5. ASSUME NEW n \in 1 .. N PROVE g[n] = step[<<n, g[n - 1]>>]
  <2>1. n \in 0 .. N /\ n - 1 \in 0 .. N
    OBVIOUS
  <2> QED
    BY <2>1, <1>3
<1> QED
  BY <1>4, <1>5 DEF Climbs

\* A solution stays in the set its steps stay in.
LEMMA ClimbType ==
    ASSUME NEW S, NEW N \in Nat, NEW x0 \in S, NEW step \in Steps(S),
           NEW g, g = [n \in 0 .. N |-> g[n]], g[0] = x0,
           \A n \in 1 .. N : g[n - 1] \in S => g[n] = step[<<n, g[n - 1]>>]
    PROVE  g \in Climbs(S, N, x0, step)
<1> DEFINE I == {n \in 0 .. N : g[n] \in S}
<1>1. 0 \in I
  OBVIOUS
<1>2. ASSUME NEW n \in 1 .. N, g[n - 1] \in S PROVE g[n] \in S
  <2>1. step \in [Nat \X S -> S] /\ n \in Nat
    BY DEF Steps
  <2> QED
    BY <1>2, <2>1
<1>3. ASSUME NEW n \in 0 .. N - 1, n \in I PROVE n + 1 \in I
  <2>1. n + 1 \in 1 .. N /\ n + 1 \in 0 .. N /\ g[n + 1 - 1] = g[n]
    OBVIOUS
  <2>2. g[n] \in S
    BY <1>3
  <2>3. ASSUME NEW m \in 1 .. N, m = n + 1 PROVE g[m] \in S
    <3>1. g[m - 1] = g[n]
      BY <2>1, <2>3
    <3> QED
      BY <1>2, <2>2, <3>1
  <2> QED
    BY <2>1, <2>3
<1>4. 0 .. N \subseteq I
  <2> HIDE DEF I
  <2> QED
    BY <1>1, <1>3, UpTo
<1>5. g \in [0 .. N -> S]
  BY <1>4
<1>6. \A n \in 1 .. N : n - 1 \in 0 .. N
  OBVIOUS
<1> QED
  BY <1>5, <1>6 DEF Climbs

----
(* Positions.                                                              *)

\* A sequence of distinct things has a length, and one place for each.
Distinct(s) == s = [i \in 1 .. Len(s) |-> s[i]] /\ Len(s) \in Nat /\ IsInjective(s)

\* What it means that no element is listed twice.
LEMMA DistinctDomain ==
    ASSUME NEW s, Distinct(s)
    PROVE  /\ DOMAIN s = 1 .. Len(s) /\ Len(s) \in Nat
           /\ \A i, j \in 1 .. Len(s) : s[i] = s[j] => i = j
           /\ s \in Seq(ToSet(s))
           /\ \A e : e \in ToSet(s) <=> \E i \in 1 .. Len(s) : s[i] = e
<1>1. DOMAIN s = 1 .. Len(s) /\ Len(s) \in Nat
  BY DEF Distinct
<1>2. ToSet(s) = {s[i] : i \in 1 .. Len(s)}
  BY <1>1 DEF ToSet
<1>3. s \in [1 .. Len(s) -> ToSet(s)]
  BY <1>2 DEF Distinct
<1>4. s \in Seq(ToSet(s))
  BY <1>1, <1>3
<1>5. \A i, j \in 1 .. Len(s) : s[i] = s[j] => i = j
  BY <1>1 DEF Distinct, IsInjective
<1> QED
  BY <1>1, <1>2, <1>4, <1>5

\* PositionOf finds the place of a member, and answers 0 for anything else.
LEMMA PositionFound ==
    ASSUME NEW s, Distinct(s), NEW i \in 1 .. Len(s)
    PROVE  PositionOf(s, s[i]) = i
<1> DEFINE I == {k \in 1 .. Len(s) : s[k] = s[i]}
<1>1. I = {i}
  BY DistinctDomain
<1>2. PositionOf(s, s[i]) = IF I # {} THEN Min(I) ELSE 0
  BY DEF PositionOf, SelectInSeq
<1>3. Min({i}) = i
  BY DEF Min
<1> QED
  BY <1>1, <1>2, <1>3

\* An element that is not there has position 0.
LEMMA PositionMissed ==
    ASSUME NEW s, Distinct(s), NEW e, e \notin ToSet(s)
    PROVE  PositionOf(s, e) = 0
<1> DEFINE I == {k \in 1 .. Len(s) : s[k] = e}
<1>1. I = {}
  BY DistinctDomain
<1>2. PositionOf(s, e) = IF I # {} THEN Min(I) ELSE 0
  BY DEF PositionOf, SelectInSeq
<1> QED
  BY <1>1, <1>2

\* An element that is there has an index.
LEMMA PositionType ==
    ASSUME NEW s, Distinct(s), NEW e \in ToSet(s)
    PROVE  PositionOf(s, e) \in 1 .. Len(s) /\ s[PositionOf(s, e)] = e
BY SMTT(60), DistinctDomain, PositionFound

----
(* Selecting.                                                              *)

\* KeepOnly goes through the sequence once, an index at a time.
Passes(T, s, names) ==
    {kept \in [0 .. Len(s) -> Seq(T)] :
        /\ kept[0] = <<>>
        /\ \A n \in 1 .. Len(s) :
             kept[n] = IF s[n] \in names THEN Append(kept[n - 1], s[n]) ELSE kept[n - 1]}

\* KeepOnly is such a pass.
LEMMA KeptSteps ==
    ASSUME NEW T, NEW s \in Seq(T), NEW names
    PROVE  \E kept \in Passes(T, s, names) : KeepOnly(s, names) = kept[Len(s)]
<1> DEFINE N == Len(s)
           S == Seq(T)
           x0 == <<>>
           Take(n, done) == IF s[n] \in names THEN Append(done, s[n]) ELSE done
           step == [p \in Nat \X S |-> IF p[1] \in 1 .. N THEN Take(p[1], p[2]) ELSE p[2]]
           Def(k) == [n \in 0 .. N |-> IF n = 0 THEN x0 ELSE Take(n, k[n - 1])]
           kept == CHOOSE k : k = Def(k)
<1>1. N \in Nat /\ \A n \in 1 .. N : s[n] \in T
  OBVIOUS
<1>2. x0 \in S /\ \A n \in 1 .. N : \A done \in S : Take(n, done) \in S
  BY <1>1
<1>3. KeepOnly(s, names) = kept[N]
  BY DEF KeepOnly
<1> HIDE DEF N, S, x0, Take
<1>4. step \in Steps(S)
  BY <1>2 DEF Steps
<1>5. \A n \in 1 .. N : \A done \in S : step[<<n, done>>] = Take(n, done)
  BY <1>1
<1>6. PICK g \in [0 .. N -> S] : g[0] = x0 /\ \A n \in 1 .. N : g[n] = step[<<n, g[n - 1]>>]
  <2> HIDE DEF step
  <2>1. Climbs(S, N, x0, step) # {}
    BY <1>1, <1>2, <1>4, Climb
  <2> QED
    BY <2>1 DEF Climbs
<1> HIDE DEF step
<1>7. g = Def(g)
  <2>1. \A n \in 1 .. N : n - 1 \in 0 .. N /\ n # 0
    BY <1>1
  <2>2. \A n \in 0 .. N : n # 0 => n \in 1 .. N
    BY <1>1
  <2>3. \A n \in 0 .. N : g[n] = IF n = 0 THEN x0 ELSE Take(n, g[n - 1])
    BY <2>1, <2>2, <1>5, <1>6
  <2> QED
    BY <2>3
<1>8. kept = Def(kept)
  <2> HIDE DEF Def
  <2> QED
    BY <1>7
<1> HIDE DEF kept
<1>9. kept = [n \in 0 .. N |-> kept[n]] /\ kept[0] = x0
  BY <1>1, <1>8
<1>10. \A n \in 1 .. N : kept[n] = Take(n, kept[n - 1])
  <2>1. \A n \in 1 .. N : n \in 0 .. N /\ n # 0
    BY <1>1
  <2>2. \A n \in 0 .. N : kept[n] = IF n = 0 THEN x0 ELSE Take(n, kept[n - 1])
    BY <1>8
  <2> QED
    BY <2>1, <2>2
<1>11. kept \in Climbs(S, N, x0, step)
  BY ZenonT(60), <1>1, <1>2, <1>4, <1>5, <1>9, <1>10, ClimbType
<1>12. kept \in Passes(T, s, names)
  BY <1>9, <1>10, <1>11 DEF N, S, x0, Take, Passes, Climbs
<1> QED
  BY <1>3, <1>12 DEF N

\* It keeps the members that are in the set, each as often as it was there.
LEMMA AppendFacts ==
    ASSUME NEW T, NEW s \in Seq(T), NEW e \in T
    PROVE  /\ Append(s, e) \in Seq(T)
           /\ ToSet(Append(s, e)) = ToSet(s) \cup {e}
           /\ IsInjective(s) /\ e \notin ToSet(s) => IsInjective(Append(s, e))
<1>1. /\ Append(s, e) \in Seq(T) /\ Len(Append(s, e)) = Len(s) + 1
      /\ Append(s, e)[Len(s) + 1] = e
      /\ \A i \in 1 .. Len(s) : Append(s, e)[i] = s[i]
      /\ DOMAIN s = 1 .. Len(s) /\ DOMAIN Append(s, e) = 1 .. Len(s) + 1 /\ Len(s) \in Nat
  OBVIOUS
<1> DEFINE a == Append(s, e)
<1> HIDE DEF a
<1>2. ToSet(a) = {a[i] : i \in 1 .. Len(s) + 1} /\ ToSet(s) = {s[i] : i \in 1 .. Len(s)}
  BY <1>1 DEF ToSet, a
<1>3. ToSet(a) = ToSet(s) \cup {e}
  BY <1>1, <1>2 DEF a
<1>4. ASSUME IsInjective(s), e \notin ToSet(s)
      PROVE  IsInjective(a)
  <2>1. \A i, j \in 1 .. Len(s) : s[i] = s[j] => i = j
    BY <1>1, <1>4 DEF IsInjective
  <2>2. \A i \in 1 .. Len(s) : s[i] # e
    BY <1>2, <1>4
  <2>3. DOMAIN a = 1 .. Len(s) + 1 /\ a[Len(s) + 1] = e /\ \A i \in 1 .. Len(s) : a[i] = s[i]
    BY <1>1 DEF a
  <2> QED
    BY <2>1, <2>2, <2>3, <1>1 DEF IsInjective
<1> QED
  BY <1>1, <1>3, <1>4 DEF a

\* It keeps exactly the named elements, and none twice.
LEMMA KeepOnlyMembers ==
    ASSUME NEW T, NEW s \in Seq(T), NEW names
    PROVE  /\ KeepOnly(s, names) \in Seq(T)
           /\ ToSet(KeepOnly(s, names)) = ToSet(s) \cap names
           /\ IsInjective(s) => IsInjective(KeepOnly(s, names))
<1>0. PICK kept \in Passes(T, s, names) : KeepOnly(s, names) = kept[Len(s)]
  BY KeptSteps
<1>1. /\ kept \in [0 .. Len(s) -> Seq(T)] /\ kept[0] = <<>>
      /\ \A n \in 1 .. Len(s) :
           kept[n] = IF s[n] \in names THEN Append(kept[n - 1], s[n]) ELSE kept[n - 1]
      /\ KeepOnly(s, names) = kept[Len(s)]
  BY <1>0 DEF Passes
<1> DEFINE Upto(n) == {s[i] : i \in 1 .. n} \cap names
           I == {n \in 0 .. Len(s) : /\ ToSet(kept[n]) = Upto(n)
                                     /\ IsInjective(s) => IsInjective(kept[n])}
<1>2. Len(s) \in Nat /\ DOMAIN s = 1 .. Len(s) /\ \A n \in 1 .. Len(s) : s[n] \in T
  OBVIOUS
<1>3. 0 \in I
  <2>1. ToSet(<<>>) = {} /\ IsInjective(<<>>)
    BY DEF ToSet, IsInjective
  <2> QED
    BY <1>1, <1>2, <2>1
<1>4. ASSUME NEW n \in 1 .. Len(s), n - 1 \in I PROVE n \in I
  <2> DEFINE prev == kept[n - 1]
  <2>0. /\ n \in 0 .. Len(s) /\ n - 1 \in 0 .. Len(s) /\ s[n] \in T
        /\ ToSet(prev) = Upto(n - 1) /\ (IsInjective(s) => IsInjective(prev))
    BY <1>2, <1>4
  <2>1. /\ n \in 0 .. Len(s) /\ n - 1 \in 0 .. Len(s) /\ prev \in Seq(T) /\ s[n] \in T
        /\ kept[n] = IF s[n] \in names THEN Append(prev, s[n]) ELSE prev
        /\ ToSet(prev) = Upto(n - 1) /\ (IsInjective(s) => IsInjective(prev))
    BY <1>1, <2>0
  <2>2. {s[i] : i \in 1 .. n} = {s[i] : i \in 1 .. n - 1} \cup {s[n]}
    BY <2>1
  <2>3. ASSUME IsInjective(s) PROVE s[n] \notin {s[i] : i \in 1 .. n - 1}
    <3>1. \A i \in 1 .. n - 1 : i \in DOMAIN s /\ n \in DOMAIN s /\ i # n
      BY <1>2
    <3> QED
      BY <2>3, <3>1 DEF IsInjective
  <2> HIDE DEF prev
  <2>4. CASE s[n] \in names
    <3>1. ToSet(Append(prev, s[n])) = ToSet(prev) \cup {s[n]}
      BY <2>1, AppendFacts
    <3>2. IsInjective(prev) /\ s[n] \notin ToSet(prev) => IsInjective(Append(prev, s[n]))
      BY <2>1, AppendFacts
    <3> QED
      BY <2>1, <2>2, <2>3, <2>4, <3>1, <3>2
  <2>5. CASE s[n] \notin names
    BY <2>1, <2>2, <2>5
  <2> QED
    BY <2>4, <2>5
<1>5. 0 .. Len(s) \subseteq I
  <2>1. \A n \in 0 .. Len(s) - 1 : n \in I => n + 1 \in I
    <3> SUFFICES ASSUME NEW n \in 0 .. Len(s) - 1, n \in I PROVE n + 1 \in I
      OBVIOUS
    <3>1. n + 1 \in 1 .. Len(s) /\ n + 1 - 1 = n
      BY <1>2
    <3> HIDE DEF I
    <3> QED
      BY <1>4, <3>1
  <2> HIDE DEF I
  <2> QED
    BY <1>2, <1>3, <2>1, UpTo
<1>6. Len(s) \in I
  BY SMTT(60), <1>2, <1>5
<1>7. ToSet(s) = {s[i] : i \in 1 .. Len(s)}
  BY <1>2 DEF ToSet
<1> QED
  BY <1>1, <1>2, <1>6, <1>7

\* What a sequence keeps of a set is the sequence with the same members in the
\* same order, whatever else stands between them.
LEMMA KeepOnlyIs ==
    ASSUME NEW s, Distinct(s), NEW D, Distinct(D), NEW names,
           ToSet(s) \cap names = ToSet(D),
           \A i, j \in 1 .. Len(D) : i < j => PositionOf(s, D[i]) < PositionOf(s, D[j])
    PROVE  KeepOnly(s, names) = D
<1> DEFINE T == ToSet(s)
           N == Len(s)
           pos(k) == PositionOf(s, D[k])
<1>0. PICK kept \in Passes(T, s, names) : KeepOnly(s, names) = kept[N]
  <2>1. s \in Seq(T)
    BY DistinctDomain
  <2> HIDE DEF T
  <2> QED
    BY <2>1, KeptSteps DEF Passes
<1>1. /\ kept \in [0 .. N -> Seq(T)] /\ kept[0] = <<>>
      /\ \A n \in 1 .. N :
           kept[n] = IF s[n] \in names THEN Append(kept[n - 1], s[n]) ELSE kept[n - 1]
      /\ KeepOnly(s, names) = kept[N]
  BY <1>0 DEF Passes
<1>2. /\ N \in Nat /\ Len(D) \in Nat /\ D \in Seq(ToSet(D))
      /\ \A n \in 1 .. N : s[n] \in names <=> \E k \in 1 .. Len(D) : D[k] = s[n]
      /\ \A k \in 1 .. Len(D) : pos(k) \in 1 .. N /\ s[pos(k)] = D[k]
      /\ \A n, m \in 1 .. N : s[n] = s[m] => n = m
  <2>1. \A k \in 1 .. Len(D) : D[k] \in ToSet(s)
    BY DistinctDomain
  <2> QED
    BY <2>1, DistinctDomain, PositionType
<1> HIDE DEF pos
<1> DEFINE I == {n \in 0 .. N : \E c \in 0 .. Len(D) :
                    /\ kept[n] = SubSeq(D, 1, c)
                    /\ \A k \in 1 .. Len(D) : pos(k) <= n <=> k <= c}
<1>3. 0 \in I
  <2>1. SubSeq(D, 1, 0) = <<>>
    BY <1>2
  <2>2. \A k \in 1 .. Len(D) : pos(k) <= 0 <=> k <= 0
    BY <1>2
  <2>3. kept[0] = SubSeq(D, 1, 0) /\ 0 \in 0 .. N /\ 0 \in 0 .. Len(D)
    BY <1>1, <1>2, <2>1
  <2> QED
    BY <2>2, <2>3
<1>4. ASSUME NEW n \in 1 .. N, n - 1 \in I PROVE n \in I
  <2>1. PICK c \in 0 .. Len(D) : /\ kept[n - 1] = SubSeq(D, 1, c)
                                 /\ \A k \in 1 .. Len(D) : pos(k) <= n - 1 <=> k <= c
    BY <1>4
  <2>2. CASE s[n] \in names
    <3>1. PICK k \in 1 .. Len(D) : D[k] = s[n]
      BY <1>2, <2>2
    <3>2. pos(k) = n
      BY SMTT(60), <1>2, <3>1
    <3>3. k = c + 1
      <4>1. k > c
        BY <1>2, <2>1, <3>2
      <4>2. ASSUME c + 1 < k PROVE FALSE
        <5>1. c + 1 \in 1 .. Len(D)
          BY <1>2, <4>2
        <5>2. pos(c + 1) < pos(k)
          BY <4>2, <5>1 DEF pos
        <5> QED
          BY <1>2, <2>1, <3>2, <5>1, <5>2
      <4> QED
        BY <1>2, <4>1, <4>2
    <3>4. SubSeq(D, 1, c + 1) = Append(SubSeq(D, 1, c), D[c + 1])
      BY <1>2, <3>3
    <3>5. kept[n] = SubSeq(D, 1, c + 1)
      BY <1>1, <2>1, <2>2, <3>1, <3>3, <3>4
    <3>6. \A j \in 1 .. Len(D) : pos(j) <= n <=> j <= c + 1
      <4> SUFFICES ASSUME NEW j \in 1 .. Len(D) PROVE pos(j) <= n <=> j <= c + 1
        OBVIOUS
      <4>1. j <= c => pos(j) <= n
        BY <1>2, <2>1
      <4>2. j > c + 1 => pos(j) > n
        BY <3>2, <3>3 DEF pos
      <4> QED
        BY <1>2, <3>2, <3>3, <4>1, <4>2
    <3> QED
      BY <1>2, <3>3, <3>5, <3>6
  <2>3. CASE s[n] \notin names
    <3>1. kept[n] = SubSeq(D, 1, c)
      BY <1>1, <2>1, <2>3
    <3>2. \A k \in 1 .. Len(D) : pos(k) # n
      BY <1>2, <2>3
    <3>3. \A k \in 1 .. Len(D) : pos(k) <= n <=> k <= c
      BY <1>2, <2>1, <3>2
    <3> QED
      BY <1>2, <3>1, <3>3
  <2> QED
    BY <2>2, <2>3
<1>5. 0 .. N \subseteq I
  <2>1. \A n \in 0 .. N - 1 : n \in I => n + 1 \in I
    <3> SUFFICES ASSUME NEW n \in 0 .. N - 1, n \in I PROVE n + 1 \in I
      OBVIOUS
    <3>1. n + 1 \in 1 .. N /\ n + 1 - 1 = n
      BY <1>2
    <3> HIDE DEF I
    <3> QED
      BY <1>4, <3>1
  <2> HIDE DEF I
  <2> QED
    BY <1>2, <1>3, <2>1, UpTo
<1>6. PICK c \in 0 .. Len(D) : /\ kept[N] = SubSeq(D, 1, c)
                               /\ \A k \in 1 .. Len(D) : pos(k) <= N <=> k <= c
  <2>1. N \in I
    BY <1>2, <1>5
  <2> QED
    BY <2>1
<1>7. c = Len(D)
  <2>1. CASE Len(D) = 0
    BY <1>2, <2>1
  <2>2. CASE Len(D) # 0
    <3>1. Len(D) \in 1 .. Len(D)
      BY <1>2, <2>2
    <3> QED
      BY <1>2, <1>6, <3>1
  <2> QED
    BY <2>1, <2>2
<1>8. SubSeq(D, 1, Len(D)) = D
  BY <1>2
<1> QED
  BY <1>1, <1>6, <1>7, <1>8

----
(* Joining.                                                                *)

\* What two sequences joined look like, index by index.
LEMMA Concatenated ==
    ASSUME NEW T, NEW a \in Seq(T), NEW b \in Seq(T)
    PROVE  /\ a \o b \in Seq(T)
           /\ Len(a \o b) = Len(a) + Len(b)
           /\ a \o b = [i \in 1 .. Len(a) + Len(b) |->
                          IF i <= Len(a) THEN a[i] ELSE b[i - Len(a)]]
<1>1. a \o b \in Seq(T) /\ Len(a \o b) = Len(a) + Len(b) /\ Len(a) \in Nat /\ Len(b) \in Nat
  OBVIOUS
<1>2. \A i \in 1 .. Len(a) + Len(b) :
        (a \o b)[i] = IF i <= Len(a) THEN a[i] ELSE b[i - Len(a)]
  OBVIOUS
<1> DEFINE ab == a \o b
<1>3. ab = [i \in 1 .. Len(ab) |-> ab[i]]
  <2>1. ab \in Seq(T)
    BY <1>1
  <2> HIDE DEF ab
  <2> QED
    BY <2>1
<1> QED
  BY <1>1, <1>2, <1>3

\* ... and what it holds.
LEMMA JoinedMembers ==
    ASSUME NEW T, NEW a \in Seq(T), NEW b \in Seq(T)
    PROVE  a \o b \in Seq(T) /\ ToSet(a \o b) = ToSet(a) \cup ToSet(b)
<1> DEFINE v == a \o b
<1>1. /\ v \in Seq(T) /\ Len(a) \in Nat /\ Len(b) \in Nat
      /\ Len(v) = Len(a) + Len(b) /\ DOMAIN v = 1 .. Len(a) + Len(b)
      /\ DOMAIN a = 1 .. Len(a) /\ DOMAIN b = 1 .. Len(b)
      /\ v = [i \in 1 .. Len(a) + Len(b) |-> IF i <= Len(a) THEN a[i] ELSE b[i - Len(a)]]
  BY Concatenated
<1> HIDE DEF v
<1>2. ASSUME NEW i \in 1 .. Len(a) + Len(b) PROVE v[i] \in ToSet(a) \cup ToSet(b)
  <2>1. CASE i <= Len(a)
    BY SMTT(60), <1>1, <2>1 DEF ToSet
  <2>2. CASE ~(i <= Len(a))
    <3>1. i - Len(a) \in 1 .. Len(b) /\ v[i] = b[i - Len(a)]
      BY <1>1, <2>2
    <3> QED
      BY <1>1, <3>1 DEF ToSet
  <2> QED
    BY <2>1, <2>2
<1>3. ASSUME NEW i \in 1 .. Len(a) PROVE a[i] \in ToSet(v)
  <2>1. i \in 1 .. Len(a) + Len(b) /\ v[i] = a[i]
    BY <1>1
  <2> QED
    BY <1>1, <2>1 DEF ToSet
<1>4. ASSUME NEW i \in 1 .. Len(b) PROVE b[i] \in ToSet(v)
  <2>1. /\ Len(a) + i \in 1 .. Len(a) + Len(b) /\ ~(Len(a) + i <= Len(a)) /\ Len(a) + i - Len(a) = i
    BY <1>1
  <2>2. v[Len(a) + i] = b[i]
    BY <1>1, <2>1
  <2> QED
    BY <1>1, <2>1, <2>2 DEF ToSet
<1>5. ToSet(v) \subseteq ToSet(a) \cup ToSet(b)
  BY <1>1, <1>2 DEF ToSet
<1>6. ToSet(a) \subseteq ToSet(v) /\ ToSet(b) \subseteq ToSet(v)
  <2>1. ToSet(a) = {a[i] : i \in 1 .. Len(a)} /\ ToSet(b) = {b[i] : i \in 1 .. Len(b)}
    BY <1>1 DEF ToSet
  <2> QED
    BY <2>1, <1>3, <1>4
<1> QED
  BY <1>1, <1>5, <1>6 DEF v

\* A sequence of a type and what it holds, member by member.
LEMMA Members ==
    ASSUME NEW T, NEW s \in Seq(T)
    PROVE  /\ DOMAIN s = 1 .. Len(s) /\ Len(s) \in Nat
           /\ ToSet(s) \subseteq T /\ IsFiniteSet(ToSet(s))
           /\ ToSet(s) = {} <=> s = <<>>
           /\ \A e : e \in ToSet(s) <=> \E i \in DOMAIN s : s[i] = e
<1>1. DOMAIN s = 1 .. Len(s) /\ Len(s) \in Nat /\ \A i \in 1 .. Len(s) : s[i] \in T
  OBVIOUS
<1>2. ToSet(s) = {s[i] : i \in 1 .. Len(s)}
  BY <1>1 DEF ToSet
<1>3. ToSet(s) = {} <=> s = <<>>
  BY <1>1, <1>2
<1>4. IsFiniteSet(ToSet(s))
  <2> DEFINE f == [i \in 1 .. Len(s) |-> s[i]]
  <2>1. f \in Surjection(1 .. Len(s), ToSet(s))
    BY <1>2 DEF Surjection
  <2>2. IsFiniteSet(1 .. Len(s))
    <3>1. Len(s) \in Int /\ 1 \in Int
      BY <1>1
    <3> QED
      BY <3>1, FS_Interval
  <2> HIDE DEF f
  <2> QED
    BY <2>1, <2>2, FS_Surjection
<1>5. \A e : e \in ToSet(s) <=> \E i \in DOMAIN s : s[i] = e
  BY <1>1, <1>2
<1> QED
  BY <1>1, <1>2, <1>3, <1>4, <1>5

\* Distinct things followed by others, none of them the same.
LEMMA Followed ==
    ASSUME NEW s, Distinct(s), NEW t, Distinct(t), ToSet(s) \cap ToSet(t) = {}
    PROVE  Distinct(s \o t) /\ ToSet(s \o t) = ToSet(s) \cup ToSet(t)
<1> DEFINE T == ToSet(s) \cup ToSet(t)
           v == s \o t
<1>1. /\ s \in Seq(T) /\ t \in Seq(T) /\ Len(s) \in Nat /\ Len(t) \in Nat
      /\ ToSet(s) = {s[i] : i \in 1 .. Len(s)} /\ ToSet(t) = {t[i] : i \in 1 .. Len(t)}
      /\ \A i, j \in 1 .. Len(s) : s[i] = s[j] => i = j
      /\ \A i, j \in 1 .. Len(t) : t[i] = t[j] => i = j
  <2>1. s \in Seq(ToSet(s)) /\ t \in Seq(ToSet(t))
    BY DistinctDomain
  <2>2. s \in Seq(T) /\ t \in Seq(T)
    BY <2>1
  <2> QED
    BY <2>2, DistinctDomain DEF ToSet
<1>2. Len(v) = Len(s) + Len(t)
      /\ v = [i \in 1 .. Len(s) + Len(t) |-> IF i <= Len(s) THEN s[i] ELSE t[i - Len(s)]]
  BY <1>1, Concatenated
<1> HIDE DEF v
<1>3. \A i \in 1 .. Len(s) + Len(t) : ~(i <= Len(s)) => i - Len(s) \in 1 .. Len(t)
  BY <1>1
<1>4. \A i, j \in 1 .. Len(s) + Len(t) : v[i] = v[j] => i = j
  <2> SUFFICES ASSUME NEW i \in 1 .. Len(s) + Len(t), NEW j \in 1 .. Len(s) + Len(t), v[i] = v[j]
               PROVE  i = j
    OBVIOUS
  <2>0. \A k \in 1 .. Len(s) + Len(t) :
          /\ k <= Len(s) => v[k] = s[k] /\ v[k] \in ToSet(s)
          /\ ~(k <= Len(s)) => v[k] = t[k - Len(s)] /\ v[k] \in ToSet(t)
    BY <1>1, <1>2, <1>3
  <2>1. CASE i <= Len(s) /\ j <= Len(s)
    BY <2>1, <1>1, <1>2
  <2>2. CASE i <= Len(s) /\ ~(j <= Len(s))
    <3>1. v[i] \in ToSet(s) /\ v[j] \in ToSet(t)
      BY <2>0, <2>2
    <3> QED
      BY <3>1
  <2>3. CASE ~(i <= Len(s)) /\ j <= Len(s)
    <3>1. v[j] \in ToSet(s) /\ v[i] \in ToSet(t)
      BY <2>0, <2>3
    <3> QED
      BY <3>1
  <2>4. CASE ~(i <= Len(s)) /\ ~(j <= Len(s))
    <3>1. i - Len(s) = j - Len(s)
      BY <2>4, <1>1, <1>2, <1>3
    <3> QED
      BY <3>1, <1>1
  <2> QED
    BY <2>1, <2>2, <2>3, <2>4
<1>5. ToSet(v) = {v[i] : i \in 1 .. Len(s) + Len(t)}
  BY <1>1, <1>2 DEF ToSet
<1>6. ToSet(v) \subseteq T
  BY <1>1, <1>2, <1>3, <1>5
<1>7. ASSUME NEW j \in 1 .. Len(s) PROVE s[j] \in ToSet(v)
  <2>1. j \in 1 .. Len(s) + Len(t) /\ j <= Len(s)
    BY <1>1
  <2>2. v[j] = s[j]
    BY <2>1, <1>2
  <2> QED
    BY <2>1, <2>2, <1>5
<1>8. ASSUME NEW j \in 1 .. Len(t) PROVE t[j] \in ToSet(v)
  <2>1. Len(s) + j \in 1 .. Len(s) + Len(t) /\ ~(Len(s) + j <= Len(s)) /\ Len(s) + j - Len(s) = j
    BY <1>1
  <2>2. v[Len(s) + j] = t[j]
    BY <2>1, <1>2
  <2> QED
    BY <2>1, <2>2, <1>5
<1>9. Distinct(v)
  BY <1>1, <1>2, <1>4 DEF Distinct, IsInjective
<1> QED
  BY <1>1, <1>6, <1>7, <1>8, <1>9 DEF v

\* As many things as the sequence is long.
LEMMA DistinctCardinality ==
    ASSUME NEW s, Distinct(s)
    PROVE  IsFiniteSet(ToSet(s)) /\ Cardinality(ToSet(s)) = Len(s)
<1>1. /\ DOMAIN s = 1 .. Len(s) /\ Len(s) \in Nat /\ s \in [1 .. Len(s) -> ToSet(s)]
      /\ ToSet(s) = {s[k] : k \in 1 .. Len(s)}
  BY DistinctDomain DEF Distinct, ToSet
<1>2. IsFiniteSet(1 .. Len(s)) /\ Cardinality(1 .. Len(s)) = Len(s)
  <2>1. Len(s) \in Int /\ 1 \in Int
    BY <1>1
  <2>2. IsFiniteSet(1 .. Len(s)) /\ Cardinality(1 .. Len(s)) = IF 1 > Len(s) THEN 0 ELSE Len(s) - 1 + 1
    BY <2>1, FS_Interval
  <2> QED
    BY <1>1, <2>2
<1>3. s \in Surjection(1 .. Len(s), ToSet(s))
  BY <1>1 DEF Surjection
<1>4. s \in Injection(1 .. Len(s), ToSet(s))
  BY <1>1 DEF Injection, Distinct
<1> QED
  BY <1>2, <1>3, <1>4, FS_Surjection

\* The orders of a finite set are the duplicate-free sequences of its members.
LEMMA OrdersOfASet ==
    ASSUME NEW S, IsFiniteSet(S), NEW q \in SetToSeqs(S)
    PROVE  Distinct(q) /\ ToSet(q) = S
<1> DEFINE N == Cardinality(S)
<1>1. N \in Nat
  BY FS_CardinalityType
<1>2. /\ q \in [1 .. N -> S]
      /\ \A a, b \in 1 .. N : a # b => q[a] # q[b]
  BY DEF SetToSeqs
<1>3. /\ q \in Seq(S) /\ Len(q) = N /\ DOMAIN q = 1 .. N
  BY <1>1, <1>2
<1>4. IsInjective(q)
  BY <1>2, <1>3 DEF IsInjective
<1>5. Distinct(q)
  BY <1>1, <1>2, <1>3, <1>4 DEF Distinct
<1>6. ToSet(q) \subseteq S
  BY <1>2, <1>3 DEF ToSet
<1>7. S \subseteq ToSet(q)
  <2>1. IsFiniteSet(1 .. N) /\ Cardinality(1 .. N) = N
    BY <1>1, FS_Interval
  <2>2. q \in Injection(1 .. N, S)
    BY <1>2, <1>3, <1>4 DEF Injection
  <2>3. q \in Surjection(1 .. N, S)
    BY <2>1, <2>2, FS_Injection
  <2> QED
    BY <2>3, <1>3 DEF Surjection, ToSet
<1> QED
  BY <1>5, <1>6, <1>7


\* A finite set put in some order.
LEMMA SomeOrder ==
    ASSUME NEW S, IsFiniteSet(S)
    PROVE  Distinct(SetToSeq(S)) /\ ToSet(SetToSeq(S)) = S
<1> DEFINE N == Cardinality(S)
           q == SetToSeq(S)
<1>1. N \in Nat /\ ExistsBijection(1 .. N, S)
  BY FS_CardinalityType
<1>2. PICK f \in Bijection(1 .. N, S) : TRUE
  BY <1>1 DEF ExistsBijection
<1>3. f \in [1 .. N -> S] /\ IsInjective(f)
  BY <1>2 DEF Bijection, Injection
<1>4. q \in [1 .. N -> S] /\ IsInjective(q)
  BY <1>3 DEF SetToSeq
<1> HIDE DEF q
<1>5. \A a, b \in 1 .. N : a # b => q[a] # q[b]
  BY <1>4 DEF IsInjective
<1>6. q \in SetToSeqs(S)
  BY <1>4, <1>5 DEF SetToSeqs
<1> QED
  BY <1>6, OrdersOfASet DEF q

----
(* What a move does to a rulebase of distinct rules: the rules stay the    *)
(* same, and so does the order among the ones that are not moved.          *)

\* RemoveAt closes the gap.
LEMMA RemovedAt ==
    ASSUME NEW s, Distinct(s), NEW p \in 1 .. Len(s)
    PROVE  RemoveAt(s, p) = [i \in 1 .. Len(s) - 1 |-> IF i < p THEN s[i] ELSE s[i + 1]]
<1>1. s \in Seq(ToSet(s)) /\ Len(s) \in Nat
  BY DistinctDomain
<1> DEFINE a == SubSeq(s, 1, p - 1)
           b == SubSeq(s, p + 1, Len(s))
<1>2. /\ a \in Seq(ToSet(s)) /\ Len(a) = p - 1 /\ \A i \in 1 .. p - 1 : a[i] = s[i]
      /\ b \in Seq(ToSet(s)) /\ Len(b) = Len(s) - p /\ \A i \in 1 .. Len(s) - p : b[i] = s[p + i]
  BY <1>1
<1> HIDE DEF a, b
<1>3. a \o b = [i \in 1 .. Len(s) - 1 |-> IF i <= p - 1 THEN a[i] ELSE b[i - (p - 1)]]
  <2>1. a \o b = [i \in 1 .. Len(a) + Len(b) |-> IF i <= Len(a) THEN a[i] ELSE b[i - Len(a)]]
    BY ZenonT(60), <1>2, Concatenated
  <2>2. Len(a) + Len(b) = Len(s) - 1
    BY <1>1, <1>2
  <2> QED
    BY <1>2, <2>1, <2>2
<1>4. \A i \in p .. Len(s) - 1 : (a \o b)[i] = s[i + 1]
  <2> SUFFICES ASSUME NEW i \in p .. Len(s) - 1 PROVE (a \o b)[i] = s[i + 1]
    OBVIOUS
  <2>1. i - (p - 1) \in 1 .. Len(s) - p /\ p + (i - (p - 1)) = i + 1
    BY <1>1
  <2> QED
    BY <1>2, <1>3, <2>1
<1> DEFINE ab == a \o b
<1> HIDE DEF ab
<1>5. /\ DOMAIN ab = 1 .. Len(s) - 1 /\ ab = [i \in DOMAIN ab |-> ab[i]]
      /\ \A i \in 1 .. Len(s) - 1 : ab[i] = IF i < p THEN s[i] ELSE s[i + 1]
  BY <1>1, <1>2, <1>3, <1>4 DEF ab
<1> QED
  BY <1>5 DEF ab, a, b, RemoveAt

\* InsertAt shifts what comes after.
LEMMA InsertedAt ==
    ASSUME NEW s, Distinct(s), NEW k \in 1 .. Len(s) + 1, NEW r
    PROVE  InsertAt(s, k, r) = [i \in 1 .. Len(s) + 1 |->
                                   IF i < k THEN s[i] ELSE IF i = k THEN r ELSE s[i - 1]]
<1> DEFINE T == ToSet(s) \cup {r}
<1>1. s \in Seq(T) /\ Len(s) \in Nat
  BY DistinctDomain
<1> DEFINE a == SubSeq(s, 1, k - 1)
           b == SubSeq(s, k, Len(s))
           ab == a \o <<r>> \o b
<1>2. /\ a \in Seq(T) /\ Len(a) = k - 1 /\ \A i \in 1 .. k - 1 : a[i] = s[i]
      /\ b \in Seq(T) /\ Len(b) = Len(s) - k + 1
      /\ \A i \in 1 .. Len(s) - k + 1 : b[i] = s[k + i - 1]
      /\ <<r>> \in Seq(T) /\ Len(<<r>>) = 1 /\ <<r>>[1] = r
  BY <1>1
<1> HIDE DEF a, b
<1> DEFINE ar == a \o <<r>>
<1>3. /\ ar \in Seq(T) /\ Len(ar) = k
      /\ ar = [i \in 1 .. k |-> IF i <= k - 1 THEN a[i] ELSE r]
  <2>1. ar \in Seq(T) /\ Len(ar) = Len(a) + Len(<<r>>)
    BY <1>2, Concatenated
  <2>2. ar = [i \in 1 .. Len(a) + Len(<<r>>) |->
                IF i <= Len(a) THEN a[i] ELSE <<r>>[i - Len(a)]]
    BY ZenonT(60), <1>2, Concatenated
  <2>3. Len(a) + Len(<<r>>) = k
    BY <1>1, <1>2
  <2>4. \A i \in 1 .. k : ~(i <= k - 1) => i - Len(a) = 1
    BY <1>1, <1>2
  <2> HIDE DEF ar
  <2> QED
    BY <1>2, <2>1, <2>2, <2>3, <2>4
<1>4. ab = ar \o b
  BY <1>2
<1> HIDE DEF ar, ab
<1>5. ab = [i \in 1 .. Len(s) + 1 |-> IF i <= k THEN ar[i] ELSE b[i - k]]
  <2>1. ab = [i \in 1 .. Len(ar) + Len(b) |-> IF i <= Len(ar) THEN ar[i] ELSE b[i - Len(ar)]]
    BY <1>2, <1>3, <1>4, Concatenated
  <2>2. Len(ar) + Len(b) = Len(s) + 1
    BY <1>1, <1>2, <1>3
  <2> QED
    BY <1>3, <2>1, <2>2
<1>6. \A i \in k + 1 .. Len(s) + 1 : ab[i] = s[i - 1]
  <2> SUFFICES ASSUME NEW i \in k + 1 .. Len(s) + 1 PROVE ab[i] = s[i - 1]
    OBVIOUS
  <2>1. i - k \in 1 .. Len(s) - k + 1 /\ k + (i - k) - 1 = i - 1
    BY <1>1
  <2> QED
    BY <1>2, <1>5, <2>1
<1>7. \A i \in 1 .. Len(s) + 1 : ab[i] = IF i < k THEN s[i] ELSE IF i = k THEN r ELSE s[i - 1]
  BY <1>1, <1>2, <1>3, <1>5, <1>6
<1> QED
  BY <1>5, <1>7 DEF ab, a, b, InsertAt

\* Without takes out one rule and no other.
LEMMA WithoutFacts ==
    ASSUME NEW s, Distinct(s), NEW r \in ToSet(s)
    PROVE  LET w == Without(s, r)  p == PositionOf(s, r)
           IN  /\ w = [i \in 1 .. Len(s) - 1 |-> IF i < p THEN s[i] ELSE s[i + 1]]
               /\ Len(w) = Len(s) - 1
               /\ Distinct(w) /\ ToSet(w) = ToSet(s) \ {r}
<1> DEFINE w == Without(s, r)
           p == PositionOf(s, r)
<1>1. p \in 1 .. Len(s) /\ s[p] = r
  BY PositionType
<1>2. /\ Len(s) \in Nat /\ ToSet(s) = {s[i] : i \in 1 .. Len(s)}
      /\ \A i, j \in 1 .. Len(s) : s[i] = s[j] => i = j
  BY DistinctDomain DEF ToSet
<1>3. w = [i \in 1 .. Len(s) - 1 |-> IF i < p THEN s[i] ELSE s[i + 1]]
  BY <1>1, RemovedAt DEF Without
<1> HIDE DEF w, p
<1>4. Len(w) = Len(s) - 1 /\ DOMAIN w = 1 .. Len(s) - 1
  BY <1>1, <1>2, <1>3
<1>5. Distinct(w)
  <2>1. \A i, j \in 1 .. Len(s) - 1 : w[i] = w[j] => i = j
    BY SMTT(60), <1>1, <1>2, <1>3
  <2> QED
    BY <2>1, <1>2, <1>1, <1>3, <1>4 DEF Distinct, IsInjective
<1>6. ToSet(w) = ToSet(s) \ {r}
  <2>1. ToSet(w) = {w[i] : i \in 1 .. Len(s) - 1}
    BY <1>4 DEF ToSet
  <2>2. ASSUME NEW i \in 1 .. Len(s) - 1 PROVE w[i] \in ToSet(s) \ {r}
    <3>1. PICK j \in 1 .. Len(s) : j # p /\ w[i] = s[j]
      <4>1. CASE i < p
        BY <4>1, <1>1, <1>2, <1>3
      <4>2. CASE ~(i < p)
        <5>1. i + 1 \in 1 .. Len(s) /\ i + 1 # p /\ w[i] = s[i + 1]
          BY <4>2, <1>1, <1>2, <1>3
        <5> QED
          BY <5>1
      <4> QED
        BY <4>1, <4>2
    <3>2. s[j] # r
      BY <3>1, <1>1, <1>2
    <3> QED
      BY <3>1, <3>2, <1>2
  <2>3. ASSUME NEW i \in 1 .. Len(s), s[i] # r PROVE s[i] \in ToSet(w)
    <3>1. CASE i < p
      <4>1. i \in 1 .. Len(s) - 1 /\ w[i] = s[i]
        BY <3>1, <1>1, <1>2, <1>3
      <4> QED
        BY <4>1, <2>1
    <3>2. CASE i > p
      <4>1. i - 1 \in 1 .. Len(s) - 1 /\ ~(i - 1 < p) /\ i - 1 + 1 = i
        BY <3>2, <1>1, <1>2
      <4>2. w[i - 1] = s[i]
        BY <4>1, <1>3
      <4> QED
        BY <4>1, <4>2, <2>1
    <3> QED
      BY <3>1, <3>2, <2>3, <1>1, <1>2
  <2>4. ToSet(w) \subseteq ToSet(s) \ {r}
    BY <2>1, <2>2
  <2>5. ToSet(s) \ {r} \subseteq ToSet(w)
    BY <2>3, <1>2
  <2> QED
    BY <2>4, <2>5
<1> QED
  BY <1>3, <1>4, <1>5, <1>6 DEF w, p

\* InsertAt adds one rule and no other.
LEMMA InsertFacts ==
    ASSUME NEW s, Distinct(s), NEW k \in 1 .. Len(s) + 1, NEW r, r \notin ToSet(s)
    PROVE  LET v == InsertAt(s, k, r)
           IN  Len(v) = Len(s) + 1 /\ Distinct(v) /\ ToSet(v) = ToSet(s) \cup {r}
<1> DEFINE v == InsertAt(s, k, r)
<1>1. /\ Len(s) \in Nat /\ ToSet(s) = {s[i] : i \in 1 .. Len(s)}
      /\ \A i, j \in 1 .. Len(s) : s[i] = s[j] => i = j
      /\ \A i \in 1 .. Len(s) : s[i] # r
  BY DistinctDomain DEF ToSet
<1>2. v = [i \in 1 .. Len(s) + 1 |-> IF i < k THEN s[i] ELSE IF i = k THEN r ELSE s[i - 1]]
  BY InsertedAt
<1> HIDE DEF v
<1>3. Len(v) = Len(s) + 1 /\ DOMAIN v = 1 .. Len(s) + 1
  BY <1>1, <1>2
<1>4. \A i, j \in 1 .. Len(s) + 1 : v[i] = v[j] => i = j
  BY <1>1, <1>2
<1>5. Distinct(v)
  BY <1>1, <1>2, <1>3, <1>4 DEF Distinct, IsInjective
<1>6. ToSet(v) = {v[i] : i \in 1 .. Len(s) + 1}
  BY <1>3 DEF ToSet
<1>7. \A i \in 1 .. Len(s) + 1 : v[i] \in ToSet(s) \cup {r}
  BY <1>1, <1>2
<1>8. r \in ToSet(v)
  BY <1>1, <1>2, <1>6
<1>9. ASSUME NEW i \in 1 .. Len(s) PROVE s[i] \in ToSet(v)
  <2>1. CASE i < k
    BY <2>1, <1>1, <1>2, <1>6
  <2>2. CASE ~(i < k)
    <3>1. i + 1 \in 1 .. Len(s) + 1 /\ ~(i + 1 < k) /\ i + 1 # k /\ i + 1 - 1 = i
      BY <2>2, <1>1
    <3>2. v[i + 1] = s[i]
      BY <3>1, <1>2
    <3> QED
      BY <3>1, <3>2, <1>6
  <2> QED
    BY <2>1, <2>2
<1> QED
  BY SMTT(60), <1>1, <1>3, <1>5, <1>6, <1>7, <1>8, <1>9 DEF v

\* Where the others stand once a rule is out.
LEMMA PositionWithout ==
    ASSUME NEW s, Distinct(s), NEW r \in ToSet(s), NEW x \in ToSet(s) \ {r}
    PROVE  PositionOf(Without(s, r), x) = IF PositionOf(s, x) < PositionOf(s, r)
                                          THEN PositionOf(s, x) ELSE PositionOf(s, x) - 1
<1> DEFINE w == Without(s, r)
           p == PositionOf(s, r)
           i == PositionOf(s, x)
<1>1. /\ p \in 1 .. Len(s) /\ s[p] = r /\ i \in 1 .. Len(s) /\ s[i] = x /\ Len(s) \in Nat
  BY PositionType, DistinctDomain
<1>2. /\ w = [k \in 1 .. Len(s) - 1 |-> IF k < p THEN s[k] ELSE s[k + 1]]
      /\ Len(w) = Len(s) - 1 /\ Distinct(w)
  BY WithoutFacts
<1> HIDE DEF w, p, i
<1>3. CASE i < p
  <2>1. i \in 1 .. Len(w) /\ w[i] = x
    BY <1>1, <1>2, <1>3
  <2> QED
    BY <2>1, <1>2, <1>3, PositionFound DEF w, p, i
<1>4. CASE i > p
  <2>1. i - 1 \in 1 .. Len(w) /\ ~(i - 1 < p) /\ i - 1 + 1 = i
    BY <1>1, <1>2, <1>4
  <2>2. w[i - 1] = x
    BY <2>1, <1>1, <1>2
  <2>3. PositionOf(w, w[i - 1]) = i - 1
    BY <2>1, <1>2, PositionFound
  <2>4. ~(i < p)
    BY <1>1, <1>4
  <2> QED
    BY <2>2, <2>3, <2>4 DEF w, p, i
<1> QED
  BY <1>1, <1>3, <1>4

\* Where all stand once a rule is in.
LEMMA PositionInserted ==
    ASSUME NEW s, Distinct(s), NEW k \in 1 .. Len(s) + 1, NEW r, r \notin ToSet(s)
    PROVE  /\ PositionOf(InsertAt(s, k, r), r) = k
           /\ \A x \in ToSet(s) :
                 PositionOf(InsertAt(s, k, r), x) =
                     IF PositionOf(s, x) < k THEN PositionOf(s, x) ELSE PositionOf(s, x) + 1
<1> DEFINE v == InsertAt(s, k, r)
<1>1. /\ v = [i \in 1 .. Len(s) + 1 |-> IF i < k THEN s[i] ELSE IF i = k THEN r ELSE s[i - 1]]
      /\ Len(v) = Len(s) + 1 /\ Distinct(v) /\ Len(s) \in Nat
  <2>1. Len(v) = Len(s) + 1 /\ Distinct(v)
    BY InsertFacts
  <2>2. Len(s) \in Nat
    BY DistinctDomain
  <2> QED
    BY <2>1, <2>2, InsertedAt
<1> HIDE DEF v
<1>2. PositionOf(v, r) = k
  <2>1. k \in 1 .. Len(v) /\ v[k] = r
    BY <1>1
  <2> QED
    BY <2>1, <1>1, PositionFound
<1>3. ASSUME NEW x \in ToSet(s)
      PROVE  PositionOf(v, x) = IF PositionOf(s, x) < k THEN PositionOf(s, x)
                                ELSE PositionOf(s, x) + 1
  <2> DEFINE i == PositionOf(s, x)
  <2>1. i \in 1 .. Len(s) /\ s[i] = x
    BY PositionType
  <2> HIDE DEF i
  <2>2. CASE i < k
    <3>1. i \in 1 .. Len(v) /\ v[i] = x
      BY <2>1, <2>2, <1>1
    <3> QED
      BY <3>1, <2>2, <1>1, PositionFound DEF i
  <2>3. CASE ~(i < k)
    <3>1. i + 1 \in 1 .. Len(v) /\ ~(i + 1 < k) /\ i + 1 # k /\ i + 1 - 1 = i
      BY <2>1, <2>3, <1>1
    <3>2. v[i + 1] = x
      BY <3>1, <2>1, <1>1
    <3> QED
      BY <3>1, <3>2, <2>3, <1>1, PositionFound DEF i
  <2> QED
    BY <2>2, <2>3
<1> QED
  BY <1>2, <1>3 DEF v

\* A rule moved after an anchor stands right after it; nobody else changes
\* sides with anybody.
LEMMA MovedAfter ==
    ASSUME NEW s, Distinct(s), NEW r \in ToSet(s), NEW a \in ToSet(s), r # a
    PROVE  LET v == MoveAfter(s, r, a)
           IN  /\ Distinct(v) /\ ToSet(v) = ToSet(s) /\ Len(v) = Len(s)
               /\ PositionOf(v, r) = PositionOf(v, a) + 1
               /\ \A x, y \in ToSet(s) \ {r} :
                     PositionOf(v, x) < PositionOf(v, y) <=> PositionOf(s, x) < PositionOf(s, y)
<1> DEFINE v == MoveAfter(s, r, a)
           w == Without(s, r)
           p == PositionOf(s, r)
           k == PositionOf(w, a) + 1
<1>1. /\ Distinct(w) /\ ToSet(w) = ToSet(s) \ {r} /\ Len(w) = Len(s) - 1 /\ Len(s) \in Nat
  BY WithoutFacts, DistinctDomain
<1>2. v = InsertAt(w, k, r)
  BY DEF MoveAfter
<1>3. PositionOf(w, a) \in 1 .. Len(w) /\ k \in 1 .. Len(w) + 1
  <2>1. PositionOf(w, a) \in 1 .. Len(w)
    BY <1>1, PositionType
  <2> QED
    BY <2>1, <1>1
<1>4. Distinct(v) /\ ToSet(v) = ToSet(s) /\ Len(v) = Len(s)
  <2>1. Len(v) = Len(w) + 1 /\ Distinct(v) /\ ToSet(v) = ToSet(w) \cup {r}
    BY <1>1, <1>2, <1>3, InsertFacts
  <2> QED
    BY <2>1, <1>1
<1>5. /\ PositionOf(v, r) = k
      /\ \A x \in ToSet(s) \ {r} : PositionOf(v, x) = IF PositionOf(w, x) < k THEN PositionOf(w, x)
                                                     ELSE PositionOf(w, x) + 1
  BY <1>1, <1>2, <1>3, PositionInserted
<1>6. \A x \in ToSet(s) \ {r} :
        /\ PositionOf(w, x) = IF PositionOf(s, x) < p THEN PositionOf(s, x) ELSE PositionOf(s, x) - 1
        /\ PositionOf(s, x) \in 1 .. Len(s) /\ PositionOf(s, x) # p
  <2> SUFFICES ASSUME NEW x \in ToSet(s) \ {r}
               PROVE  /\ PositionOf(w, x) = IF PositionOf(s, x) < p THEN PositionOf(s, x)
                                             ELSE PositionOf(s, x) - 1
                      /\ PositionOf(s, x) \in 1 .. Len(s) /\ PositionOf(s, x) # p
    OBVIOUS
  <2>1. PositionOf(s, x) \in 1 .. Len(s) /\ s[PositionOf(s, x)] = x /\ s[p] = r
    BY PositionType
  <2> QED
    BY <2>1, PositionWithout
<1>7. p \in 1 .. Len(s)
  BY PositionType
<1> HIDE DEF v, w, p
<1>8. PositionOf(v, a) + 1 = k
  BY <1>3, <1>5
<1>9. ASSUME NEW x \in ToSet(s) \ {r}, NEW y \in ToSet(s) \ {r}
      PROVE  PositionOf(v, x) < PositionOf(v, y) <=> PositionOf(s, x) < PositionOf(s, y)
  <2> DEFINE xs == PositionOf(s, x)  ys == PositionOf(s, y)
             xw == PositionOf(w, x)  yw == PositionOf(w, y)
             xv == PositionOf(v, x)  yv == PositionOf(v, y)
  <2>1. /\ xw = IF xs < p THEN xs ELSE xs - 1
        /\ yw = IF ys < p THEN ys ELSE ys - 1
        /\ xs \in 1 .. Len(s) /\ ys \in 1 .. Len(s) /\ xs # p /\ ys # p
    BY <1>6
  <2>2. /\ xv = IF xw < k THEN xw ELSE xw + 1
        /\ yv = IF yw < k THEN yw ELSE yw + 1
    BY <1>5
  <2> HIDE DEF xs, ys, xw, yw, xv, yv, k
  <2>3. k \in Int /\ p \in Int /\ Len(s) \in Nat
    BY <1>1, <1>3, <1>7 DEF k
  <2>4. xs \in Int /\ ys \in Int
    BY <2>1, <2>3
  <2>5. xw < yw <=> xs < ys
    BY <2>1, <2>3, <2>4
  <2>6. xw \in Int /\ yw \in Int
    BY <2>1, <2>3, <2>4
  <2>7. xv < yv <=> xw < yw
    BY <2>2, <2>3, <2>6
  <2> QED
    BY <2>5, <2>7 DEF xs, ys, xv, yv
<1> QED
  BY <1>4, <1>5, <1>8, <1>9 DEF v

\* Whatever the move, the rules of the folder stay the same and distinct.
LEMMA MovedBefore ==
    ASSUME NEW s, Distinct(s), NEW r \in ToSet(s), NEW a \in ToSet(s), r # a
    PROVE  Distinct(MoveBefore(s, r, a)) /\ ToSet(MoveBefore(s, r, a)) = ToSet(s)
<1> DEFINE w == Without(s, r)
           k == PositionOf(w, a)
<1>1. Distinct(w) /\ ToSet(w) = ToSet(s) \ {r} /\ Len(w) \in Nat
  BY WithoutFacts, DistinctDomain
<1>2. k \in 1 .. Len(w) + 1
  <2>1. k \in 1 .. Len(w)
    BY <1>1, PositionType
  <2> QED
    BY <2>1, <1>1
<1>3. Distinct(InsertAt(w, k, r)) /\ ToSet(InsertAt(w, k, r)) = ToSet(w) \cup {r}
  BY <1>1, <1>2, InsertFacts
<1> QED
  BY <1>1, <1>3 DEF MoveBefore

\* A move to the top keeps the rules.
LEMMA MovedTop ==
    ASSUME NEW s, Distinct(s), NEW r \in ToSet(s)
    PROVE  Distinct(MoveTop(s, r)) /\ ToSet(MoveTop(s, r)) = ToSet(s)
<1> DEFINE w == Without(s, r)
<1>1. Distinct(w) /\ ToSet(w) = ToSet(s) \ {r}
  BY WithoutFacts
<1> HIDE DEF w
<1>2. w \in Seq(ToSet(w)) /\ Len(w) \in Nat
  BY <1>1, DistinctDomain
<1>3. InsertAt(w, 1, r) = <<r>> \o w
  <2>1. SubSeq(w, 1, 0) = <<>> /\ SubSeq(w, 1, Len(w)) = w
    BY <1>2
  <2>2. <<>> \o <<r>> = <<r>>
    OBVIOUS
  <2> QED
    BY <2>1, <2>2 DEF InsertAt
<1>4. Distinct(InsertAt(w, 1, r)) /\ ToSet(InsertAt(w, 1, r)) = ToSet(w) \cup {r}
  BY <1>1, <1>2, InsertFacts
<1> QED
  BY <1>1, <1>3, <1>4 DEF MoveTop, w

====

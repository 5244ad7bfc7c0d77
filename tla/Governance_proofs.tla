---- MODULE Governance_proofs ----
(***************************************************************************)
(* The governance jobs for any number of folders, rules, objects and       *)
(* requests: the stores keep one record per identity, remediation spares   *)
(* what git declares, a green run leaves nothing open of what it read, and *)
(* a record is closed only when its finding is gone.                       *)
(***************************************************************************)
EXTENDS Governance, RuleOrder_proofs

----
(* Rulebases whose rows are named once.                                    *)

RowsOK(rows) ==
    /\ Distinct(rows)
    /\ ToSet(rows) \subseteq Row
    /\ \A r, q \in ToSet(rows) : r.name = q.name => r = q

\* The assumptions in the form the proofs use them.
LEMMA Constants ==
    /\ Distinct(DeployOrder) /\ IsFiniteSet(Requests)
    /\ Len(Roots) \in Nat /\ 1 \in 1 .. Len(Roots)
    /\ \A n \in 1 .. Len(Roots) : Roots[n] \in Scopes
    /\ "own" \in Tags
<1>1. Distinct(DeployOrder)
  BY RequestsAreOrdered DEF Distinct
<1>2. IsFiniteSet(Requests)
  BY <1>1, DistinctCardinality, RequestsAreOrdered
<1>3. Len(Roots) \in Nat /\ 1 \in 1 .. Len(Roots) /\ \A n \in 1 .. Len(Roots) : Roots[n] \in Scopes
  BY RootsAreVisited
<1> QED
  BY <1>1, <1>2, <1>3, SomeTags

\* No two places of such a rulebase bear the same name.
LEMMA NamedOnce ==
    ASSUME NEW rows, RowsOK(rows)
    PROVE  /\ rows \in Seq(Row) /\ DOMAIN rows = 1 .. Len(rows) /\ Len(rows) \in Nat
           /\ IsInjective(NamesOf(rows))
           /\ \A i \in 1 .. Len(rows) : rows[i] \in Row /\ rows[i] \in ToSet(rows)
           /\ \A i, j \in 1 .. Len(rows) : rows[i].name = rows[j].name => i = j
           /\ \A r \in ToSet(rows) : \E i \in 1 .. Len(rows) : rows[i] = r
<1>1. /\ rows \in Seq(ToSet(rows)) /\ DOMAIN rows = 1 .. Len(rows) /\ Len(rows) \in Nat
      /\ \A i \in 1 .. Len(rows) : rows[i] \in ToSet(rows)
      /\ \A i, j \in 1 .. Len(rows) : rows[i] = rows[j] => i = j
      /\ \A r \in ToSet(rows) : \E i \in 1 .. Len(rows) : rows[i] = r
  BY DistinctDomain DEF RowsOK
<1>2. rows \in Seq(Row) /\ \A i \in 1 .. Len(rows) : rows[i] \in Row
  BY <1>1 DEF RowsOK
<1>3. \A i, j \in 1 .. Len(rows) : rows[i].name = rows[j].name => i = j
  BY <1>1 DEF RowsOK
<1>4. IsInjective(NamesOf(rows))
  BY <1>1, <1>3 DEF NamesOf, IsInjective
<1> QED
  BY <1>1, <1>2, <1>3, <1>4

\* ... and a sequence of rows no two of which bear the same name is such.
LEMMA NamedOnceIs ==
    ASSUME NEW rows \in Seq(Row),
           \A i, j \in 1 .. Len(rows) : rows[i].name = rows[j].name => i = j
    PROVE  RowsOK(rows)
<1>1. /\ DOMAIN rows = 1 .. Len(rows) /\ Len(rows) \in Nat
      /\ rows = [i \in 1 .. Len(rows) |-> rows[i]] /\ \A i \in 1 .. Len(rows) : rows[i] \in Row
  OBVIOUS
<1>2. Distinct(rows)
  BY <1>1 DEF Distinct, IsInjective
<1>3. \A r \in ToSet(rows) : \E i \in 1 .. Len(rows) : rows[i] = r
  BY <1>2, DistinctDomain
<1> QED
  BY <1>1, <1>2, <1>3 DEF RowsOK

\* Selecting rows keeps them named once.
LEMMA KeptRows ==
    ASSUME NEW rows, RowsOK(rows), NEW some
    PROVE  RowsOK(KeepOnly(rows, some)) /\ ToSet(KeepOnly(rows, some)) = ToSet(rows) \cap some
<1>1. rows \in Seq(Row) /\ IsInjective(rows)
  BY NamedOnce DEF RowsOK, Distinct
<1>2. /\ KeepOnly(rows, some) \in Seq(Row)
      /\ ToSet(KeepOnly(rows, some)) = ToSet(rows) \cap some
      /\ IsInjective(KeepOnly(rows, some))
  BY <1>1, KeepOnlyMembers
<1>3. Distinct(KeepOnly(rows, some))
  BY <1>2 DEF Distinct
<1> QED
  BY <1>2, <1>3 DEF RowsOK

\* So does a new row with a name of its own,
LEMMA AddedRow ==
    ASSUME NEW rows, RowsOK(rows), NEW r \in Row, RowsNamed(rows, r.name) = {}
    PROVE  RowsOK(Append(rows, r))
<1> DEFINE more == Append(rows, r)
<1>1. rows \in Seq(Row) /\ IsInjective(rows) /\ r \notin ToSet(rows)
  BY NamedOnce DEF RowsOK, Distinct, RowsNamed
<1>2. more \in Seq(Row) /\ IsInjective(more) /\ ToSet(more) = ToSet(rows) \cup {r}
  BY <1>1, AppendFacts
<1> HIDE DEF more
<1>3. Distinct(more)
  BY <1>2 DEF Distinct
<1> QED
  BY <1>2, <1>3 DEF RowsOK, RowsNamed, more

\* a row taken away,
LEMMA RemovedRow ==
    ASSUME NEW rows, RowsOK(rows), NEW i \in DOMAIN rows
    PROVE  RowsOK(RemoveAt(rows, i))
<1>1. i \in 1 .. Len(rows) /\ Distinct(rows) /\ rows[i] \in ToSet(rows)
  BY NamedOnce DEF RowsOK
<1>2. Without(rows, rows[i]) = RemoveAt(rows, i)
  BY <1>1, PositionFound DEF Without
<1>3. Distinct(Without(rows, rows[i])) /\ ToSet(Without(rows, rows[i])) = ToSet(rows) \ {rows[i]}
  BY <1>1, WithoutFacts
<1> QED
  BY <1>2, <1>3 DEF RowsOK

\* a row moved to the top,
LEMMA RaisedRow ==
    ASSUME NEW rows, RowsOK(rows), NEW i \in DOMAIN rows
    PROVE  RowsOK(MoveTop(rows, rows[i]))
<1>1. Distinct(rows) /\ rows[i] \in ToSet(rows)
  BY NamedOnce DEF RowsOK
<1> QED
  BY <1>1, MovedTop DEF RowsOK

\* and a row edited in place.
LEMMA EditedRow ==
    ASSUME NEW rows, RowsOK(rows), NEW i \in DOMAIN rows, NEW new \in Row, new.name = rows[i].name
    PROVE  RowsOK([rows EXCEPT ![i] = new])
<1> DEFINE out == [rows EXCEPT ![i] = new]
<1>1. /\ rows \in Seq(Row) /\ DOMAIN rows = 1 .. Len(rows) /\ Len(rows) \in Nat
      /\ \A j \in 1 .. Len(rows) : rows[j] \in Row
      /\ \A j, k \in 1 .. Len(rows) : rows[j].name = rows[k].name => j = k
  BY NamedOnce
<1>2. out \in Seq(Row) /\ Len(out) = Len(rows) /\ \A j \in 1 .. Len(rows) : out[j].name = rows[j].name
  BY <1>1
<1> HIDE DEF out
<1>3. RowsOK(out)
  BY <1>1, <1>2, NamedOnceIs
<1> QED
  BY <1>3 DEF out

----
(* What an apply leaves.                                                   *)

\* The declared rules in deployment order.
LEMMA ExpectedIs ==
    ASSUME NEW D \in SUBSET Requests
    PROVE  /\ Distinct(Expected(D)) /\ ToSet(Expected(D)) = D
           /\ IsFiniteSet(D) /\ Len(Expected(D)) = Cardinality(D) /\ Cardinality(D) \in Nat
<1>1. /\ Expected(D) \in Seq(Requests) /\ ToSet(Expected(D)) = Requests \cap D
      /\ IsInjective(Expected(D))
  BY RequestsAreOrdered, KeepOnlyMembers DEF Expected
<1>2. Distinct(Expected(D)) /\ ToSet(Expected(D)) = D
  BY <1>1 DEF Distinct
<1>3. IsFiniteSet(D)
  BY Constants, FS_Subset
<1> QED
  BY <1>2, <1>3, DistinctCardinality, FS_CardinalityType

\* A rule as terraform creates it and as it updates it is a row of that name.
LEMMA RowsOfApply ==
    ASSUME NEW n \in Requests, NEW rows
    PROVE  /\ Good(n) \in Row /\ Good(n).name = n
           /\ Repaired(rows, n) \in Row /\ Repaired(rows, n).name = n
<1>1. \A extra \in BOOLEAN : As(n, extra) \in Row /\ As(n, extra).name = n
  BY Constants DEF As, Row
<1>2. (\E r \in RowsNamed(rows, n) : r.extra) \in BOOLEAN
  OBVIOUS
<1> QED
  BY <1>1, <1>2 DEF Good, Repaired

\* Dealing the declared rules out to the places the declared names hold, in
\* order, gives a row to each place and no name to two of them.
LEMMA Dealt ==
    ASSUME NEW rows, RowsOK(rows), NEW D \in SUBSET Requests
    PROVE  LET Nth(i) == Cardinality({j \in 1 .. i : rows[j].name \in D})
           IN  RowsOK([i \in DOMAIN rows |-> IF rows[i].name \in D THEN Repaired(rows, Expected(D)[Nth(i)])
                                             ELSE rows[i]])
<1> DEFINE H(i) == {j \in 1 .. i : rows[j].name \in D}
           Nth(i) == Cardinality(H(i))
           out == [i \in DOMAIN rows |-> IF rows[i].name \in D THEN Repaired(rows, Expected(D)[Nth(i)])
                                         ELSE rows[i]]
           N == Len(rows)
           names == Expected(D)
<1>1. /\ rows \in Seq(Row) /\ DOMAIN rows = 1 .. N /\ N \in Nat
      /\ \A j \in 1 .. N : rows[j] \in Row
      /\ \A j, k \in 1 .. N : rows[j].name = rows[k].name => j = k
  BY NamedOnce
<1>2. /\ Distinct(names) /\ ToSet(names) = D /\ IsFiniteSet(D)
      /\ Len(names) = Cardinality(D) /\ Cardinality(D) \in Nat
  BY ExpectedIs
<1> HIDE DEF names
<1>3. ASSUME NEW i \in 1 .. N, rows[i].name \in D
      PROVE  IsFiniteSet(H(i)) /\ Nth(i) \in 1 .. Cardinality(D) /\ i \in H(i)
  <2> DEFINE f == [j \in H(i) |-> rows[j].name]
  <2>1. H(i) \subseteq 1 .. N /\ i \in H(i)
    BY <1>1, <1>3
  <2>2. f \in Injection(H(i), D)
    BY <1>1, <2>1 DEF Injection, IsInjective
  <2>3. IsFiniteSet(H(i)) /\ Nth(i) <= Cardinality(D)
    BY <1>2, <2>2, FS_Injection
  <2>4. Nth(i) \in Nat /\ Nth(i) # 0
    BY <2>1, <2>3, FS_CardinalityType, FS_EmptySet
  <2> QED
    BY <1>2, <2>1, <2>3, <2>4
<1>4. ASSUME NEW i \in 1 .. N, NEW k \in 1 .. N, rows[i].name \in D, rows[k].name \in D, i < k
      PROVE  Nth(i) # Nth(k)
  <2>1. H(i) \subseteq H(k) /\ k \in H(k) /\ k \notin H(i)
    BY <1>1, <1>4
  <2>2. IsFiniteSet(H(k))
    BY <1>3, <1>4
  <2> QED
    BY <2>1, <2>2, FS_Subset
<1> HIDE DEF H
<1>5. ASSUME NEW i \in 1 .. N, rows[i].name \in D
      PROVE  out[i] \in Row /\ out[i].name = names[Nth(i)] /\ out[i].name \in D
  <2>1. Nth(i) \in 1 .. Len(names)
    BY <1>2, <1>3, <1>5
  <2>2. names[Nth(i)] \in D
    BY <1>2, <2>1, DistinctDomain
  <2>3. names[Nth(i)] \in Requests
    BY <2>2
  <2>4. out[i] = Repaired(rows, names[Nth(i)])
    BY <1>1, <1>5 DEF names
  <2> QED
    BY <2>2, <2>3, <2>4, RowsOfApply
<1>6. ASSUME NEW i \in 1 .. N, rows[i].name \notin D
      PROVE  out[i] = rows[i] /\ out[i] \in Row
  BY <1>1, <1>6
<1>7. DOMAIN out = 1 .. N /\ \A i \in 1 .. N : out[i] \in Row
  BY <1>1, <1>5, <1>6
<1>8. ASSUME NEW i \in 1 .. N, NEW k \in 1 .. N, out[i].name = out[k].name PROVE i = k
  <2>1. CASE rows[i].name \in D /\ rows[k].name \in D
    <3>1. names[Nth(i)] = names[Nth(k)] /\ Nth(i) \in 1 .. Len(names) /\ Nth(k) \in 1 .. Len(names)
      BY <1>2, <1>3, <1>5, <1>8, <2>1
    <3>2. Nth(i) = Nth(k)
      BY <1>2, <3>1, DistinctDomain
    <3> QED
      BY <1>1, <1>4, <2>1, <3>2
  <2>2. CASE rows[i].name \in D /\ rows[k].name \notin D
    BY <1>5, <1>6, <1>8, <2>2
  <2>3. CASE rows[i].name \notin D /\ rows[k].name \in D
    BY <1>5, <1>6, <1>8, <2>3
  <2>4. CASE rows[i].name \notin D /\ rows[k].name \notin D
    BY <1>1, <1>6, <1>8, <2>4
  <2> QED
    BY <2>1, <2>2, <2>3, <2>4
<1>9. out \in Seq(Row) /\ Len(out) = N
  <2> HIDE DEF out
  <2>1. out = [i \in 1 .. N |-> out[i]]
    BY <1>7 DEF out
  <2> QED
    BY <1>1, <1>7, <2>1
<1>10. RowsOK(out)
  <2> HIDE DEF out
  <2> QED
    BY <1>8, <1>9, NamedOnceIs
<1> QED
  BY <1>10 DEF H, names

\* An apply leaves rows that are named once.
LEMMA RestoredRows ==
    ASSUME NEW s, RowsOK(rulebase[s]), declared[s] \in SUBSET Requests
    PROVE  RowsOK(Restored(s))
<1> DEFINE D == declared[s]
           kept == KeepOnly(rulebase[s], {r \in ToSet(rulebase[s]) : r.name \notin applied[s] \ D})
           here == ToSet(NamesOf(kept))
           new == KeepOnly(DeployOrder, D \ here)
           added == [i \in DOMAIN new |-> Good(new[i])]
           rows == kept \o added
<1>1. RowsOK(kept)
  BY KeptRows
<1> HIDE DEF kept
<1>2. \A r \in ToSet(kept) : r.name \in here
  <2>1. \A i \in 1 .. Len(kept) : NamesOf(kept)[i] = kept[i].name /\ i \in DOMAIN NamesOf(kept)
    BY <1>1, NamedOnce DEF NamesOf
  <2>2. \A i \in 1 .. Len(kept) : kept[i].name \in here
    BY <2>1 DEF ToSet
  <2> QED
    BY <1>1, <2>2, NamedOnce
<1> HIDE DEF here
<1>3. Distinct(new) /\ ToSet(new) \subseteq D \ here
  <2>1. new \in Seq(Requests) /\ ToSet(new) = Requests \cap (D \ here) /\ IsInjective(new)
    BY RequestsAreOrdered, KeepOnlyMembers
  <2> HIDE DEF new
  <2>2. Distinct(new)
    BY <2>1 DEF Distinct
  <2> QED
    BY <2>1, <2>2
<1> HIDE DEF new
<1>4. /\ DOMAIN new = 1 .. Len(new) /\ Len(new) \in Nat
      /\ \A i \in 1 .. Len(new) : new[i] \in D \ here /\ new[i] \in Requests
      /\ \A i, j \in 1 .. Len(new) : new[i] = new[j] => i = j
  BY <1>3, DistinctDomain
<1>5. /\ DOMAIN added = 1 .. Len(new) /\ \A i \in 1 .. Len(new) : added[i] = Good(new[i])
      /\ \A i \in 1 .. Len(new) : added[i] \in Row /\ added[i].name = new[i]
  BY <1>4, RowsOfApply
<1>6. added \in Seq(Row) /\ Len(added) = Len(new)
  BY <1>4, <1>5
<1> HIDE DEF added
<1>7. RowsOK(added)
  BY <1>4, <1>5, <1>6, NamedOnceIs
<1>8. \A q \in ToSet(added) : q.name \notin here
  BY <1>4, <1>5, <1>6, <1>7, NamedOnce
<1>9. Distinct(rows) /\ ToSet(rows) = ToSet(kept) \cup ToSet(added)
  <2>1. ToSet(kept) \cap ToSet(added) = {}
    BY <1>2, <1>8
  <2> QED
    BY <1>1, <1>7, <2>1, Followed DEF RowsOK
<1> HIDE DEF rows
<1>10. RowsOK(rows)
  BY <1>1, <1>2, <1>7, <1>8, <1>9 DEF RowsOK
<1>11. RowsOK(LET Nth(i) == Cardinality({j \in 1 .. i : rows[j].name \in D})
              IN  [i \in DOMAIN rows |-> IF rows[i].name \in D THEN Repaired(rows, Expected(D)[Nth(i)])
                                         ELSE rows[i]])
  BY <1>10, Dealt
<1> QED
  BY <1>11 DEF Restored, rows, added, new, here, kept

----
(* What the engines find, as sets.                                         *)

Names == Requests \cup Strangers \cup Objects

FindingType ==
    [cls : {"unmanaged", "orphaned", "malformed", "reordered", "missing", "modified"},
     kind : RuleKinds \cup {"object"}, name : Names, tags : Tags \cup {"none"}]

\* A list made into findings, one each.
Each(list, f) == [i \in DOMAIN list |-> f[list[i]]]

ImageOf(f, S) == {f[e] : e \in S}

\* Findings made from a list are the findings made from its set.
LEMMA Listed ==
    ASSUME NEW T, NEW list \in Seq(T), NEW f \in [T -> FindingType]
    PROVE  Each(list, f) \in Seq(FindingType) /\ ToSet(Each(list, f)) = ImageOf(f, ToSet(list))
<1> DEFINE out == [i \in DOMAIN list |-> f[list[i]]]
<1>1. /\ DOMAIN list = 1 .. Len(list) /\ Len(list) \in Nat
      /\ \A i \in 1 .. Len(list) : list[i] \in T
  OBVIOUS
<1>2. \A i \in 1 .. Len(list) : out[i] \in FindingType /\ out[i] = f[list[i]]
  BY <1>1
<1>3. out \in Seq(FindingType)
  BY <1>1, <1>2
<1>4. ToSet(out) = {out[i] : i \in 1 .. Len(list)} /\ ToSet(list) = {list[i] : i \in 1 .. Len(list)}
  BY <1>1 DEF ToSet
<1>5. ToSet(out) = ImageOf(f, ToSet(list))
  BY <1>2, <1>4 DEF ImageOf
<1> QED
  BY <1>3, <1>5 DEF Each

\* What the tag sweep finds.
LEMMA TagFindingsAre ==
    ASSUME NEW rows, RowsOK(rows), NEW D
    PROVE  /\ TagFindings(rows, D) \in Seq(FindingType)
           /\ ToSet(TagFindings(rows, D)) =
                {Finding(TagClass(r, D), "rule", r.name, r.tag) :
                    r \in {q \in ToSet(rows) : TagClass(q, D) # "ours"}}
<1> DEFINE Hit(cls) == KeepOnly(rows, {r \in ToSet(rows) : TagClass(r, D) = cls})
           Of(cls) == [i \in DOMAIN Hit(cls) |-> Finding(cls, "rule", Hit(cls)[i].name, Hit(cls)[i].tag)]
           Found(cls) == {Finding(cls, "rule", r.name, r.tag) : r \in {q \in ToSet(rows) : TagClass(q, D) = cls}}
<1>1. ASSUME NEW cls \in {"unmanaged", "orphaned", "malformed"}
      PROVE  Of(cls) \in Seq(FindingType) /\ ToSet(Of(cls)) = Found(cls)
  <2>1. RowsOK(Hit(cls)) /\ ToSet(Hit(cls)) = {r \in ToSet(rows) : TagClass(r, D) = cls}
    BY KeptRows
  <2> DEFINE f == [r \in Row |-> Finding(cls, "rule", r.name, r.tag)]
  <2>2. f \in [Row -> FindingType]
    BY DEF Row, Finding, FindingType, Names, RuleKinds
  <2>3. Hit(cls) \in Seq(Row) /\ \A i \in DOMAIN Hit(cls) : Hit(cls)[i] \in Row
    BY <2>1, NamedOnce
  <2> HIDE DEF Hit
  <2>4. Of(cls) = Each(Hit(cls), f)
    BY <2>3 DEF Each
  <2>5. \A r \in ToSet(rows) : r \in Row
    BY DEF RowsOK
  <2>6. ImageOf(f, ToSet(Hit(cls))) = Found(cls)
    BY <2>1, <2>5 DEF ImageOf
  <2> HIDE DEF f, Of, Found
  <2> QED
    BY <2>2, <2>3, <2>4, <2>6, Listed
<1>2. TagFindings(rows, D) = Of("unmanaged") \o Of("orphaned") \o Of("malformed")
  BY DEF TagFindings
<1> HIDE DEF Of, Found
<1>3. /\ TagFindings(rows, D) \in Seq(FindingType)
      /\ ToSet(TagFindings(rows, D)) = Found("unmanaged") \cup Found("orphaned") \cup Found("malformed")
  <2> DEFINE ab == Of("unmanaged") \o Of("orphaned")
  <2>1. ab \in Seq(FindingType) /\ ToSet(ab) = Found("unmanaged") \cup Found("orphaned")
    BY <1>1, JoinedMembers
  <2>2. TagFindings(rows, D) = ab \o Of("malformed")
    BY <1>2
  <2> HIDE DEF ab
  <2>3. Of("malformed") \in Seq(FindingType) /\ ToSet(Of("malformed")) = Found("malformed")
    BY <1>1
  <2>4. /\ ab \o Of("malformed") \in Seq(FindingType)
        /\ ToSet(ab \o Of("malformed")) = ToSet(ab) \cup ToSet(Of("malformed"))
    BY <2>1, <2>3, JoinedMembers
  <2> QED
    BY <2>1, <2>2, <2>3, <2>4
<1>4. \A r \in ToSet(rows) : TagClass(r, D) \in {"unmanaged", "orphaned", "malformed", "ours"}
  BY DEF TagClass
<1> QED
  BY <1>3, <1>4 DEF Found

\* The names of a rulebase.
LEMMA NamesAre ==
    ASSUME NEW rows, RowsOK(rows)
    PROVE  /\ Distinct(NamesOf(rows)) /\ Len(NamesOf(rows)) = Len(rows)
           /\ ToSet(NamesOf(rows)) = {r.name : r \in ToSet(rows)}
           /\ NamesOf(rows) \in Seq(Requests \cup Strangers)
<1>1. /\ rows \in Seq(Row) /\ DOMAIN rows = 1 .. Len(rows) /\ Len(rows) \in Nat
      /\ IsInjective(NamesOf(rows)) /\ \A i \in 1 .. Len(rows) : rows[i] \in Row
  BY NamedOnce
<1>2. NamesOf(rows) = [i \in 1 .. Len(rows) |-> rows[i].name]
  BY <1>1 DEF NamesOf
<1>3. \A i \in 1 .. Len(rows) : rows[i].name \in Requests \cup Strangers
  BY <1>1 DEF Row
<1>4. NamesOf(rows) \in Seq(Requests \cup Strangers) /\ Len(NamesOf(rows)) = Len(rows)
  BY <1>1, <1>2, <1>3
<1>5. Distinct(NamesOf(rows))
  BY <1>1, <1>2, <1>4 DEF Distinct
<1>6. ToSet(NamesOf(rows)) = {r.name : r \in ToSet(rows)}
  <2>1. ToSet(rows) = {rows[i] : i \in 1 .. Len(rows)}
    BY <1>1 DEF ToSet
  <2>2. ToSet(NamesOf(rows)) = {rows[i].name : i \in 1 .. Len(rows)}
    BY <1>1, <1>2 DEF ToSet
  <2> QED
    BY <2>1, <2>2
<1> QED
  BY <1>4, <1>5, <1>6

\* The two lists whose places are compared hold the same rules.
LEMMA ComparedAre ==
    ASSUME NEW rows, RowsOK(rows), NEW D \in SUBSET Requests
    PROVE  LET common == Common(Expected(D), NamesOf(rows))
               actual == Actual(Expected(D), NamesOf(rows))
           IN  /\ Distinct(common) /\ Distinct(actual) /\ Len(common) = Len(actual)
               /\ ToSet(common) = D \cap ToSet(NamesOf(rows)) /\ ToSet(actual) = ToSet(common)
               /\ Moved(rows, D) \subseteq D
               /\ Moved(rows, D) = {} <=> common = actual
<1> DEFINE common == Common(Expected(D), NamesOf(rows))
           actual == Actual(Expected(D), NamesOf(rows))
<1>1. /\ Distinct(Expected(D)) /\ ToSet(Expected(D)) = D
      /\ Distinct(NamesOf(rows)) /\ Expected(D) \in Seq(D)
  BY ExpectedIs, NamesAre, DistinctDomain
<1>2. /\ common \in Seq(D) /\ ToSet(common) = D \cap ToSet(NamesOf(rows)) /\ IsInjective(common)
  BY <1>1, KeepOnlyMembers DEF Common, Distinct
<1>3. /\ NamesOf(rows) \in Seq(ToSet(NamesOf(rows))) /\ IsInjective(NamesOf(rows))
  BY <1>1, DistinctDomain DEF Distinct
<1>4. /\ actual \in Seq(ToSet(NamesOf(rows))) /\ ToSet(actual) = ToSet(NamesOf(rows)) \cap D
      /\ IsInjective(actual)
  BY <1>1, <1>3, KeepOnlyMembers DEF Actual
<1>5. Moved(rows, D) = {common[i] : i \in {j \in DOMAIN common : common[j] # actual[j]}}
  BY DEF Moved
<1> HIDE DEF common, actual
<1>6. Distinct(common) /\ Distinct(actual)
  BY <1>2, <1>4 DEF Distinct
<1>7. Len(common) = Len(actual)
  <2>1. ToSet(common) = ToSet(actual)
    BY <1>2, <1>4
  <2> QED
    BY <2>1, <1>6, DistinctCardinality
<1>8. DOMAIN common = 1 .. Len(common) /\ \A i \in DOMAIN common : common[i] \in D
  BY <1>2
<1>9. Moved(rows, D) = {} <=> common = actual
  <2>1. Moved(rows, D) = {} => \A i \in 1 .. Len(common) : common[i] = actual[i]
    BY <1>5, <1>8
  <2>2. (\A i \in 1 .. Len(common) : common[i] = actual[i]) => common = actual
    BY <1>6, <1>7 DEF Distinct
  <2> QED
    BY <1>5, <2>1, <2>2
<1> QED
  BY <1>2, <1>4, <1>5, <1>6, <1>7, <1>8, <1>9 DEF common, actual

\* Fewer than two declared rules cannot be out of order.
LEMMA OneIsInOrder ==
    ASSUME NEW rows, RowsOK(rows), NEW D \in SUBSET Requests, Cardinality(D) < 2
    PROVE  Moved(rows, D) = {}
<1> DEFINE common == Common(Expected(D), NamesOf(rows))
           actual == Actual(Expected(D), NamesOf(rows))
<1>1. /\ Distinct(common) /\ Distinct(actual) /\ Len(common) = Len(actual)
      /\ ToSet(common) \subseteq D /\ ToSet(actual) = ToSet(common)
      /\ Moved(rows, D) = {} <=> common = actual
  BY ComparedAre
<1> HIDE DEF common, actual
<1>2. IsFiniteSet(D) /\ Cardinality(D) \in Nat
  BY ExpectedIs
<1>3. Len(common) <= Cardinality(D) /\ Len(common) \in Nat
  BY <1>1, <1>2, DistinctCardinality, FS_Subset DEF Distinct
<1>4. CASE Len(common) = 0
  BY <1>1, <1>4 DEF Distinct
<1>5. CASE Len(common) = 1
  <2>1. common[1] \in ToSet(common) /\ actual[1] \in ToSet(common)
    BY SMTT(60), <1>1, <1>5, DistinctDomain
  <2>2. common[1] = actual[1]
    <3>1. PICK i \in 1 .. Len(common) : common[i] = actual[1]
      BY <2>1, <1>1, DistinctDomain
    <3> QED
      BY <3>1, <1>5
  <2>3. \A i \in 1 .. Len(common) : common[i] = actual[i]
    BY <1>5, <2>2
  <2> QED
    BY <1>1, <2>3 DEF Distinct
<1>6. Len(common) = 0 \/ Len(common) = 1
  <2> DEFINE n == Len(common)
             c == Cardinality(D)
  <2>1. n \in Nat /\ c \in Nat /\ n <= c /\ c < 2
    BY <1>2, <1>3
  <2> HIDE DEF n, c
  <2>2. n = 0 \/ n = 1
    BY <2>1
  <2> QED
    BY <2>2 DEF n
<1> QED
  BY <1>4, <1>5, <1>6

\* What the order check finds.
LEMMA OrderFindingsAre ==
    ASSUME NEW rows, RowsOK(rows), NEW D \in SUBSET Requests
    PROVE  /\ OrderFindings(rows, D) \in Seq(FindingType)
           /\ ToSet(OrderFindings(rows, D)) =
                {Finding("reordered", "order", n, "none") : n \in Moved(rows, D)}
<1>1. Moved(rows, D) \subseteq Requests
  BY ComparedAre
<1>2. CASE Cardinality(D) < 2
  <2>1. Moved(rows, D) = {} /\ OrderFindings(rows, D) = <<>>
    BY <1>2, OneIsInOrder DEF OrderFindings
  <2>2. <<>> \in Seq(FindingType) /\ ToSet(<<>>) = {}
    BY DEF ToSet
  <2> QED
    BY <2>1, <2>2
<1>3. CASE ~(Cardinality(D) < 2)
  <2> DEFINE moved == KeepOnly(DeployOrder, Moved(rows, D))
             f == [n \in Requests |-> Finding("reordered", "order", n, "none")]
  <2>1. moved \in Seq(Requests) /\ ToSet(moved) = Moved(rows, D)
    <3>1. moved \in Seq(Requests) /\ ToSet(moved) = Requests \cap Moved(rows, D)
      BY RequestsAreOrdered, KeepOnlyMembers
    <3> HIDE DEF moved
    <3> QED
      BY <1>1, <3>1
  <2>2. f \in [Requests -> FindingType]
    BY DEF Finding, FindingType, Names, RuleKinds
  <2>3. OrderFindings(rows, D) = [i \in DOMAIN moved |-> Finding("reordered", "order", moved[i], "none")]
    BY <1>3 DEF OrderFindings, MovedFindings
  <2> HIDE DEF moved
  <2>4. OrderFindings(rows, D) = Each(moved, f)
    <3>1. \A i \in DOMAIN moved : moved[i] \in Requests
      BY <2>1
    <3> QED
      BY <2>3, <3>1 DEF Each
  <2>5. ImageOf(f, ToSet(moved)) = {Finding("reordered", "order", n, "none") : n \in Moved(rows, D)}
    BY <1>1, <2>1 DEF ImageOf
  <2> HIDE DEF f
  <2> QED
    BY <2>1, <2>2, <2>4, <2>5, Listed
<1> QED
  BY <1>2, <1>3

\* What the content check finds.
LEMMA ContentFindingsAre ==
    ASSUME NEW rows, RowsOK(rows), NEW D \in SUBSET Requests
    PROVE  LET Class(n) == IF RowsNamed(rows, n) = {} THEN "missing" ELSE "modified"
           IN  /\ ContentFindings(rows, D) \in Seq(FindingType)
               /\ ToSet(ContentFindings(rows, D)) =
                    {Finding(Class(n), "rule", n, "none") : n \in {m \in D : Differs(rows, m)}}
<1> DEFINE Class(n) == IF RowsNamed(rows, n) = {} THEN "missing" ELSE "modified"
           hit == KeepOnly(Expected(D), {n \in D : Differs(rows, n)})
           f == [n \in Requests |-> Finding(Class(n), "rule", n, "none")]
<1>1. Expected(D) \in Seq(D) /\ ToSet(Expected(D)) = D
  BY ExpectedIs, DistinctDomain
<1>2. hit \in Seq(Requests) /\ ToSet(hit) = {n \in D : Differs(rows, n)}
  <2>1. hit \in Seq(D) /\ ToSet(hit) = D \cap {n \in D : Differs(rows, n)}
    BY <1>1, KeepOnlyMembers
  <2> HIDE DEF hit
  <2> QED
    BY <2>1
<1>3. f \in [Requests -> FindingType]
  BY DEF Finding, FindingType, Names, RuleKinds
<1>4. ContentFindings(rows, D) = [i \in DOMAIN hit |-> Finding(Class(hit[i]), "rule", hit[i], "none")]
  BY DEF ContentFindings
<1> HIDE DEF hit, Class
<1>5. ContentFindings(rows, D) = Each(hit, f)
  <2>1. \A i \in DOMAIN hit : hit[i] \in Requests
    BY <1>2
  <2> QED
    BY <1>4, <2>1 DEF Each
<1>6. ImageOf(f, ToSet(hit)) = {Finding(Class(n), "rule", n, "none") : n \in {m \in D : Differs(rows, m)}}
  BY <1>2 DEF ImageOf
<1> HIDE DEF f
<1> QED
  BY <1>2, <1>3, <1>5, <1>6, Listed DEF Class

\* The three of them together.
LEMMA RuleFindingsAre ==
    ASSUME NEW s, NEW rows, RowsOK(rows), NEW D \in SUBSET Requests
    PROVE  /\ RuleFindings(s, rows, D) \in Seq(FindingType)
           /\ ToSet(RuleFindings(s, rows, D)) =
                ToSet(TagFindings(rows, D)) \cup
                (IF Covered(s, rows) THEN ToSet(OrderFindings(rows, D)) \cup ToSet(ContentFindings(rows, D))
                 ELSE {})
<1> DEFINE a == TagFindings(rows, D)
           b == OrderFindings(rows, D)
           c == ContentFindings(rows, D)
<1>1. a \in Seq(FindingType) /\ b \in Seq(FindingType) /\ c \in Seq(FindingType)
  BY TagFindingsAre, OrderFindingsAre, ContentFindingsAre
<1>2. RuleFindings(s, rows, D) = a \o (IF Covered(s, rows) THEN b \o c ELSE <<>>)
  BY DEF RuleFindings
<1> HIDE DEF a, b, c
<1>3. b \o c \in Seq(FindingType) /\ ToSet(b \o c) = ToSet(b) \cup ToSet(c)
  BY <1>1, JoinedMembers
<1>4. <<>> \in Seq(FindingType) /\ ToSet(<<>>) = {}
  BY DEF ToSet
<1>5. CASE Covered(s, rows)
  <2> DEFINE d == b \o c
  <2>1. d \in Seq(FindingType) /\ ToSet(d) = ToSet(b) \cup ToSet(c)
    BY <1>3
  <2>2. RuleFindings(s, rows, D) = a \o d
    BY <1>2, <1>5
  <2> HIDE DEF d
  <2>3. RuleFindings(s, rows, D) \in Seq(FindingType) /\ ToSet(RuleFindings(s, rows, D)) = ToSet(a) \cup ToSet(d)
    BY <1>1, <2>1, <2>2, JoinedMembers
  <2> QED
    BY <1>5, <2>1, <2>3 DEF a, b, c
<1>6. CASE ~Covered(s, rows)
  <2>1. RuleFindings(s, rows, D) = a \o <<>>
    BY <1>2, <1>6
  <2>2. RuleFindings(s, rows, D) = a
    BY <1>1, <2>1
  <2> QED
    BY <1>1, <1>6, <2>2 DEF a, b, c
<1> QED
  BY <1>5, <1>6

\* What the object sweep finds.
LEMMA ObjectFindingsAre ==
    ASSUME NEW s, objects[s] \subseteq Objects
    PROVE  /\ ObjectFindings(s) \in Seq(FindingType)
           /\ ToSet(ObjectFindings(s)) =
                {Finding("unmanaged", "object", n, "none") : n \in Unaccounted(s)}
<1> DEFINE hit == SetToSeq(Unaccounted(s))
           f == [n \in Objects |-> Finding("unmanaged", "object", n, "none")]
<1>1. Unaccounted(s) \subseteq Objects /\ IsFiniteSet(Unaccounted(s))
  <2>1. Unaccounted(s) \in SUBSET Objects
    BY DEF Unaccounted
  <2> QED
    BY <2>1, ObjectSets, FS_Subset
<1>2. Distinct(hit) /\ ToSet(hit) = Unaccounted(s)
  BY <1>1, SomeOrder
<1>3. ObjectFindings(s) = [i \in DOMAIN hit |-> Finding("unmanaged", "object", hit[i], "none")]
  BY DEF ObjectFindings
<1> HIDE DEF hit
<1>4. hit \in Seq(Objects)
  <2>1. hit \in Seq(ToSet(hit))
    BY <1>2, DistinctDomain
  <2> QED
    BY <1>1, <1>2, <2>1
<1>5. f \in [Objects -> FindingType]
  BY DEF Finding, FindingType, Names, RuleKinds
<1>6. ObjectFindings(s) = Each(hit, f)
  <2>1. \A i \in DOMAIN hit : hit[i] \in Objects
    BY <1>4
  <2> QED
    BY <1>3, <2>1 DEF Each
<1>7. ImageOf(f, ToSet(hit)) = {Finding("unmanaged", "object", n, "none") : n \in Unaccounted(s)}
  BY <1>1, <1>2 DEF ImageOf
<1> HIDE DEF f
<1> QED
  BY <1>4, <1>5, <1>6, <1>7, Listed

----
(* What a run makes of them: records.                                      *)

StoreOK(store) == Store(store) /\ IsFiniteSet(store)

\* A finding opens a record of its own identity.
LEMMA UpdatedIs ==
    ASSUME NEW store, Store(store), NEW s \in Scopes, NEW f \in FindingType
    PROVE  /\ Updated(store, s, f) \in ViolationRecord
           /\ Updated(store, s, f).status = "open"
           /\ Identity(Updated(store, s, f)) = <<s, f.kind, f.name>>
<1>1. /\ f.kind \in RuleKinds \cup {"object"} /\ f.name \in Requests \cup Strangers \cup Objects
      /\ f.cls \in {"unmanaged", "orphaned", "malformed", "reordered", "missing", "modified"}
      /\ f.tags \in Tags \cup {"none"}
  BY DEF FindingType, Names
<1>2. CASE Prior(store, s, f) = {}
  <2>1. Updated(store, s, f) = Build(s, f)
    BY <1>2 DEF Updated
  <2>2. Build(s, f) \in ViolationRecord
    BY <1>1 DEF Build, ViolationRecord
  <2> QED
    BY <2>1, <2>2 DEF Build, Identity
<1>3. CASE Prior(store, s, f) # {}
  <2> DEFINE r == CHOOSE q \in Prior(store, s, f) : TRUE
  <2>1. r \in store /\ Identity(r) = <<s, f.kind, f.name>>
    BY <1>3 DEF Prior
  <2>2. r \in ViolationRecord
    BY <2>1 DEF Store
  <2>3. Updated(store, s, f) = Reopen(r, f)
    BY <1>3 DEF Updated
  <2> HIDE DEF r
  <2>4. /\ Reopen(r, f) \in ViolationRecord /\ Reopen(r, f).status = "open"
        /\ Reopen(r, f).scope = r.scope /\ Reopen(r, f).kind = r.kind /\ Reopen(r, f).name = r.name
    BY ZenonT(60), <1>1, <2>2 DEF Reopen, ViolationRecord
  <2> QED
    BY <2>1, <2>3, <2>4 DEF Identity
<1> QED
  BY <1>2, <1>3

Resolve(r) == [r EXCEPT !.status = "resolved"]

\* Closing a record changes its status only.
LEMMA ResolveIs ==
    ASSUME NEW r \in ViolationRecord
    PROVE  Resolve(r) \in ViolationRecord /\ Resolve(r).status = "resolved" /\ Identity(Resolve(r)) = Identity(r)
BY DEF Resolve, ViolationRecord, Identity

\* A run writes a record per finding and closes the ones it may close.
LEMMA ChangedAre ==
    ASSUME NEW store, StoreOK(store), NEW s \in Scopes, NEW kinds, NEW found \in Seq(FindingType)
    PROVE  /\ Changed(store, s, kinds, found) \in Seq(ViolationRecord)
           /\ \A c \in ToSet(Changed(store, s, kinds, found)) :
                \/ \E f \in ToSet(found) : c = Updated(store, s, f)
                \/ \E r \in Closable(store, s, kinds, found) : c = Resolve(r)
           /\ \A r \in Closable(store, s, kinds, found) :
                Resolve(r) \in ToSet(Changed(store, s, kinds, found))
<1> DEFINE C == Closable(store, s, kinds, found)
           closed == SetToSeq(C)
           wanted == [i \in DOMAIN found |-> Updated(store, s, found[i])]
           a == KeepOnly(wanted, ToSet(wanted) \ store)
           b == [i \in DOMAIN closed |-> [closed[i] EXCEPT !.status = "resolved"]]
<1>1. C \subseteq store /\ IsFiniteSet(C) /\ C \subseteq ViolationRecord
  <2>1. C \in SUBSET store
    BY DEF Closable
  <2> QED
    BY <2>1, FS_Subset DEF StoreOK, Store
<1>2. Distinct(closed) /\ ToSet(closed) = C
  BY <1>1, SomeOrder
<1>3. /\ DOMAIN found = 1 .. Len(found) /\ Len(found) \in Nat
      /\ \A i \in DOMAIN found : found[i] \in FindingType /\ found[i] \in ToSet(found)
  BY DEF ToSet
<1>4. /\ wanted \in Seq(ViolationRecord)
      /\ \A c \in ToSet(wanted) : \E f \in ToSet(found) : c = Updated(store, s, f)
  <2>1. \A i \in DOMAIN found : Updated(store, s, found[i]) \in ViolationRecord
    BY <1>3, UpdatedIs DEF StoreOK
  <2>2. wanted \in Seq(ViolationRecord)
    BY <1>3, <2>1
  <2>3. ToSet(wanted) = {wanted[i] : i \in DOMAIN found}
    BY DEF ToSet
  <2> QED
    BY <1>3, <2>2, <2>3
<1>5. Changed(store, s, kinds, found) = a \o b
  BY DEF Changed
<1> HIDE DEF wanted
<1>6. a \in Seq(ViolationRecord) /\ ToSet(a) \subseteq ToSet(wanted)
  BY <1>4, KeepOnlyMembers
<1> HIDE DEF a, closed, C
<1>7. /\ DOMAIN closed = 1 .. Len(closed) /\ Len(closed) \in Nat
      /\ \A i \in 1 .. Len(closed) : closed[i] \in C
      /\ \A r \in C : \E i \in 1 .. Len(closed) : closed[i] = r
  BY <1>2, DistinctDomain
<1>8. /\ b \in Seq(ViolationRecord) /\ DOMAIN b = DOMAIN closed
      /\ \A i \in DOMAIN closed : b[i] = Resolve(closed[i])
  <2>1. \A i \in DOMAIN closed : b[i] = Resolve(closed[i])
    BY DEF Resolve
  <2>2. \A i \in DOMAIN closed : Resolve(closed[i]) \in ViolationRecord
    BY <1>1, <1>7, ResolveIs
  <2>3. b = [i \in 1 .. Len(closed) |-> b[i]] /\ \A i \in 1 .. Len(closed) : b[i] \in ViolationRecord
    BY <1>7, <2>1, <2>2
  <2> HIDE DEF b
  <2>4. b \in Seq(ViolationRecord)
    BY <1>7, <2>3
  <2>5. DOMAIN b = DOMAIN closed
    BY <1>7, <2>3
  <2> QED
    BY <2>1, <2>4, <2>5
<1> HIDE DEF b
<1>9. ToSet(b) = {Resolve(r) : r \in C}
  <2>1. \A c \in ToSet(b) : \E i \in DOMAIN b : b[i] = c
    BY <1>8, Members
  <2>2. \A i \in DOMAIN b : b[i] \in ToSet(b)
    BY DEF ToSet
  <2>3. ASSUME NEW c \in ToSet(b) PROVE c \in {Resolve(r) : r \in C}
    BY <1>7, <1>8, <2>1
  <2>4. ASSUME NEW r \in C PROVE Resolve(r) \in ToSet(b)
    BY <1>7, <1>8, <2>2
  <2> QED
    BY <2>3, <2>4
<1>10. a \o b \in Seq(ViolationRecord) /\ ToSet(a \o b) = ToSet(a) \cup ToSet(b)
  BY <1>6, <1>8, JoinedMembers
<1> QED
  BY <1>4, <1>5, <1>6, <1>9, <1>10 DEF C

\* Writing them keeps one record per finding; what stays of the store is what
\* no write of the run was about, once all of them went through.
LEMMA Written ==
    ASSUME NEW store, StoreOK(store), NEW changed \in Seq(ViolationRecord)
    PROVE  LET w == WriteAll(store, changed)
           IN  /\ StoreOK(w.store) /\ w.ok \in BOOLEAN
               /\ \A q \in w.store :
                    \/ q \in ToSet(changed)
                    \/ q \in store /\ (w.ok => \A c \in ToSet(changed) : Identity(c) # Identity(q))
<1> DEFINE Clash(i) == \E r \in store \cup {changed[j] : j \in 1..(i - 1)} :
                        Identity(r) # Identity(changed[i]) /\ SameId(r, changed[i])
           done == {i \in DOMAIN changed : \A j \in 1..i : ~Clash(j)}
           Final(i) == \A j \in done : j > i => Identity(changed[j]) # Identity(changed[i])
           left == {r \in store : \A i \in done : Identity(r) # Identity(changed[i])}
           last == {changed[i] : i \in {j \in done : Final(j)}}
           w == WriteAll(store, changed)
<1>1. w.ok = (done = DOMAIN changed) /\ w.store = left \cup last
  BY DEF WriteAll
<1>2. done \subseteq DOMAIN changed
  OBVIOUS
<1> HIDE DEF w, done
<1>3. /\ DOMAIN changed = 1 .. Len(changed) /\ Len(changed) \in Nat
      /\ \A i \in DOMAIN changed : changed[i] \in ViolationRecord /\ changed[i] \in ToSet(changed)
      /\ ToSet(changed) \subseteq ViolationRecord /\ IsFiniteSet(ToSet(changed))
      /\ \A c \in ToSet(changed) : \E i \in DOMAIN changed : changed[i] = c
  <2>1. \A i \in DOMAIN changed : changed[i] \in ViolationRecord /\ changed[i] \in ToSet(changed)
    BY DEF ToSet
  <2> QED
    BY <2>1, Members
<1>4. last \subseteq ToSet(changed) /\ left \subseteq store
  BY <1>2, <1>3
<1>5. IsFiniteSet(w.store)
  <2>1. IsFiniteSet(last) /\ IsFiniteSet(left)
    <3> HIDE DEF last, left
    <3> QED
      BY <1>3, <1>4, FS_Subset DEF StoreOK
  <2>2. w.store = left \cup last
    BY <1>1
  <2> HIDE DEF last, left
  <2>3. IsFiniteSet(left \cup last)
    BY <2>1, FS_Union
  <2> QED
    BY <2>2, <2>3
<1>6. w.store \subseteq ViolationRecord
  BY <1>1, <1>3, <1>4 DEF StoreOK, Store
<1>7. ASSUME NEW r \in w.store, NEW q \in w.store, Identity(r) = Identity(q) PROVE r = q
  <2>1. CASE r \in left /\ q \in left
    BY <1>4, <1>7, <2>1 DEF StoreOK, Store
  <2>2. CASE r \in left /\ q \in last
    BY <1>7, <2>2
  <2>3. CASE r \in last /\ q \in left
    BY <1>7, <2>3
  <2>4. CASE r \in last /\ q \in last
    <3>1. PICK i \in done : Final(i) /\ r = changed[i]
      BY <2>4
    <3>2. PICK j \in done : Final(j) /\ q = changed[j]
      BY <2>4
    <3>3. i \in Nat /\ j \in Nat
      BY <1>2, <1>3
    <3>4. ~(i < j) /\ ~(j < i)
      BY <1>7, <3>1, <3>2, <3>3
    <3> QED
      BY <3>1, <3>2, <3>3, <3>4
  <2> QED
    BY <1>1, <1>7, <2>1, <2>2, <2>3, <2>4
<1>8. ASSUME NEW q \in w.store, q \notin ToSet(changed)
      PROVE  q \in store /\ (w.ok => \A c \in ToSet(changed) : Identity(c) # Identity(q))
  <2>1. q \in left
    BY <1>1, <1>4, <1>8
  <2>2. ASSUME w.ok, NEW c \in ToSet(changed) PROVE Identity(c) # Identity(q)
    <3>1. PICK i \in DOMAIN changed : changed[i] = c
      BY <1>3
    <3>2. i \in done
      BY <1>1, <2>2
    <3> QED
      BY <2>1, <3>1, <3>2
  <2> QED
    BY <2>1, <2>2
<1> QED
  BY <1>1, <1>5, <1>6, <1>7, <1>8 DEF StoreOK, Store, w

----
(* The type invariant, strengthened so that it is inductive.               *)

RemovalType ==
    [kind : {"rule", "object"}, name : Requests \cup Strangers \cup Objects, live : BOOLEAN]

Tree == [Scopes -> SUBSET Requests]

GitOK == declared \in Tree /\ applied \in Tree

RulesOK(rb) == rb = [s \in Scopes |-> rb[s]] /\ \A s \in Scopes : RowsOK(rb[s])

ScmOK ==
    /\ RulesOK(rulebase)
    /\ objects \in [Scopes -> SUBSET Objects]
    /\ zones \in [Scopes -> SUBSET [name : Zones, same : BOOLEAN]]

RecordsOK ==
    /\ StoreOK(main) /\ StoreOK(ws)
    /\ pr = <<>> \/ \E S : StoreOK(S) /\ pr = <<S>>

JobOK ==
    /\ base.declared \in Tree
    /\ base = [declared |-> base.declared, recs |-> base.recs]
    /\ pc \in {"drift due", "plan", "rules", "state", "objects", "land",
               "remediate due", "read", "delete", "restore due", "day over"}
    /\ at \in 1 .. Len(Roots) /\ red \in BOOLEAN
    /\ queue \in Seq(RemovalType)

TInv == GitOK /\ ScmOK /\ RecordsOK /\ JobOK

\* A folder as declared has rows that are named once.
LEMMA CleanRows ==
    ASSUME NEW s, declared[s] \in SUBSET Requests
    PROVE  RowsOK(Clean(s))
<1> DEFINE names == Expected(declared[s])
           rows == [i \in DOMAIN names |-> Good(names[i])]
<1>1. Distinct(names) /\ ToSet(names) = declared[s]
  BY ExpectedIs
<1> HIDE DEF names
<1>2. /\ DOMAIN names = 1 .. Len(names) /\ Len(names) \in Nat
      /\ \A i \in 1 .. Len(names) : names[i] \in Requests
      /\ \A i, j \in 1 .. Len(names) : names[i] = names[j] => i = j
  BY <1>1, DistinctDomain
<1>3. \A i \in 1 .. Len(names) : rows[i] \in Row /\ rows[i].name = names[i]
  BY <1>2, RowsOfApply
<1>4. rows \in Seq(Row) /\ Len(rows) = Len(names)
  BY <1>2, <1>3
<1> HIDE DEF rows
<1>5. RowsOK(rows)
  BY <1>2, <1>3, <1>4, NamedOnceIs
<1> QED
  BY <1>5 DEF Clean, rows, names

\* The zones an apply leaves are zones.
LEMMA ZonesOK ==
    \A s \in Scopes : {[name |-> z, same |-> TRUE] : z \in DeclaredZones[s]}
                      \in SUBSET [name : Zones, same : BOOLEAN]
<1> SUFFICES ASSUME NEW s \in Scopes
             PROVE  \A z \in DeclaredZones[s] : [name |-> z, same |-> TRUE] \in [name : Zones, same : BOOLEAN]
  BY Zenon
<1>1. DeclaredZones[s] \in SUBSET Zones
  BY ZoneSets
<1> QED
  BY <1>1

\* The initial states are typed.
LEMMA InitTInv == Init => TInv
<1> SUFFICES ASSUME Init PROVE TInv
  OBVIOUS
<1>1. GitOK
  BY TreesDeclareOnce DEF Init, GitOK, Tree
<1>2. RulesOK(rulebase)
  <2>1. rulebase = [s \in Scopes |-> rulebase[s]] /\ \A s \in Scopes : rulebase[s] = Clean(s)
    BY DEF Init
  <2>2. \A s \in Scopes : declared[s] \in SUBSET Requests
    BY <1>1 DEF GitOK, Tree
  <2>3. \A s \in Scopes : RowsOK(rulebase[s])
    BY <2>1, <2>2, CleanRows
  <2> QED
    BY <2>1, <2>3 DEF RulesOK
<1>3. ScmOK
  <2>1. /\ objects = [s \in Scopes |-> Snippet \cup Elsewhere \cup Minted]
        /\ zones = [s \in Scopes |-> {[name |-> z, same |-> TRUE] : z \in DeclaredZones[s]}]
    BY DEF Init
  <2>2. objects \in [Scopes -> SUBSET Objects]
    BY <2>1, ObjectSets
  <2>3. \A s \in Scopes : {[name |-> z, same |-> TRUE] : z \in DeclaredZones[s]}
                            \in SUBSET [name : Zones, same : BOOLEAN]
    BY ZonesOK
  <2>4. zones \in [Scopes -> SUBSET [name : Zones, same : BOOLEAN]]
    BY <2>1, <2>3
  <2> QED
    BY <1>2, <2>2, <2>4 DEF ScmOK
<1>4. StoreOK({})
  BY FS_EmptySet DEF StoreOK, Store
<1>5. RecordsOK
  BY <1>4 DEF Init, RecordsOK
<1>6. JobOK
  <2>1. /\ base = [declared |-> declared, recs |-> {}]
        /\ pc = "drift due" /\ at = 1 /\ red = FALSE /\ queue = <<>>
    BY DEF Init
  <2>2. queue \in Seq(RemovalType)
    <3>1. queue = <<>>
      BY <2>1
    <3>2. \A T : <<>> \in Seq(T)
      OBVIOUS
    <3> QED
      BY <3>1, <3>2
  <2>3. base.declared \in Tree /\ base = [declared |-> base.declared, recs |-> base.recs]
    BY <1>1, <2>1 DEF GitOK
  <2>4. at \in 1 .. Len(Roots) /\ red \in BOOLEAN
    BY <2>1, Constants
  <2> QED
    BY <2>1, <2>2, <2>3, <2>4 DEF JobOK
<1> QED
  BY <1>1, <1>3, <1>5, <1>6 DEF TInv

\* Changing one folder's rulebase.
LEMMA OneFolder ==
    ASSUME NEW s \in Scopes, RulesOK(rulebase), NEW rows, RowsOK(rows)
    PROVE  RulesOK([rulebase EXCEPT ![s] = rows])
BY DEF RulesOK

\* Queued removals keep their kind and name.
LEMMA Forgotten ==
    ASSUME NEW q \in Seq(RemovalType), NEW gone
    PROVE  /\ Forget(q, gone) \in Seq(RemovalType) /\ Len(Forget(q, gone)) = Len(q)
           /\ \A i \in DOMAIN q : /\ Forget(q, gone)[i].kind = q[i].kind
                                  /\ Forget(q, gone)[i].name = q[i].name
<1> DEFINE out == Forget(q, gone)
<1>1. DOMAIN q = 1 .. Len(q) /\ Len(q) \in Nat /\ \A i \in DOMAIN q : q[i] \in RemovalType
  OBVIOUS
<1>2. out = [i \in 1 .. Len(q) |-> IF q[i].kind = "rule" /\ q[i].name \in gone
                                   THEN [q[i] EXCEPT !.live = FALSE] ELSE q[i]]
  BY <1>1 DEF Forget
<1> HIDE DEF out
<1>3. \A i \in 1 .. Len(q) :
        out[i] \in RemovalType /\ out[i].kind = q[i].kind /\ out[i].name = q[i].name
  BY <1>1, <1>2 DEF RemovalType
<1>4. out \in Seq(RemovalType) /\ Len(out) = Len(q)
  BY <1>1, <1>2, <1>3
<1> QED
  BY <1>1, <1>3, <1>4 DEF out

\* An apply keeps the state well formed.
LEMMA ReassertTInv ==
    ASSUME TInv, Reassert
    PROVE  GitOK' /\ ScmOK' /\ queue' \in Seq(RemovalType)
<1>1. GitOK'
  BY DEF Reassert, GitOK, TInv
<1>2. RulesOK(rulebase')
  <2>1. \A s \in Scopes : RowsOK(Restored(s))
    BY RestoredRows DEF TInv, ScmOK, RulesOK, GitOK, Tree
  <2>2. rulebase' = [s \in Scopes |-> Restored(s)]
    BY DEF Reassert
  <2> QED
    BY <2>1, <2>2 DEF RulesOK
<1>3. zones' \in [Scopes -> SUBSET [name : Zones, same : BOOLEAN]]
  <2> DEFINE asserted == [s \in Scopes |->
                 {z \in zones[s] : z.name \notin DeclaredZones[s]}
                 \cup {[name |-> z, same |-> TRUE] : z \in DeclaredZones[s]}]
  <2>1. ASSUME NEW s \in Scopes PROVE asserted[s] \in SUBSET [name : Zones, same : BOOLEAN]
    <3>1. zones[s] \in SUBSET [name : Zones, same : BOOLEAN] /\ DeclaredZones[s] \in SUBSET Zones
      BY ZoneSets DEF TInv, ScmOK
    <3>2. {[name |-> z, same |-> TRUE] : z \in DeclaredZones[s]} \in SUBSET [name : Zones, same : BOOLEAN]
      BY ZonesOK
    <3>3. {z \in zones[s] : z.name \notin DeclaredZones[s]} \in SUBSET [name : Zones, same : BOOLEAN]
      BY <3>1
    <3> QED
      BY <3>2, <3>3
  <2>2. zones' = asserted
    BY DEF Reassert
  <2>3. asserted = [s \in Scopes |-> asserted[s]]
    OBVIOUS
  <2> HIDE DEF asserted
  <2> QED
    BY <2>1, <2>2, <2>3
<1>4. queue' \in Seq(RemovalType)
  BY Forgotten DEF Reassert, TInv, JobOK
<1> QED
  BY <1>1, <1>2, <1>3, <1>4 DEF Reassert, ScmOK, TInv

\* The moves from a step's folder to the next, or to the next step.
LEMMA NextRootOK ==
    ASSUME JobOK, NEW step \in {"rules", "state", "objects", "land"}, NextRoot(step)
    PROVE  at' \in 1 .. Len(Roots) /\ pc' \in {pc, step}
<1>1. at \in 1 .. Len(Roots) /\ Len(Roots) \in Nat /\ 1 \in 1 .. Len(Roots)
  BY Constants DEF JobOK
<1>2. CASE at < Len(Roots)
  <2>1. at' = at + 1 /\ pc' = pc
    BY <1>2 DEF NextRoot
  <2> QED
    BY <1>1, <1>2, <2>1
<1>3. CASE ~(at < Len(Roots))
  BY <1>1, <1>3 DEF NextRoot, Goto
<1> QED
  BY <1>2, <1>3

\* So does writing the findings of a folder.
LEMMA RecordTInv ==
    ASSUME TInv, NEW kinds, NEW found \in Seq(FindingType), NEW step \in {"state", "land"},
           Record(kinds, found, step)
    PROVE  /\ StoreOK(ws') /\ red' \in BOOLEAN
           /\ at' \in 1 .. Len(Roots) /\ pc' \in {pc, step, "land"}
<1> DEFINE changed == Changed(ws, Here, kinds, found)
           done == WriteAll(ws, changed)
<1>1. /\ ws' = done.store /\ red' = (red \/ found # <<>> \/ ~done.ok)
      /\ IF done.ok THEN NextRoot(step) ELSE Goto("land")
  BY DEF Record
<1>2. Here \in Scopes
  BY Constants DEF Here, TInv, JobOK
<1>3. changed \in Seq(ViolationRecord)
  BY <1>2, ChangedAre DEF TInv, RecordsOK
<1> HIDE DEF changed
<1>4. StoreOK(done.store) /\ done.ok \in BOOLEAN
  BY <1>3, Written DEF TInv, RecordsOK
<1> HIDE DEF done
<1>5. at' \in 1 .. Len(Roots) /\ pc' \in {pc, step, "land"}
  BY <1>1, NextRootOK, Constants DEF TInv, Goto
<1> QED
  BY <1>1, <1>4, <1>5 DEF TInv, JobOK

\* The turn of the day keeps one record per finding;
LEMMA AgedOK == ASSUME NEW S, StoreOK(S) PROVE StoreOK(Aged(S))
<1> DEFINE old(r) == [r EXCEPT !.first = "before"]
           f == [r \in S |-> old(r)]
<1>1. \A r \in S : old(r) \in ViolationRecord /\ Identity(old(r)) = Identity(r)
  BY DEF StoreOK, Store, ViolationRecord, Identity
<1>2. Aged(S) = {old(r) : r \in S}
  BY DEF Aged
<1> HIDE DEF old
<1>3. Store(Aged(S))
  BY <1>1, <1>2 DEF StoreOK, Store
<1>4. f \in Surjection(S, Aged(S))
  BY <1>2 DEF Surjection
<1> HIDE DEF f
<1>5. IsFiniteSet(Aged(S))
  BY <1>4, FS_Surjection DEF StoreOK
<1> QED
  BY <1>3, <1>5 DEF StoreOK

\* so does landing the checkout on main.
LEMMA LandedOK == ASSUME RecordsOK PROVE StoreOK(Landed)
<1> DEFINE rest == {r \in main : \A q \in ws : Identity(q) # Identity(r)}
<1>1. Landed = rest \cup ws
  BY DEF Landed
<1>2. rest \subseteq main /\ \A r \in rest : \A q \in ws : Identity(q) # Identity(r)
  OBVIOUS
<1> HIDE DEF rest
<1>3. IsFiniteSet(rest)
  BY <1>2, FS_Subset DEF RecordsOK, StoreOK
<1>4. IsFiniteSet(rest \cup ws)
  BY <1>3, FS_Union DEF RecordsOK, StoreOK
<1>5. Store(rest \cup ws)
  BY <1>2 DEF RecordsOK, StoreOK, Store
<1> QED
  BY <1>1, <1>4, <1>5 DEF StoreOK

\* No removal names a rule that git declares anywhere.
LEMMA RemovalsOK ==
    ASSUME TInv, NEW s \in Scopes, NEW tree
    PROVE  /\ Removals(s, tree) \in Seq(RemovalType)
           /\ \A i \in DOMAIN Removals(s, tree) :
                Removals(s, tree)[i].kind = "rule" =>
                    Removals(s, tree)[i].name \notin DeclaredAnywhere(tree)
<1> DEFINE some == {r \in ToSet(rulebase[s]) :
                      TagClass(r, tree[s]) # "ours" /\ r.name \notin DeclaredAnywhere(tree)}
           drifted == KeepOnly(rulebase[s], some)
           handmade == SetToSeq(Unaccounted(s))
           a == [i \in DOMAIN drifted |-> Removal("rule", drifted[i].name)]
           b == [i \in DOMAIN handmade |-> Removal("object", handmade[i])]
           Spared(q) == \A i \in DOMAIN q : q[i].kind = "rule" => q[i].name \notin DeclaredAnywhere(tree)
<1>1. Removals(s, tree) = a \o b
  BY DEF Removals
<1>2. RowsOK(drifted) /\ ToSet(drifted) = ToSet(rulebase[s]) \cap some
  BY KeptRows DEF TInv, ScmOK, RulesOK
<1>3. \A r \in ToSet(drifted) : r.name \notin DeclaredAnywhere(tree)
  BY <1>2
<1> HIDE DEF drifted
<1>4. /\ DOMAIN drifted = 1 .. Len(drifted) /\ Len(drifted) \in Nat
      /\ \A i \in DOMAIN drifted : drifted[i] \in Row /\ drifted[i] \in ToSet(drifted)
  BY <1>2, NamedOnce
<1>5. a \in Seq(RemovalType) /\ Spared(a)
  <2>1. \A i \in DOMAIN drifted : drifted[i].name \in Requests \cup Strangers
    BY <1>4 DEF Row
  <2>2. a = [i \in 1 .. Len(drifted) |-> a[i]]
    BY <1>4
  <2>3. \A i \in DOMAIN drifted : a[i] \in RemovalType /\ a[i].name = drifted[i].name
    BY <2>1 DEF Removal, RemovalType
  <2> HIDE DEF a
  <2>4. a \in Seq(RemovalType)
    BY <1>4, <2>2, <2>3
  <2>5. DOMAIN a = DOMAIN drifted
    BY <1>4, <2>2
  <2> QED
    BY <1>3, <1>4, <2>3, <2>4, <2>5
<1>6. Distinct(handmade) /\ ToSet(handmade) \subseteq Objects
  <2>1. Unaccounted(s) \in SUBSET Objects
    BY DEF Unaccounted, TInv, ScmOK
  <2>2. IsFiniteSet(Unaccounted(s))
    BY <2>1, ObjectSets, FS_Subset
  <2> QED
    BY <2>1, <2>2, SomeOrder
<1> HIDE DEF handmade
<1>7. b \in Seq(RemovalType) /\ Spared(b)
  <2>1. DOMAIN handmade = 1 .. Len(handmade) /\ Len(handmade) \in Nat /\ \A i \in DOMAIN handmade : handmade[i] \in Objects
    BY <1>6, DistinctDomain
  <2>2. b = [i \in 1 .. Len(handmade) |-> b[i]]
    BY <2>1
  <2>3. \A i \in DOMAIN handmade : b[i] \in RemovalType /\ b[i].kind = "object"
    BY <2>1 DEF Removal, RemovalType
  <2> HIDE DEF b
  <2>4. b \in Seq(RemovalType)
    BY <2>1, <2>2, <2>3
  <2>5. DOMAIN b = DOMAIN handmade
    BY <2>1, <2>2
  <2> QED
    BY <2>3, <2>4, <2>5
<1> HIDE DEF a, b
<1>8. a \o b \in Seq(RemovalType) /\ Spared(a \o b)
  <2> DEFINE v == a \o b
  <2>1. v \in Seq(RemovalType) /\ ToSet(v) = ToSet(a) \cup ToSet(b)
    BY <1>5, <1>7, JoinedMembers
  <2> HIDE DEF v
  <2>2. \A i \in DOMAIN v : v[i] \in ToSet(a) \/ v[i] \in ToSet(b)
    BY <2>1 DEF ToSet
  <2>3. \A c \in ToSet(a) : c.kind = "rule" => c.name \notin DeclaredAnywhere(tree)
    BY <1>5, Members
  <2>4. \A c \in ToSet(b) : c.kind = "rule" => c.name \notin DeclaredAnywhere(tree)
    BY <1>7, Members
  <2> QED
    BY <2>1, <2>2, <2>3, <2>4 DEF v
<1> QED
  BY <1>1, <1>8

\* A rulebase of which one folder changed, the rest of SCM as it was.
LEMMA OneFolderOK ==
    ASSUME TInv, NEW s \in Scopes, NEW rows, RowsOK(rows),
           rulebase' = [rulebase EXCEPT ![s] = rows], UNCHANGED <<objects, zones>>
    PROVE  ScmOK'
<1> DEFINE rb == [rulebase EXCEPT ![s] = rows]
<1>1. RulesOK(rb)
  BY OneFolder DEF TInv, ScmOK
<1>2. rulebase' = rb
  OBVIOUS
<1> HIDE DEF rb
<1> QED
  BY <1>1, <1>2 DEF TInv, ScmOK

\* What people do in the console keeps the types.
LEMMA ConsoleTInv ==
    ASSUME TInv, Console
    PROVE  ScmOK' /\ queue' \in Seq(RemovalType) /\ UNCHANGED Outside
<1>1. PICK s \in Scopes :
        \/ \E n \in Requests \cup Strangers, tag \in Tags : ConsoleAddRule(s, n, tag)
        \/ \E i \in 1 .. Len(rulebase[s]) :
             \/ \E tag \in Tags : ConsoleEditRule(s, i, tag)
             \/ ConsoleSetUndeclared(s, i)
             \/ ConsoleDeleteRule(s, i)
             \/ ConsoleMoveTop(s, i)
        \/ \E o \in Handmade : ConsoleAddObject(s, o)
        \/ \E z \in Zones : ConsoleSetZone(s, z)
  BY DEF Console
<1>2. RowsOK(rulebase[s]) /\ queue \in Seq(RemovalType)
  BY DEF TInv, ScmOK, RulesOK, JobOK
<1>3. ASSUME NEW n \in Requests \cup Strangers, NEW tag \in Tags, ConsoleAddRule(s, n, tag)
      PROVE  ScmOK' /\ queue' \in Seq(RemovalType) /\ UNCHANGED Outside
  <2> DEFINE r == [name |-> n, tag |-> tag, content |-> "edited", extra |-> FALSE]
             rows == Append(rulebase[s], r)
  <2>1. /\ RowsNamed(rulebase[s], n) = {}
        /\ rulebase' = [rulebase EXCEPT ![s] = rows] /\ UNCHANGED <<objects, zones>>
        /\ queue' = queue /\ UNCHANGED Outside
    BY <1>3 DEF ConsoleAddRule
  <2>2. r \in Row /\ r.name = n
    BY DEF Row
  <2>3. RowsOK(rows)
    BY <1>2, <2>1, <2>2, AddedRow
  <2> HIDE DEF rows
  <2>4. ScmOK'
    BY <2>1, <2>3, OneFolderOK
  <2> QED
    BY <1>2, <2>1, <2>4
<1>4. ASSUME NEW i \in DOMAIN rulebase[s], NEW new \in Row, new.name = rulebase[s][i].name,
             rulebase' = [rulebase EXCEPT ![s][i] = new], UNCHANGED <<Outside, objects, zones, queue>>
      PROVE  ScmOK' /\ queue' \in Seq(RemovalType) /\ UNCHANGED Outside
  <2> DEFINE rows == [rulebase[s] EXCEPT ![i] = new]
  <2>1. RowsOK(rows)
    BY <1>2, <1>4, EditedRow
  <2>2. rulebase' = [rulebase EXCEPT ![s] = rows]
    BY <1>4 DEF TInv, ScmOK, RulesOK
  <2> HIDE DEF rows
  <2>3. ScmOK'
    BY <1>4, <2>1, <2>2, OneFolderOK
  <2> QED
    BY <1>2, <1>4, <2>3
<1>5. ASSUME NEW i \in 1 .. Len(rulebase[s]), NEW tag \in Tags, ConsoleEditRule(s, i, tag)
      PROVE  ScmOK' /\ queue' \in Seq(RemovalType) /\ UNCHANGED Outside
  <2> DEFINE new == [rulebase[s][i] EXCEPT !.content = "edited", !.tag = tag]
  <2>1. rulebase[s][i] \in Row /\ i \in DOMAIN rulebase[s]
    BY <1>2, NamedOnce
  <2>2. new \in Row /\ new.name = rulebase[s][i].name
    BY ZenonT(60), <2>1 DEF Row
  <2>3. rulebase' = [rulebase EXCEPT ![s][i] = new] /\ UNCHANGED <<Outside, objects, zones, queue>>
    BY <1>5 DEF ConsoleEditRule
  <2> HIDE DEF new
  <2> QED
    BY <1>4, <2>1, <2>2, <2>3
<1>6. ASSUME NEW i \in 1 .. Len(rulebase[s]), ConsoleSetUndeclared(s, i)
      PROVE  ScmOK' /\ queue' \in Seq(RemovalType) /\ UNCHANGED Outside
  <2> DEFINE new == [rulebase[s][i] EXCEPT !.extra = TRUE]
  <2>1. rulebase[s][i] \in Row /\ i \in DOMAIN rulebase[s]
    BY <1>2, NamedOnce
  <2>2. new \in Row /\ new.name = rulebase[s][i].name
    BY ZenonT(60), <2>1 DEF Row
  <2>3. rulebase' = [rulebase EXCEPT ![s][i] = new] /\ UNCHANGED <<Outside, objects, zones, queue>>
    BY <1>6 DEF ConsoleSetUndeclared
  <2> HIDE DEF new
  <2> QED
    BY <1>4, <2>1, <2>2, <2>3
<1>7. ASSUME NEW i \in 1 .. Len(rulebase[s]), ConsoleDeleteRule(s, i)
      PROVE  ScmOK' /\ queue' \in Seq(RemovalType) /\ UNCHANGED Outside
  <2> DEFINE rows == RemoveAt(rulebase[s], i)
  <2>1. /\ i \in DOMAIN rulebase[s]
        /\ rulebase' = [rulebase EXCEPT ![s] = rows]
        /\ queue' = IF s = Here THEN Forget(queue, {rulebase[s][i].name}) ELSE queue
        /\ UNCHANGED <<objects, zones>> /\ UNCHANGED Outside
    BY <1>7 DEF ConsoleDeleteRule
  <2>2. RowsOK(rows)
    BY <1>2, <2>1, RemovedRow
  <2> HIDE DEF rows
  <2>3. ScmOK'
    BY <2>1, <2>2, OneFolderOK
  <2>4. queue' \in Seq(RemovalType)
    BY <1>2, <2>1, Forgotten
  <2> QED
    BY <2>1, <2>3, <2>4
<1>8. ASSUME NEW i \in 1 .. Len(rulebase[s]), ConsoleMoveTop(s, i)
      PROVE  ScmOK' /\ queue' \in Seq(RemovalType) /\ UNCHANGED Outside
  <2> DEFINE rows == MoveTop(rulebase[s], rulebase[s][i])
  <2>1. /\ i \in DOMAIN rulebase[s]
        /\ rulebase' = [rulebase EXCEPT ![s] = rows]
        /\ UNCHANGED <<objects, zones>> /\ queue' = queue /\ UNCHANGED Outside
    BY <1>8 DEF ConsoleMoveTop
  <2>2. RowsOK(rows)
    BY <1>2, <2>1, RaisedRow
  <2> HIDE DEF rows
  <2>3. ScmOK'
    BY <2>1, <2>2, OneFolderOK
  <2> QED
    BY <1>2, <2>1, <2>3
<1>9. ASSUME NEW o \in Handmade, ConsoleAddObject(s, o)
      PROVE  ScmOK' /\ queue' \in Seq(RemovalType) /\ UNCHANGED Outside
  <2>1. /\ objects' = [objects EXCEPT ![s] = @ \cup {o}] /\ UNCHANGED <<rulebase, zones>>
        /\ queue' = queue /\ UNCHANGED Outside
    BY <1>9 DEF ConsoleAddObject
  <2>2. objects' \in [Scopes -> SUBSET Objects]
    BY <2>1 DEF TInv, ScmOK, Handmade
  <2> QED
    BY <1>2, <2>1, <2>2 DEF TInv, ScmOK
<1>10. ASSUME NEW z \in Zones, ConsoleSetZone(s, z)
       PROVE  ScmOK' /\ queue' \in Seq(RemovalType) /\ UNCHANGED Outside
  <2> DEFINE ZoneType == [name : Zones, same : BOOLEAN]
  <2>1. PICK now \in {{}, {[name |-> z, same |-> FALSE]}} :
          zones' = [zones EXCEPT ![s] = {y \in @ : y.name # z} \cup now]
    BY <1>10 DEF ConsoleSetZone
  <2>2. UNCHANGED <<rulebase, objects>> /\ queue' = queue /\ UNCHANGED Outside
    BY <1>10 DEF ConsoleSetZone
  <2>3. [name |-> z, same |-> FALSE] \in ZoneType
    OBVIOUS
  <2>4. zones \in [Scopes -> SUBSET ZoneType]
    BY DEF TInv, ScmOK
  <2> HIDE DEF ZoneType
  <2>5. zones' \in [Scopes -> SUBSET ZoneType]
    BY <2>1, <2>3, <2>4
  <2> QED
    BY <1>2, <2>2, <2>5 DEF TInv, ScmOK, ZoneType
<1> QED
  BY <1>1, <1>3, <1>5, <1>6, <1>7, <1>8, <1>9, <1>10

\* ... and of a remediation's queue it at most makes removals forget their id.
LEMMA ConsoleQueue ==
    ASSUME Console
    PROVE  queue' = queue \/ \E gone : queue' = Forget(queue, gone)
<1> SUFFICES ASSUME NEW s \in Scopes,
                    \/ \E n \in Requests \cup Strangers, tag \in Tags : ConsoleAddRule(s, n, tag)
                    \/ \E i \in 1 .. Len(rulebase[s]) :
                         \/ \E tag \in Tags : ConsoleEditRule(s, i, tag)
                         \/ ConsoleSetUndeclared(s, i)
                         \/ ConsoleDeleteRule(s, i)
                         \/ ConsoleMoveTop(s, i)
                    \/ \E o \in Handmade : ConsoleAddObject(s, o)
                    \/ \E z \in Zones : ConsoleSetZone(s, z)
             PROVE  queue' = queue \/ \E gone : queue' = Forget(queue, gone)
  BY DEF Console
<1>1. \A n, tag : ConsoleAddRule(s, n, tag) => queue' = queue
  BY DEF ConsoleAddRule
<1>2. \A i, tag : ConsoleEditRule(s, i, tag) => queue' = queue
  BY DEF ConsoleEditRule
<1>3. \A i : ConsoleSetUndeclared(s, i) \/ ConsoleMoveTop(s, i) => queue' = queue
  BY DEF ConsoleSetUndeclared, ConsoleMoveTop
<1>4. \A i : ConsoleDeleteRule(s, i) => queue' = queue \/ \E gone : queue' = Forget(queue, gone)
  BY DEF ConsoleDeleteRule
<1>5. \A o : ConsoleAddObject(s, o) \/ ConsoleSetZone(s, o) => queue' = queue
  BY DEF ConsoleAddObject, ConsoleSetZone
<1> QED
  BY <1>1, <1>2, <1>3, <1>4, <1>5

\* What is left of a queue.
LEMMA TailOK ==
    ASSUME NEW T, NEW q \in Seq(T), q # <<>>
    PROVE  /\ Tail(q) \in Seq(T) /\ Len(Tail(q)) = Len(q) - 1
           /\ Head(q) \in T /\ Head(q) = q[1] /\ 1 \in DOMAIN q
           /\ \A i \in DOMAIN Tail(q) : Tail(q)[i] = q[i + 1] /\ i + 1 \in DOMAIN q
OBVIOUS

\* The empty sequence is one of any type.
LEMMA EmptyIsSeq == \A T : <<>> \in Seq(T)
OBVIOUS

\* The invariant is inductive, one step per action.
LEMMA NextTInv == TInv /\ [Next]_vars => TInv'
<1> SUFFICES ASSUME TInv, [Next]_vars PROVE TInv'
  OBVIOUS
<1>0. Len(Roots) \in Nat /\ 1 \in 1 .. Len(Roots) /\ Here \in Scopes
  BY Constants DEF TInv, JobOK, Here
<1>1. CASE DriftStart
  BY <1>0, <1>1 DEF DriftStart, Goto, git, scm, TInv, GitOK, ScmOK, RecordsOK, JobOK
<1>2. CASE DriftError
  BY <1>0, <1>2 DEF DriftError, Goto, git, scm, records, TInv, GitOK, ScmOK, RecordsOK, JobOK
<1>3. CASE Plan
  <2>1. UNCHANGED <<git, scm, records, base, queue>> /\ red' \in BOOLEAN /\ pc = "plan"
    BY <1>3 DEF Plan, TInv, JobOK
  <2>2. at' \in 1 .. Len(Roots) /\ pc' \in {pc, "rules"}
    BY <1>3, NextRootOK DEF Plan, TInv
  <2> QED
    BY <2>1, <2>2 DEF git, scm, records, TInv, GitOK, ScmOK, RecordsOK, JobOK
<1>4. CASE RuleDrift
  <2> DEFINE found == RuleFindings(Here, rulebase[Here], base.declared[Here])
  <2>1. found \in Seq(FindingType)
    BY <1>0, RuleFindingsAre DEF TInv, ScmOK, RulesOK, JobOK, Tree
  <2>2. /\ Record(RuleKinds, found, "state") /\ pc = "rules"
        /\ UNCHANGED <<git, scm, main, pr, base, queue>>
    BY <1>4 DEF RuleDrift
  <2> HIDE DEF found
  <2>3. /\ StoreOK(ws') /\ red' \in BOOLEAN
        /\ at' \in 1 .. Len(Roots) /\ pc' \in {pc, "state", "land"}
    BY <2>1, <2>2, RecordTInv
  <2> QED
    BY <2>2, <2>3 DEF git, scm, TInv, GitOK, ScmOK, RecordsOK, JobOK
<1>5. CASE StateDrift
  <2>1. UNCHANGED <<git, scm, records, base, queue>> /\ red' \in BOOLEAN /\ pc = "state"
    BY <1>5 DEF StateDrift, TInv, JobOK
  <2>2. at' \in 1 .. Len(Roots) /\ pc' \in {pc, "objects"}
    BY <1>5, NextRootOK DEF StateDrift, TInv
  <2> QED
    BY <2>1, <2>2 DEF git, scm, records, TInv, GitOK, ScmOK, RecordsOK, JobOK
<1>6. CASE ObjectDrift
  <2> DEFINE found == ObjectFindings(Here)
  <2>1. found \in Seq(FindingType)
    BY <1>0, ObjectFindingsAre DEF TInv, ScmOK
  <2>2. /\ Record({"object"}, found, "land") /\ pc = "objects"
        /\ UNCHANGED <<git, scm, main, pr, base, queue>>
    BY <1>6 DEF ObjectDrift
  <2> HIDE DEF found
  <2>3. /\ StoreOK(ws') /\ red' \in BOOLEAN
        /\ at' \in 1 .. Len(Roots) /\ pc' \in {pc, "land"}
    BY <2>1, <2>2, RecordTInv
  <2> QED
    BY <2>2, <2>3 DEF git, scm, TInv, GitOK, ScmOK, RecordsOK, JobOK
<1>7. CASE Land
  <2>1. /\ pr' = (IF ws = base.recs \/ Landed = main THEN pr ELSE <<Landed>>)
        /\ ws' = {} /\ base' = [base EXCEPT !.recs = {}]
        /\ pc' = "remediate due" /\ at' = 1 /\ red' = FALSE
        /\ UNCHANGED <<git, scm, main, queue>>
    BY <1>7 DEF Land, Goto
  <2>2. StoreOK(Landed)
    BY LandedOK DEF TInv
  <2>3. StoreOK({})
    BY FS_EmptySet DEF StoreOK, Store
  <2>4. RecordsOK'
    BY <2>1, <2>2, <2>3 DEF TInv, RecordsOK
  <2>5. JobOK'
    BY <1>0, <2>1 DEF TInv, JobOK
  <2> QED
    BY <2>1, <2>4, <2>5 DEF git, scm, TInv, GitOK, ScmOK
<1>8. CASE MergeRecords
  <2>1. pr # <<>> /\ main' = Head(pr) /\ pr' = <<>> /\ UNCHANGED <<git, scm, ws, job>>
    BY <1>8 DEF MergeRecords
  <2>2. StoreOK(main')
    BY <2>1 DEF TInv, RecordsOK
  <2> QED
    BY <2>1, <2>2 DEF git, scm, job, TInv, GitOK, ScmOK, RecordsOK, JobOK
<1>9. CASE RemediateStart
  BY <1>0, <1>9 DEF RemediateStart, Goto, git, scm, records, TInv, GitOK, ScmOK, RecordsOK, JobOK
<1>10. CASE RemediateRead
  <2>1. queue' \in Seq(RemovalType)
    BY <1>0, <1>10, RemovalsOK DEF RemediateRead
  <2> QED
    BY <1>10, <2>1 DEF RemediateRead, git, scm, records, TInv, GitOK, ScmOK, RecordsOK, JobOK
<1>11. CASE Delete
  <2> DEFINE rem == Head(queue)
             rows == KeepOnly(rulebase[Here], ToSet(rulebase[Here]) \ RowsNamed(rulebase[Here], rem.name))
  <2>1. queue # <<>> /\ queue' = Tail(queue) /\ UNCHANGED <<git, zones, records, pc, at, base, red>>
    BY <1>11 DEF Delete
  <2>2. \/ rulebase' = [rulebase EXCEPT ![Here] = rows] /\ UNCHANGED <<objects, zones>>
        \/ /\ objects' = [objects EXCEPT ![Here] = IF Held(Here) THEN @ ELSE @ \ {rem.name}]
           /\ UNCHANGED rulebase
    BY <1>11 DEF Delete
  <2>3. RowsOK(rows)
    BY <1>0, KeptRows DEF TInv, ScmOK, RulesOK
  <2>4. ScmOK'
    <3>1. CASE rulebase' = [rulebase EXCEPT ![Here] = rows] /\ UNCHANGED <<objects, zones>>
      <4> HIDE DEF rows
      <4> QED
        BY <1>0, <2>3, <3>1, OneFolderOK
    <3>2. CASE /\ objects' = [objects EXCEPT ![Here] = IF Held(Here) THEN @ ELSE @ \ {rem.name}]
               /\ UNCHANGED rulebase
      <4>1. objects' \in [Scopes -> SUBSET Objects]
        BY <1>0, <3>2 DEF TInv, ScmOK
      <4> QED
        BY <2>1, <3>2, <4>1 DEF TInv, ScmOK
    <3> QED
      BY <2>2, <3>1, <3>2
  <2>5. queue' \in Seq(RemovalType)
    BY <2>1, TailOK DEF TInv, JobOK
  <2> QED
    BY <2>1, <2>4, <2>5 DEF git, records, TInv, GitOK, RecordsOK, JobOK
<1>12. CASE RemediateNext
  <2>1. at' \in 1 .. Len(Roots) /\ pc' \in {"read", "restore due"}
    <3>1. at \in 1 .. Len(Roots)
      BY DEF TInv, JobOK
    <3>2. CASE at < Len(Roots)
      <4>1. pc' = "read" /\ at' = at + 1
        BY <1>12, <3>2 DEF RemediateNext
      <4> QED
        BY <1>0, <3>1, <3>2, <4>1
    <3>3. CASE ~(at < Len(Roots))
      <4>1. pc' = "restore due" /\ at' = 1
        BY <1>12, <3>3 DEF RemediateNext, Goto
      <4> QED
        BY <1>0, <4>1
    <3> QED
      BY <3>2, <3>3
  <2> QED
    BY <1>12, <2>1 DEF RemediateNext, git, scm, records, TInv, GitOK, ScmOK, RecordsOK, JobOK
<1>13. CASE RemediateError
  <2>1. pc' = "day over" /\ at' = 1 /\ queue' = <<>> /\ UNCHANGED <<git, scm, records, base, red>>
    BY <1>13 DEF RemediateError, Goto
  <2>2. queue' \in Seq(RemovalType)
    BY <2>1, EmptyIsSeq
  <2> QED
    BY <1>0, <2>1, <2>2 DEF git, scm, records, TInv, GitOK, ScmOK, RecordsOK, JobOK
<1>14. ASSUME Reassert PROVE GitOK' /\ ScmOK' /\ queue' \in Seq(RemovalType)
  BY <1>14, ReassertTInv
<1>15. CASE Restore
  <2>1. pc' = "day over" /\ at' = 1 /\ UNCHANGED <<records, base, red>>
    BY <1>15 DEF Restore, Goto
  <2>2. GitOK' /\ ScmOK' /\ queue' \in Seq(RemovalType)
    BY <1>14, <1>15 DEF Restore, git, scm, TInv, GitOK, ScmOK, JobOK
  <2> QED
    BY <1>0, <2>1, <2>2 DEF records, TInv, RecordsOK, JobOK
<1>16. CASE RestoreFails
  BY <1>0, <1>16 DEF RestoreFails, Goto, git, scm, records, TInv, GitOK, ScmOK, RecordsOK, JobOK
<1>17. CASE NextDay
  <2>1. /\ main' = Aged(main) /\ pr' = [i \in DOMAIN pr |-> Aged(pr[i])]
        /\ pc' = "drift due" /\ at' = 1 /\ UNCHANGED <<git, scm, ws, base, red, queue>>
    BY <1>17 DEF NextDay, Goto
  <2>2. RecordsOK'
    <3>1. StoreOK(Aged(main)) /\ ws' = ws
      BY <2>1, AgedOK DEF TInv, RecordsOK
    <3>2. CASE pr = <<>>
      <4> DEFINE later == [i \in DOMAIN pr |-> Aged(pr[i])]
      <4>1. later = <<>>
        <5>1. DOMAIN pr = {}
          BY <3>2
        <5> QED
          BY <5>1
      <4>2. pr' = <<>> /\ main' = Aged(main)
        BY <2>1, <4>1
      <4> HIDE DEF later
      <4>3. StoreOK(main') /\ StoreOK(ws')
        BY <3>1, <4>2 DEF TInv, RecordsOK
      <4> QED
        BY <4>2, <4>3 DEF RecordsOK
    <3>3. CASE \E S : StoreOK(S) /\ pr = <<S>>
      <4>1. PICK S : StoreOK(S) /\ pr = <<S>>
        BY <3>3
      <4>2. DOMAIN pr = 1 .. 1 /\ pr[1] = S
        BY <4>1
      <4> DEFINE later == [i \in 1 .. 1 |-> Aged(pr[i])]
      <4>3. later = <<Aged(S)>>
        <5>1. DOMAIN later = 1 .. 1 /\ later[1] = Aged(S)
          BY <4>2
        <5> HIDE DEF later
        <5>2. later = [i \in 1 .. 1 |-> later[i]]
          BY DEF later
        <5> QED
          BY <5>1, <5>2
      <4>4. pr' = <<Aged(S)>>
        BY <2>1, <4>2, <4>3
      <4> QED
        BY <2>1, <3>1, <4>1, <4>4, AgedOK DEF TInv, RecordsOK
    <3> QED
      BY <3>2, <3>3 DEF TInv, RecordsOK
  <2>3. JobOK'
    BY <1>0, <2>1 DEF TInv, JobOK
  <2> QED
    BY <2>1, <2>2, <2>3 DEF git, scm, TInv, GitOK, ScmOK
<1>18. CASE Console
  <2>1. ScmOK' /\ queue' \in Seq(RemovalType) /\ UNCHANGED Outside
    BY <1>18, ConsoleTInv
  <2> QED
    BY <2>1 DEF Outside, git, records, TInv, GitOK, RecordsOK, JobOK
<1>19. CASE Dispatch
  BY <1>0, <1>19 DEF Dispatch, Goto, git, scm, records, TInv, GitOK, ScmOK, RecordsOK, JobOK
<1>20. CASE Apply
  BY <1>14, <1>20 DEF Apply, records, TInv, RecordsOK, JobOK
<1>21. ASSUME NEW s \in Scopes, NEW n \in Requests, MergeChange(s, n) PROVE TInv'
  <2>1. UNCHANGED <<applied, scm, records, job>>
    BY <1>21 DEF MergeChange
  <2>2. \/ declared' = [declared EXCEPT ![s] = @ \cup {n}]
        \/ declared' = [declared EXCEPT ![s] = @ \ {n}]
    BY <1>21 DEF MergeChange
  <2>3. declared' \in Tree
    BY <2>2 DEF TInv, GitOK, Tree
  <2> QED
    BY <2>1, <2>3 DEF scm, records, job, TInv, GitOK, ScmOK, RecordsOK, JobOK
<1>22. CASE UNCHANGED vars
  BY <1>22 DEF vars, TInv, GitOK, ScmOK, RecordsOK, JobOK
<1> QED
  BY <1>1, <1>2, <1>3, <1>4, <1>5, <1>6, <1>7, <1>8, <1>9, <1>10, <1>11, <1>12, <1>13, <1>15,
     <1>16, <1>17, <1>18, <1>19, <1>20, <1>21, <1>22 DEF Next, Night, Faults, People

\* The types the proofs keep imply those the run checks.
LEMMA TInvTypes == TInv => TypeOK
<1> SUFFICES ASSUME TInv PROVE TypeOK
  OBVIOUS
<1>1. /\ declared \in [Scopes -> SUBSET Requests] /\ applied \in [Scopes -> SUBSET Requests]
      /\ objects \in [Scopes -> SUBSET Objects]
      /\ at \in 1 .. Len(Roots) /\ red \in BOOLEAN
      /\ pc \in {"drift due", "plan", "rules", "state", "objects", "land",
                 "remediate due", "read", "delete", "restore due", "day over"}
  BY DEF TInv, GitOK, Tree, ScmOK, JobOK
<1>2. \A s \in Scopes : ToSet(rulebase[s]) \subseteq Row /\ IsInjective(NamesOf(rulebase[s]))
  <2> SUFFICES ASSUME NEW s \in Scopes
               PROVE  ToSet(rulebase[s]) \subseteq Row /\ IsInjective(NamesOf(rulebase[s]))
    OBVIOUS
  <2>1. RowsOK(rulebase[s])
    BY DEF TInv, ScmOK, RulesOK
  <2> QED
    BY <2>1, NamedOnce DEF RowsOK
<1>3. \A s \in Scopes : zones[s] \subseteq [name : Zones, same : BOOLEAN]
  BY DEF TInv, ScmOK
<1>4. Store(main) /\ Store(ws) /\ Len(pr) <= 1 /\ \A i \in DOMAIN pr : Store(pr[i])
  <2>1. Store(main) /\ Store(ws)
    BY DEF TInv, RecordsOK, StoreOK
  <2>2. CASE pr = <<>>
    BY <2>1, <2>2
  <2>3. CASE \E S : StoreOK(S) /\ pr = <<S>>
    <3>1. PICK S : StoreOK(S) /\ pr = <<S>>
      BY <2>3
    <3>2. Len(pr) = 1 /\ DOMAIN pr = 1 .. 1 /\ pr[1] = S
      BY <3>1
    <3> QED
      BY <2>1, <3>1, <3>2 DEF StoreOK
  <2> QED
    BY <2>2, <2>3 DEF TInv, RecordsOK
<1>5. ToSet(queue) \subseteq [kind : {"rule", "object"},
                             name : Requests \cup Strangers \cup Objects, live : BOOLEAN]
  <2>1. queue \in Seq(RemovalType)
    BY DEF TInv, JobOK
  <2> HIDE DEF RemovalType
  <2>2. ToSet(queue) \subseteq RemovalType
    BY <2>1 DEF ToSet
  <2> QED
    BY <2>2 DEF RemovalType
<1> QED
  BY <1>1, <1>2, <1>3, <1>4, <1>5 DEF TypeOK

\* Every state is typed.
LEMMA TInvHolds == Spec => []TInv
<1> QED
  BY InitTInv, NextTInv, PTL DEF Spec

\* Every rulebase keeps its rules under distinct names, the records of each of
\* main, the checkout and the pending branch keep to one per finding, and at
\* most one branch of records waits, whatever people and the jobs do.
THEOREM StoresKeepOneRecord == Spec => []TypeOK
<1> QED
  BY TInvHolds, TInvTypes, PTL

----
(* What the remediation may delete.                                        *)

\* No queued removal is of a rule the checkout declares.
Spared(q, tree) ==
    \A i \in DOMAIN q : q[i].kind = "rule" => q[i].name \notin DeclaredAnywhere(tree)

SparedInv == pc = "delete" => Spared(queue, base.declared)

\* What is queued for removal stays undeclared until it is removed.
LEMMA NextSparedInv == TInv /\ SparedInv /\ [Next]_vars => SparedInv'
<1> SUFFICES ASSUME TInv, SparedInv, [Next]_vars, pc' = "delete"
             PROVE  Spared(queue', base'.declared)
  BY DEF SparedInv
<1>0. Here \in Scopes /\ queue \in Seq(RemovalType)
  BY Constants DEF TInv, JobOK, Here
<1>1. ASSUME pc = "delete", base' = base, NEW gone, queue' = Forget(queue, gone)
      PROVE  Spared(queue', base'.declared)
  <2>1. /\ Forget(queue, gone) \in Seq(RemovalType) /\ Len(Forget(queue, gone)) = Len(queue)
        /\ \A i \in DOMAIN queue : /\ Forget(queue, gone)[i].kind = queue[i].kind
                                   /\ Forget(queue, gone)[i].name = queue[i].name
    BY <1>0, Forgotten
  <2>2. DOMAIN Forget(queue, gone) = DOMAIN queue
    BY <1>0, <2>1
  <2> QED
    BY <1>1, <2>1, <2>2 DEF SparedInv, Spared
<1>2. ASSUME pc = "delete", base' = base, queue' = queue
      PROVE  Spared(queue', base'.declared)
  BY <1>2 DEF SparedInv
<1>3. CASE RemediateRead
  <2>1. queue' = Removals(Here, base.declared) /\ base' = base
    BY <1>3 DEF RemediateRead
  <2> QED
    BY <1>0, <2>1, RemovalsOK DEF Spared
<1>4. CASE Delete
  <2>1. pc = "delete" /\ queue # <<>> /\ queue' = Tail(queue) /\ base' = base
    BY <1>4 DEF Delete
  <2>2. Spared(queue, base.declared)
    BY <2>1 DEF SparedInv
  <2>3. \A i \in DOMAIN Tail(queue) : Tail(queue)[i] = queue[i + 1] /\ i + 1 \in DOMAIN queue
    BY <1>0, <2>1, TailOK
  <2> QED
    BY <2>1, <2>2, <2>3 DEF Spared
<1>5. CASE Console
  <2>1. pc' = pc /\ base' = base
    BY <1>5, ConsoleTInv DEF Outside
  <2>2. queue' = queue \/ \E gone : queue' = Forget(queue, gone)
    BY <1>5, ConsoleQueue
  <2> QED
    BY <1>1, <1>2, <2>1, <2>2
<1>6. CASE Apply
  BY <1>1, <1>6 DEF Apply, Reassert
<1>7. ASSUME NEW s \in Scopes, NEW n \in Requests, MergeChange(s, n)
      PROVE  Spared(queue', base'.declared)
  BY <1>2, <1>7 DEF MergeChange, job
<1>8. CASE MergeRecords
  BY <1>2, <1>8 DEF MergeRecords, job
<1>9. CASE UNCHANGED vars
  BY <1>2, <1>9 DEF vars
<1>10. CASE Plan \/ StateDrift
  BY <1>10 DEF Plan, StateDrift, NextRoot, Goto
<1>11. CASE RuleDrift \/ ObjectDrift
  BY <1>11 DEF RuleDrift, ObjectDrift, Record, NextRoot, Goto
<1>12. CASE \/ DriftStart \/ DriftError \/ Land \/ RemediateStart \/ RemediateNext
            \/ RemediateError \/ Restore \/ RestoreFails \/ NextDay \/ Dispatch
  BY <1>12 DEF DriftStart, DriftError, Land, RemediateStart, RemediateNext, RemediateError,
               Restore, RestoreFails, NextDay, Dispatch, Goto
<1> QED
  BY <1>3, <1>4, <1>5, <1>6, <1>7, <1>8, <1>9, <1>10, <1>11, <1>12 DEF Next, Night, Faults, People

\* A delete of a remediation leaves every rule that main declares both at
\* checkout and now, whatever its tags say and however it was edited.
THEOREM RemediationSpares == Spec => RemediationSparesPolicy
<1> DEFINE Step == (pc = "delete" /\ pc' = "delete" /\ Len(queue') < Len(queue)) =>
                     \A s \in Scopes : \A r \in ToSet(rulebase[s]) :
                         r.name \in declared[s] \cap base.declared[s]
                             => RowsNamed(rulebase'[s], r.name) # {}
<1>1. TInv /\ SparedInv /\ [Next]_vars => [Step]_vars
  <2> SUFFICES ASSUME TInv, SparedInv, Next, pc = "delete", pc' = "delete", Len(queue') < Len(queue),
                      NEW s \in Scopes, NEW r \in ToSet(rulebase[s]), r.name \in base.declared[s]
               PROVE  RowsNamed(rulebase'[s], r.name) # {}
    BY DEF vars
  <2>0. /\ Here \in Scopes /\ queue \in Seq(RemovalType) /\ Len(queue) \in Nat
        /\ \A gone : Len(Forget(queue, gone)) = Len(queue)
    BY Constants, Forgotten DEF TInv, JobOK, Here
  <2>1. CASE Delete
    <3> DEFINE rem == Head(queue)
               some == ToSet(rulebase[Here]) \ RowsNamed(rulebase[Here], rem.name)
    <3>1. /\ queue # <<>>
          /\ \/ rem.kind = "rule" /\ rulebase' = [rulebase EXCEPT ![Here] = KeepOnly(rulebase[Here], some)]
             \/ rulebase' = rulebase
      BY <2>1 DEF Delete
    <3>2. RowsOK(rulebase[Here]) /\ rulebase = [u \in Scopes |-> rulebase[u]]
      BY <2>0 DEF TInv, ScmOK, RulesOK
    <3>3. CASE rem.kind = "rule" /\ rulebase' = [rulebase EXCEPT ![Here] = KeepOnly(rulebase[Here], some)]
      <4>1. rem.name \notin DeclaredAnywhere(base.declared)
        BY <2>0, <3>1, <3>3, TailOK DEF SparedInv, Spared
      <4>2. r.name # rem.name
        BY <4>1 DEF DeclaredAnywhere
      <4>3. ToSet(KeepOnly(rulebase[Here], some)) = ToSet(rulebase[Here]) \cap some
        BY <3>2, KeptRows
      <4>4. CASE s = Here
        <5>1. r \in ToSet(KeepOnly(rulebase[Here], some))
          BY <4>2, <4>3, <4>4 DEF RowsNamed
        <5>2. rulebase'[s] = KeepOnly(rulebase[Here], some)
          BY <2>0, <3>2, <3>3, <4>4
        <5> QED
          BY <5>1, <5>2 DEF RowsNamed
      <4>5. CASE s # Here
        <5>1. rulebase'[s] = rulebase[s]
          BY <3>2, <3>3, <4>5
        <5> QED
          BY <5>1 DEF RowsNamed
      <4> QED
        BY <4>4, <4>5
    <3>4. CASE rulebase' = rulebase
      BY <3>4 DEF RowsNamed
    <3> QED
      BY <3>1, <3>3, <3>4
  <2>2. queue' # queue /\ \A gone : queue' # Forget(queue, gone)
    BY <2>0
  <2>3. ~Console
    BY <2>2, ConsoleQueue
  <2>4. ~Apply /\ ~MergeRecords /\ ~\E u \in Scopes, n \in Requests : MergeChange(u, n)
    BY <2>2 DEF Apply, Reassert, MergeRecords, MergeChange, job
  <2>5. ~RemediateError /\ ~RemediateNext
    BY <2>2 DEF RemediateError, RemediateNext, Goto
  <2>6. \/ DriftStart \/ DriftError \/ Land \/ RemediateStart \/ RemediateRead \/ Plan \/ StateDrift
        \/ RuleDrift \/ ObjectDrift \/ Restore \/ RestoreFails \/ NextDay \/ Dispatch \/ Delete
    BY <2>3, <2>4, <2>5 DEF Next, Night, Faults, People
  <2>7. Delete
    BY <2>6 DEF DriftStart, DriftError, Land, RemediateStart, RemediateRead, Plan, StateDrift,
                RuleDrift, ObjectDrift, Restore, RestoreFails, NextDay, Dispatch
  <2> QED
    BY <2>1, <2>7
<1>2. Init => SparedInv
  BY DEF Init, SparedInv
<1>3. RemediationSparesPolicy <=> [][Step]_vars
  BY DEF RemediationSparesPolicy
<1> HIDE DEF Step
<1> QED
  BY <1>1, <1>2, <1>3, NextSparedInv, TInvHolds, PTL DEF Spec

----
(* What a drift run leaves of the records.                                 *)

\* The records of a kind and folder that a reading which found nothing leaves
\* open: none, if it could write them all.
LEMMA NothingLeftOpen ==
    ASSUME NEW store, StoreOK(store), NEW s \in Scopes, NEW kinds,
           WriteAll(store, Changed(store, s, kinds, <<>>)).ok,
           NEW q \in WriteAll(store, Changed(store, s, kinds, <<>>)).store,
           q.status # "resolved"
    PROVE  q \in store /\ ~(q.scope = s /\ q.kind \in kinds)
<1> DEFINE found == <<>>
           changed == Changed(store, s, kinds, found)
<1>1. found \in Seq(FindingType) /\ ToSet(found) = {} /\ DOMAIN found = {}
  BY EmptyIsSeq DEF ToSet
<1>2. /\ changed \in Seq(ViolationRecord)
      /\ \A c \in ToSet(changed) : \E r \in Closable(store, s, kinds, found) : c = Resolve(r)
      /\ \A r \in Closable(store, s, kinds, found) : Resolve(r) \in ToSet(changed)
  <2> HIDE DEF found
  <2>1. /\ Changed(store, s, kinds, found) \in Seq(ViolationRecord)
        /\ \A c \in ToSet(Changed(store, s, kinds, found)) :
             \/ \E f \in ToSet(found) : c = Updated(store, s, f)
             \/ \E r \in Closable(store, s, kinds, found) : c = Resolve(r)
        /\ \A r \in Closable(store, s, kinds, found) :
             Resolve(r) \in ToSet(Changed(store, s, kinds, found))
    BY <1>1, ChangedAre
  <2> QED
    BY <1>1, <2>1
<1>3. Closable(store, s, kinds, found) \subseteq store /\ store \subseteq ViolationRecord
  BY DEF Closable, StoreOK, Store
<1>4. WriteAll(store, changed).ok /\ q \in WriteAll(store, changed).store
  OBVIOUS
<1> HIDE DEF changed
<1>5. q \in ToSet(changed) \/ (q \in store /\ \A c \in ToSet(changed) : Identity(c) # Identity(q))
  BY <1>2, <1>4, Written
<1>6. q \notin ToSet(changed)
  BY <1>2, <1>3, ResolveIs
<1>7. ASSUME q.scope = s, q.kind \in kinds PROVE FALSE
  <2>1. q \in store /\ q \in ViolationRecord
    BY <1>3, <1>5, <1>6
  <2>2. q.status = "open"
    BY <2>1 DEF ViolationRecord
  <2>3. q \in Closable(store, s, kinds, found)
    BY <1>1, <1>7, <2>1, <2>2 DEF Closable
  <2> QED
    BY <1>2, <1>5, <1>6, <2>1, <2>3, ResolveIs
<1> QED
  BY <1>5, <1>6, <1>7

Settled(store, s, kinds) ==
    \A r \in store : (r.scope = s /\ r.kind \in kinds) => r.status = "resolved"

\* How far a run that is still green has got.
GreenInv ==
    ~red =>
        /\ pc = "rules" => \A j \in 1 .. at - 1 : Settled(ws, Roots[j], RuleKinds)
        /\ pc \in {"state", "objects", "land"} => \A s \in Scopes : Settled(ws, s, RuleKinds)
        /\ pc = "objects" => \A j \in 1 .. at - 1 : Settled(ws, Roots[j], {"object"})
        /\ pc = "land" => \A s \in Scopes : Settled(ws, s, {"object"})

\* A folder read without a finding adds to what is settled and takes nothing away.
LEMMA RecordSettles ==
    ASSUME TInv, NEW kinds, NEW found, NEW step, Record(kinds, found, step), ~red'
    PROVE  /\ ~red /\ NextRoot(step) /\ Settled(ws', Here, kinds)
           /\ \A s \in Scopes : \A some : Settled(ws, s, some) => Settled(ws', s, some)
<1>1. /\ ~red /\ found = <<>>
      /\ WriteAll(ws, Changed(ws, Here, kinds, <<>>)).ok
      /\ ws' = WriteAll(ws, Changed(ws, Here, kinds, <<>>)).store
      /\ NextRoot(step)
  BY DEF Record
<1>2. Here \in Scopes /\ StoreOK(ws)
  BY Constants DEF TInv, JobOK, RecordsOK, Here
<1>3. \A q \in ws' : q.status # "resolved" => q \in ws /\ ~(q.scope = Here /\ q.kind \in kinds)
  BY <1>1, <1>2, NothingLeftOpen
<1> QED
  BY <1>1, <1>3 DEF Settled

\* The job goes to the next root, or on to the next step once it read all.
LEMMA NextRootIs ==
    ASSUME TInv, NEW step, NextRoot(step)
    PROVE  \/ at' = at + 1 /\ pc' = pc
           \/ at' = 1 /\ pc' = step /\ Scopes = {Roots[j] : j \in 1 .. at}
<1>1. at \in 1 .. Len(Roots) /\ Len(Roots) \in Nat /\ DOMAIN Roots = 1 .. Len(Roots)
  <2>1. at \in 1 .. Len(Roots) /\ Len(Roots) \in Nat
    BY Constants DEF TInv, JobOK
  <2>2. DOMAIN Roots = 1 .. Len(Roots)
    BY RootsAreVisited
  <2> QED
    BY <2>1, <2>2
<1>2. Scopes = {Roots[j] : j \in 1 .. Len(Roots)}
  BY <1>1 DEF Scopes, ToSet
<1>3. CASE at < Len(Roots)
  BY <1>3 DEF NextRoot
<1>4. CASE ~(at < Len(Roots))
  <2> DEFINE n == Len(Roots)
  <2>1. at \in 1 .. n /\ n \in Nat /\ ~(at < n)
    BY <1>1, <1>4
  <2> HIDE DEF n
  <2>2. at = n
    BY <2>1
  <2>3. at = Len(Roots)
    BY <2>2 DEF n
  <2> QED
    BY <1>2, <1>4, <2>3 DEF NextRoot, Goto
<1> QED
  BY <1>3, <1>4

\* A run that is still green has settled every folder it passed.
LEMMA NextGreenInv == TInv /\ GreenInv /\ [Next]_vars => GreenInv'
<1> SUFFICES ASSUME TInv, GreenInv, [Next]_vars, ~red' PROVE GreenInv'
  BY DEF GreenInv
<1>0. /\ at \in 1 .. Len(Roots) /\ Len(Roots) \in Nat
      /\ \A n \in 1 .. Len(Roots) : Roots[n] \in Scopes
  BY Constants DEF TInv, JobOK
<1>1. CASE RuleDrift
  <2>1. PICK found : Record(RuleKinds, found, "state") /\ pc = "rules"
    BY <1>1 DEF RuleDrift
  <2>2. /\ ~red /\ NextRoot("state") /\ Settled(ws', Here, RuleKinds)
        /\ \A s \in Scopes : \A some : Settled(ws, s, some) => Settled(ws', s, some)
    BY <2>1, RecordSettles
  <2>3. \A j \in 1 .. at - 1 : Settled(ws, Roots[j], RuleKinds)
    BY <2>1, <2>2 DEF GreenInv
  <2>4. \A j \in 1 .. at : Settled(ws', Roots[j], RuleKinds)
    <3> SUFFICES ASSUME NEW j \in 1 .. at PROVE Settled(ws', Roots[j], RuleKinds)
      OBVIOUS
    <3>1. j = at \/ j \in 1 .. at - 1
      BY <1>0
    <3>2. Roots[j] \in Scopes
      BY <1>0
    <3> QED
      BY <2>2, <2>3, <3>1, <3>2 DEF Here
  <2>5. CASE at' = at + 1 /\ pc' = pc
    <3>1. at' - 1 = at
      BY <1>0, <2>5
    <3> QED
      BY <2>1, <2>4, <2>5, <3>1 DEF GreenInv
  <2>6. CASE at' = 1 /\ pc' = "state" /\ Scopes = {Roots[j] : j \in 1 .. at}
    <3>1. \A s \in Scopes : Settled(ws', s, RuleKinds)
      BY <2>4, <2>6
    <3> QED
      BY <2>6, <3>1 DEF GreenInv
  <2> QED
    BY <2>2, <2>5, <2>6, NextRootIs
<1>2. CASE ObjectDrift
  <2>1. PICK found : Record({"object"}, found, "land") /\ pc = "objects"
    BY <1>2 DEF ObjectDrift
  <2>2. /\ ~red /\ NextRoot("land") /\ Settled(ws', Here, {"object"})
        /\ \A s \in Scopes : \A some : Settled(ws, s, some) => Settled(ws', s, some)
    BY <2>1, RecordSettles
  <2>3. /\ \A j \in 1 .. at - 1 : Settled(ws, Roots[j], {"object"})
        /\ \A s \in Scopes : Settled(ws', s, RuleKinds)
    BY <2>1, <2>2 DEF GreenInv
  <2>4. \A j \in 1 .. at : Settled(ws', Roots[j], {"object"})
    <3> SUFFICES ASSUME NEW j \in 1 .. at PROVE Settled(ws', Roots[j], {"object"})
      OBVIOUS
    <3>1. j = at \/ j \in 1 .. at - 1
      BY <1>0
    <3>2. Roots[j] \in Scopes
      BY <1>0
    <3> QED
      BY <2>2, <2>3, <3>1, <3>2 DEF Here
  <2>5. CASE at' = at + 1 /\ pc' = pc
    <3>1. at' - 1 = at
      BY <1>0, <2>5
    <3> QED
      BY <2>1, <2>3, <2>4, <2>5, <3>1 DEF GreenInv
  <2>6. CASE at' = 1 /\ pc' = "land" /\ Scopes = {Roots[j] : j \in 1 .. at}
    <3>1. \A s \in Scopes : Settled(ws', s, {"object"})
      BY <2>4, <2>6
    <3> QED
      BY <2>3, <2>6, <3>1 DEF GreenInv
  <2> QED
    BY <2>2, <2>5, <2>6, NextRootIs
<1>3. CASE Plan
  <2>1. pc = "plan" /\ NextRoot("rules") /\ ws' = ws
    BY <1>3 DEF Plan, records
  <2>2. (at' = at + 1 /\ pc' = "plan") \/ (at' = 1 /\ pc' = "rules")
    BY <2>1, NextRootIs
  <2> QED
    BY <2>2 DEF GreenInv
<1>4. CASE StateDrift
  <2>1. pc = "state" /\ NextRoot("objects") /\ ws' = ws /\ ~red
    BY <1>4 DEF StateDrift, records, TInv, JobOK
  <2>2. (at' = at + 1 /\ pc' = "state") \/ (at' = 1 /\ pc' = "objects")
    BY <2>1, NextRootIs
  <2> QED
    BY <2>1, <2>2 DEF GreenInv
<1>5. ASSUME UNCHANGED <<ws, pc, at, red>> PROVE GreenInv'
  BY <1>5 DEF GreenInv
<1>6. CASE Console
  <2>1. UNCHANGED Outside
    BY <1>6, ConsoleTInv
  <2> QED
    BY <1>5, <2>1 DEF Outside, records
<1>7. CASE \/ Apply \/ MergeRecords \/ Delete \/ UNCHANGED vars
           \/ \E s \in Scopes, n \in Requests : MergeChange(s, n)
  BY <1>5, <1>7 DEF Apply, MergeRecords, Delete, MergeChange, vars, records, job
<1>8. CASE DriftError
  BY <1>8 DEF DriftError
<1>9. CASE \/ DriftStart \/ Land \/ RemediateStart \/ RemediateRead \/ RemediateNext
           \/ RemediateError \/ Restore \/ RestoreFails \/ NextDay \/ Dispatch
  <2>1. pc' \in {"plan", "remediate due", "read", "delete", "restore due", "day over", "drift due"}
    BY <1>9 DEF DriftStart, Land, RemediateStart, RemediateRead, RemediateNext, RemediateError,
                Restore, RestoreFails, NextDay, Dispatch, Goto
  <2> QED
    BY <2>1 DEF GreenInv
<1> QED
  BY <1>1, <1>2, <1>3, <1>4, <1>6, <1>7, <1>8, <1>9 DEF Next, Night, Faults, People

\* A drift run that comes to its landing with no step red has no open record
\* left of any folder: each was read, nothing was found, every write succeeded.
THEOREM GreenLeavesNothingOpen == Spec => []GreenMeansNothingOpen
<1>1. Init => GreenInv
  BY DEF Init, GreenInv
<1>2. TInv /\ GreenInv => GreenMeansNothingOpen
  <2> SUFFICES ASSUME TInv, GreenInv, pc = "land", ~red, NEW r \in ws PROVE r.status = "resolved"
    BY DEF GreenMeansNothingOpen
  <2>1. r.scope \in Scopes /\ r.kind \in RuleKinds \cup {"object"}
    BY DEF TInv, RecordsOK, StoreOK, Store, ViolationRecord
  <2> QED
    BY <2>1 DEF GreenInv, Settled
<1> QED
  BY <1>1, <1>2, NextGreenInv, TInvHolds, PTL DEF Spec

----
(* What a closed record says.                                              *)

\* A reading closes a record of its folder and of the kinds it can see, one
\* that was open and that nothing it found is about.
LEMMA ClosedIsUnfound ==
    ASSUME NEW store, StoreOK(store), NEW s \in Scopes, NEW kinds, NEW found \in Seq(FindingType),
           NEW r \in store, NEW q \in WriteAll(store, Changed(store, s, kinds, found)).store,
           Identity(r) = Identity(q), r.status = "open", q.status = "resolved"
    PROVE  /\ r.scope = s /\ r.kind \in kinds
           /\ \A f \in ToSet(found) : ~(f.kind = r.kind /\ f.name = r.name)
<1> DEFINE changed == Changed(store, s, kinds, found)
<1>1. q \in WriteAll(store, changed).store
  OBVIOUS
<1>2. s \in Scopes /\ StoreOK(store)
  OBVIOUS
<1>3. /\ changed \in Seq(ViolationRecord)
      /\ \A c \in ToSet(changed) :
           \/ \E f \in ToSet(found) : c = Updated(store, s, f)
           \/ \E e \in Closable(store, s, kinds, found) : c = Resolve(e)
  BY <1>2, ChangedAre
<1> HIDE DEF changed
<1>4. q \in ToSet(changed) \/ q \in store
  BY <1>1, <1>2, <1>3, Written
<1>5. q \notin store
  <2>1. \A a, b \in store : Identity(a) = Identity(b) => a = b
    BY <1>2 DEF StoreOK, Store
  <2> QED
    BY <2>1
<1>6. ToSet(found) \subseteq FindingType
  BY DEF ToSet
<1>7. PICK e \in Closable(store, s, kinds, found) : q = Resolve(e)
  <2>1. \A f \in ToSet(found) : q # Updated(store, s, f)
    BY <1>2, <1>6, UpdatedIs DEF StoreOK
  <2> QED
    BY <1>3, <1>4, <1>5, <2>1
<1>8. e \in store /\ e = r
  <2>1. e \in store /\ e \in ViolationRecord
    BY <1>2 DEF Closable, StoreOK, Store
  <2>2. Identity(e) = Identity(r)
    BY <1>7, <2>1, ResolveIs
  <2> QED
    BY <1>2, <2>1, <2>2 DEF StoreOK, Store
<1>9. r.scope = s /\ r.kind \in kinds
      /\ \A i \in DOMAIN found : Identity(r) # <<s, found[i].kind, found[i].name>>
  BY <1>7, <1>8 DEF Closable
<1>10. ASSUME NEW f \in ToSet(found), f.kind = r.kind, f.name = r.name PROVE FALSE
  <2>1. PICK i \in DOMAIN found : found[i] = f
    BY Members
  <2> QED
    BY <1>9, <1>10, <2>1 DEF Identity
<1> QED
  BY <1>9, <1>10

\* What stands in a folder that is read is found there.
LEMMA StandsIsFound ==
    ASSUME Sheltered = Scopes, TInv, NEW s \in Scopes, NEW r \in ViolationRecord,
           r.scope = s, Stands(r)
    PROVE  /\ r.kind \in RuleKinds =>
                \E f \in ToSet(RuleFindings(s, rulebase[s], declared[s])) :
                    f.kind = r.kind /\ f.name = r.name
           /\ r.kind = "object" =>
                \E f \in ToSet(ObjectFindings(s)) : f.kind = r.kind /\ f.name = r.name
<1> DEFINE rows == rulebase[s]
           D == declared[s]
           n == r.name
<1>1. RowsOK(rows) /\ D \in SUBSET Requests /\ objects[s] \in SUBSET Objects
  BY DEF TInv, ScmOK, RulesOK, GitOK, Tree
<1>2. Covered(s, rows)
  BY DEF Covered
<1> HIDE DEF rows, D
<1>3. ToSet(RuleFindings(s, rows, D)) =
        ToSet(TagFindings(rows, D)) \cup (ToSet(OrderFindings(rows, D)) \cup ToSet(ContentFindings(rows, D)))
  BY <1>1, <1>2, RuleFindingsAre
<1>4. CASE r.kind = "rule"
  <2>1. CASE n \in D
    <3>1. Differs(rows, n)
      BY <1>4, <2>1 DEF Stands, rows, D
    <3> DEFINE cls == IF RowsNamed(rows, n) = {} THEN "missing" ELSE "modified"
               f == Finding(cls, "rule", n, "none")
    <3>2. f \in ToSet(ContentFindings(rows, D))
      BY <1>1, <2>1, <3>1, ContentFindingsAre
    <3>3. f.kind = "rule" /\ f.name = n
      BY DEF Finding
    <3> QED
      BY <1>3, <1>4, <3>2, <3>3 DEF rows, D
  <2>2. CASE n \notin D
    <3>1. PICK row \in ToSet(rows) : row.name = n
      BY <1>4, <2>2 DEF Stands, RowsNamed, rows, D
    <3>2. row \in Row /\ row.tag \in {"own", "bare", "noreq", "other"}
      BY <1>1, <3>1, SomeTags DEF RowsOK, Row
    <3>3. TagClass(row, D) # "ours"
      BY <2>2, <3>1, <3>2 DEF TagClass
    <3> DEFINE f == Finding(TagClass(row, D), "rule", n, row.tag)
    <3>4. f \in ToSet(TagFindings(rows, D))
      BY <1>1, <3>1, <3>3, TagFindingsAre
    <3>5. f.kind = "rule" /\ f.name = n
      BY DEF Finding
    <3> QED
      BY <1>3, <1>4, <3>4, <3>5 DEF rows, D
  <2> QED
    BY <2>1, <2>2
<1>5. CASE r.kind = "order"
  <2>1. n \in Moved(rows, D)
    BY <1>5 DEF Stands, rows, D
  <2> DEFINE f == Finding("reordered", "order", n, "none")
  <2>2. f \in ToSet(OrderFindings(rows, D))
    BY <1>1, <2>1, OrderFindingsAre
  <2>3. f.kind = "order" /\ f.name = n
    BY DEF Finding
  <2> QED
    BY <1>3, <1>5, <2>2, <2>3 DEF rows, D
<1>6. CASE r.kind = "object"
  <2>1. n \in Unaccounted(s)
    BY <1>6 DEF Stands
  <2> DEFINE f == Finding("unmanaged", "object", n, "none")
  <2>2. f \in ToSet(ObjectFindings(s))
    BY <1>1, <2>1, ObjectFindingsAre
  <2>3. f.kind = "object" /\ f.name = n
    BY DEF Finding
  <2> QED
    BY <1>6, <2>2, <2>3 DEF RuleKinds
<1> QED
  BY <1>4, <1>5, <1>6 DEF RuleKinds

\* If every folder's reads return rules (its own or an ancestor's), the drift
\* steps close a record only of what is no longer so.
THEOREM ClosesOnlyWhatIsGone ==
    ASSUME Sheltered = Scopes
    PROVE  Spec => ClosedMeansGone
<1> DEFINE Step == (pc \in {"rules", "objects"} /\ base.declared = declared) =>
                     \A r \in ws : \A q \in ws' :
                         (Identity(r) = Identity(q) /\ r.status = "open" /\ q.status = "resolved")
                             => ~Stands(r)
<1>1. TInv /\ [Next]_vars => [Step]_vars
  <2> SUFFICES ASSUME TInv, Next, pc \in {"rules", "objects"}, base.declared = declared,
                      NEW r \in ws, NEW q \in ws', Identity(r) = Identity(q),
                      r.status = "open", q.status = "resolved", Stands(r)
               PROVE  FALSE
    BY DEF vars
  <2>0. Here \in Scopes /\ r \in ViolationRecord /\ StoreOK(ws)
    BY Constants DEF TInv, JobOK, RecordsOK, StoreOK, Store, Here
  <2>1. CASE RuleDrift
    <3> DEFINE found == RuleFindings(Here, rulebase[Here], declared[Here])
    <3>1. found \in Seq(FindingType)
      BY <2>0, RuleFindingsAre DEF TInv, ScmOK, RulesOK, GitOK, Tree
    <3>2. Record(RuleKinds, found, "state")
      BY <2>1 DEF RuleDrift
    <3> HIDE DEF found
    <3>3. q \in WriteAll(ws, Changed(ws, Here, RuleKinds, found)).store
      BY <3>2 DEF Record
    <3>4. /\ r.scope = Here /\ r.kind \in RuleKinds
          /\ \A f \in ToSet(found) : ~(f.kind = r.kind /\ f.name = r.name)
      BY <2>0, <3>1, <3>3, ClosedIsUnfound
    <3> QED
      BY <2>0, <3>4, StandsIsFound DEF found
  <2>2. CASE ObjectDrift
    <3> DEFINE found == ObjectFindings(Here)
    <3>1. found \in Seq(FindingType)
      BY <2>0, ObjectFindingsAre DEF TInv, ScmOK
    <3>2. Record({"object"}, found, "land")
      BY <2>2 DEF ObjectDrift
    <3> HIDE DEF found
    <3>3. q \in WriteAll(ws, Changed(ws, Here, {"object"}, found)).store
      BY <3>2 DEF Record
    <3>4. /\ r.scope = Here /\ r.kind \in {"object"}
          /\ \A f \in ToSet(found) : ~(f.kind = r.kind /\ f.name = r.name)
      BY <2>0, <3>1, <3>3, ClosedIsUnfound
    <3> QED
      BY <2>0, <3>4, StandsIsFound DEF found
  <2>3. CASE ws' = ws
    BY <2>0, <2>3 DEF StoreOK, Store
  <2>4. CASE Console
    BY <2>3, <2>4, ConsoleTInv DEF Outside, records
  <2>5. CASE \/ DriftError \/ Plan \/ StateDrift \/ MergeRecords \/ RemediateStart \/ RemediateRead
             \/ Delete \/ RemediateNext \/ RemediateError \/ Restore \/ RestoreFails \/ NextDay
             \/ Dispatch \/ Apply \/ \E s \in Scopes, n \in Requests : MergeChange(s, n)
    BY <2>3, <2>5 DEF DriftError, Plan, StateDrift, MergeRecords, RemediateStart, RemediateRead,
          Delete, RemediateNext, RemediateError, Restore, RestoreFails, NextDay, Dispatch, Apply,
          MergeChange, records
  <2>6. CASE DriftStart \/ Land
    BY <2>6 DEF DriftStart, Land
  <2> QED
    BY <2>1, <2>2, <2>4, <2>5, <2>6 DEF Next, Night, Faults, People
<1>2. ClosedMeansGone <=> [][Step]_vars
  BY DEF ClosedMeansGone
<1> HIDE DEF Step
<1> QED
  BY <1>1, <1>2, TInvHolds, PTL DEF Spec

----
(* The three engines together.                                             *)

\* A list is empty if its set is.
LEMMA EmptyIs ==
    ASSUME NEW T, NEW q \in Seq(T)
    PROVE  q = <<>> <=> ToSet(q) = {}
<1>1. DOMAIN q = 1 .. Len(q) /\ Len(q) \in Nat /\ \A i \in DOMAIN q : q[i] \in ToSet(q)
  BY DEF ToSet
<1>2. q = <<>> => ToSet(q) = {}
  BY DEF ToSet
<1>3. ASSUME ToSet(q) = {} PROVE q = <<>>
  <2>1. 1 \notin 1 .. Len(q)
    BY <1>1, <1>3
  <2>2. Len(q) = 0
    BY <1>1, <2>1
  <2> QED
    BY <2>2
<1> QED
  BY <1>2, <1>3

\* Selecting everything changes nothing.
LEMMA KeepAll ==
    ASSUME NEW q, Distinct(q), NEW names, ToSet(q) \subseteq names
    PROVE  KeepOnly(q, names) = q
<1>1. DOMAIN q = 1 .. Len(q) /\ Len(q) \in Nat
  BY DistinctDomain
<1>2. \A i \in 1 .. Len(q) : PositionOf(q, q[i]) = i
  BY <1>1, PositionFound
<1>3. \A i, j \in 1 .. Len(q) : i < j => PositionOf(q, q[i]) < PositionOf(q, q[j])
  BY <1>2
<1>4. ToSet(q) \cap names = ToSet(q)
  OBVIOUS
<1> QED
  BY <1>3, <1>4, KeepOnlyIs

\* The tag sweep and the comparison of content find nothing in a rulebase of
\* just the declared rules whose rows say what Git says, and in no other.
LEMMA TagsAndContent ==
    ASSUME NEW rows, RowsOK(rows), NEW D \in SUBSET Requests
    PROVE  (TagFindings(rows, D) = <<>> /\ ContentFindings(rows, D) = <<>>)
               <=> ToSet(NamesOf(rows)) = D /\ \A r \in ToSet(rows) : SaysWhatGitSays(r)
<1>1. TagFindings(rows, D) = <<>> <=> \A r \in ToSet(rows) : TagClass(r, D) = "ours"
  <2>1. /\ TagFindings(rows, D) \in Seq(FindingType)
        /\ ToSet(TagFindings(rows, D)) =
             {Finding(TagClass(r, D), "rule", r.name, r.tag) :
                 r \in {q \in ToSet(rows) : TagClass(q, D) # "ours"}}
    BY TagFindingsAre
  <2> QED
    BY <2>1, EmptyIs
<1>2. ContentFindings(rows, D) = <<>> <=> \A n \in D : ~Differs(rows, n)
  <2> DEFINE Class(n) == IF RowsNamed(rows, n) = {} THEN "missing" ELSE "modified"
  <2>1. /\ ContentFindings(rows, D) \in Seq(FindingType)
        /\ ToSet(ContentFindings(rows, D)) =
             {Finding(Class(n), "rule", n, "none") : n \in {m \in D : Differs(rows, m)}}
    BY ContentFindingsAre
  <2> HIDE DEF Class
  <2> QED
    BY <2>1, EmptyIs
<1>3. /\ ToSet(NamesOf(rows)) = {r.name : r \in ToSet(rows)}
      /\ \A r, q \in ToSet(rows) : r.name = q.name => r = q
  BY NamesAre DEF RowsOK
<1>4. \A n : ~Differs(rows, n) <=> \E r \in ToSet(rows) : r.name = n /\ SaysWhatGitSays(r)
  BY DEF Differs, RowsNamed
<1>5. \A r \in ToSet(rows) : TagClass(r, D) = "ours" <=> r.tag = "own" /\ r.name \in D
  <2> SUFFICES ASSUME NEW r \in ToSet(rows)
               PROVE  TagClass(r, D) = "ours" <=> r.tag = "own" /\ r.name \in D
    OBVIOUS
  <2>1. r.tag \in {"own", "bare", "noreq", "other"}
    BY SomeTags DEF RowsOK, Row
  <2> QED
    BY <2>1 DEF TagClass
<1>6. ASSUME \A r \in ToSet(rows) : r.name \in D,
             \A n \in D : \E r \in ToSet(rows) : r.name = n /\ SaysWhatGitSays(r)
      PROVE  ToSet(NamesOf(rows)) = D /\ \A r \in ToSet(rows) : SaysWhatGitSays(r)
  BY <1>3, <1>6
<1>7. ASSUME ToSet(NamesOf(rows)) = D, \A r \in ToSet(rows) : SaysWhatGitSays(r)
      PROVE  /\ \A r \in ToSet(rows) : r.tag = "own" /\ r.name \in D
             /\ \A n \in D : \E r \in ToSet(rows) : r.name = n /\ SaysWhatGitSays(r)
  BY <1>3, <1>7 DEF SaysWhatGitSays
<1> QED
  BY <1>1, <1>2, <1>4, <1>5, <1>6, <1>7

\* ... and the order is as declared when the rows come in it.
LEMMA OrderToo ==
    ASSUME NEW rows, RowsOK(rows), NEW D \in SUBSET Requests, ToSet(NamesOf(rows)) = D
    PROVE  Moved(rows, D) = {} <=> NamesOf(rows) = Expected(D)
<1>1. /\ Distinct(Expected(D)) /\ ToSet(Expected(D)) = D /\ Distinct(NamesOf(rows))
      /\ Len(NamesOf(rows)) = Len(rows)
  BY ExpectedIs, NamesAre
<1>2. /\ Common(Expected(D), NamesOf(rows)) = Expected(D)
      /\ Actual(Expected(D), NamesOf(rows)) = NamesOf(rows)
  BY <1>1, KeepAll DEF Common, Actual
<1> QED
  BY <1>2, ComparedAre

\* If every folder's reads return rules (its own or an ancestor's), a folder in
\* which the three engines find nothing has the rules Git declares and no other,
\* in order, with the declared value in every field Git declares, and neither
\* zones nor objects beside those Git accounts for; and in one that has they find
\* nothing.
THEOREM CleanIsInStep ==
    ASSUME Sheltered = Scopes
    PROVE  Spec => []CleanMeansInStep
<1>1. TInv => CleanMeansInStep
  <2> SUFFICES ASSUME TInv, NEW s \in Scopes
               PROVE  InStep(s) <=> /\ RuleFindings(s, rulebase[s], declared[s]) = <<>>
                                    /\ ObjectFindings(s) = <<>>
                                    /\ ~ZoneDrift(s)
    BY DEF CleanMeansInStep
  <2> DEFINE rows == rulebase[s]
             D == declared[s]
  <2>1. RowsOK(rows) /\ D \in SUBSET Requests /\ objects[s] \in SUBSET Objects
    BY DEF TInv, ScmOK, RulesOK, GitOK, Tree
  <2>2. Covered(s, rows)
    BY DEF Covered
  <2> HIDE DEF rows, D
  <2>3. RuleFindings(s, rows, D) = <<>>
          <=> TagFindings(rows, D) = <<>> /\ OrderFindings(rows, D) = <<>> /\ ContentFindings(rows, D) = <<>>
    <3>1. /\ RuleFindings(s, rows, D) \in Seq(FindingType) /\ TagFindings(rows, D) \in Seq(FindingType)
          /\ OrderFindings(rows, D) \in Seq(FindingType) /\ ContentFindings(rows, D) \in Seq(FindingType)
      BY <2>1, RuleFindingsAre, TagFindingsAre, OrderFindingsAre, ContentFindingsAre
    <3>2. ToSet(RuleFindings(s, rows, D)) = ToSet(TagFindings(rows, D))
            \cup (ToSet(OrderFindings(rows, D)) \cup ToSet(ContentFindings(rows, D)))
      BY <2>1, <2>2, RuleFindingsAre
    <3>3. /\ RuleFindings(s, rows, D) = <<>> <=> ToSet(RuleFindings(s, rows, D)) = {}
          /\ TagFindings(rows, D) = <<>> <=> ToSet(TagFindings(rows, D)) = {}
          /\ OrderFindings(rows, D) = <<>> <=> ToSet(OrderFindings(rows, D)) = {}
          /\ ContentFindings(rows, D) = <<>> <=> ToSet(ContentFindings(rows, D)) = {}
      BY <3>1, EmptyIs
    <3> QED
      BY <3>2, <3>3
  <2>4. OrderFindings(rows, D) = <<>> <=> Moved(rows, D) = {}
    <3>1. /\ OrderFindings(rows, D) \in Seq(FindingType)
          /\ ToSet(OrderFindings(rows, D)) = {Finding("reordered", "order", n, "none") : n \in Moved(rows, D)}
      BY <2>1, OrderFindingsAre
    <3> QED
      BY <3>1, EmptyIs
  <2>5. RuleFindings(s, rows, D) = <<>>
          <=> NamesOf(rows) = Expected(D) /\ \A r \in ToSet(rows) : SaysWhatGitSays(r)
    <3>1. (TagFindings(rows, D) = <<>> /\ ContentFindings(rows, D) = <<>>)
             <=> ToSet(NamesOf(rows)) = D /\ \A r \in ToSet(rows) : SaysWhatGitSays(r)
      BY <2>1, TagsAndContent
    <3>2. ToSet(NamesOf(rows)) = D => (Moved(rows, D) = {} <=> NamesOf(rows) = Expected(D))
      BY <2>1, OrderToo
    <3>3. NamesOf(rows) = Expected(D) => ToSet(NamesOf(rows)) = D
      BY <2>1, ExpectedIs
    <3> QED
      BY <2>3, <2>4, <3>1, <3>2, <3>3
  <2>6. ObjectFindings(s) = <<>> <=> Unaccounted(s) = {}
    <3>1. /\ ObjectFindings(s) \in Seq(FindingType)
          /\ ToSet(ObjectFindings(s)) = {Finding("unmanaged", "object", n, "none") : n \in Unaccounted(s)}
      BY <2>1, ObjectFindingsAre
    <3> QED
      BY <3>1, EmptyIs
  <2>7. ~ZoneDrift(s) <=>
          /\ DeclaredZones[s] \subseteq {z.name : z \in zones[s]}
          /\ {z.name : z \in zones[s]} \subseteq DeclaredZones[s] \cup BaselineZones[s]
          /\ \A z \in zones[s] : z.name \in DeclaredZones[s] => z.same
    BY DEF ZoneDrift
  <2> QED
    BY <2>5, <2>6, <2>7 DEF InStep, rows, D
<1> QED
  BY <1>1, TInvHolds, PTL

----
(* The same reading twice.                                                 *)

\* No two findings of a list are about the same thing.
OneEach(found) ==
    \A i, j \in DOMAIN found :
        found[i].kind = found[j].kind /\ found[i].name = found[j].name => i = j

\* No two records of a store claim one id.
IdsApart(store) == \A r, q \in store : SameId(r, q) => Identity(r) = Identity(q)

\* What a sequence keeps stays in order.
LEMMA KeptOrder ==
    ASSUME NEW T, NEW s \in Seq(T), NEW names, NEW k, k = KeepOnly(s, names)
    PROVE  \A i, j \in DOMAIN k : i < j =>
               \E a, b \in DOMAIN s : a < b /\ s[a] = k[i] /\ s[b] = k[j]
<1>0. PICK kept \in Passes(T, s, names) : k = kept[Len(s)]
  BY KeptSteps
<1>1. /\ kept \in [0 .. Len(s) -> Seq(T)] /\ kept[0] = <<>>
      /\ \A n \in 1 .. Len(s) :
           kept[n] = IF s[n] \in names THEN Append(kept[n - 1], s[n]) ELSE kept[n - 1]
  BY <1>0 DEF Passes
<1>2. Len(s) \in Nat /\ DOMAIN s = 1 .. Len(s) /\ \A n \in 1 .. Len(s) : s[n] \in T
  OBVIOUS
<1> DEFINE From(q, n) == \A i \in DOMAIN q : \E a \in 1 .. n : s[a] = q[i]
           Ordered2(q, n) == \A i, j \in DOMAIN q : i < j =>
                                \E a, b \in 1 .. n : a < b /\ s[a] = q[i] /\ s[b] = q[j]
           I == {n \in 0 .. Len(s) : From(kept[n], n) /\ Ordered2(kept[n], n)}
<1>3. 0 \in I
  BY <1>1, <1>2
<1>4. ASSUME NEW n \in 1 .. Len(s), n - 1 \in I PROVE n \in I
  <2> DEFINE prev == kept[n - 1]
             now == kept[n]
  <2>1. /\ n \in 0 .. Len(s) /\ n - 1 \in 0 .. Len(s) /\ prev \in Seq(T) /\ s[n] \in T
        /\ now = IF s[n] \in names THEN Append(prev, s[n]) ELSE prev
        /\ From(prev, n - 1) /\ Ordered2(prev, n - 1)
    BY SMTT(60), <1>1, <1>2, <1>4
  <2>2. \A a \in 1 .. n - 1 : a \in 1 .. n /\ a < n
    BY <1>2
  <2>3. From(prev, n) /\ Ordered2(prev, n)
    <3>1. From(prev, n)
      BY <2>1, <2>2
    <3>2. Ordered2(prev, n)
      BY <2>1, <2>2
    <3> QED
      BY <3>1, <3>2
  <2>4. CASE s[n] \notin names
    <3>1. now = prev
      BY <2>1, <2>4
    <3> HIDE DEF now, prev
    <3>2. From(now, n) /\ Ordered2(now, n)
      BY <2>3, <3>1
    <3> HIDE DEF From, Ordered2
    <3> QED
      BY <2>1, <3>2 DEF now
  <2>5. CASE s[n] \in names
    <3> HIDE DEF prev, now
    <3>1. /\ Len(prev) \in Nat /\ DOMAIN prev = 1 .. Len(prev)
          /\ DOMAIN now = 1 .. Len(prev) + 1 /\ now[Len(prev) + 1] = s[n]
          /\ \A i \in 1 .. Len(prev) : now[i] = prev[i]
      BY <2>1, <2>5
    <3>2. n \in 1 .. n
      BY <1>2
    <3>3. From(now, n)
      <4> SUFFICES ASSUME NEW i \in DOMAIN now PROVE \E a \in 1 .. n : s[a] = now[i]
        OBVIOUS
      <4>1. CASE i = Len(prev) + 1
        BY <3>1, <3>2, <4>1
      <4>2. CASE i \in 1 .. Len(prev)
        BY <2>3, <3>1, <4>2
      <4> QED
        BY <3>1, <4>1, <4>2
    <3>4. Ordered2(now, n)
      <4> SUFFICES ASSUME NEW i \in DOMAIN now, NEW j \in DOMAIN now, i < j
                   PROVE  \E a, b \in 1 .. n : a < b /\ s[a] = now[i] /\ s[b] = now[j]
        OBVIOUS
      <4>1. i \in 1 .. Len(prev) /\ now[i] = prev[i]
        BY <3>1
      <4>2. CASE j = Len(prev) + 1
        <5>1. PICK a \in 1 .. n - 1 : s[a] = prev[i]
          BY <2>1, <3>1, <4>1
        <5>2. a \in 1 .. n /\ a < n /\ s[a] = now[i] /\ s[n] = now[j]
          BY <2>2, <3>1, <4>1, <4>2, <5>1
        <5> QED
          BY <3>2, <5>2
      <4>3. CASE j \in 1 .. Len(prev)
        BY SMTT(60), <2>3, <3>1, <4>1, <4>3
      <4> QED
        BY <3>1, <4>2, <4>3
    <3> HIDE DEF From, Ordered2
    <3> QED
      BY <2>1, <3>3, <3>4 DEF now
  <2> QED
    BY <2>4, <2>5
<1> HIDE DEF I
<1>5. Len(s) \in I
  BY <1>2, <1>3, <1>4, Upward
<1> QED
  BY <1>0, <1>2, <1>5 DEF I

----
(* Writing.                                                                *)

\* A write that would claim another finding's id, and the ones before the first.
Clashes(store, changed, i) ==
    \E r \in store \cup {changed[j] : j \in 1 .. (i - 1)} :
        Identity(r) # Identity(changed[i]) /\ SameId(r, changed[i])

Through(store, changed) == {i \in DOMAIN changed : \A j \in 1 .. i : ~Clashes(store, changed, j)}

\* What a list of records of different findings makes of a store.
LEMMA WrittenIs ==
    ASSUME NEW store, NEW changed \in Seq(ViolationRecord), NEW once, once = WriteAll(store, changed).store,
           \A i, j \in DOMAIN changed : Identity(changed[i]) = Identity(changed[j]) => i = j
    PROVE  once = {r \in store : \A i \in Through(store, changed) : Identity(r) # Identity(changed[i])}
                  \cup {changed[i] : i \in Through(store, changed)}
<1> DEFINE done == Through(store, changed)
           Final(i) == \A j \in done : j > i => Identity(changed[j]) # Identity(changed[i])
<1>1. once = {r \in store : \A i \in done : Identity(r) # Identity(changed[i])}
             \cup {changed[i] : i \in {j \in done : Final(j)}}
  BY DEF WriteAll, Through, Clashes
<1>2. done \subseteq DOMAIN changed /\ \A i \in DOMAIN changed : i \in Nat
  BY DEF Through
<1> HIDE DEF done
<1>3. \A i \in done : Final(i)
  BY <1>2
<1>4. {j \in done : Final(j)} = done
  BY <1>3
<1> QED
  BY <1>1, <1>4 DEF done

\* Nothing to write, or a clash at once, leaves a store alone.
LEMMA NothingThrough ==
    ASSUME NEW store, NEW changed, changed = <<>> \/ Clashes(store, changed, 1),
           DOMAIN changed = 1 .. Len(changed), Len(changed) \in Nat
    PROVE  WriteAll(store, changed).store = store
<1> DEFINE done == Through(store, changed)
           Final(i) == \A j \in done : j > i => Identity(changed[j]) # Identity(changed[i])
<1>1. WriteAll(store, changed).store
        = {r \in store : \A i \in done : Identity(r) # Identity(changed[i])}
             \cup {changed[i] : i \in {j \in done : Final(j)}}
  BY DEF WriteAll, Through, Clashes
<1>2. done = {}
  <2>1. ASSUME NEW i \in done PROVE FALSE
    <3>1. i \in DOMAIN changed /\ \A j \in 1 .. i : ~Clashes(store, changed, j)
      BY <2>1 DEF Through
    <3>2. 1 \in 1 .. i /\ changed # <<>>
      BY <3>1
    <3> QED
      BY <3>1, <3>2
  <2> QED
    BY <2>1
<1> HIDE DEF done
<1> QED
  BY <1>1, <1>2

\* A record of a finding reflects it, and one that was there keeps its first day.
LEMMA UpdatedHas ==
    ASSUME NEW store, Store(store), NEW s \in Scopes, NEW f \in FindingType
    PROVE  /\ Updated(store, s, f).cls = f.cls /\ Updated(store, s, f).tags = f.tags
           /\ \A r \in Prior(store, s, f) : Updated(store, s, f).first = r.first
           /\ Updated(store, s, f) \in store => Updated(store, s, f) \in Prior(store, s, f)
<1>1. Identity(Updated(store, s, f)) = <<s, f.kind, f.name>>
  BY UpdatedIs
<1>2. CASE Prior(store, s, f) = {}
  <2>1. Updated(store, s, f) = Build(s, f)
    BY <1>2 DEF Updated
  <2>2. Build(s, f).cls = f.cls /\ Build(s, f).tags = f.tags
    BY DEF Build
  <2> QED
    BY <1>1, <1>2, <2>1, <2>2 DEF Prior
<1>3. CASE Prior(store, s, f) # {}
  <2> DEFINE r == CHOOSE q \in Prior(store, s, f) : TRUE
  <2>1. r \in Prior(store, s, f)
    BY <1>3
  <2>2. r \in ViolationRecord /\ \A q \in Prior(store, s, f) : q = r
    BY <2>1 DEF Prior, Store
  <2>3. Updated(store, s, f) = Reopen(r, f)
    BY <1>3 DEF Updated
  <2> HIDE DEF r
  <2>4. Reopen(r, f).cls = f.cls /\ Reopen(r, f).tags = f.tags /\ Reopen(r, f).first = r.first
    BY <2>2 DEF Reopen, ViolationRecord
  <2> QED
    BY <1>1, <2>2, <2>3, <2>4 DEF Prior
<1> QED
  BY <1>2, <1>3

\* A record made of a finding is not changed by finding it again.
LEMMA FoundAgain ==
    ASSUME NEW store, Store(store), NEW s \in Scopes, NEW f \in FindingType,
           NEW r \in store, Identity(r) = <<s, f.kind, f.name>>,
           r.status = "open", r.cls = f.cls, r.tags = f.tags
    PROVE  Updated(store, s, f) = r
<1>1. r \in Prior(store, s, f) /\ \A q \in Prior(store, s, f) : q = r
  BY DEF Prior, Store
<1>2. r \in ViolationRecord
  BY DEF Store
<1>3. Updated(store, s, f) = Reopen(r, f)
  BY <1>1 DEF Updated
<1>4. r = [scope |-> r.scope, kind |-> r.kind, name |-> r.name, cls |-> r.cls, tags |-> r.tags,
           status |-> r.status, first |-> r.first]
  BY <1>2 DEF ViolationRecord
<1>5. Reopen(r, f) = [scope |-> r.scope, kind |-> r.kind, name |-> r.name, cls |-> f.cls,
                      tags |-> f.tags, status |-> "open", first |-> r.first]
  BY <1>4 DEF Reopen
<1> QED
  BY <1>3, <1>4, <1>5
----
(* The two parts of what a reading changes.                                *)

Wanted(store, s, found) == [i \in DOMAIN found |-> Updated(store, s, found[i])]

Fresh(store, s, found) ==
    KeepOnly(Wanted(store, s, found), ToSet(Wanted(store, s, found)) \ store)

\* What is written is of the findings first, in their order, then of what is
\* closed, and no two writes are of one finding.
LEMMA ChangedInOrder ==
    ASSUME NEW store, StoreOK(store), NEW s \in Scopes, NEW kinds,
           NEW found \in Seq(FindingType), OneEach(found),
           NEW w, w = Wanted(store, s, found), NEW p, p = Fresh(store, s, found),
           NEW changed, changed = Changed(store, s, kinds, found)
    PROVE  /\ w \in Seq(ViolationRecord) /\ DOMAIN w = DOMAIN found /\ p \in Seq(ViolationRecord)
           /\ changed \in Seq(ViolationRecord) /\ Len(p) <= Len(changed)
           /\ ToSet(p) = ToSet(w) \ store
           /\ \A i, j \in DOMAIN w : Identity(w[i]) = Identity(w[j]) => i = j
           /\ \A i \in 1 .. Len(p) : changed[i] = p[i]
           /\ \A i \in DOMAIN changed : i > Len(p) =>
                 \E r \in Closable(store, s, kinds, found) : changed[i] = Resolve(r)
           /\ \A i, j \in DOMAIN changed : Identity(changed[i]) = Identity(changed[j]) => i = j
<1> DEFINE C == Closable(store, s, kinds, found)
           closed == SetToSeq(C)
           b == [i \in DOMAIN closed |-> [closed[i] EXCEPT !.status = "resolved"]]
<1>1. C \subseteq store /\ IsFiniteSet(C) /\ C \subseteq ViolationRecord
  <2>1. C \in SUBSET store
    BY DEF Closable
  <2> QED
    BY <2>1, FS_Subset DEF StoreOK, Store
<1>2. Distinct(closed) /\ ToSet(closed) = C
  BY <1>1, SomeOrder
<1>3. /\ DOMAIN found = 1 .. Len(found) /\ Len(found) \in Nat
      /\ \A i \in DOMAIN found : found[i] \in FindingType
  OBVIOUS
<1>4. changed = p \o b
  BY DEF Changed, Fresh, Wanted
<1>5. /\ w \in Seq(ViolationRecord) /\ DOMAIN w = DOMAIN found
      /\ \A i \in DOMAIN found : Identity(w[i]) = <<s, found[i].kind, found[i].name>>
  <2>1. \A i \in DOMAIN found : /\ Updated(store, s, found[i]) \in ViolationRecord
                                /\ Identity(Updated(store, s, found[i])) = <<s, found[i].kind, found[i].name>>
    BY <1>3, UpdatedIs DEF StoreOK
  <2>2. DOMAIN w = DOMAIN found /\ \A i \in DOMAIN found : w[i] = Updated(store, s, found[i])
    BY DEF Wanted
  <2>3. w = [i \in 1 .. Len(found) |-> w[i]] /\ \A i \in 1 .. Len(found) : w[i] \in ViolationRecord
    BY <1>3, <2>1, <2>2 DEF Wanted
  <2>4. w \in Seq(ViolationRecord)
    BY <1>3, <2>3
  <2> QED
    BY <2>1, <2>2, <2>4
<1>6. \A i, j \in DOMAIN w : Identity(w[i]) = Identity(w[j]) => i = j
  BY <1>5 DEF OneEach
<1>7. IsInjective(w)
  BY <1>6 DEF IsInjective
<1>8. p \in Seq(ViolationRecord) /\ ToSet(p) = ToSet(w) \ store /\ IsInjective(p)
  <2> DEFINE out == ToSet(w) \ store
  <2>1. p = KeepOnly(w, out)
    BY DEF Fresh
  <2>2. ToSet(w) \cap out = out
    OBVIOUS
  <2> HIDE DEF out
  <2>3. p \in Seq(ViolationRecord) /\ ToSet(p) = ToSet(w) \cap out /\ IsInjective(p)
    BY <1>5, <1>7, <2>1, KeepOnlyMembers
  <2> QED
    BY <2>2, <2>3 DEF out
<1> HIDE DEF closed
<1>9. /\ DOMAIN closed = 1 .. Len(closed) /\ Len(closed) \in Nat
      /\ \A i \in 1 .. Len(closed) : closed[i] \in C
      /\ \A i, j \in 1 .. Len(closed) : closed[i] = closed[j] => i = j
  BY <1>2, DistinctDomain
<1>10. /\ b \in Seq(ViolationRecord) /\ Len(b) = Len(closed)
       /\ \A i \in 1 .. Len(closed) : b[i] = Resolve(closed[i])
  <2>1. \A i \in 1 .. Len(closed) : b[i] = Resolve(closed[i])
    BY <1>9 DEF Resolve
  <2>2. \A i \in 1 .. Len(closed) : Resolve(closed[i]) \in ViolationRecord
    BY <1>1, <1>9, ResolveIs
  <2>3. b = [i \in 1 .. Len(closed) |-> b[i]] /\ \A i \in 1 .. Len(closed) : b[i] \in ViolationRecord
    BY <1>9, <2>1, <2>2
  <2> HIDE DEF b
  <2>4. b \in Seq(ViolationRecord) /\ Len(b) = Len(closed)
    BY <1>9, <2>3
  <2> QED
    BY <2>1, <2>4
<1> HIDE DEF b, C
<1>11. /\ changed \in Seq(ViolationRecord) /\ Len(changed) = Len(p) + Len(b)
       /\ Len(p) \in Nat /\ Len(b) \in Nat
       /\ DOMAIN changed = 1 .. Len(p) + Len(b)
       /\ \A i \in DOMAIN changed : changed[i] = IF i <= Len(p) THEN p[i] ELSE b[i - Len(p)]
  <2>1. \A T : \A x, y \in Seq(T) :
          /\ x \o y \in Seq(T) /\ Len(x \o y) = Len(x) + Len(y)
          /\ \A i \in 1 .. Len(x) + Len(y) : (x \o y)[i] = IF i <= Len(x) THEN x[i] ELSE y[i - Len(x)]
    OBVIOUS
  <2>2. Len(p) \in Nat /\ Len(b) \in Nat
    BY <1>8, <1>10
  <2>3. /\ p \o b \in Seq(ViolationRecord) /\ Len(p \o b) = Len(p) + Len(b)
        /\ \A i \in 1 .. Len(p) + Len(b) : (p \o b)[i] = IF i <= Len(p) THEN p[i] ELSE b[i - Len(p)]
    BY ZenonT(60), <1>8, <1>10, <2>1
  <2> QED
    BY <1>4, <2>2, <2>3
<1>12. \A i \in 1 .. Len(p) : changed[i] = p[i]
  BY <1>11
<1>13. \A i \in DOMAIN changed : i > Len(p) =>
          i - Len(p) \in 1 .. Len(closed) /\ changed[i] = Resolve(closed[i - Len(p)])
  BY <1>10, <1>11
<1>14. \A i \in 1 .. Len(p) : \E a \in DOMAIN w : p[i] = w[a]
  <2>1. \A i \in 1 .. Len(p) : p[i] \in ToSet(p)
    BY <1>8, Members
  <2>2. \A e \in ToSet(w) : \E a \in DOMAIN w : w[a] = e
    BY <1>5, Members
  <2> QED
    BY <1>8, <2>1, <2>2
<1>15. \A i, j \in 1 .. Len(p) : Identity(p[i]) = Identity(p[j]) => i = j
  <2> SUFFICES ASSUME NEW i \in 1 .. Len(p), NEW j \in 1 .. Len(p), Identity(p[i]) = Identity(p[j])
               PROVE  i = j
    OBVIOUS
  <2>1. p[i] = p[j]
    BY <1>6, <1>14
  <2>2. DOMAIN p = 1 .. Len(p)
    BY <1>8
  <2> QED
    BY <1>8, <2>1, <2>2 DEF IsInjective
<1>16. \A i \in 1 .. Len(closed) : Identity(Resolve(closed[i])) = Identity(closed[i])
  BY <1>1, <1>9, ResolveIs
<1>17. \A i \in 1 .. Len(p) : \A j \in 1 .. Len(closed) : Identity(p[i]) # Identity(closed[j])
  <2> SUFFICES ASSUME NEW i \in 1 .. Len(p), NEW j \in 1 .. Len(closed)
               PROVE  Identity(p[i]) # Identity(closed[j])
    OBVIOUS
  <2>1. PICK a \in DOMAIN found : Identity(p[i]) = <<s, found[a].kind, found[a].name>>
    BY <1>5, <1>14
  <2>2. closed[j] \in Closable(store, s, kinds, found)
    BY <1>9 DEF C
  <2> QED
    BY <2>1, <2>2 DEF Closable
<1>18. \A i, j \in 1 .. Len(closed) : Identity(closed[i]) = Identity(closed[j]) => i = j
  BY <1>1, <1>9 DEF StoreOK, Store
<1>19. ASSUME NEW i \in DOMAIN changed, NEW j \in DOMAIN changed, Identity(changed[i]) = Identity(changed[j])
       PROVE  i = j
  <2>1. CASE i <= Len(p) /\ j <= Len(p)
    BY <1>11, <1>12, <1>15, <1>19, <2>1
  <2>2. CASE i <= Len(p) /\ j > Len(p)
    <3>1. i \in 1 .. Len(p) /\ changed[i] = p[i]
      BY <1>11, <1>12, <2>2
    <3>2. j - Len(p) \in 1 .. Len(closed) /\ changed[j] = Resolve(closed[j - Len(p)])
      BY <1>13, <2>2
    <3> QED
      BY <1>16, <1>17, <1>19, <3>1, <3>2
  <2>3. CASE i > Len(p) /\ j <= Len(p)
    <3>1. j \in 1 .. Len(p) /\ changed[j] = p[j]
      BY <1>11, <1>12, <2>3
    <3>2. i - Len(p) \in 1 .. Len(closed) /\ changed[i] = Resolve(closed[i - Len(p)])
      BY <1>13, <2>3
    <3> QED
      BY <1>16, <1>17, <1>19, <3>1, <3>2
  <2>4. CASE i > Len(p) /\ j > Len(p)
    <3>1. i - Len(p) \in 1 .. Len(closed) /\ changed[i] = Resolve(closed[i - Len(p)])
      BY <1>13, <2>4
    <3>2. j - Len(p) \in 1 .. Len(closed) /\ changed[j] = Resolve(closed[j - Len(p)])
      BY <1>13, <2>4
    <3>3. i - Len(p) = j - Len(p)
      BY <1>16, <1>18, <1>19, <3>1, <3>2
    <3> QED
      BY <1>11, <3>3
  <2> QED
    BY <1>11, <2>1, <2>2, <2>3, <2>4
<1>20. \A i \in DOMAIN changed : i > Len(p) =>
          \E r \in Closable(store, s, kinds, found) : changed[i] = Resolve(r)
  BY <1>9, <1>13 DEF C
<1> QED
  BY <1>5, <1>6, <1>8, <1>11, <1>12, <1>19, <1>20

\* The record of a finding that is not in the store is the record of nothing
\* that was written, so what there was of it is there.
LEMMA UpdatedAgain ==
    ASSUME NEW store, StoreOK(store), NEW once, StoreOK(once), NEW s \in Scopes, NEW f \in FindingType,
           NEW gone, \A r \in gone : Identity(r) # <<s, f.kind, f.name>>,
           \A r \in once : r \in store \cup gone,
           \A r \in store : Identity(r) = <<s, f.kind, f.name>> => r \in once
    PROVE  Updated(once, s, f) = Updated(store, s, f)
<1>1. Prior(once, s, f) = Prior(store, s, f)
  BY DEF Prior
<1> QED
  BY <1>1 DEF Updated

\* A second reading that finds the same writes nothing.
LEMMA SecondPass ==
    ASSUME NEW store, StoreOK(store), IdsApart(store), NEW s \in Scopes, NEW kinds,
           NEW found \in Seq(FindingType), OneEach(found),
           NEW once, once = WriteAll(store, Changed(store, s, kinds, found)).store
    PROVE  WriteAll(once, Changed(once, s, kinds, found)).store = once
<1> DEFINE w == Wanted(store, s, found)
           p == Fresh(store, s, found)
           ch == Changed(store, s, kinds, found)
           C == Closable(store, s, kinds, found)
           done == Through(store, ch)
           w2 == Wanted(once, s, found)
           p2 == Fresh(once, s, found)
           ch2 == Changed(once, s, kinds, found)
<1>1. StoreOK(once)
  <2>1. ch \in Seq(ViolationRecord) /\ once = WriteAll(store, ch).store
    BY ChangedAre
  <2> HIDE DEF ch
  <2> QED
    BY <2>1, Written
<1>2. /\ w \in Seq(ViolationRecord) /\ DOMAIN w = DOMAIN found /\ p \in Seq(ViolationRecord)
      /\ ch \in Seq(ViolationRecord) /\ Len(p) <= Len(ch)
      /\ ToSet(p) = ToSet(w) \ store
      /\ \A i, j \in DOMAIN w : Identity(w[i]) = Identity(w[j]) => i = j
      /\ \A i \in 1 .. Len(p) : ch[i] = p[i]
      /\ \A i \in DOMAIN ch : i > Len(p) => \E r \in C : ch[i] = Resolve(r)
      /\ \A i, j \in DOMAIN ch : Identity(ch[i]) = Identity(ch[j]) => i = j
  BY ChangedInOrder
<1>3. /\ w2 \in Seq(ViolationRecord) /\ DOMAIN w2 = DOMAIN found /\ p2 \in Seq(ViolationRecord)
      /\ ch2 \in Seq(ViolationRecord) /\ Len(p2) <= Len(ch2)
      /\ ToSet(p2) = ToSet(w2) \ once
      /\ \A i \in 1 .. Len(p2) : ch2[i] = p2[i]
      /\ \A i \in DOMAIN ch2 : i > Len(p2) => \E r \in Closable(once, s, kinds, found) : ch2[i] = Resolve(r)
  BY <1>1, ChangedInOrder
<1>4. once = {r \in store : \A i \in done : Identity(r) # Identity(ch[i])} \cup {ch[i] : i \in done}
  <2>1. once = WriteAll(store, ch).store
    OBVIOUS
  <2> HIDE DEF ch
  <2> QED
    BY <1>2, <2>1, WrittenIs
<1>5. /\ done = {i \in DOMAIN ch : \A j \in 1 .. i : ~Clashes(store, ch, j)}
      /\ DOMAIN ch = 1 .. Len(ch) /\ Len(ch) \in Nat /\ Len(p) \in Nat
  BY <1>2 DEF Through
<1>6. \A a \in DOMAIN w :
        /\ w[a] = Updated(store, s, found[a]) /\ w2[a] = Updated(once, s, found[a])
        /\ found[a] \in FindingType /\ Identity(w[a]) = <<s, found[a].kind, found[a].name>>
        /\ w[a].status = "open" /\ w[a].cls = found[a].cls /\ w[a].tags = found[a].tags
  <2>1. \A a \in DOMAIN w : found[a] \in FindingType
    BY <1>2
  <2>2. \A a \in DOMAIN w : w[a] = Updated(store, s, found[a]) /\ w2[a] = Updated(once, s, found[a])
    BY <1>2 DEF Wanted
  <2>3. Store(store)
    BY DEF StoreOK
  <2> HIDE DEF w, w2
  <2> QED
    BY <2>1, <2>2, <2>3, UpdatedIs, UpdatedHas
<1>7. w = [a \in DOMAIN found |-> w[a]] /\ w2 = [a \in DOMAIN found |-> w2[a]]
  BY DEF Wanted
<1>8. \A r \in C : /\ r \in store /\ r \in ViolationRecord
                   /\ \A a \in DOMAIN w : Identity(r) # Identity(w[a])
                   /\ Identity(Resolve(r)) = Identity(r)
                   /\ \A q : SameId(q, Resolve(r)) <=> SameId(q, r)
                   /\ \A q : SameId(Resolve(r), q) <=> SameId(r, q)
  <2>1. \A r \in C : /\ r \in store /\ r \in ViolationRecord
                     /\ \A a \in DOMAIN w : Identity(r) # Identity(w[a])
    BY <1>2, <1>6 DEF Closable, StoreOK, Store
  <2>2. \A r \in ViolationRecord : /\ Resolve(r).scope = r.scope /\ Resolve(r).name = r.name
                                   /\ Resolve(r).first = r.first
    BY DEF Resolve, ViolationRecord
  <2> HIDE DEF C
  <2> QED
    BY <2>1, <2>2, ResolveIs DEF SameId
<1>9. \A i \in 1 .. Len(p) : i \in DOMAIN ch /\ \E a \in DOMAIN w : ch[i] = w[a] /\ w[a] \notin store
  <2>1. \A i \in 1 .. Len(p) : p[i] \in ToSet(p)
    BY <1>2, Members
  <2>2. \A e \in ToSet(w) : \E a \in DOMAIN w : w[a] = e
    BY <1>2, Members
  <2> HIDE DEF w, p, ch
  <2>3. ASSUME NEW i \in 1 .. Len(p)
        PROVE  i \in DOMAIN ch /\ \E a \in DOMAIN w : ch[i] = w[a] /\ w[a] \notin store
    <3>1. i \in DOMAIN ch /\ ch[i] = p[i] /\ p[i] \in ToSet(p)
      BY <1>2, <1>5, <2>1
    <3>2. p[i] \in ToSet(w) /\ p[i] \notin store
      BY <1>2, <3>1
    <3> QED
      BY <2>2, <3>1, <3>2
  <2> QED
    BY <2>3
<1>10. done \subseteq DOMAIN ch /\ \A i \in done : ch[i] \in once
  BY <1>4, <1>5
<1> HIDE DEF w, p, ch, C, done, w2, p2, ch2
<1>11. ASSUME NEW a \in DOMAIN w, w[a] \notin once, NEW i \in done PROVE Identity(ch[i]) # Identity(w[a])
  <2>1. CASE i <= Len(p)
    <3>1. i \in 1 .. Len(p)
      BY <1>5, <1>10, <2>1
    <3>2. PICK b \in DOMAIN w : ch[i] = w[b]
      BY <1>9, <3>1
    <3> QED
      BY <1>2, <1>10, <1>11, <3>2
  <2>2. CASE i > Len(p)
    BY <1>2, <1>8, <1>10, <2>2
  <2> QED
    BY <1>5, <1>10, <2>1, <2>2
<1>12. ASSUME NEW a \in DOMAIN w, w[a] \notin once PROVE w[a] \notin store
  BY <1>4, <1>11, <1>12
<1>13. ASSUME NEW a \in DOMAIN w PROVE w2[a] = w[a]
  <2>1. CASE w[a] \in once
    BY <1>1, <1>6, <2>1, FoundAgain DEF StoreOK
  <2>2. CASE w[a] \notin once
    <3> DEFINE gone == {ch[i] : i \in done}
    <3>1. \A r \in gone : Identity(r) # <<s, found[a].kind, found[a].name>>
      BY <1>6, <1>11, <2>2
    <3>2. \A r \in once : r \in store \cup gone
      BY <1>4
    <3>3. ASSUME NEW r \in store, Identity(r) = <<s, found[a].kind, found[a].name>> PROVE r \in once
      <4>1. Identity(r) = Identity(w[a])
        BY <1>6, <3>3
      <4>2. \A i \in done : Identity(r) # Identity(ch[i])
        BY <1>11, <2>2, <4>1
      <4> QED
        BY <1>4, <4>2
    <3>4. found[a] \in FindingType
      BY <1>6
    <3> HIDE DEF gone
    <3>5. Updated(once, s, found[a]) = Updated(store, s, found[a])
      BY <1>1, <3>1, <3>2, <3>3, <3>4, UpdatedAgain
    <3> QED
      BY <1>6, <3>5
  <2> QED
    BY <2>1, <2>2
<1>14. w2 = w
  BY <1>2, <1>7, <1>13
<1>15. CASE \A i \in DOMAIN ch : ~Clashes(store, ch, i)
  <2>1. done = DOMAIN ch
    BY <1>5, <1>15
  <2>2. ToSet(w2) \subseteq once
    <3>1. ASSUME NEW e \in ToSet(w) PROVE e \in once
      <4>1. PICK a \in DOMAIN w : w[a] = e
        BY <1>2, Members
      <4>2. ASSUME e \notin once PROVE FALSE
        <5>1. e \in ToSet(p)
          BY <1>2, <1>12, <4>1, <4>2
        <5>2. PICK i \in DOMAIN p : p[i] = e
          BY <1>2, <5>1, Members
        <5>3. i \in 1 .. Len(p)
          BY <1>2, <5>2
        <5> QED
          BY <1>2, <1>9, <1>10, <2>1, <4>2, <5>2, <5>3
      <4> QED
        BY <4>2
    <3> QED
      BY <1>14, <3>1
  <2>3. Len(p2) = 0
    <3>1. ToSet(p2) = {}
      BY <1>3, <2>2
    <3>2. p2 = <<>>
      BY <1>3, <3>1, Members
    <3> QED
      BY <3>2
  <2>4. Closable(once, s, kinds, found) = {}
    <3> SUFFICES ASSUME NEW r \in Closable(once, s, kinds, found) PROVE FALSE
      OBVIOUS
    <3>1. /\ r \in once /\ r.status = "open" /\ r.kind \in kinds /\ r.scope = s
          /\ \A i \in DOMAIN found : Identity(r) # <<s, found[i].kind, found[i].name>>
      BY DEF Closable
    <3>2. CASE r \in store
      <4>1. r \in C
        BY <3>1, <3>2 DEF C, Closable
      <4>2. Resolve(r) \in ToSet(ch)
        BY <4>1, ChangedAre DEF ch, C
      <4>3. PICK i \in DOMAIN ch : ch[i] = Resolve(r)
        BY <1>2, <4>2, Members
      <4>4. Identity(r) = Identity(ch[i]) /\ ch[i].status = "resolved"
        BY <1>8, <4>1, <4>3, ResolveIs
      <4>5. ch[i] \in once
        BY <1>10, <2>1
      <4>6. ch[i] = r
        BY <1>1, <3>1, <4>4, <4>5 DEF StoreOK, Store
      <4> QED
        BY <3>1, <4>4, <4>6
    <3>3. CASE r \notin store
      <4>1. PICK i \in done : r = ch[i]
        BY <1>4, <3>1, <3>3
      <4>2. CASE i <= Len(p)
        <5>1. i \in 1 .. Len(p)
          BY <1>5, <1>10, <4>2
        <5> QED
          BY <1>2, <1>6, <1>9, <3>1, <4>1, <5>1
      <4>3. CASE i > Len(p)
        <5>1. PICK q \in C : r = Resolve(q)
          BY <1>2, <1>10, <4>1, <4>3
        <5> QED
          BY <1>8, <3>1, <5>1, ResolveIs
      <4> QED
        BY <1>5, <1>10, <4>2, <4>3
    <3> QED
      BY <3>2, <3>3
  <2>5. ch2 = <<>>
    <3>1. \A i \in DOMAIN ch2 : i > Len(p2) => FALSE
      BY <1>3, <2>4
    <3>2. DOMAIN ch2 = 1 .. Len(ch2) /\ Len(ch2) \in Nat
      BY <1>3
    <3>3. DOMAIN ch2 = {}
      BY <2>3, <3>1, <3>2
    <3> QED
      BY <1>3, <3>2, <3>3
  <2>6. DOMAIN ch2 = 1 .. Len(ch2) /\ Len(ch2) \in Nat
    BY <1>3
  <2>7. WriteAll(once, ch2).store = once
    BY <2>5, <2>6, NothingThrough
  <2> QED
    BY <2>7 DEF ch2
<1>16. CASE ~ \A i \in DOMAIN ch : ~Clashes(store, ch, i)
  <2> DEFINE K == {i \in DOMAIN ch : Clashes(store, ch, i)}
  <2>1. PICK m \in K : \A i \in K : m <= i
    <3>1. K \in SUBSET Nat /\ K # {}
      BY <1>5, <1>16
    <3> HIDE DEF K
    <3> QED
      BY <3>1, LeastNat
  <2>2. m \in DOMAIN ch /\ Clashes(store, ch, m) /\ \A i \in DOMAIN ch : i < m => ~Clashes(store, ch, i)
    BY <1>5, <2>1
  <2>3. \A i \in DOMAIN ch : i \in done <=> i < m
    BY <1>5, <2>2
  <2>4. PICK r \in store \cup {ch[j] : j \in 1 .. (m - 1)} :
            Identity(r) # Identity(ch[m]) /\ SameId(r, ch[m])
    BY <2>2 DEF Clashes
  <2>5. ASSUME r \notin store
        PROVE  \E j \in DOMAIN ch : j < m /\ r = ch[j]
    BY <1>5, <2>2, <2>4, <2>5
  <2>6. m <= Len(p)
    <3> SUFFICES ASSUME m > Len(p) PROVE FALSE
      BY <1>5, <2>2
    <3>1. PICK q \in C : ch[m] = Resolve(q)
      BY <1>2, <2>2
    <3>2. q \in store /\ Identity(r) # Identity(q) /\ SameId(r, q)
      BY <1>8, <2>4, <3>1
    <3>3. r \notin store
      BY <3>2 DEF IdsApart
    <3>4. PICK j \in DOMAIN ch : j < m /\ r = ch[j]
      BY <2>5, <3>3
    <3>5. CASE j > Len(p)
      <4>1. PICK o \in C : r = Resolve(o)
        BY <1>2, <3>4, <3>5
      <4> QED
        BY <1>8, <3>2, <4>1 DEF IdsApart
    <3>6. CASE j <= Len(p)
      <4>1. Identity(q) # Identity(ch[j]) /\ SameId(q, ch[j])
        BY <3>2, <3>4 DEF SameId
      <4>2. Clashes(store, ch, j)
        BY <3>2, <4>1 DEF Clashes
      <4> QED
        BY <2>2, <3>4, <4>2
    <3> QED
      BY <1>5, <3>4, <3>5, <3>6
  <2>7. m \in 1 .. Len(p) /\ ch[m] = p[m]
    BY <1>2, <1>5, <2>2, <2>6
  <2>8. PICK a \in DOMAIN w : p[m] = w[a] /\ w[a] \notin store
    BY <1>9, <2>7
  <2>9. w[a] \notin once
    <3>1. ASSUME NEW i \in done PROVE ch[i] # w[a]
      BY <1>2, <1>10, <2>2, <2>3, <2>7, <2>8
    <3> QED
      BY <1>4, <2>8, <3>1
  <2>10. w[a] \in ToSet(p2)
    <3>1. w[a] \in ToSet(w)
      BY <1>2, Members
    <3> QED
      BY <1>3, <1>14, <2>9, <3>1
  <2>11. /\ DOMAIN p2 = 1 .. Len(p2) /\ Len(p2) \in Nat /\ DOMAIN p = 1 .. Len(p)
         /\ DOMAIN w = 1 .. Len(w) /\ Len(w) \in Nat
    BY <1>2, <1>3
  <2>12. PICK l \in DOMAIN p2 : p2[l] = w[a]
    BY <1>3, <2>10, Members
  <2>13. 1 \in DOMAIN p2 /\ 1 \in 1 .. Len(p2)
    BY <2>11, <2>12
  <2>14. p2[1] = w[a]
    <3>1. p2[1] \in ToSet(w) /\ p2[1] \notin once
      <4>1. p2[1] \in ToSet(p2)
        BY <1>3, <2>13, Members
      <4> QED
        BY <1>3, <1>14, <4>1
    <3>2. PICK b \in DOMAIN w : w[b] = p2[1]
      BY <1>2, <3>1, Members
    <3>3. w[b] \in ToSet(p)
      BY <1>2, <1>12, <3>1, <3>2
    <3>4. PICK k \in DOMAIN p : p[k] = w[b]
      BY <1>2, <3>3, Members
    <3>5. k \in 1 .. Len(p) /\ ch[k] = w[b] /\ k \in DOMAIN ch
      BY <1>2, <1>9, <2>11, <3>4
    <3>6. k \notin done
      BY <1>10, <3>1, <3>2, <3>5
    <3>7. ~(k < m)
      BY <2>3, <3>5, <3>6
    <3>8. CASE k = m
      BY <2>8, <3>2, <3>4, <3>8
    <3>9. CASE k > m
      <4> SUFFICES ASSUME l # 1 PROVE FALSE
        BY <2>12
      <4>1. 1 < l
        BY <2>11, <2>12
      <4>2. PICK c, d \in DOMAIN w2 : c < d /\ w2[c] = p2[1] /\ w2[d] = p2[l]
        BY <1>3, <2>12, <2>13, <4>1, KeptOrder DEF p2, w2, Fresh
      <4>3. PICK e, g \in DOMAIN w : e < g /\ w[e] = p[m] /\ w[g] = p[k]
        <5>1. m \in DOMAIN p /\ k \in DOMAIN p /\ m < k
          BY <2>7, <2>11, <3>4, <3>9
        <5> QED
          BY <1>2, <5>1, KeptOrder DEF p, w, Fresh
      <4>4. c = b /\ d = a /\ e = a /\ g = b
        BY <1>2, <1>14, <2>8, <2>12, <3>2, <3>4, <4>2, <4>3
      <4> QED
        BY <2>11, <4>2, <4>3, <4>4
    <3> QED
      BY <2>7, <2>11, <3>5, <3>7, <3>8, <3>9
  <2>15. ch2[1] = ch[m]
    BY <1>3, <2>7, <2>8, <2>13, <2>14
  <2>16. \E q \in once : Identity(q) # Identity(ch2[1]) /\ SameId(q, ch2[1])
    <3>1. CASE r \in once
      BY <2>4, <2>15, <3>1
    <3>2. CASE r \notin once
      <4>1. r \in store
        <5>1. ASSUME r \notin store PROVE FALSE
          <6>1. PICK j \in DOMAIN ch : j < m /\ r = ch[j]
            BY <2>5, <5>1
          <6> QED
            BY <1>10, <2>3, <3>2, <6>1
        <5> QED
          BY <5>1
      <4>2. PICK j \in done : Identity(r) = Identity(ch[j])
        BY <1>4, <3>2, <4>1
      <4>3. j \in 1 .. Len(p)
        BY <1>5, <1>10, <2>3, <2>6, <4>2
      <4>4. PICK b \in DOMAIN w : ch[j] = w[b]
        BY <1>9, <4>3
      <4>5. ch[j].first = r.first
        <5>1. r \in Prior(store, s, found[b])
          BY <1>6, <4>1, <4>2, <4>4 DEF Prior
        <5>2. found[b] \in FindingType /\ Store(store) /\ w[b] = Updated(store, s, found[b])
          BY <1>6 DEF StoreOK
        <5> QED
          BY <4>4, <5>1, <5>2, UpdatedHas
      <4>6. Identity(ch[j]) # Identity(ch2[1]) /\ SameId(ch[j], ch2[1])
        BY <2>4, <2>15, <4>2, <4>5 DEF SameId, Identity
      <4> QED
        BY <1>10, <4>6
    <3> QED
      BY <3>1, <3>2
  <2>17. Clashes(once, ch2, 1)
    BY <2>16 DEF Clashes
  <2>18. DOMAIN ch2 = 1 .. Len(ch2) /\ Len(ch2) \in Nat
    BY <1>3
  <2>19. WriteAll(once, ch2).store = once
    BY <2>17, <2>18, NothingThrough
  <2> QED
    BY <2>19 DEF ch2
<1> QED
  BY <1>15, <1>16

----
(* What a reading finds, it finds once.                                    *)

\* Findings made from a list of different things are about different things.
LEMMA EachOnce ==
    ASSUME NEW T, NEW list \in Seq(T), IsInjective(list), NEW f,
           \A x, y \in ToSet(list) : f[x].kind = f[y].kind /\ f[x].name = f[y].name => x = y
    PROVE  OneEach(Each(list, f))
<1>1. \A i \in DOMAIN list : list[i] \in ToSet(list)
  BY Members
<1>2. \A i, j \in DOMAIN list : list[i] = list[j] => i = j
  BY DEF IsInjective
<1>3. DOMAIN Each(list, f) = DOMAIN list /\ \A i \in DOMAIN list : Each(list, f)[i] = f[list[i]]
  BY DEF Each
<1> QED
  BY <1>1, <1>2, <1>3 DEF OneEach

\* Two lists of findings about different things make one.
LEMMA JoinedOnce ==
    ASSUME NEW a \in Seq(FindingType), NEW b \in Seq(FindingType), OneEach(a), OneEach(b),
           \A x \in ToSet(a) : \A y \in ToSet(b) : ~ (x.kind = y.kind /\ x.name = y.name)
    PROVE  OneEach(a \o b)
<1> DEFINE v == a \o b
<1>1. /\ Len(a) \in Nat /\ Len(b) \in Nat /\ DOMAIN v = 1 .. Len(a) + Len(b)
      /\ DOMAIN a = 1 .. Len(a) /\ DOMAIN b = 1 .. Len(b)
      /\ v = [i \in 1 .. Len(a) + Len(b) |-> IF i <= Len(a) THEN a[i] ELSE b[i - Len(a)]]
  BY Concatenated
<1>2. \A i \in DOMAIN v : \/ i \in DOMAIN a /\ v[i] = a[i]
                          \/ i > Len(a) /\ i - Len(a) \in DOMAIN b /\ v[i] = b[i - Len(a)]
  BY <1>1
<1>3. (\A i \in DOMAIN a : a[i] \in ToSet(a)) /\ (\A i \in DOMAIN b : b[i] \in ToSet(b))
  BY Members
<1> HIDE DEF v
<1> SUFFICES ASSUME NEW i \in DOMAIN v, NEW j \in DOMAIN v, v[i].kind = v[j].kind, v[i].name = v[j].name
             PROVE  i = j
  BY DEF OneEach, v
<1>4. CASE i \in DOMAIN a /\ j \in DOMAIN a /\ v[i] = a[i] /\ v[j] = a[j]
  BY <1>4 DEF OneEach
<1>5. ASSUME i - Len(a) \in DOMAIN b, j - Len(a) \in DOMAIN b,
             v[i] = b[i - Len(a)], v[j] = b[j - Len(a)]
      PROVE  i = j
  <2>1. i - Len(a) = j - Len(a)
    BY <1>5 DEF OneEach
  <2> QED
    BY <1>1, <2>1
<1>6. ASSUME NEW g \in DOMAIN v, NEW h \in DOMAIN v, g \in DOMAIN a, h - Len(a) \in DOMAIN b,
             v[g] = a[g], v[h] = b[h - Len(a)]
      PROVE  ~ (v[g].kind = v[h].kind /\ v[g].name = v[h].name)
  BY <1>3, <1>6
<1> QED
  BY <1>2, <1>4, <1>5, <1>6

\* While no declared rule has damaged tags, a reading of a folder finds each
\* thing once: the tag sweep looks at the rules Git does not declare there, the
\* order and content sweeps at those it does.
LEMMA FoundOnce ==
    ASSUME NEW s, NEW rows, RowsOK(rows), NEW D \in SUBSET Requests,
           \A r \in ToSet(rows) : r.name \in D => r.tag = "own"
    PROVE  OneEach(RuleFindings(s, rows, D))
<1> DEFINE Hit(cls) == KeepOnly(rows, {r \in ToSet(rows) : TagClass(r, D) = cls})
           Of(cls) == [i \in DOMAIN Hit(cls) |-> Finding(cls, "rule", Hit(cls)[i].name, Hit(cls)[i].tag)]
           b == OrderFindings(rows, D)
           c == ContentFindings(rows, D)
<1>1. ASSUME NEW cls \in {"unmanaged", "orphaned", "malformed"}
      PROVE  /\ Of(cls) \in Seq(FindingType) /\ OneEach(Of(cls))
             /\ \A x \in ToSet(Of(cls)) : x.kind = "rule" /\ x.name \notin D
                  /\ \E r \in ToSet(rows) : r.name = x.name /\ TagClass(r, D) = cls
  <2>1. RowsOK(Hit(cls)) /\ ToSet(Hit(cls)) = {r \in ToSet(rows) : TagClass(r, D) = cls}
    BY KeptRows
  <2> DEFINE f == [r \in Row |-> Finding(cls, "rule", r.name, r.tag)]
  <2>2. f \in [Row -> FindingType]
    BY DEF Row, Finding, FindingType, Names, RuleKinds
  <2>3. /\ Hit(cls) \in Seq(Row) /\ \A i \in DOMAIN Hit(cls) : Hit(cls)[i] \in Row
        /\ IsInjective(Hit(cls))
    BY <2>1, NamedOnce DEF RowsOK, Distinct
  <2>4. \A r \in ToSet(Hit(cls)) : /\ r \in Row /\ r \in ToSet(rows) /\ r.name \notin D
                                   /\ TagClass(r, D) = cls
    BY <2>1 DEF TagClass, RowsOK
  <2>5. \A r, q \in ToSet(Hit(cls)) : r.name = q.name => r = q
    BY <2>1 DEF RowsOK
  <2> HIDE DEF Hit
  <2>6. Of(cls) = Each(Hit(cls), f)
    BY <2>3 DEF Each
  <2>7. \A r \in Row : f[r].kind = "rule" /\ f[r].name = r.name
    BY DEF Finding
  <2> HIDE DEF f, Of
  <2>8. Of(cls) \in Seq(FindingType) /\ ToSet(Of(cls)) = ImageOf(f, ToSet(Hit(cls)))
    BY <2>2, <2>3, <2>6, Listed
  <2>9. OneEach(Of(cls))
    BY <2>3, <2>4, <2>5, <2>6, <2>7, EachOnce
  <2> QED
    BY <2>4, <2>7, <2>8, <2>9 DEF ImageOf
<1>2. TagFindings(rows, D) = Of("unmanaged") \o Of("orphaned") \o Of("malformed")
  BY DEF TagFindings
<1> HIDE DEF Of, Hit, b, c
<1>3. \A r, q \in ToSet(rows) : r.name = q.name => r = q
  BY DEF RowsOK
<1>4. /\ TagFindings(rows, D) \in Seq(FindingType) /\ OneEach(TagFindings(rows, D))
      /\ \A x \in ToSet(TagFindings(rows, D)) : x.kind = "rule" /\ x.name \notin D
  <2> DEFINE u == Of("unmanaged")
             o == Of("orphaned")
             m == Of("malformed")
             uo == u \o o
  <2>1. /\ u \in Seq(FindingType) /\ o \in Seq(FindingType) /\ m \in Seq(FindingType)
        /\ OneEach(u) /\ OneEach(o) /\ OneEach(m)
        /\ \A x \in ToSet(u) \cup ToSet(o) \cup ToSet(m) : x.kind = "rule" /\ x.name \notin D
        /\ \A x \in ToSet(u) : \A y \in ToSet(o) : x.name # y.name
        /\ \A x \in ToSet(u) \cup ToSet(o) : \A y \in ToSet(m) : x.name # y.name
    BY <1>1, <1>3
  <2>2. TagFindings(rows, D) = uo \o m
    BY <1>2
  <2> HIDE DEF u, o, m
  <2>3. uo \in Seq(FindingType) /\ ToSet(uo) = ToSet(u) \cup ToSet(o) /\ OneEach(uo)
    BY <2>1, JoinedMembers, JoinedOnce
  <2> HIDE DEF uo
  <2>4. /\ uo \o m \in Seq(FindingType) /\ ToSet(uo \o m) = ToSet(uo) \cup ToSet(m) /\ OneEach(uo \o m)
    BY <2>1, <2>3, JoinedMembers, JoinedOnce
  <2> QED
    BY <2>1, <2>2, <2>3, <2>4
<1>5. b \in Seq(FindingType) /\ OneEach(b) /\ \A x \in ToSet(b) : x.kind = "order"
  <2>1. b \in Seq(FindingType) /\ ToSet(b) = {Finding("reordered", "order", n, "none") : n \in Moved(rows, D)}
    BY OrderFindingsAre DEF b
  <2>2. \A x \in ToSet(b) : x.kind = "order"
    BY <2>1 DEF Finding
  <2>3. CASE Cardinality(D) < 2
    BY <2>1, <2>2, <2>3 DEF OrderFindings, b, OneEach
  <2>4. CASE ~ (Cardinality(D) < 2)
    <3> DEFINE moved == KeepOnly(DeployOrder, Moved(rows, D))
               f == [n \in Requests |-> Finding("reordered", "order", n, "none")]
    <3>1. moved \in Seq(Requests) /\ IsInjective(moved)
      BY RequestsAreOrdered, KeepOnlyMembers
    <3>2. b = [i \in DOMAIN moved |-> Finding("reordered", "order", moved[i], "none")]
      BY <2>4 DEF OrderFindings, MovedFindings, b
    <3> HIDE DEF moved
    <3>3. \A i \in DOMAIN moved : moved[i] \in Requests
      BY <3>1
    <3>4. b = Each(moved, f)
      BY <3>2, <3>3 DEF Each
    <3>5. ToSet(moved) \subseteq Requests
      BY <3>3 DEF ToSet
    <3>6. \A n \in Requests : f[n].name = n
      BY DEF Finding
    <3> HIDE DEF f
    <3>7. OneEach(Each(moved, f))
      BY <3>1, <3>5, <3>6, EachOnce
    <3> QED
      BY <2>1, <2>2, <3>4, <3>7
  <2> QED
    BY <2>3, <2>4
<1>6. c \in Seq(FindingType) /\ OneEach(c) /\ \A x \in ToSet(c) : x.kind = "rule" /\ x.name \in D
  <2> DEFINE Class(n) == IF RowsNamed(rows, n) = {} THEN "missing" ELSE "modified"
             hit == KeepOnly(Expected(D), {n \in D : Differs(rows, n)})
             f == [n \in Requests |-> Finding(Class(n), "rule", n, "none")]
  <2>1. /\ c \in Seq(FindingType)
        /\ ToSet(c) = {Finding(Class(n), "rule", n, "none") : n \in {m \in D : Differs(rows, m)}}
    BY ContentFindingsAre DEF c
  <2>2. \A x \in ToSet(c) : x.kind = "rule" /\ x.name \in D
    BY <2>1 DEF Finding
  <2>3. hit \in Seq(D) /\ IsInjective(hit)
    <3>1. Expected(D) \in Seq(D) /\ IsInjective(Expected(D))
      BY ExpectedIs, DistinctDomain DEF Distinct
    <3> QED
      BY <3>1, KeepOnlyMembers
  <2>4. c = [i \in DOMAIN hit |-> Finding(Class(hit[i]), "rule", hit[i], "none")]
    BY DEF ContentFindings, c
  <2> HIDE DEF hit, Class
  <2>5. \A i \in DOMAIN hit : hit[i] \in D /\ hit[i] \in Requests
    BY <2>3
  <2>6. c = Each(hit, f)
    BY <2>4, <2>5 DEF Each
  <2>7. ToSet(hit) \subseteq Requests
    BY <2>5 DEF ToSet
  <2>8. \A n \in Requests : f[n].name = n
    BY DEF Finding
  <2> HIDE DEF f
  <2>9. OneEach(Each(hit, f))
    BY <2>3, <2>7, <2>8, EachOnce
  <2> QED
    BY <2>1, <2>2, <2>6, <2>9
<1>7. CASE Covered(s, rows)
  <2> DEFINE bc == b \o c
             a == TagFindings(rows, D)
  <2>1. bc \in Seq(FindingType) /\ ToSet(bc) = ToSet(b) \cup ToSet(c) /\ OneEach(bc)
    BY <1>5, <1>6, JoinedMembers, JoinedOnce
  <2>2. RuleFindings(s, rows, D) = a \o bc
    BY <1>7 DEF RuleFindings, b, c
  <2> HIDE DEF bc, a
  <2>3. a \in Seq(FindingType) /\ OneEach(a) /\ \A x \in ToSet(a) : x.kind = "rule" /\ x.name \notin D
    BY <1>4 DEF a
  <2>4. \A x \in ToSet(a) : \A y \in ToSet(bc) : ~ (x.kind = y.kind /\ x.name = y.name)
    BY <1>5, <1>6, <2>1, <2>3
  <2> QED
    BY <2>1, <2>2, <2>3, <2>4, JoinedOnce
<1>8. CASE ~ Covered(s, rows)
  <2>1. RuleFindings(s, rows, D) = TagFindings(rows, D) \o <<>>
    BY <1>8 DEF RuleFindings
  <2> QED
    BY <1>4, <2>1
<1> QED
  BY <1>7, <1>8

\* As long as no two records of the checkout claim one id, a second reading of
\* a folder whose declared rules keep their tags leaves the records alone.
THEOREM SecondReadingIsQuiet == Spec => [](IdsApart(ws) => QuietWhenTagsIntact)
<1>1. TInv => (IdsApart(ws) => QuietWhenTagsIntact)
  <2> SUFFICES ASSUME TInv, IdsApart(ws), pc = "rules",
                      \A r \in ToSet(rulebase[Here]) : r.name \in base.declared[Here] => r.tag = "own"
               PROVE  LET D == base.declared[Here]
                          once == CheckRules(ws, Here, D)
                      IN  CheckRules(once.store, Here, D).store = once.store
    BY DEF QuietWhenTagsIntact
  <2> DEFINE s == Here
             D == base.declared[s]
             found == RuleFindings(s, rulebase[s], D)
             once == WriteAll(ws, Changed(ws, s, RuleKinds, found)).store
  <2>1. s \in Scopes /\ RowsOK(rulebase[s]) /\ StoreOK(ws) /\ D \in SUBSET Requests
    BY Constants DEF TInv, ScmOK, RulesOK, RecordsOK, JobOK, Tree, Here
  <2> HIDE DEF s, D
  <2>2. found \in Seq(FindingType) /\ OneEach(found)
    BY <2>1, RuleFindingsAre, FoundOnce DEF s, D
  <2> HIDE DEF found
  <2>3. WriteAll(once, Changed(once, s, RuleKinds, found)).store = once
    BY <2>1, <2>2, SecondPass
  <2> QED
    BY <2>3 DEF CheckRules, Reconcile, found, s, D
<1> QED
  BY <1>1, TInvHolds, PTL
====

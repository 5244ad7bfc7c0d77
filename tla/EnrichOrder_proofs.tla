---- MODULE EnrichOrder_proofs ----
(***************************************************************************)
(* The restore pass of an enrichment run puts the managed rules into       *)
(* deployment order, moves no rule across a foreign one that had them all  *)
(* on one side, and finds nothing to repair where nothing was moved: for   *)
(* any number of rules and any rulebase the job may find.                  *)
(***************************************************************************)
EXTENDS EnrichOrder, RuleOrder_proofs

\* The orders of a set that finitely many rules make up exist and are such
\* sequences: the rulebase the job may start from, and what terraform appends.
LEMMA ManagedFinite == IsFiniteSet(Managed) /\ Distinct(Deployed)
<1>1. Deployed = [k \in 1 .. Len(Deployed) |-> Deployed[k]] /\ Len(Deployed) \in Nat
  BY RulesAreNamedOnce
<1>2. Distinct(Deployed)
  BY <1>1, RulesAreNamedOnce DEF Distinct
<1>3. Managed = {Deployed[k] : k \in 1 .. Len(Deployed)}
  BY <1>1 DEF Managed, ToSet
<1>4. IsFiniteSet(1 .. Len(Deployed))
  <2>1. Len(Deployed) \in Int
    BY <1>1
  <2> QED
    BY <2>1, FS_Interval
<1> DEFINE f == [k \in 1 .. Len(Deployed) |-> Deployed[k]]
<1>5. f \in Surjection(1 .. Len(Deployed), Managed)
  BY <1>3 DEF Surjection
<1> QED
  BY <1>2, <1>4, <1>5, FS_Surjection

\* When the deployed rules stand in order, detection finds nothing to restore.
LEMMA InOrderIsClean ==
    ASSUME NEW rb, Distinct(rb), Managed \subseteq ToSet(rb),
           \A a, b \in 1 .. Len(Deployed) : a < b =>
                PositionOf(rb, Deployed[a]) < PositionOf(rb, Deployed[b])
    PROVE  IsClean(Deployed, rb)
<1>1. KeepOnly(rb, ToSet(Deployed)) = Deployed
  <2>1. ToSet(rb) \cap ToSet(Deployed) = ToSet(Deployed)
    BY DEF Managed
  <2> QED
    BY <2>1, ManagedFinite, KeepOnlyIs
<1>2. KeepOnly(Deployed, ToSet(rb)) = Deployed
  <2>1. ToSet(Deployed) \cap ToSet(rb) = ToSet(Deployed)
    BY DEF Managed
  <2>2. \A a, b \in 1 .. Len(Deployed) : a < b =>
            PositionOf(Deployed, Deployed[a]) < PositionOf(Deployed, Deployed[b])
    BY ManagedFinite, PositionFound
  <2> QED
    BY <2>1, <2>2, ManagedFinite, KeepOnlyIs
<1> QED
  BY <1>1, <1>2 DEF IsClean, Actual, Common

----
(* The inductive invariant: while nobody touches the console every managed *)
(* rule stays in the folder, and the rules the restore pass has reached    *)
(* stand in deployment order, each below its predecessor.                  *)

Counters ==
    /\ i \in Nat /\ console \in Nat
    /\ pc \in {"order", "restore"} => i >= 1
    /\ pc = "restore" => i >= 2
    /\ pc \in {"ids", "order", "reread"} => restored = {}

NothingLost ==
    ~touched => /\ Managed \subseteq ToSet(rulebase)
                /\ pc \in {"order", "restore"} => Managed \subseteq ToSet(ids)

PrefixInOrder ==
    ~touched /\ pc = "restore" =>
        \A a, b \in 1 .. Len(Deployed) : a < b /\ b < i =>
            PositionOf(rulebase, Deployed[a]) < PositionOf(rulebase, Deployed[b])

OnlyRepairsMove ==
    ~touched /\ counted = {} =>
        /\ restored = {} => rulebase = started
        /\ restored # {} \/ pc = "restore" => ~IsClean(Deployed, started)

IInv ==
    /\ Counters
    /\ Distinct(rulebase)
    /\ \A r \in Managed : position[r].target # r
    /\ NothingLost
    /\ PrefixInOrder
    /\ RestoredInOrder
    /\ OnlyRepairsMove

LEMMA InitIInv == Init => IInv
<1> SUFFICES ASSUME Init PROVE IInv
  OBVIOUS
<1>1. PICK fs \in SUBSET Foreign : rulebase \in SetToSeqs(Managed \cup fs)
  BY DEF Init
<1>2. IsFiniteSet(Managed \cup fs)
  BY ManagedFinite, RulesAreNamedOnce, FS_Subset, FS_Union
<1>3. Distinct(rulebase) /\ Managed \subseteq ToSet(rulebase)
  BY <1>1, <1>2, OrdersOfASet
<1> QED
  BY <1>3 DEF Init, IInv, Counters, NothingLost, PrefixInOrder, RestoredInOrder, OnlyRepairsMove

\* Every move of one rule next to another keeps who is in the folder.
LEMMA MovesKeepRules ==
    ASSUME Distinct(rulebase), NEW r, IssueMove(r), position[r].target # r
    PROVE  /\ Distinct(rulebase') /\ ToSet(rulebase') = ToSet(rulebase)
           /\ counted' = {} => rulebase' = rulebase /\ counted = {}
           /\ restored' = restored /\ pc' \in {pc, "failed"}
<1> DEFINE target == position[r].target
<1>1. CASE rulebase' = rulebase /\ counted' = counted /\ restored' = restored /\ pc' \in {pc, "failed"}
  BY <1>1
<1>2. CASE /\ position[r].rel = "top" /\ r \in ToSet(rulebase)
           /\ rulebase' = MoveTop(rulebase, r) /\ counted' = counted \cup {r}
           /\ UNCHANGED <<restored, pc>>
  BY <1>2, MovedTop
<1>3. CASE /\ {r, target} \subseteq ToSet(rulebase)
           /\ rulebase' = MoveBefore(rulebase, r, target) \/ rulebase' = MoveAfter(rulebase, r, target)
           /\ counted' = counted \cup {r}
           /\ UNCHANGED <<restored, pc>>
  <2>1. r \in ToSet(rulebase) /\ target \in ToSet(rulebase)
    BY <1>3
  <2>2. CASE rulebase' = MoveBefore(rulebase, r, target)
    BY <2>1, <2>2, <1>3, MovedBefore
  <2>3. CASE rulebase' = MoveAfter(rulebase, r, target)
    BY <2>1, <2>3, <1>3, MovedAfter
  <2> QED
    BY <2>2, <2>3, <1>3
<1> QED
  BY <1>1, <1>2, <1>3 DEF IssueMove, Refused

\* Moving rule n below rule n - 1 extends the deployment order by one rule.
LEMMA OneMoreInOrder ==
    ASSUME NEW rb, Distinct(rb), Managed \subseteq ToSet(rb), NEW n \in 2 .. Len(Deployed),
           \A a, b \in 1 .. Len(Deployed) : a < b /\ b < n =>
                PositionOf(rb, Deployed[a]) < PositionOf(rb, Deployed[b])
    PROVE  LET moved == MoveAfter(rb, Deployed[n], Deployed[n - 1])
           IN  \A a, b \in 1 .. Len(Deployed) : a < b /\ b < n + 1 =>
                   PositionOf(moved, Deployed[a]) < PositionOf(moved, Deployed[b])
<1> DEFINE r == Deployed[n]
           p == Deployed[n - 1]
           moved == MoveAfter(rb, r, p)
           pos(x) == PositionOf(rb, x)
           new(x) == PositionOf(moved, x)
<1>1. Len(Deployed) \in Nat
  BY ManagedFinite DEF Distinct
<1>2. \A k \in 1 .. Len(Deployed) : Deployed[k] \in ToSet(rb)
  BY ManagedFinite, DistinctDomain DEF Managed
<1>3. \A j, k \in 1 .. Len(Deployed) : Deployed[j] = Deployed[k] => j = k
  BY ManagedFinite, DistinctDomain
<1>4. /\ r \in ToSet(rb) /\ p \in ToSet(rb) /\ r # p
      /\ n \in 1 .. Len(Deployed) /\ n - 1 \in 1 .. Len(Deployed)
  BY <1>1, <1>2, <1>3
<1>6. /\ new(r) = new(p) + 1
      /\ \A x, y \in ToSet(rb) \ {r} : new(x) < new(y) <=> pos(x) < pos(y)
      /\ Distinct(moved) /\ ToSet(moved) = ToSet(rb)
  BY <1>4, MovedAfter
<1>7. \A x \in ToSet(rb) : new(x) \in Nat
  <2> HIDE DEF moved
  <2> QED
    BY <1>6, PositionType, DistinctDomain
<1> HIDE DEF moved
<1>8. ASSUME NEW a \in 1 .. Len(Deployed), NEW b \in 1 .. Len(Deployed), a < b, b < n + 1
      PROVE  new(Deployed[a]) < new(Deployed[b])
  <2>1. Deployed[a] \in ToSet(rb) \ {r}
    BY <1>1, <1>2, <1>3, <1>4, <1>8
  <2>2. CASE b < n
    <3>1. Deployed[b] \in ToSet(rb) \ {r}
      BY <1>1, <1>2, <1>3, <1>4, <2>2
    <3>2. pos(Deployed[a]) < pos(Deployed[b])
      BY <1>8, <2>2
    <3> QED
      BY <2>1, <3>1, <3>2, <1>6
  <2>3. CASE b = n /\ a = n - 1
    BY <2>3, <1>4, <1>6, <1>7
  <2>4. CASE b = n /\ a < n - 1
    <3>1. pos(Deployed[a]) < pos(p)
      BY <1>1, <1>4, <1>8, <2>4
    <3>2. new(Deployed[a]) < new(p)
      BY <2>1, <3>1, <1>4, <1>6
    <3>3. new(p) \in Nat /\ new(Deployed[a]) \in Nat
      BY <1>4, <1>7, <2>1
    <3> QED
      BY <2>4, <1>6, <3>2, <3>3
  <2> QED
    BY <1>1, <1>8, <2>2, <2>3, <2>4
<1> QED
  BY <1>8 DEF moved

----
(* The invariant is inductive, one step per action.                        *)

LEMMA NextIInv == IInv /\ [Next]_vars => IInv'
<1> SUFFICES ASSUME IInv, [Next]_vars PROVE IInv'
  OBVIOUS
<1> USE DEF IInv
<1>1. CASE ReadIds
  BY <1>1 DEF ReadIds, Counters, NothingLost, PrefixInOrder, RestoredInOrder, OnlyRepairsMove
<1>2. CASE ApplyOrdering
  <2>1. NameOrder[i] \in Managed
    <3>1. i \in 1 .. Len(NameOrder)
      BY <1>2, RulesAreNamedOnce DEF ApplyOrdering, Counters
    <3> QED
      BY <3>1, RulesAreNamedOnce
  <2>2. /\ Distinct(rulebase') /\ ToSet(rulebase') = ToSet(rulebase)
        /\ counted' = {} => rulebase' = rulebase /\ counted = {}
        /\ restored' = restored /\ pc' \in {pc, "failed"}
    BY <1>2, <2>1, MovesKeepRules DEF ApplyOrdering
  <2>3. /\ pc = "order" /\ i' = i + 1
        /\ UNCHANGED <<position, ids, started, console, faults, touched>>
    BY <1>2 DEF ApplyOrdering
  <2> QED
    BY <2>2, <2>3 DEF Counters, NothingLost, PrefixInOrder, RestoredInOrder, OnlyRepairsMove
<1>3. CASE OrderingDone
  <2>1. Len(Deployed) < 2 /\ ~touched => IsClean(Deployed, rulebase)
    <3>1. Len(Deployed) \in Nat
      BY ManagedFinite DEF Distinct
    <3>2. Len(Deployed) < 2 => ~ \E a, b \in 1 .. Len(Deployed) : a < b
      BY <3>1
    <3> QED
      BY <3>2, InOrderIsClean DEF NothingLost
  <2>2. Len(Deployed) \in Nat
    BY ManagedFinite DEF Distinct
  <2> QED
    BY <1>3, <2>1, <2>2
    DEF OrderingDone, Counters, NothingLost, PrefixInOrder, RestoredInOrder, OnlyRepairsMove
<1>4. CASE ReadAgain
  <2>1. pc' = "restore" /\ ~touched' => Managed \subseteq ToSet(ids')
    BY <1>4 DEF ReadAgain, NothingLost
  <2>2. PrefixInOrder'
    BY <1>4 DEF ReadAgain, PrefixInOrder
  <2> QED
    BY <1>4, <2>1, <2>2
    DEF ReadAgain, NothingToRestore, Counters, NothingLost, RestoredInOrder, OnlyRepairsMove
<1>5. CASE Reseat
  <2>1. i \in 2 .. Len(Deployed) /\ i' = i + 1 /\ i \in Nat
    BY <1>5, ManagedFinite DEF Reseat, Counters, Distinct
  <2>2. \A k \in 1 .. Len(Deployed) : Deployed[k] \in Managed
    BY ManagedFinite, DistinctDomain DEF Managed
  <2>3. /\ pc = "restore"
        /\ UNCHANGED <<position, ids, started, console, faults, touched, counted>>
    BY <1>5 DEF Reseat, Refused
  <2>4. i - 1 \in 1 .. Len(Deployed) /\ i \in 1 .. Len(Deployed) /\ Deployed[i] # Deployed[i - 1]
    <3>1. i - 1 \in 1 .. Len(Deployed) /\ i \in 1 .. Len(Deployed)
      BY <2>1, ManagedFinite DEF Distinct
    <3> QED
      BY <3>1, <2>1, ManagedFinite, DistinctDomain
  <2>5. CASE ~ {Deployed[i], Anchor(i)} \subseteq ToSet(ids) /\ UNCHANGED <<rulebase, restored, pc>>
    <3>1. touched
      BY <2>2, <2>3, <2>4, <2>5 DEF Anchor, NothingLost
    <3> QED
      BY <2>1, <2>3, <2>5, <3>1
      DEF Counters, NothingLost, PrefixInOrder, RestoredInOrder, OnlyRepairsMove
  <2>6. CASE /\ {Deployed[i], Anchor(i)} \subseteq ToSet(rulebase)
             /\ rulebase' = Reseated(Deployed[i], Anchor(i))
             /\ restored' = restored \cup {Deployed[i]}
             /\ pc' = pc
    <3>1. Deployed[i] \in ToSet(rulebase) /\ Deployed[i - 1] \in ToSet(rulebase)
      BY <2>6 DEF Anchor
    <3>2. rulebase' = MoveAfter(rulebase, Deployed[i], Deployed[i - 1])
      BY <2>6 DEF Anchor, Reseated
    <3>3. Distinct(rulebase') /\ ToSet(rulebase') = ToSet(rulebase)
      BY <2>4, <3>1, <3>2, MovedAfter
    <3>4. ~touched => \A a, b \in 1 .. Len(Deployed) : a < b /\ b < i + 1 =>
                PositionOf(rulebase', Deployed[a]) < PositionOf(rulebase', Deployed[b])
      BY <2>1, <2>3, <3>2, OneMoreInOrder DEF NothingLost, PrefixInOrder
    <3>5. PrefixInOrder'
      BY <2>1, <2>3, <3>4 DEF PrefixInOrder
    <3> QED
      BY <2>1, <2>3, <2>6, <3>3, <3>5 DEF Counters, NothingLost, RestoredInOrder, OnlyRepairsMove
  <2>7. CASE pc' = "failed" /\ UNCHANGED <<rulebase, restored>>
    BY <2>1, <2>3, <2>7 DEF Counters, NothingLost, PrefixInOrder, RestoredInOrder, OnlyRepairsMove
  <2> QED
    BY <1>5, <2>5, <2>6, <2>7 DEF Reseat, Refused
<1>6. CASE ReseatDone
  <2>1. ~touched => IsClean(Deployed, rulebase)
    <3>1. i > Len(Deployed) /\ i \in Nat /\ pc = "restore" /\ Len(Deployed) \in Nat
      BY <1>6, ManagedFinite DEF ReseatDone, Counters, Distinct
    <3>2. ~touched => \A a, b \in 1 .. Len(Deployed) : a < b =>
                PositionOf(rulebase, Deployed[a]) < PositionOf(rulebase, Deployed[b])
      BY <3>1 DEF PrefixInOrder
    <3> QED
      BY <3>2, InOrderIsClean DEF NothingLost
  <2> QED
    BY <1>6, <2>1 DEF ReseatDone, Counters, NothingLost, PrefixInOrder, RestoredInOrder, OnlyRepairsMove
<1>7. CASE NextApply
  <2>1. PICK created \in Recreated : rulebase' = rulebase \o created
    BY <1>7 DEF NextApply
  <2>2. Distinct(created) /\ ToSet(created) = Managed \ ToSet(rulebase)
    BY ManagedFinite, FS_Subset, OrdersOfASet DEF Recreated
  <2>3. Distinct(rulebase') /\ ToSet(rulebase') = ToSet(rulebase) \cup Managed
    BY <2>1, <2>2, Followed
  <2> QED
    BY <1>7, <2>3 DEF NextApply, Counters, NothingLost, PrefixInOrder, RestoredInOrder, OnlyRepairsMove
<1>8. CASE FailCall
  BY <1>8 DEF FailCall, Refused, Counters, NothingLost, PrefixInOrder, RestoredInOrder, OnlyRepairsMove
<1>9. CASE ConsoleEdit
  <2>1. Distinct(rulebase')
    BY <1>9, WithoutFacts, MovedTop, MovedAfter DEF ConsoleEdit
  <2> QED
    BY <1>9, <2>1 DEF ConsoleEdit, Counters, NothingLost, PrefixInOrder, RestoredInOrder, OnlyRepairsMove
<1>10. CASE UNCHANGED vars
  BY <1>10 DEF vars, Counters, NothingLost, PrefixInOrder, RestoredInOrder, OnlyRepairsMove
<1> QED
  BY <1>1, <1>2, <1>3, <1>4, <1>5, <1>6, <1>7, <1>8, <1>9, <1>10 DEF Next, Enrich

LEMMA IInvHolds == Spec => []IInv
BY InitIInv, NextIInv, PTL DEF Spec

\* A completed enrich nobody disturbed leaves the managed rules in deployment
\* order, for every deployment order, every set of foreign rules and whatever
\* moves the intents ask for.
THEOREM RestoresInOrder == Spec => []RestoredInOrder
<1>1. IInv => RestoredInOrder
  BY DEF IInv
<1> QED
  BY IInvHolds, <1>1, PTL

\* A reorder record is filed only of a run that found the rules out of order.
THEOREM RecordsOnlyReorders == Spec => []NoFalseReorderRecord
<1>1. IInv => NoFalseReorderRecord
  BY DEF IInv, OnlyRepairsMove, NoFalseReorderRecord
<1> QED
  BY IInvHolds, <1>1, PTL

----
(* Fences: a foreign rule with all the managed rules on one side of it.    *)

\* Putting a managed rule below another managed one leaves the fences standing.
LEMMA MoveKeepsFence ==
    ASSUME NEW rb, Distinct(rb), NEW r \in Managed \cap ToSet(rb), NEW p \in Managed \cap ToSet(rb),
           r # p, NEW f \in Foreign \cap ToSet(rb), Fenced(rb, f) # "between"
    PROVE  Fenced(MoveAfter(rb, r, p), f) = Fenced(rb, f)
<1> DEFINE moved == MoveAfter(rb, r, p)
           pos(x) == PositionOf(rb, x)
           new(x) == PositionOf(moved, x)
           Others == Managed \cap ToSet(rb)
<1>1. /\ new(r) = new(p) + 1
      /\ \A x, y \in ToSet(rb) \ {r} : new(x) < new(y) <=> pos(x) < pos(y)
      /\ Distinct(moved) /\ ToSet(moved) = ToSet(rb)
  BY MovedAfter
<1> HIDE DEF moved
<1>2. \A x \in ToSet(rb) : new(x) \in Nat /\ pos(x) \in Nat
  <2>1. \A x \in ToSet(moved) : new(x) \in Nat
    BY <1>1, PositionType, DistinctDomain
  <2>2. \A x \in ToSet(rb) : pos(x) \in Nat
    BY PositionType, DistinctDomain
  <2> QED
    BY <1>1, <2>1, <2>2
<1>3. f # r /\ f # p /\ f \in ToSet(rb) \ {r} /\ p \in ToSet(rb) \ {r}
  BY RulesAreNamedOnce
<1>4. new(f) # new(r) /\ new(f) # new(p)
  BY <1>1, <1>3, PositionType
<1>5. (\A m \in Others : pos(m) < pos(f)) => \A m \in Others : new(m) < new(f)
  <2> SUFFICES ASSUME \A m \in Others : pos(m) < pos(f), NEW m \in Others
               PROVE  new(m) < new(f)
    OBVIOUS
  <2>1. new(p) < new(f)
    BY <1>1, <1>3
  <2>2. CASE m = r
    BY <2>1, <2>2, <1>1, <1>2, <1>3, <1>4
  <2>3. CASE m # r
    BY <2>3, <1>1, <1>3
  <2> QED
    BY <2>2, <2>3
<1>6. (\A m \in Others : pos(m) > pos(f)) => \A m \in Others : new(m) > new(f)
  <2> SUFFICES ASSUME \A m \in Others : pos(m) > pos(f), NEW m \in Others
               PROVE  new(m) > new(f)
    OBVIOUS
  <2>1. new(f) < new(p)
    BY <1>1, <1>2, <1>3
  <2>2. CASE m = r
    BY <2>1, <2>2, <1>1, <1>2, <1>3
  <2>3. CASE m # r
    BY <2>3, <1>1, <1>2, <1>3
  <2> QED
    BY <2>2, <2>3
<1>7. Fenced(rb, f) = IF \A m \in Others : pos(m) < pos(f) THEN "below"
                      ELSE IF \A m \in Others : pos(m) > pos(f) THEN "above" ELSE "between"
  BY DEF Fenced
<1>8. Fenced(moved, f) = IF \A m \in Others : new(m) < new(f) THEN "below"
                         ELSE IF \A m \in Others : new(m) > new(f) THEN "above" ELSE "between"
  BY <1>1 DEF Fenced
<1>9. ~ ((\A m \in Others : new(m) < new(f)) /\ (\A m \in Others : new(m) > new(f)))
  BY <1>2, <1>3
<1> QED
  BY <1>5, <1>6, <1>7, <1>8, <1>9 DEF moved

\* Restoring our own order never carries a managed rule past a foreign rule
\* that had all of them on one side, even while the console edits the folder.
THEOREM RestoreKeepsFences == Spec => FencesKept
<1>1. IInv /\ [Next]_vars => FencesStep \/ UNCHANGED vars
  <2> SUFFICES ASSUME IInv, [Next]_vars, pc = "restore", console' = console,
                      NEW f \in Foreign \cap ToSet(rulebase), Fenced(rulebase, f) # "between"
               PROVE  Fenced(rulebase', f) = Fenced(rulebase, f)
    BY DEF FencesStep
  <2>1. CASE rulebase' = rulebase
    BY <2>1 DEF Fenced
  <2>2. CASE Reseat /\ rulebase' # rulebase
    <3>1. /\ {Deployed[i], Deployed[i - 1]} \subseteq ToSet(rulebase)
          /\ rulebase' = MoveAfter(rulebase, Deployed[i], Deployed[i - 1])
      BY <2>2 DEF Reseat, Reseated, Anchor, Refused
    <3>2. i - 1 \in 1 .. Len(Deployed) /\ i \in 1 .. Len(Deployed)
      BY <2>2, ManagedFinite DEF Reseat, IInv, Counters, Distinct
    <3>3. Deployed[i] # Deployed[i - 1] /\ {Deployed[i], Deployed[i - 1]} \subseteq Managed
      <4>1. i # i - 1
        BY <3>2
      <4> QED
        BY <4>1, <3>2, ManagedFinite, DistinctDomain DEF Managed
    <3> QED
      BY <3>1, <3>3, MoveKeepsFence DEF IInv
  <2>3. Reseat \/ rulebase' = rulebase
    <3>1. pc \notin {"ids", "order", "reread", "done", "failed"} /\ console \in Nat /\ console' = console
      BY DEF IInv, Counters
    <3> QED
      BY <3>1 DEF Next, Enrich, ReadIds, ApplyOrdering, OrderingDone, ReadAgain, ReseatDone, NextApply,
                  FailCall, Refused, ConsoleEdit, vars
  <2> QED
    BY <2>1, <2>2, <2>3
<1> QED
  BY IInvHolds, <1>1, PTL DEF FencesKept, Spec
====

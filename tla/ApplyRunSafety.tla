---- MODULE ApplyRunSafety ----
(***************************************************************************)
(* The safety of ApplyRun, for every instance.  None of the properties is  *)
(* inductive as it stands; each is strengthened with what the steps before *)
(* it established: what ensure has still to create, which rules terraform  *)
(* has already settled, which part of the candidate a push job carries.    *)
(***************************************************************************)
EXTENDS ApplyRun, TLAPS

----
(* The type invariant.                                                     *)

\* A name set never leaves the names the platform mints.
LEMMA NamesAreRefs ==
    ASSUME NEW rs \in SUBSET Reqs, NEW tree \in Trees
    PROVE  Names(rs, tree) \subseteq Refs
  BY RulesAssumption DEF Names, UsesOf, Trees, Saying

LEMMA AtIsScope == TypeOK => At \in Scopes
  BY ScopesAssumption DEF TypeOK, At

LEMMA TreeIsTree == TypeOK => Tree \in Trees
  BY DEF TypeOK, Tree

LEMMA NothingIsTree == Nothing \in Trees /\ NoPlan \in [Reqs -> Ops]
  BY DEF Nothing, NoPlan, Trees, Saying, Ops

LEMMA PartIsTree ==
    ASSUME NEW s \in Scopes, NEW tree \in Trees
    PROVE  Part(s, tree) \in Trees
  BY DEF Part, Trees, Saying

LEMMA WantedIsRefs ==
    ASSUME TypeOK, NEW s \in Scopes
    PROVE  Wanted(s) \subseteq Refs
  BY NamesAreRefs, TreeIsTree DEF Wanted, Of

----
(* Type correctness.                                                       *)

LEMMA InitTypeOK == Init => TypeOK
<1> SUFFICES ASSUME Init PROVE TypeOK
  OBVIOUS
<1>1. main \in Seq(Trees) /\ n \in 1 .. Len(main) /\ rules \in Trees /\ live \in Trees
  BY NothingIsTree DEF Init
<1>2. job \in [Scopes -> Jobs]
  BY NothingIsTree DEF Init, Jobs, NoJob
<1>3. k \in 1 .. Len(ScopeOrder)
  BY ScopesAssumption DEF Init
<1> QED
  BY <1>1, <1>2, <1>3, NothingIsTree DEF Init, TypeOK, Steps

\* The part of TypeOK about the process itself, which most actions touch alone.
RunTypeOK ==
    /\ pc \in Steps
    /\ k \in 1 .. Len(ScopeOrder)
    /\ plan \in [Reqs -> Ops]
    /\ todo \subseteq Refs
    /\ staged \in BOOLEAN
    /\ moved \in BOOLEAN
    /\ green \in BOOLEAN
    /\ touched \in BOOLEAN
    /\ warned \in BOOLEAN

LEMMA AbortType == TypeOK /\ Abort => RunTypeOK'
  BY NothingIsTree DEF TypeOK, RunTypeOK, Abort, Goto, Steps

LEMMA NextScopeType == TypeOK /\ NextScope => k' \in 1 .. Len(ScopeOrder) /\ pc' \in Steps
                                                /\ green' \in BOOLEAN /\ todo' \subseteq Refs
  BY ScopesAssumption DEF TypeOK, NextScope, Steps

LEMMA AfterSweepType == TypeOK /\ AfterSweep => k' \in 1 .. Len(ScopeOrder) /\ pc' \in Steps
                                                 /\ green' \in BOOLEAN /\ todo' \subseteq Refs
  BY NextScopeType DEF TypeOK, AfterSweep, Goto, Steps

LEMMA JobStepType == TypeOK /\ JobStep => TypeOK'
<1> SUFFICES ASSUME TypeOK, JobStep PROVE TypeOK'
  OBVIOUS
<1>1. CASE Ensure
  BY <1>1, WantedIsRefs, AtIsScope
     DEF Ensure, TypeOK, gitops, scm, budget, Goto, Steps, Missing
<1>2. CASE CreateRef
  <2>1. objs' \in [Scopes -> SUBSET Refs]
    BY <1>2, AtIsScope DEF CreateRef, TypeOK
  <2>2. RunTypeOK'
    BY <1>2, AbortType DEF CreateRef, TypeOK, RunTypeOK
  <2> QED
    BY <1>2, <2>1, <2>2 DEF CreateRef, TypeOK, RunTypeOK, gitops, budget
<1>3. CASE EnsureDone
  BY <1>3 DEF EnsureDone, TypeOK, gitops, scm, budget, Goto, Steps
<1>4. CASE TerraformPlan
  BY <1>4 DEF TerraformPlan, Refreshed, TypeOK, gitops, scm, budget, Goto, Steps, PlanFor, Ops
<1>5. ASSUME NEW r \in Reqs, ApplyRule(r) PROVE TypeOK'
  <2>1. rules' \in Trees
    BY <1>5, TreeIsTree DEF ApplyRule, Write, TypeOK, Trees
  <2>2. owned' \subseteq Reqs /\ plan' \in [Reqs -> Ops]
    BY <1>5 DEF ApplyRule, StateAfter, TypeOK, Ops
  <2> QED
    BY <1>5, <2>1, <2>2 DEF ApplyRule, TypeOK, gitops, budget
<1>6. ASSUME NEW r \in Reqs, RefuseRule(r) PROVE TypeOK'
  BY <1>6, AbortType DEF RefuseRule, RunTypeOK, TypeOK, gitops, scm, budget
<1>7. CASE ApplyDone
  BY <1>7 DEF ApplyDone, TypeOK, gitops, scm, budget, Goto, Steps
<1>8. CASE Enrich
  BY <1>8 DEF Enrich, Declares, TypeOK, gitops, scm, budget, Goto, Steps
<1>9. CASE SkipPush
  BY <1>9 DEF SkipPush, TypeOK, gitops, scm, budget, Goto, Steps
<1>10. CASE StartPush
  <2>1. job' \in [Scopes -> Jobs]
    <3> DEFINE new == [state |-> "running", content |-> Part(At, rules),
                       clean |-> ~touched /\ Orphans(At) = {}]
    <3>1. new \in Jobs
      <4>1. Part(At, rules) \in Trees
        BY PartIsTree, AtIsScope DEF TypeOK
      <4>2. (~touched /\ Orphans(At) = {}) \in BOOLEAN
        OBVIOUS
      <4> QED
        BY <4>1, <4>2 DEF Jobs
    <3>2. job' = [job EXCEPT ![At] = new] \/ job' = job
      BY <1>10 DEF StartPush
    <3> QED
      BY <3>1, <3>2 DEF TypeOK
  <2>2. RunTypeOK'
    BY <1>10, AbortType DEF StartPush, TypeOK, RunTypeOK, Goto, Steps
  <2> QED
    BY <1>10, <2>1, <2>2 DEF StartPush, TypeOK, RunTypeOK, gitops, budget
<1>11. CASE PushNoop
  BY <1>11 DEF PushNoop, TypeOK, gitops, scm, budget, Goto, Steps
<1>12. CASE PollOk
  BY <1>12 DEF PollOk, TypeOK, gitops, scm, budget, Goto, Steps
<1>13. CASE PollFail
  BY <1>13, AbortType DEF PollFail, RunTypeOK, TypeOK, gitops, scm, budget
<1>14. CASE PollTimeout
  BY <1>14, AbortType DEF PollTimeout, RunTypeOK, TypeOK, gitops, scm, budget
<1>15. CASE Sweep
  <2>1. Present(At) \subseteq Refs
    BY AtIsScope, ScopesAssumption DEF Present, TypeOK
  <2> QED
    BY <1>15, <2>1 DEF Sweep, TypeOK, gitops, scm, budget, Goto, Steps, Unreferenced
<1>16. ASSUME NEW x \in Refs, NEW t \in Scopes, DeleteRef(x, t) PROVE TypeOK'
  BY <1>16 DEF DeleteRef, TypeOK, gitops, budget
<1>17. CASE RefuseDelete
  BY <1>17, AfterSweepType DEF RefuseDelete, TypeOK, gitops, scm, budget
<1>18. CASE SweepDone
  BY <1>18, AfterSweepType DEF SweepDone, TypeOK, gitops, scm, budget
<1>19. CASE EnterScope
  BY <1>19 DEF EnterScope, TypeOK, gitops, scm, budget, Goto, Steps
<1>20. CASE PassScope
  BY <1>20, NextScopeType DEF PassScope, TypeOK, gitops, scm, budget
<1> QED
  BY <1>1, <1>2, <1>3, <1>4, <1>5, <1>6, <1>7, <1>8, <1>9, <1>10, <1>11, <1>12, <1>13,
     <1>14, <1>15, <1>16, <1>17, <1>18, <1>19, <1>20 DEF JobStep

LEMMA NextType == TypeOK /\ [Next]_vars => TypeOK'
<1> SUFFICES ASSUME TypeOK, [Next]_vars PROVE TypeOK'
  OBVIOUS
<1>1. CASE StartRun
  <2>1. n' \in 1 .. Len(main') /\ good' \in 1 .. Len(main')
    BY <1>1 DEF StartRun, Start, LastGood, TypeOK
  <2>2. k' \in 1 .. Len(ScopeOrder)
    BY <1>1, ScopesAssumption DEF StartRun, Start
  <2> QED
    BY <1>1, <2>1, <2>2 DEF StartRun, Start, TypeOK, scm, budget, Goto, Steps
<1>2. CASE JobStep
  BY <1>2, JobStepType
<1>3. CASE Faults
  <2>1. CASE Fail
    BY <2>1, AbortType DEF Fail, RunTypeOK, TypeOK, gitops, scm
  <2>2. ASSUME NEW r \in Reqs, LoseStateWrite(r) PROVE TypeOK'
    <3>1. rules' \in Trees
      BY <2>2, TreeIsTree DEF LoseStateWrite, Write, TypeOK, Trees
    <3> QED
      BY <2>2, <3>1, AbortType DEF LoseStateWrite, RunTypeOK, TypeOK, gitops
  <2>3. CASE LoseState
    BY <2>3 DEF LoseState, TypeOK, gitops, scm, run
  <2>4. CASE FailSweep
    BY <2>4, AfterSweepType DEF FailSweep, TypeOK, gitops, scm
  <2> QED
    BY <1>3, <2>1, <2>2, <2>3, <2>4 DEF Faults
<1>4. CASE Console
  <2>1. ASSUME NEW r \in Reqs, NEW c \in Saying, ConsoleRule(r, c) PROVE TypeOK'
    BY <2>1 DEF ConsoleRule, Touch, TypeOK, Trees, gitops
  <2>2. ASSUME NEW s \in Scopes, NEW x \in Refs, ConsoleRefer(s, x) PROVE TypeOK'
    BY <2>2 DEF ConsoleRefer, Touch, TypeOK, gitops
  <2>3. ASSUME NEW s \in Scopes, NEW x \in Refs, ConsoleDelete(s, x) PROVE TypeOK'
    BY <2>3 DEF ConsoleDelete, Touch, TypeOK, gitops
  <2> QED
    BY <1>4, <2>1, <2>2, <2>3 DEF Console
<1>5. CASE RecoverState
  BY <1>5 DEF RecoverState, TypeOK, gitops, scm, run
<1>6. ASSUME NEW tree \in Trees, Merge(tree) PROVE TypeOK'
  BY <1>6 DEF Merge, TypeOK, scm, run, budget
<1>7. ASSUME NEW s \in Scopes, JobFinishes(s) PROVE TypeOK'
  <2>1. job' \in [Scopes -> Jobs]
    <3> DEFINE ended(st) == [job[s] EXCEPT !.state = st]
    <3>1. ended("ok") \in Jobs /\ ended("fail") \in Jobs
      BY DEF TypeOK, Jobs
    <3>2. job' = [job EXCEPT ![s] = ended("ok")] \/ job' = [job EXCEPT ![s] = ended("fail")]
      BY <1>7 DEF JobFinishes
    <3> QED
      BY <3>1, <3>2 DEF TypeOK
  <2>2. live' \in Trees
    <3>1. job[s].content \in Trees
      BY DEF TypeOK, Jobs
    <3> QED
      BY <1>7, <3>1 DEF JobFinishes, TypeOK, Trees
  <2> QED
    BY <1>7, <2>1, <2>2 DEF JobFinishes, TypeOK, gitops, run
<1>8. CASE UNCHANGED vars
  BY <1>8 DEF vars, gitops, scm, run, budget, TypeOK
<1> QED
  BY <1>1, <1>2, <1>3, <1>4, <1>5, <1>6, <1>7, <1>8 DEF Next

\* Every variable keeps its type for every instance (TypeOK).
THEOREM TypeCorrect == Spec => []TypeOK
<1>1. Init => TypeOK
  BY InitTypeOK
<1>2. TypeOK /\ [Next]_vars => TypeOK'
  BY NextType
<1> QED
  BY <1>1, <1>2, PTL DEF Spec

----
Deleting == {"deleteTags", "deleteObjects"}

WantedHere == Wanted(At)
PresentHere == Present(At)
ReferencedHere == Referenced(At)

----
(* References: what ensure creates stays until the scope is done.          *)

RefsInv ==
    /\ pc = "createTags" /\ ~touched => WantedHere \cap TagRefs \subseteq PresentHere \cup todo
    /\ pc \in {"ensureObjects", "createObjects"} \cup AfterEnsure /\ ~touched =>
         WantedHere \cap TagRefs \subseteq PresentHere
    /\ pc = "createObjects" /\ ~touched => WantedHere \ TagRefs \subseteq PresentHere \cup todo
    /\ pc \in AfterEnsure /\ ~touched => WantedHere \subseteq PresentHere
    /\ pc \in Deleting => todo \cap WantedHere = {}

SweepInv == pc \in Deleting /\ ~touched => todo \cap ReferencedHere = {}

----
(* Rules: one that terraform is done with is as declared, unless the state *)
(* has lost it and nobody declares it.                                     *)

Settled(r) ==
    /\ r \in owned => rules[r] = Tree[r]
    /\ r \notin owned => Tree[r] = NoRule

ApplyInv ==
    /\ pc = "apply" => \A r \in Reqs : plan[r] = "destroy" => Tree[r] = NoRule
    /\ pc = "apply" => \A r \in Reqs \ Of(At) : plan[r] = "none"
    /\ pc \in AfterApply => plan = NoPlan
    /\ pc \in AfterApply \cup {"apply"} /\ ~touched =>
         \A r \in Of(At) : plan[r] = "none" => Settled(r)

----
(* Pushes: a job carries the scope's rules, and is over before the sweep.  *)

PushInv ==
    /\ pc = "wait" /\ ~touched =>
         \A r \in Of(At) : /\ job[At].content[r] = rules[r]
                           /\ job[At].state = "ok" => live[r] = rules[r]
    /\ pc \in AfterPush /\ staged /\ At \in Pushable => ~Pushing(At)
    /\ pc \in AfterPush /\ staged /\ ~touched /\ At \in Pushable =>
         \A r \in Of(At) : live[r] = rules[r]

IInv == TypeOK /\ RefsInv /\ SweepInv /\ ApplyInv /\ CommitIsWhole /\ PushInv

----
(* What the steps leave alone.                                             *)

LEMMA SameScope ==
    UNCHANGED <<main, n, k>> => At' = At /\ Tree' = Tree /\ WantedHere' = WantedHere
  BY DEF At, Tree, WantedHere, Wanted, Names, Of

LEMMA SamePresent == UNCHANGED <<objs, k>> => PresentHere' = PresentHere
  BY DEF PresentHere, Present, At

LEMMA SameReferenced == UNCHANGED <<rules, hand, k>> => ReferencedHere' = ReferencedHere
  BY DEF ReferencedHere, Referenced, Names, Of, At

LEMMA MergeKeeps ==
    ASSUME TypeOK, NEW tree \in Trees, Merge(tree)
    PROVE  /\ Len(main') = Len(main) + 1
           /\ \A i \in 1 .. Len(main) : main'[i] = main[i]
           /\ At' = At /\ Tree' = Tree /\ WantedHere' = WantedHere
<1>1. Len(main') = Len(main) + 1 /\ \A i \in 1 .. Len(main) : main'[i] = main[i]
  BY DEF Merge, TypeOK
<1>2. Tree' = Tree /\ At' = At
  BY <1>1 DEF Merge, TypeOK, Tree, At, run
<1> QED
  BY <1>1, <1>2 DEF WantedHere, Wanted, Names, Of

----
(* References and sweeps.                                                  *)

\* Nothing either invariant looks at changed: the step stays within the
\* phases the scope's names are needed in, outside the sweeps.
LEMMA RefsFrame ==
    ASSUME RefsInv, UNCHANGED <<main, n, k, objs, touched>>,
           pc \in AfterEnsure, pc' \in AfterEnsure, pc' \notin Deleting
    PROVE  RefsInv' /\ SweepInv'
  BY SameScope, SamePresent DEF RefsInv, SweepInv, AfterEnsure, Deleting

LEMMA RefsLeave ==
    ASSUME pc' \in {"idle", "scope", "ensureTags"}
    PROVE  RefsInv' /\ SweepInv'
  BY DEF RefsInv, SweepInv, AfterEnsure, Deleting

LEMMA RefsTouch ==
    ASSUME RefsInv, touched', UNCHANGED <<main, n, k, pc, todo>>
    PROVE  RefsInv' /\ SweepInv'
  BY SameScope DEF RefsInv, SweepInv

LEMMA RefsStay ==
    ASSUME RefsInv, SweepInv, UNCHANGED <<k, pc, todo, touched, rules, hand, objs>>,
           WantedHere' = WantedHere
    PROVE  RefsInv' /\ SweepInv'
  BY SamePresent, SameReferenced DEF RefsInv, SweepInv

LEMMA RefsStep == TypeOK /\ RefsInv /\ SweepInv /\ [Next]_vars => RefsInv' /\ SweepInv'
<1> SUFFICES ASSUME TypeOK, RefsInv, SweepInv, [Next]_vars PROVE RefsInv' /\ SweepInv'
  OBVIOUS
<1> USE DEF Goto
<1>1. CASE StartRun
  BY <1>1, RefsLeave DEF StartRun, Start
<1>2. CASE Ensure
  <2>1. WantedHere' = WantedHere /\ PresentHere' = PresentHere
    BY <1>2, SameScope, SamePresent DEF Ensure, gitops, scm
  <2>2. todo' = (WantedHere \cap Kind(pc = "ensureTags")) \ PresentHere
    BY <1>2 DEF Ensure, Missing, WantedHere, PresentHere
  <2>3. UNCHANGED touched
    BY <1>2 DEF Ensure
  <2>4. CASE pc = "ensureTags"
    <3>1. pc' = "createTags" /\ WantedHere \cap TagRefs \subseteq PresentHere \cup todo'
      BY <1>2, <2>2, <2>4 DEF Ensure, Kind
    <3> QED
      BY <3>1, <2>1, <2>3 DEF RefsInv, SweepInv, AfterEnsure, Deleting
  <2>5. CASE pc = "ensureObjects"
    <3>1. pc' = "createObjects" /\ WantedHere \ TagRefs \subseteq PresentHere \cup todo'
      <4>1. pc' = "createObjects"
        BY <1>2, <2>5 DEF Ensure
      <4>2. todo' = (WantedHere \cap (Refs \ TagRefs)) \ PresentHere
        BY <2>2, <2>5 DEF Kind
      <4>3. WantedHere \subseteq Refs
        BY WantedIsRefs, AtIsScope DEF WantedHere
      <4> QED
        BY <4>1, <4>2, <4>3
    <3> QED
      BY <3>1, <2>1, <2>3, <2>5 DEF RefsInv, SweepInv, AfterEnsure, Deleting
  <2> QED
    BY <1>2, <2>4, <2>5 DEF Ensure
<1>3. CASE CreateRef
  <2>1. CASE Abort
    BY <2>1, RefsLeave DEF Abort
  <2>2. ASSUME NEW x \in todo,
               objs' = [objs EXCEPT ![At] = @ \cup {x}], todo' = todo \ {x},
               UNCHANGED <<pc, k, touched>>
        PROVE  RefsInv' /\ SweepInv'
    <3>1. WantedHere' = WantedHere
      BY <1>3, <2>2, SameScope DEF CreateRef, gitops
    <3>2. PresentHere \cup {x} \subseteq PresentHere'
      BY <2>2, AtIsScope, ScopesAssumption DEF PresentHere, Present, At, TypeOK
    <3> QED
      BY <1>3, <2>2, <3>1, <3>2 DEF CreateRef, RefsInv, SweepInv, AfterEnsure, Deleting
  <2> QED
    BY <1>3, <2>1, <2>2 DEF CreateRef
<1>4. CASE EnsureDone
  <2>1. WantedHere' = WantedHere /\ PresentHere' = PresentHere
    BY <1>4, SameScope, SamePresent DEF EnsureDone, gitops, scm
  <2> QED
    BY <1>4, <2>1 DEF EnsureDone, RefsInv, SweepInv, AfterEnsure, Deleting
<1>5. CASE TerraformPlan
  BY <1>5, RefsFrame DEF TerraformPlan, gitops, scm, AfterEnsure, Deleting
<1>6. ASSUME NEW r \in Reqs, ApplyRule(r) PROVE RefsInv' /\ SweepInv'
  BY <1>6, RefsFrame DEF ApplyRule, gitops, AfterEnsure, Deleting
<1>7. ASSUME NEW r \in Reqs, RefuseRule(r) PROVE RefsInv' /\ SweepInv'
  BY <1>7, RefsLeave DEF RefuseRule, Abort
<1>8. CASE ApplyDone \/ Enrich \/ SkipPush \/ PushNoop \/ PollOk
  <2>1. UNCHANGED <<main, n, k, objs, touched>>
    BY <1>8 DEF ApplyDone, Enrich, SkipPush, PushNoop, PollOk, gitops, scm
  <2>2. pc \in AfterEnsure /\ pc' \in AfterEnsure /\ pc' \notin Deleting
    BY <1>8 DEF ApplyDone, Enrich, SkipPush, PushNoop, PollOk, AfterEnsure, Deleting
  <2> QED
    BY <2>1, <2>2, RefsFrame
<1>9. CASE StartPush
  <2>1. CASE Abort
    BY <2>1, RefsLeave DEF Abort
  <2>2. CASE pc' = "wait" /\ UNCHANGED <<k, touched>>
    BY <1>9, <2>2, RefsFrame DEF StartPush, gitops, AfterEnsure, Deleting
  <2> QED
    BY <1>9, <2>1, <2>2 DEF StartPush
<1>10. CASE PollFail \/ PollTimeout \/ Fail
  BY <1>10, RefsLeave DEF PollFail, PollTimeout, Fail, Abort
<1>11. CASE Sweep
  <2>1. /\ WantedHere' = WantedHere
        /\ PresentHere' = PresentHere
        /\ ReferencedHere' = ReferencedHere
    BY <1>11, SameScope, SamePresent, SameReferenced DEF Sweep, gitops, scm
  <2>2. todo' \cap WantedHere = {} /\ todo' \cap ReferencedHere = {}
    BY <1>11 DEF Sweep, Unreferenced, WantedHere, ReferencedHere
  <2> QED
    BY <1>11, <2>1, <2>2 DEF Sweep, RefsInv, SweepInv, AfterEnsure, Deleting
<1>12. ASSUME NEW x \in Refs, NEW t \in Scopes, DeleteRef(x, t) PROVE RefsInv' /\ SweepInv'
  <2>1. WantedHere' = WantedHere /\ ReferencedHere' = ReferencedHere
    BY <1>12, SameScope, SameReferenced DEF DeleteRef, gitops
  <2>2. PresentHere \ {x} \subseteq PresentHere'
    BY <1>12 DEF DeleteRef, PresentHere, Present, At, TypeOK
  <2>3. x \notin WantedHere
    BY <1>12 DEF DeleteRef, RefsInv, Deleting
  <2> QED
    BY <1>12, <2>1, <2>2, <2>3 DEF DeleteRef, RefsInv, SweepInv, AfterEnsure, Deleting
<1>13. CASE RefuseDelete \/ SweepDone \/ FailSweep
  <2>1. CASE NextScope
    BY <2>1, RefsLeave DEF NextScope
  <2>2. CASE pc' = "sweepObjects" /\ UNCHANGED k
    BY <1>13, <2>2, RefsFrame
       DEF RefuseDelete, SweepDone, FailSweep, gitops, scm, AfterEnsure, Deleting
  <2> QED
    BY <1>13, <2>1, <2>2 DEF RefuseDelete, SweepDone, FailSweep, AfterSweep
<1>14. ASSUME NEW r \in Reqs, LoseStateWrite(r) PROVE RefsInv' /\ SweepInv'
  BY <1>14, RefsLeave DEF LoseStateWrite, Abort
<1>15. CASE Console
  <2>1. Touch /\ UNCHANGED <<main, n>>
    BY <1>15 DEF Console, ConsoleRule, ConsoleRefer, ConsoleDelete, Touch, gitops
  <2> QED
    BY <2>1, RefsTouch DEF Touch
<1>16. CASE LoseState \/ RecoverState
  BY <1>16, RefsStay, SameScope DEF LoseState, RecoverState, gitops, scm, run
<1>17. ASSUME NEW tree \in Trees, Merge(tree) PROVE RefsInv' /\ SweepInv'
  BY <1>17, RefsStay, MergeKeeps DEF Merge, scm, run
<1>18. ASSUME NEW s \in Scopes, JobFinishes(s) PROVE RefsInv' /\ SweepInv'
  BY <1>18, RefsStay, SameScope DEF JobFinishes, gitops, run
<1>19. CASE UNCHANGED vars
  BY <1>19, RefsStay, SameScope DEF vars, gitops, scm, run
<1>20. CASE EnterScope \/ PassScope
  BY <1>20, RefsLeave DEF EnterScope, PassScope, NextScope
<1> QED
  BY <1>1, <1>2, <1>3, <1>4, <1>5, <1>6, <1>7, <1>8, <1>9, <1>10, <1>11, <1>12, <1>13,
     <1>14, <1>15, <1>16, <1>17, <1>18, <1>19, <1>20 DEF Next, JobStep, Faults

----
(* Terraform.                                                              *)

\* Steps that leave the rules, the state and the plan alone.
LEMMA ApplyFrame ==
    ASSUME ApplyInv, UNCHANGED <<k, rules, owned, plan, touched>>, Tree' = Tree,
           \/ pc' = pc
           \/ pc \in AfterApply /\ pc' \in AfterApply
           \/ pc' \notin AfterApply \cup {"apply"}
    PROVE  ApplyInv'
<1>1. At' = At /\ Of(At)' = Of(At)
  BY DEF At, Of
<1>2. \A r \in Reqs : Settled(r) => Settled(r)'
  BY DEF Settled
<1>3. "apply" \notin AfterApply
  BY DEF AfterApply
<1> QED
  BY <1>1, <1>2, <1>3 DEF ApplyInv, Of

LEMMA ApplyLeave ==
    ASSUME pc' \in {"idle", "scope", "ensureTags"}
    PROVE  ApplyInv'
  BY DEF ApplyInv, AfterApply, AfterEnsure

LEMMA ApplyStep == TypeOK /\ ApplyInv /\ [Next]_vars => ApplyInv'
<1> SUFFICES ASSUME TypeOK, ApplyInv, [Next]_vars PROVE ApplyInv'
  OBVIOUS
<1> USE DEF Goto
<1>1. CASE StartRun
  BY <1>1, ApplyLeave DEF StartRun, Start
<1>2. CASE Ensure \/ EnsureDone
  <2>1. UNCHANGED <<main, n, k, rules, owned, plan, touched>>
    BY <1>2 DEF Ensure, EnsureDone, gitops, scm
  <2>2. pc' \notin AfterApply \cup {"apply"}
    BY <1>2 DEF Ensure, EnsureDone, AfterApply, AfterEnsure
  <2> QED
    BY <2>1, <2>2, ApplyFrame, SameScope
<1>3. CASE CreateRef
  <2>1. CASE Abort
    BY <2>1, ApplyLeave DEF Abort
  <2>2. CASE UNCHANGED <<pc, k, plan, touched>>
    BY <1>3, <2>2, ApplyFrame, SameScope DEF CreateRef, gitops
  <2> QED
    BY <1>3, <2>1, <2>2 DEF CreateRef
<1>4. CASE TerraformPlan
  <2>1. At' = At /\ Tree' = Tree /\ Of(At)' = Of(At)
    BY <1>4, SameScope DEF TerraformPlan, gitops, Of
  <2>2. \A r \in Reqs : plan'[r] = IF r \in Of(At) THEN PlanFor(r, owned') ELSE "none"
    BY <1>4 DEF TerraformPlan, Refreshed
  <2>3. \A r \in Reqs : plan'[r] = "destroy" => Tree[r] = NoRule
    BY <2>2 DEF PlanFor
  <2>4. \A r \in Reqs \ Of(At) : plan'[r] = "none"
    BY <2>2
  <2>5. \A r \in Of(At) : plan'[r] = "none" => Settled(r)'
    <3> SUFFICES ASSUME NEW r \in Of(At), plan'[r] = "none" PROVE Settled(r)'
      OBVIOUS
    <3>1. PlanFor(r, owned') = "none" /\ r \in Reqs
      BY <2>2 DEF Of
    <3>2. rules' = rules
      BY <1>4 DEF TerraformPlan, scm
    <3>3. r \in owned' => Tree[r] # NoRule /\ rules[r] = Tree[r]
      BY <3>1 DEF PlanFor
    <3>4. r \notin owned' => Tree[r] = NoRule
      BY <3>1 DEF PlanFor
    <3> QED
      BY <3>2, <3>3, <3>4, <2>1 DEF Settled
  <2>6. pc' = "apply"
    BY <1>4 DEF TerraformPlan, Refreshed
  <2> QED
    BY <2>1, <2>3, <2>4, <2>5, <2>6 DEF ApplyInv, AfterApply, AfterEnsure
<1>5. ASSUME NEW r \in Reqs, ApplyRule(r) PROVE ApplyInv'
  <2>1. At' = At /\ Tree' = Tree /\ Of(At)' = Of(At)
    BY <1>5, SameScope DEF ApplyRule, gitops, Of
  <2>2. pc = "apply" /\ pc' = "apply" /\ touched' = touched /\ plan[r] # "none"
    BY <1>5 DEF ApplyRule
  <2>3. \A q \in Reqs : plan'[q] = IF q = r THEN "none" ELSE plan[q]
    BY <1>5 DEF ApplyRule, TypeOK
  <2>4. \A q \in Reqs : rules'[q] = IF q = r THEN Tree[r] ELSE rules[q]
    BY <1>5 DEF ApplyRule, Write, TypeOK, Trees
  <2>5. \A q \in Reqs \ {r} : q \in owned' <=> q \in owned
    BY <1>5 DEF ApplyRule, StateAfter
  <2>6. Settled(r)'
    <3>1. r \notin owned' => Tree[r] = NoRule
      BY <1>5, <2>2 DEF ApplyRule, StateAfter, ApplyInv
    <3> QED
      BY <3>1, <2>1, <2>4 DEF Settled
  <2>7. \A q \in Reqs \ {r} : Settled(q) => Settled(q)'
    BY <2>1, <2>4, <2>5 DEF Settled
  <2>8. Of(At) \subseteq Reqs
    BY DEF Of
  <2>9. "apply" \notin AfterApply
    BY DEF AfterApply
  <2>10. \A q \in Reqs : plan'[q] = "destroy" => Tree[q] = NoRule
    BY <2>2, <2>3 DEF ApplyInv
  <2>11. \A q \in Reqs \ Of(At) : plan'[q] = "none"
    BY <2>2, <2>3 DEF ApplyInv
  <2>12. ~touched => \A q \in Of(At) : plan'[q] = "none" => Settled(q)'
    BY <2>2, <2>3, <2>6, <2>7, <2>8 DEF ApplyInv
  <2> QED
    BY <2>1, <2>2, <2>9, <2>10, <2>11, <2>12 DEF ApplyInv
<1>6. ASSUME NEW r \in Reqs, RefuseRule(r) \/ LoseStateWrite(r) PROVE ApplyInv'
  BY <1>6, ApplyLeave DEF RefuseRule, LoseStateWrite, Abort
<1>7. CASE ApplyDone
  <2>1. At' = At /\ Tree' = Tree /\ Of(At)' = Of(At)
    BY <1>7, SameScope DEF ApplyDone, gitops, Of
  <2>2. \A r \in Reqs : Settled(r) => Settled(r)'
    BY <1>7, <2>1 DEF ApplyDone, scm, Settled
  <2>3. pc = "apply" /\ pc' = "enrich" /\ plan = NoPlan /\ UNCHANGED <<plan, touched>>
    BY <1>7 DEF ApplyDone
  <2>4. Of(At) \subseteq Reqs /\ "enrich" \in AfterApply
    BY DEF Of, AfterApply, AfterEnsure
  <2> QED
    BY <2>1, <2>2, <2>3, <2>4 DEF ApplyInv
<1>8. CASE Enrich \/ SkipPush \/ PushNoop \/ PollOk \/ Sweep
  <2>1. UNCHANGED <<main, n, k, rules, owned, plan, touched>>
    BY <1>8 DEF Enrich, SkipPush, PushNoop, PollOk, Sweep, gitops, scm
  <2>2. pc \in AfterApply /\ pc' \in AfterApply
    BY <1>8 DEF Enrich, SkipPush, PushNoop, PollOk, Sweep, AfterApply, AfterEnsure
  <2> QED
    BY <2>1, <2>2, ApplyFrame, SameScope
<1>9. CASE StartPush
  <2>1. CASE Abort
    BY <2>1, ApplyLeave DEF Abort
  <2>2. CASE pc' = "wait" /\ UNCHANGED <<k, plan, touched>>
    BY <1>9, <2>2, ApplyFrame, SameScope DEF StartPush, gitops, AfterApply, AfterEnsure
  <2> QED
    BY <1>9, <2>1, <2>2 DEF StartPush
<1>10. CASE PollFail \/ PollTimeout \/ Fail
  BY <1>10, ApplyLeave DEF PollFail, PollTimeout, Fail, Abort
<1>11. ASSUME NEW x \in Refs, NEW t \in Scopes, DeleteRef(x, t) PROVE ApplyInv'
  BY <1>11, ApplyFrame, SameScope DEF DeleteRef, gitops
<1>12. CASE RefuseDelete \/ SweepDone \/ FailSweep
  <2>1. CASE NextScope
    BY <2>1, ApplyLeave DEF NextScope
  <2>2. CASE pc' = "sweepObjects" /\ UNCHANGED k
    <3>1. UNCHANGED <<main, n, k, rules, owned, plan, touched>>
      BY <1>12, <2>2 DEF RefuseDelete, SweepDone, FailSweep, gitops, scm
    <3>2. pc \in AfterApply /\ pc' \in AfterApply
      BY <1>12, <2>2 DEF RefuseDelete, SweepDone, FailSweep, AfterApply, AfterEnsure
    <3> QED
      BY <3>1, <3>2, ApplyFrame, SameScope
  <2> QED
    BY <1>12, <2>1, <2>2 DEF RefuseDelete, SweepDone, FailSweep, AfterSweep
<1>13. CASE Console
  <2>1. touched' /\ UNCHANGED <<main, n, k, pc, plan>>
    BY <1>13 DEF Console, ConsoleRule, ConsoleRefer, ConsoleDelete, Touch, gitops
  <2>2. Tree' = Tree /\ Of(At)' = Of(At)
    BY <2>1, SameScope DEF Of
  <2> QED
    BY <2>1, <2>2 DEF ApplyInv
<1>14. CASE LoseState \/ RecoverState
  BY <1>14, ApplyLeave DEF LoseState, RecoverState, run
<1>15. ASSUME NEW tree \in Trees, Merge(tree) PROVE ApplyInv'
  BY <1>15, ApplyFrame, MergeKeeps DEF Merge, scm, run
<1>16. ASSUME NEW s \in Scopes, JobFinishes(s) PROVE ApplyInv'
  BY <1>16, ApplyFrame, SameScope DEF JobFinishes, gitops, run
<1>17. CASE UNCHANGED vars
  BY <1>17, ApplyFrame, SameScope DEF vars, gitops, scm, run
<1>18. CASE EnterScope \/ PassScope
  BY <1>18, ApplyLeave DEF EnterScope, PassScope, NextScope
<1> QED
  BY <1>1, <1>2, <1>3, <1>4, <1>5, <1>6, <1>7, <1>8, <1>9, <1>10, <1>11, <1>12, <1>13,
     <1>14, <1>15, <1>16, <1>17, <1>18 DEF Next, JobStep, Faults

----
(* What push jobs carry.                                                   *)

LEMMA CommitFrame ==
    ASSUME CommitIsWhole, UNCHANGED <<main, job>>
    PROVE  CommitIsWhole'
  BY DEF CommitIsWhole, Of

LEMMA CommitStep == TypeOK /\ ApplyInv /\ CommitIsWhole /\ [Next]_vars => CommitIsWhole'
<1> SUFFICES ASSUME TypeOK, ApplyInv, CommitIsWhole, [Next]_vars PROVE CommitIsWhole'
  OBVIOUS
<1>1. CASE StartPush
  <2>1. CASE Abort /\ UNCHANGED job
    BY <1>1, <2>1, CommitFrame DEF StartPush, gitops
  <2>2. CASE job' = [job EXCEPT ![At] = [state |-> "running", content |-> Part(At, rules),
                                         clean |-> ~touched /\ Orphans(At) = {}]]
    <3> SUFFICES ASSUME NEW s \in Scopes, job'[s].clean
                 PROVE  \E i \in 1 .. Len(main) :
                            \A r \in Of(s) : job'[s].content[r] = main[i][r]
      BY <1>1 DEF StartPush, gitops, CommitIsWhole, Of
    <3>1. CASE s # At
      BY <2>2, <3>1 DEF CommitIsWhole, TypeOK
    <3>2. CASE s = At
      <4>1. job'[s] = [state |-> "running", content |-> Part(At, rules),
                       clean |-> ~touched /\ Orphans(At) = {}]
        BY <2>2, <3>2 DEF TypeOK
      <4>2. ~touched /\ Orphans(At) = {}
        <5> DEFINE known == ~touched /\ Orphans(At) = {}
        <5> HIDE DEF known
        <5>1. job'[s] = [state |-> "running", content |-> Part(At, rules), clean |-> known]
          BY <4>1 DEF known
        <5>2. job'[s].clean = known
          BY <5>1
        <5>3. known
          BY <5>2, Zenon
        <5> QED
          BY <5>3 DEF known
      <4>3. \A r \in Of(At) : Settled(r)
        <5>1. pc \in AfterApply
          BY <1>1 DEF StartPush, AfterApply, AfterEnsure
        <5>2. \A r \in Reqs : plan[r] = "none"
          BY <5>1 DEF ApplyInv, NoPlan
        <5> QED
          BY <4>2, <5>1, <5>2 DEF ApplyInv, Of
      <4>4. \A r \in Of(At) : rules[r] = Tree[r]
        BY <4>2, <4>3 DEF Settled, Orphans, Exists, Of
      <4>5. \A r \in Of(At) : job'[s].content[r] = Tree[r]
        BY <4>1, <4>4 DEF Part, Of
      <4> QED
        BY <3>2, <4>5 DEF Tree, TypeOK
    <3> QED
      BY <3>1, <3>2
  <2> QED
    BY <1>1, <2>1, <2>2 DEF StartPush
<1>2. ASSUME NEW s \in Scopes, JobFinishes(s) PROVE CommitIsWhole'
  <2>1. \A t \in Scopes : job'[t].content = job[t].content /\ job'[t].clean = job[t].clean
    BY SMTT(60), <1>2 DEF JobFinishes, TypeOK, Jobs
  <2> QED
    BY <1>2, <2>1 DEF JobFinishes, gitops, CommitIsWhole, Of
<1>3. ASSUME NEW tree \in Trees, Merge(tree) PROVE CommitIsWhole'
  <2>1. UNCHANGED job
    BY <1>3 DEF Merge, scm
  <2> SUFFICES ASSUME NEW s \in Scopes, job[s].clean
               PROVE  \E i \in 1 .. Len(main') :
                          \A r \in Of(s) : job[s].content[r] = main'[i][r]
    BY <2>1 DEF CommitIsWhole, Of
  <2>2. PICK i \in 1 .. Len(main) : \A r \in Of(s) : job[s].content[r] = main[i][r]
    BY DEF CommitIsWhole
  <2>3. i \in 1 .. Len(main') /\ main'[i] = main[i]
    BY <1>3, MergeKeeps DEF TypeOK
  <2> QED
    BY <2>2, <2>3
<1>4. CASE StartRun \/ RecoverState \/ Faults \/ Console
  <2>1. UNCHANGED <<main, job>>
    BY <1>4 DEF StartRun, Start, RecoverState, Faults, Fail, LoseStateWrite, LoseState, FailSweep,
                Console, ConsoleRule, ConsoleRefer, ConsoleDelete, Touch, gitops, scm
  <2> QED
    BY <2>1, CommitFrame
<1>5. CASE JobStep /\ ~StartPush
  <2>1. UNCHANGED <<main, job>>
    BY <1>5 DEF JobStep, EnterScope, PassScope, Ensure, CreateRef, EnsureDone,
                TerraformPlan, ApplyRule, RefuseRule, ApplyDone, Enrich, SkipPush,
                PushNoop, PollOk, PollFail, PollTimeout, Sweep, DeleteRef, RefuseDelete,
                SweepDone, gitops, scm
  <2> QED
    BY <2>1, CommitFrame
<1>6. CASE UNCHANGED vars
  BY <1>6, CommitFrame DEF vars, gitops, scm
<1> QED
  BY <1>1, <1>2, <1>3, <1>4, <1>5, <1>6 DEF Next

----
(* The push is over before the sweep begins.                               *)

LEMMA PushLeave ==
    ASSUME pc' \notin AfterPush \cup {"wait"}
    PROVE  PushInv'
  BY DEF PushInv

LEMMA PushFrame ==
    ASSUME PushInv, UNCHANGED <<k, rules, live, job, staged, touched>>,
           \/ pc' = pc
           \/ pc \in AfterPush /\ pc' \in AfterPush
    PROVE  PushInv'
<1>1. At' = At /\ Of(At)' = Of(At) /\ Pushing(At)' = Pushing(At)
  BY DEF At, Of, Pushing
<1>2. "wait" \notin AfterPush
  BY DEF AfterPush
<1> QED
  BY <1>1, <1>2 DEF PushInv

LEMMA PushStep == TypeOK /\ PushInv /\ [Next]_vars => PushInv'
<1> SUFFICES ASSUME TypeOK, PushInv, [Next]_vars PROVE PushInv'
  OBVIOUS
<1> USE DEF Goto
<1>1. CASE StartRun \/ Ensure \/ EnsureDone \/ TerraformPlan \/ ApplyDone \/ Enrich
           \/ PollFail \/ PollTimeout \/ Fail
  BY <1>1, PushLeave DEF StartRun, Start, Ensure, EnsureDone, TerraformPlan, ApplyDone, Enrich,
       PollFail, PollTimeout, Fail, Abort, AfterPush
<1>2. CASE CreateRef
  BY <1>2, PushLeave DEF CreateRef, Abort, AfterPush
<1>3. ASSUME NEW r \in Reqs, ApplyRule(r) \/ RefuseRule(r) \/ LoseStateWrite(r) PROVE PushInv'
  BY <1>3, PushLeave DEF ApplyRule, RefuseRule, LoseStateWrite, Abort, AfterPush
<1>4. CASE SkipPush
  <2>1. At' = At /\ (~staged' \/ At' \notin Pushable) /\ pc' = "sweepTags"
    BY <1>4 DEF SkipPush, ShouldPush, At
  <2> QED
    BY <2>1 DEF PushInv
<1>5. CASE StartPush
  <2>1. CASE Abort
    BY <2>1, PushLeave DEF Abort, AfterPush
  <2>2. CASE /\ job' = [job EXCEPT ![At] = [state |-> "running", content |-> Part(At, rules),
                                            clean |-> ~touched /\ Orphans(At) = {}]]
             /\ pc' = "wait"
             /\ UNCHANGED k
    <3>1. At' = At /\ Of(At)' = Of(At) /\ rules' = rules
      BY <1>5, <2>2 DEF StartPush, At, Of
    <3>2. job'[At].state = "running" /\ job'[At].content = Part(At, rules)
      BY <2>2, AtIsScope DEF TypeOK
    <3>3. \A r \in Of(At) : Part(At, rules)[r] = rules[r]
      BY DEF Part, Of
    <3>4. "wait" \notin AfterPush
      BY DEF AfterPush
    <3> QED
      BY <2>2, <3>1, <3>2, <3>3, <3>4 DEF PushInv
  <2> QED
    BY <1>5, <2>1, <2>2 DEF StartPush
<1>6. CASE PushNoop
  <2>1. /\ At' = At /\ Of(At)' = Of(At) /\ Pushing(At)' = Pushing(At)
        /\ rules' = rules /\ live' = live /\ pc' = "sweepTags"
    BY <1>6 DEF PushNoop, scm, At, Of, Pushing
  <2>2. \A r \in Of(At) : live[r] = rules[r]
    <3>1. \A r \in Of(At) : Part(At, live)[r] = live[r] /\ Part(At, rules)[r] = rules[r]
      BY DEF Part, Of
    <3> QED
      BY <1>6, <3>1 DEF PushNoop
  <2> QED
    BY <1>6, <2>1, <2>2 DEF PushNoop, PushInv
<1>7. CASE PollOk
  <2>1. /\ At' = At /\ Of(At)' = Of(At) /\ Pushing(At)' = Pushing(At)
        /\ rules' = rules /\ live' = live /\ touched' = touched /\ pc' = "sweepTags"
    BY <1>7 DEF PollOk, scm, At, Of, Pushing
  <2>2. ~Pushing(At)
    BY <1>7 DEF PollOk, Pushing
  <2>3. ~touched => \A r \in Of(At) : live[r] = rules[r]
    BY <1>7 DEF PollOk, PushInv
  <2> QED
    BY <2>1, <2>2, <2>3 DEF PushInv
<1>8. CASE Sweep
  <2>1. pc \in AfterPush /\ pc' \in AfterPush
    BY <1>8 DEF Sweep, AfterPush
  <2> QED
    BY <1>8, <2>1, PushFrame DEF Sweep, scm
<1>9. ASSUME NEW x \in Refs, NEW t \in Scopes, DeleteRef(x, t) PROVE PushInv'
  BY <1>9, PushFrame DEF DeleteRef
<1>10. CASE RefuseDelete \/ SweepDone \/ FailSweep
  <2>1. CASE NextScope
    BY <2>1, PushLeave DEF NextScope, AfterPush
  <2>2. CASE pc' = "sweepObjects" /\ UNCHANGED k
    <3>1. pc \in AfterPush /\ pc' \in AfterPush
      BY <1>10, <2>2 DEF RefuseDelete, SweepDone, FailSweep, AfterPush
    <3> QED
      BY <1>10, <2>2, <3>1, PushFrame DEF RefuseDelete, SweepDone, FailSweep, scm
  <2> QED
    BY <1>10, <2>1, <2>2 DEF RefuseDelete, SweepDone, FailSweep, AfterSweep
<1>11. CASE Console
  <2>1. touched' /\ UNCHANGED <<k, pc, job, staged>>
    BY <1>11 DEF Console, ConsoleRule, ConsoleRefer, ConsoleDelete, Touch
  <2>2. At' = At /\ Pushing(At)' = Pushing(At)
    BY <2>1 DEF At, Pushing
  <2> QED
    BY <2>1, <2>2 DEF PushInv
<1>12. CASE LoseState \/ RecoverState
  BY <1>12, PushFrame DEF LoseState, RecoverState, scm, run
<1>13. ASSUME NEW tree \in Trees, Merge(tree) PROVE PushInv'
  BY <1>13, PushFrame DEF Merge, scm, run
<1>14. ASSUME NEW s \in Scopes, JobFinishes(s) PROVE PushInv'
  <2>1. /\ At' = At /\ Of(At)' = Of(At) /\ At \in Scopes
        /\ UNCHANGED <<rules, pc, k, staged, touched>>
    BY <1>14, AtIsScope DEF JobFinishes, run, At, Of
  <2>2. CASE s # At
    <3>1. job'[At] = job[At]
      BY <1>14, <2>1, <2>2 DEF JobFinishes, TypeOK
    <3>2. \A r \in Of(At) : live'[r] = live[r]
      BY <1>14, <2>2 DEF JobFinishes, Of
    <3>3. Pushing(At)' = Pushing(At)
      BY <2>1, <3>1 DEF Pushing
    <3> QED
      BY <2>1, <3>1, <3>2, <3>3 DEF PushInv
  <2>3. CASE s = At
    <3>1. Pushing(At)
      BY <1>14, <2>3 DEF JobFinishes
    <3>2. ~(pc \in AfterPush /\ staged /\ At \in Pushable)
      BY <3>1 DEF PushInv
    <3>3. job'[At].content = job[At].content
      BY <1>14, <2>1, <2>3 DEF JobFinishes, TypeOK, Jobs
    <3>4. job'[At].state = "ok" => \A r \in Of(At) : live'[r] = job[At].content[r]
      BY <1>14, <2>1, <2>3 DEF JobFinishes, TypeOK, Jobs, Of
    <3> QED
      BY <2>1, <3>2, <3>3, <3>4 DEF PushInv
  <2> QED
    BY <2>2, <2>3
<1>15. CASE UNCHANGED vars
  BY <1>15, PushFrame DEF vars, scm, run
<1>16. CASE EnterScope \/ PassScope
  BY <1>16, PushLeave DEF EnterScope, PassScope, NextScope, AfterPush
<1> QED
  BY <1>1, <1>2, <1>3, <1>4, <1>5, <1>6, <1>7, <1>8, <1>9, <1>10, <1>11, <1>12, <1>13,
     <1>14, <1>15, <1>16 DEF Next, JobStep, Faults

----
(* The theorems.                                                           *)

LEMMA InitIInv == Init => IInv
<1> SUFFICES ASSUME Init PROVE IInv
  OBVIOUS
<1>1. RefsInv /\ SweepInv /\ ApplyInv /\ PushInv
  BY DEF Init, RefsInv, SweepInv, ApplyInv, PushInv, AfterEnsure, AfterApply, AfterPush,
         Deleting
<1>2. CommitIsWhole
  <2>1. \A s \in Scopes : job[s].clean = FALSE
    BY DEF Init, NoJob
  <2> QED
    BY <2>1, Zenon DEF CommitIsWhole
<1> QED
  BY <1>1, <1>2, InitTypeOK DEF IInv

LEMMA NextIInv == IInv /\ [Next]_vars => IInv'
  BY NextType, RefsStep, ApplyStep, CommitStep, PushStep DEF IInv

LEMMA Inductive == Spec => []IInv
  BY InitIInv, NextIInv, PTL DEF Spec

\* Whatever the scopes inherit from each other, a scope's declared names
\* resolve from the end of `objects ensure` to the end of its sweep.
THEOREM RefsAreReady == Spec => []RefsReady
<1>1. IInv => RefsReady
  BY DEF IInv, RefsInv, RefsReady, WantedHere, PresentHere
<1> QED
  BY <1>1, Inductive, PTL

\* No sweep has a name on its list that the scope can see a reference to.
THEOREM SweepsSpareReferences == Spec => []SweepSparesReferences
<1>1. IInv => SweepSparesReferences
  BY DEF IInv, SweepInv, SweepSparesReferences, ReferencedHere, Deleting
<1> QED
  BY <1>1, Inductive, PTL

\* Every push job carries a scope as one commit of main declares it, however
\* many applies failed half-way before it.
THEOREM CommitsAreWhole == Spec => []CommitIsWhole
<1>1. IInv => CommitIsWhole
  BY DEF IInv
<1> QED
  BY <1>1, Inductive, PTL

\* What a run staged is live before it sweeps, even though earlier push jobs
\* may finish late.
THEOREM PushesComeBeforeSweeps == Spec => []PushedBeforeSweep
<1>1. IInv => PushedBeforeSweep
  <2> SUFFICES ASSUME IInv, pc \in AfterPush, staged, ~touched, At \in Pushable
               PROVE  Part(At, live) = Part(At, rules)
    BY DEF PushedBeforeSweep
  <2>1. \A r \in Of(At) : live[r] = rules[r]
    BY DEF IInv, PushInv
  <2> QED
    BY <2>1 DEF Part
<1> QED
  BY <1>1, Inductive, PTL

----
(* Leftovers, where one scope is all there is: with a second one in the    *)
(* lineage, a name may have copies of which a sweep deletes only one.      *)

OneScope == \A s, t \in Scopes : s = t

NothingLeft == \A s \in Scopes : Compiled(s) => Present(s) \subseteq Referenced(s)

\* From the list of a sweep on, what is neither referred to nor on the list
\* is gone, and the object sweep starts where the tag sweep has finished.
LeftInv ==
    /\ pc # "idle" => ~green
    /\ ~touched /\ ~warned =>
         /\ pc = "deleteTags" => PresentHere \cap TagRefs \subseteq ReferencedHere \cup todo
         /\ pc \in {"sweepObjects", "deleteObjects"} =>
              PresentHere \cap TagRefs \subseteq ReferencedHere
         /\ pc = "deleteObjects" => PresentHere \ TagRefs \subseteq ReferencedHere \cup todo
         /\ pc = "idle" /\ green => NothingLeft

\* A run that is not sweeping, or that has failed, has nothing to show yet.
LEMMA LeftElsewhere ==
    ASSUME ~green', pc' \notin {"deleteTags", "sweepObjects", "deleteObjects"}
    PROVE  LeftInv'
  BY DEF LeftInv

LEMMA LeftStays ==
    ASSUME LeftInv, UNCHANGED <<pc, k, todo, touched, warned, green, rules, hand, objs>>,
           Tree' = Tree
    PROVE  LeftInv'
<1>1. PresentHere' = PresentHere /\ ReferencedHere' = ReferencedHere
  BY SamePresent, SameReferenced
<1>2. NothingLeft' <=> NothingLeft
  BY DEF NothingLeft, Compiled, Declares, Present, Referenced, Names
<1> QED
  BY <1>1, <1>2 DEF LeftInv

\* Once terraform is done, what the scope wants is what its rules refer to.
LEMMA WantedIsReferenced ==
    ASSUME TypeOK, ApplyInv, pc \in AfterApply, ~touched
    PROVE  WantedHere \subseteq ReferencedHere
<1>1. \A r \in Of(At) : Settled(r)
  BY DEF ApplyInv, Of, NoPlan
<1>2. \A r \in Of(At) : UsesOf(Tree[r]) \subseteq UsesOf(rules[r])
  BY <1>1 DEF Settled, UsesOf
<1>3. WantedHere \subseteq Names(Of(At), rules)
  BY <1>2 DEF WantedHere, Wanted, Names
<1>4. At \in Lineage[At]
  BY AtIsScope, ScopesAssumption
<1> QED
  BY <1>3, <1>4 DEF ReferencedHere, Referenced

\* The scope the job leaves last is the only one.
LEMMA LeftAtTheEnd ==
    ASSUME OneScope, TypeOK, NextScope, UNCHANGED <<main, n, rules, hand, objs>>,
           ~touched' /\ ~warned' => (Compiled(At) => PresentHere \subseteq ReferencedHere)
    PROVE  LeftInv'
<1>1. NothingLeft' <=> NothingLeft
  BY DEF NothingLeft, Compiled, Declares, Present, Referenced, Names, Tree
<1>2. \A s \in Scopes : s = At
  BY AtIsScope DEF OneScope
<1>3. ~touched' /\ ~warned' => NothingLeft
  BY <1>2 DEF NothingLeft, PresentHere, ReferencedHere
<1> QED
  BY <1>1, <1>3 DEF NextScope, LeftInv

LEMMA LeftStep == OneScope /\ TypeOK /\ ApplyInv /\ LeftInv /\ [Next]_vars => LeftInv'
<1> SUFFICES ASSUME OneScope, TypeOK, ApplyInv, LeftInv, [Next]_vars PROVE LeftInv'
  OBVIOUS
<1> USE DEF Goto
<1>0. PresentHere \subseteq Refs
  BY AtIsScope, ScopesAssumption DEF PresentHere, Present, TypeOK
<1>1. CASE StartRun
  BY <1>1, LeftElsewhere DEF StartRun, Start
<1>2. CASE EnterScope \/ Ensure \/ EnsureDone \/ TerraformPlan \/ ApplyDone \/ Enrich
  <2>1. pc # "idle" /\ UNCHANGED green
    BY <1>2 DEF EnterScope, Ensure, EnsureDone, TerraformPlan, ApplyDone, Enrich
  <2>2. pc' \in {"ensureTags", "createTags", "createObjects", "ensureObjects", "plan",
                 "apply", "enrich", "push"}
    BY <1>2 DEF EnterScope, Ensure, EnsureDone, TerraformPlan, ApplyDone, Enrich
  <2> QED
    BY <2>1, <2>2, LeftElsewhere DEF LeftInv
<1>3. CASE CreateRef \/ StartPush
  <2>1. pc # "idle" /\ UNCHANGED green
    BY <1>3 DEF CreateRef, StartPush, Abort
  <2>2. pc' \in {pc, "idle", "wait"} /\ pc \in {"createTags", "createObjects", "push"}
    BY <1>3 DEF CreateRef, StartPush, Abort
  <2> QED
    BY <2>1, <2>2, LeftElsewhere DEF LeftInv
<1>4. CASE SkipPush \/ PushNoop \/ PollOk \/ PollFail \/ PollTimeout \/ Fail
  BY <1>4, LeftElsewhere
     DEF SkipPush, PushNoop, PollOk, PollFail, PollTimeout, Fail, Abort, LeftInv
<1>5. ASSUME NEW r \in Reqs, ApplyRule(r) \/ RefuseRule(r) \/ LoseStateWrite(r) PROVE LeftInv'
  BY <1>5, LeftElsewhere DEF ApplyRule, RefuseRule, LoseStateWrite, Abort, LeftInv
<1>6. CASE PassScope
  <2>1. NextScope /\ ~Compiled(At) /\ UNCHANGED <<main, n, rules, hand, objs>>
    BY <1>6 DEF PassScope, gitops, scm
  <2> QED
    BY <2>1, LeftAtTheEnd
<1>7. CASE Sweep
  <2>1. /\ PresentHere' = PresentHere /\ ReferencedHere' = ReferencedHere
        /\ UNCHANGED <<green, touched, warned>> /\ pc # "idle"
    BY <1>7, SamePresent, SameReferenced DEF Sweep, scm
  <2>2. ~touched => WantedHere \subseteq ReferencedHere
    BY <1>7, WantedIsReferenced DEF Sweep, AfterApply, AfterEnsure
  <2>3. todo' = ((PresentHere \cap Kind(pc = "sweepTags")) \ ReferencedHere) \ WantedHere
    BY <1>7 DEF Sweep, Unreferenced, PresentHere, ReferencedHere, WantedHere
  <2>4. CASE pc = "sweepTags"
    BY <1>7, <2>1, <2>2, <2>3, <2>4 DEF Sweep, LeftInv, Kind
  <2>5. CASE pc = "sweepObjects"
    BY <1>0, <1>7, <2>1, <2>2, <2>3, <2>5 DEF Sweep, LeftInv, Kind
  <2> QED
    BY <1>7, <2>4, <2>5 DEF Sweep
<1>8. ASSUME NEW x \in Refs, NEW t \in Scopes, DeleteRef(x, t) PROVE LeftInv'
  <2>1. At \in Scopes /\ t = At /\ Lineage[At] = {At}
    BY AtIsScope, ScopesAssumption DEF OneScope
  <2>2. objs' = [objs EXCEPT ![At] = @ \ {x}] /\ todo' = todo \ {x}
    BY <1>8, <2>1 DEF DeleteRef
  <2>3. PresentHere' = PresentHere \ {x} /\ ReferencedHere' = ReferencedHere
    <3>1. PresentHere = objs[At] /\ PresentHere' = objs'[At]
      BY <1>8, <2>1 DEF DeleteRef, PresentHere, Present, At
    <3> QED
      BY <1>8, <2>1, <2>2, <3>1, SameReferenced DEF DeleteRef, TypeOK
  <2>4. UNCHANGED <<pc, green, touched, warned>> /\ pc # "idle"
    BY <1>8 DEF DeleteRef
  <2> QED
    BY <1>8, <2>2, <2>3, <2>4 DEF DeleteRef, LeftInv
<1>9. CASE SweepDone
  <2>1. todo = {} /\ UNCHANGED <<main, n, rules, hand, objs, touched, warned>> /\ AfterSweep
    BY <1>9 DEF SweepDone, gitops, scm
  <2>2. CASE pc = "deleteTags"
    <3>1. pc' = "sweepObjects" /\ UNCHANGED <<k, green>>
      BY <2>1, <2>2 DEF AfterSweep
    <3> QED
      BY <2>1, <2>2, <3>1, SamePresent, SameReferenced DEF LeftInv
  <2>3. CASE pc = "deleteObjects"
    <3>1. NextScope
      BY <2>1, <2>3 DEF AfterSweep
    <3>2. ~touched' /\ ~warned' => PresentHere \subseteq ReferencedHere
      BY <2>1, <2>3 DEF LeftInv
    <3> QED
      BY <2>1, <3>1, <3>2, LeftAtTheEnd
  <2> QED
    BY <1>9, <2>2, <2>3 DEF SweepDone
<1>10. CASE RefuseDelete \/ FailSweep
  <2>1. warned' /\ AfterSweep /\ pc # "idle"
    BY <1>10 DEF RefuseDelete, FailSweep
  <2> QED
    BY <2>1 DEF AfterSweep, NextScope, LeftInv
<1>11. CASE Console
  <2>1. Touch
    BY <1>11 DEF Console, ConsoleRule, ConsoleRefer, ConsoleDelete
  <2> QED
    BY <2>1 DEF Touch, LeftInv
<1>12. CASE LoseState \/ RecoverState \/ (\E s \in Scopes : JobFinishes(s)) \/ UNCHANGED vars
  <2>1. UNCHANGED <<pc, k, todo, touched, warned, green, rules, hand, objs>>
    BY <1>12 DEF LoseState, RecoverState, JobFinishes, vars, gitops, scm, run
  <2>2. Tree' = Tree
    BY <1>12 DEF LoseState, RecoverState, JobFinishes, vars, gitops, Tree
  <2> QED
    BY <2>1, <2>2, LeftStays
<1>13. ASSUME NEW tree \in Trees, Merge(tree) PROVE LeftInv'
  BY <1>13, MergeKeeps, LeftStays DEF Merge, scm, run
<1> QED
  BY <1>1, <1>2, <1>3, <1>4, <1>5, <1>6, <1>7, <1>8, <1>9, <1>10, <1>11, <1>12, <1>13
     DEF Next, JobStep, Faults

\* In a tenant of one scope, a run that succeeds, that nobody disturbed and
\* whose sweeps did not give up leaves nothing of ours that no rule and no
\* hand-made config refers to, however many runs failed before it
\* (objectsweep.py:284).
THEOREM NothingIsLeft == OneScope => (Spec => []NoLeftovers)
<1> SUFFICES ASSUME OneScope PROVE Spec => []NoLeftovers
  OBVIOUS
<1>1. Init => LeftInv
  <2> SUFFICES ASSUME Init PROVE LeftInv
    OBVIOUS
  <2>1. pc = "idle" /\ \A s \in Scopes : objs[s] = {}
    BY DEF Init
  <2>2. NothingLeft
    BY <2>1, ScopesAssumption DEF NothingLeft, Present
  <2> QED
    BY <2>1, <2>2 DEF LeftInv
<1>2. IInv /\ LeftInv /\ [Next]_vars => LeftInv'
  BY LeftStep DEF IInv
<1>3. LeftInv => NoLeftovers
  BY DEF LeftInv, NothingLeft, NoLeftovers
<1> QED
  BY <1>1, <1>2, <1>3, Inductive, PTL DEF Spec

====

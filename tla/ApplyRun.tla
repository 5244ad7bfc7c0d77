---- MODULE ApplyRun ----
(***************************************************************************)
(* The apply job of .github/workflows/apply.yml: for each scope in turn it *)
(* creates the tags and objects the declared rules name, lets terraform    *)
(* write the rules into the SCM candidate, enriches, pushes the scope, and *)
(* sweeps what nothing names any more.                                     *)
(*                                                                         *)
(* The job is one process, but nothing it talks to waits for it: requests  *)
(* merge while it runs, somebody works in the SCM console between any two  *)
(* of its calls, a push job may outlive the job that polls it, and any     *)
(* call may fail, which ends the run (`set -euo pipefail`) with everything *)
(* done so far left in place.  Terraform's state can miss a rule SCM       *)
(* already holds.                                                          *)
(***************************************************************************)
EXTENDS Integers, Sequences, FiniteSets

CONSTANTS
    Scopes,      \* Terraform roots: folders and devices
    ScopeOrder,  \* the order `fwgitops apply-order` prints them in
    Lineage,     \* scope -> itself and the scopes it inherits from
    Pushable,    \* scopes with a firewall beneath them
    OtherKinds,  \* scopes in which interfaces, zones or routes are declared too
    Reqs,        \* requests; each declares at most one rule, of the same name
    Home,        \* request -> the scope its rule is compiled into
    Contents,    \* what a rule may say
    NoRule,      \* no rule of this name
    Refs,        \* names of the tags and objects this platform mints, without the
                 \* marker tag that every object of ours carries
    TagRefs,     \* those that are tags
    Uses,        \* content -> the tags and objects a rule saying this names
    MaxMerges, MaxConsole, MaxFaults  \* bounds on what may disturb the runs

ASSUME ScopesAssumption ==
    /\ ScopeOrder \in Seq(Scopes)
    /\ ScopeOrder # <<>>
    /\ Lineage \in [Scopes -> SUBSET Scopes]
    /\ \A s \in Scopes : s \in Lineage[s]
    /\ Pushable \subseteq Scopes
    /\ OtherKinds \subseteq Scopes

ASSUME RulesAssumption ==
    /\ Home \in [Reqs -> Scopes]
    /\ NoRule \notin Contents
    /\ TagRefs \subseteq Refs
    /\ Uses \in [Contents -> SUBSET Refs]

ASSUME BoundsAssumption == {MaxMerges, MaxConsole, MaxFaults} \subseteq Nat

VARIABLES
    main,     \* the trees of the main branch, oldest first
    n,        \* which of them the job has checked out
    good,     \* which of them the last successful run before it had checked out
    rules,    \* managed rules in the SCM candidate
    objs,     \* scope -> tags and objects defined there
    hand,     \* scope -> minted names that hand-made config there refers to
    owned,    \* rules in Terraform's state
    live,     \* managed rules running on the firewalls
    job,      \* scope -> its latest push job
    pc,       \* the step of the apply job
    k,        \* index in ScopeOrder of the scope it is working on
    plan,     \* what terraform still has to do to each rule
    todo,     \* names the current ensure or sweep has left to handle
    staged,   \* apply summary: this scope's apply changed something
    moved,    \* enrich reported a move
    green,    \* the last run ended with success
    touched,  \* the console was used since the run started
    warned,   \* a sweep of the run gave up, leaving a warning
    console, faults  \* budgets used

gitops == <<main, n, good>>
scm == <<rules, objs, hand, live, job>>
run == <<pc, k, plan, todo, staged, moved, green, touched, warned>>
budget == <<console, faults>>
vars == <<gitops, scm, owned, run, budget>>

----
Saying == Contents \cup {NoRule}
Trees == [Reqs -> Saying]
Ops == {"none", "create", "update", "destroy"}

Jobs == [state : {"none", "running", "ok", "fail"}, content : Trees, clean : BOOLEAN]

Steps == {"idle", "scope", "ensureTags", "createTags", "ensureObjects", "createObjects",
          "plan", "apply", "enrich", "push", "wait",
          "sweepTags", "deleteTags", "sweepObjects", "deleteObjects"}

Of(s) == {r \in Reqs : Home[r] = s}
UsesOf(c) == IF c = NoRule THEN {} ELSE Uses[c]
Names(rs, tree) == UNION {UsesOf(tree[r]) : r \in rs}

Tree == main[n]
At == ScopeOrder[k]

Declares(s) == \E r \in Of(s) : Tree[r] # NoRule

\* What the intents compiled for this scope name (wanted_objects, run_tags).
Wanted(s) == Names(Of(s), Tree)

\* An SCM list call at a scope returns what it defines and what it inherits.
Present(s) == UNION {objs[t] : t \in Lineage[s]}

\* What the referrer collections listed at a scope mention: rules of this
\* platform and hand-made groups and NAT rules, inherited ones included.
Referenced(s) ==
    UNION {Names(Of(t), rules) \cup hand[t] : t \in Lineage[s]}

\* SCM keeps a name while anything at the scope or beneath it refers to it.
HeldBeneath(t) ==
    UNION {Names(Of(s), rules) \cup hand[s] : s \in {s \in Scopes : t \in Lineage[s]}}

TypeOK ==
    /\ main \in Seq(Trees)
    /\ {n, good} \subseteq 1 .. Len(main)
    /\ rules \in Trees
    /\ objs \in [Scopes -> SUBSET Refs]
    /\ hand \in [Scopes -> SUBSET Refs]
    /\ owned \subseteq Reqs
    /\ live \in Trees
    /\ job \in [Scopes -> Jobs]
    /\ pc \in Steps
    /\ k \in 1 .. Len(ScopeOrder)
    /\ plan \in [Reqs -> Ops]
    /\ todo \subseteq Refs
    /\ staged \in BOOLEAN
    /\ moved \in BOOLEAN
    /\ green \in BOOLEAN
    /\ touched \in BOOLEAN
    /\ warned \in BOOLEAN

Nothing == [r \in Reqs |-> NoRule]
NoPlan == [r \in Reqs |-> "none"]
NoJob == [state |-> "none", content |-> Nothing, clean |-> FALSE]

Init ==
    /\ main = <<Nothing>>
    /\ n = 1
    /\ good = 1
    /\ rules = Nothing
    /\ objs = [s \in Scopes |-> {}]
    /\ hand = [s \in Scopes |-> {}]
    /\ owned = {}
    /\ live = Nothing
    /\ job = [s \in Scopes |-> NoJob]
    /\ pc = "idle"
    /\ k = 1
    /\ plan = NoPlan
    /\ todo = {}
    /\ staged = FALSE
    /\ moved = FALSE
    /\ green = TRUE
    /\ touched = FALSE
    /\ warned = FALSE
    /\ console = 0
    /\ faults = 0

----
(* How a run starts and ends.                                              *)

Goto(step) == pc' = step

\* The commit of the newest run that succeeded.
LastGood == IF green THEN n ELSE good

Start(commit) ==
    /\ pc = "idle"
    /\ n' = commit
    /\ good' = LastGood
    /\ Goto("scope")
    /\ k' = 1
    /\ touched' = FALSE
    /\ warned' = FALSE
    /\ green' = FALSE
    /\ UNCHANGED <<main, scm, owned, plan, todo, staged, moved, budget>>

\* Runs reach the front of the concurrency group in the order their commits
\* were pushed; somebody may start the run of the newest commit again.
StartRun == \E commit \in {Len(main)} \cup (n + 1 .. Len(main)) : Start(commit)

\* Slip: "was this commit applied?", the guard's first version.
CommitApplied == LastGood = Len(main)

\* Nothing declared has changed since the last run that succeeded.
AlreadyApplied == main[LastGood] = main[Len(main)]

\* The nightly restore, which refuses as long as a merge waits to be applied.
\* It is one of the ways StartRun starts a run, and the only one no person is
\* needed for.
RestoreRun == AlreadyApplied /\ Start(Len(main))

\* Slip: without pipefail a failed terraform apply is followed by enrich and push.
GoOn ==
    /\ Goto("enrich")
    /\ plan' = NoPlan
    /\ todo' = {}
    /\ UNCHANGED <<k, staged, moved, green, touched, warned>>

\* A step exits non-zero: the remaining steps and scopes do not happen.
Abort ==
    /\ Goto("idle")
    /\ plan' = NoPlan
    /\ todo' = {}
    /\ UNCHANGED <<k, staged, moved, green, touched, warned>>

\* The API, git, the backend or the runner fails, at any step.
Fail ==
    /\ pc # "idle"
    /\ faults < MaxFaults
    /\ faults' = faults + 1
    /\ Abort
    /\ UNCHANGED <<gitops, scm, owned, console>>

\* Slip: the loop steps past the last scope.
StepPastEnd ==
    /\ pc' = IF k = Len(ScopeOrder) THEN "idle" ELSE "scope"
    /\ k' = k + 1
    /\ green' = (k = Len(ScopeOrder))
    /\ todo' = {}

NextScope ==
    /\ pc' = IF k = Len(ScopeOrder) THEN "idle" ELSE "scope"
    /\ k' = IF k = Len(ScopeOrder) THEN k ELSE k + 1
    /\ green' = (k = Len(ScopeOrder))
    /\ todo' = {}

\* `apply-order` prints, and the loop enters, only scopes the compiler wrote a
\* file for: a scope whose last intent is gone is passed over.
Compiled(s) == s \in OtherKinds \/ Declares(s)

EnterScope ==
    /\ pc = "scope"
    /\ Compiled(At)
    /\ Goto("ensureTags")
    /\ UNCHANGED <<gitops, scm, owned, k, plan, todo, staged,
                   moved, green, touched, warned, budget>>

PassScope ==
    /\ pc = "scope"
    /\ ~Compiled(At)
    /\ NextScope
    /\ UNCHANGED <<gitops, scm, owned, plan, staged, moved, touched, warned, budget>>

----
(* `tags ensure` and `objects ensure`: list, then create what is missing.  *)

\* Slip: only tags are ensured, as before addresses and services left terraform.
TagsOnly(tags) == TagRefs

Kind(tags) == IF tags THEN TagRefs ELSE Refs \ TagRefs

\* Slip: an object counts as present wherever in the tenant it is defined.
MissingAnywhere(s, tags) == (Wanted(s) \cap Kind(tags)) \ UNION {objs[t] : t \in Scopes}

Missing(s, tags) == (Wanted(s) \cap Kind(tags)) \ Present(s)

Ensure ==
    /\ pc \in {"ensureTags", "ensureObjects"}
    /\ todo' = Missing(At, pc = "ensureTags")
    /\ Goto(IF pc = "ensureTags" THEN "createTags" ELSE "createObjects")
    /\ UNCHANGED <<gitops, scm, owned, k, plan, staged,
                   moved, green, touched, warned, budget>>

CreateRef ==
    /\ pc \in {"createTags", "createObjects"}
    /\ \E x \in todo :
         \/ /\ x \notin objs[At]
            /\ objs' = [objs EXCEPT ![At] = @ \cup {x}]
            /\ todo' = todo \ {x}
            /\ UNCHANGED <<pc, k, plan, staged, moved, green, touched, warned>>
         \/ /\ x \in objs[At]
            /\ Abort
            /\ UNCHANGED objs
    /\ UNCHANGED <<gitops, rules, hand, live, job, owned, budget>>

EnsureDone ==
    /\ pc \in {"createTags", "createObjects"}
    /\ todo = {}
    /\ Goto(IF pc = "createTags" THEN "ensureObjects" ELSE "plan")
    /\ UNCHANGED <<gitops, scm, owned, k, plan, todo, staged,
                   moved, green, touched, warned, budget>>

----
(* terraform apply: refresh and plan, then one resource at a time.         *)

Exists == {r \in Reqs : rules[r] # NoRule}

PlanFor(r, known) ==
    CASE r \in known /\ Tree[r] = NoRule -> "destroy"
      [] r \in known /\ Tree[r] # NoRule /\ rules[r] # Tree[r] -> "update"
      [] r \notin known /\ Tree[r] # NoRule -> "create"
      [] OTHER -> "none"

\* The refresh drops from the state what SCM no longer has.
Refreshed == owned \ (Of(At) \ Exists)

TerraformPlan ==
    /\ pc = "plan"
    /\ owned' = Refreshed
    /\ plan' = [r \in Reqs |-> IF r \in Of(At) THEN PlanFor(r, owned') ELSE "none"]
    /\ staged' = FALSE
    /\ moved' = FALSE
    /\ Goto("apply")
    /\ UNCHANGED <<gitops, scm, k, todo, green, touched, warned, budget>>

\* SCM accepts a write of r: a new name must be free, a changed rule must be
\* there, and every tag and object named must resolve (INVALID_REFERENCE).
Accepts(r) ==
    /\ plan[r] = "create" => rules[r] = NoRule
    /\ plan[r] = "update" => rules[r] # NoRule
    /\ plan[r] # "destroy" => UsesOf(Tree[r]) \subseteq Present(Home[r])

Write(r) == rules' = [rules EXCEPT ![r] = Tree[r]]

StateAfter(r) == IF plan[r] = "destroy" THEN owned \ {r} ELSE owned \cup {r}

ApplyRule(r) ==
    /\ pc = "apply"
    /\ plan[r] # "none"
    /\ Accepts(r)
    /\ Write(r)
    /\ owned' = StateAfter(r)
    /\ plan' = [plan EXCEPT ![r] = "none"]
    /\ staged' = TRUE
    /\ UNCHANGED <<gitops, objs, hand, live, job, pc, k, todo,
                   moved, green, touched, warned, budget>>

\* Terraform still tries its other resources before it exits: those are the
\* rules applied before this step is taken.
RefuseRule(r) ==
    /\ pc = "apply"
    /\ plan[r] # "none"
    /\ ~Accepts(r)
    /\ Abort
    /\ UNCHANGED <<gitops, scm, owned, budget>>

\* The write reaches SCM and the run dies before the state is saved.
LoseStateWrite(r) ==
    /\ pc = "apply"
    /\ plan[r] # "none"
    /\ Accepts(r)
    /\ faults < MaxFaults
    /\ faults' = faults + 1
    /\ Write(r)
    /\ Abort
    /\ UNCHANGED <<gitops, objs, hand, live, job, owned, console>>

ApplyDone ==
    /\ pc = "apply"
    /\ plan = NoPlan
    /\ Goto("enrich")
    /\ UNCHANGED <<gitops, scm, owned, k, plan, todo, staged,
                   moved, green, touched, warned, budget>>

----
(* enrich, which runs where rules are declared, reports whether it moved   *)
(* anything (module EnrichOrder); then the scope is pushed if anything was *)
(* staged, and the job is polled.                                          *)

Enrich ==
    /\ pc = "enrich"
    /\ moved' \in {FALSE, Declares(At)}
    /\ Goto("push")
    /\ UNCHANGED <<gitops, scm, owned, k, plan, todo, staged,
                   green, touched, warned, budget>>

ShouldPush == staged \/ moved

SkipPush ==
    /\ pc = "push"
    /\ ~ShouldPush \/ At \notin Pushable
    /\ Goto("sweepTags")
    /\ UNCHANGED <<gitops, scm, owned, k, plan, todo, staged,
                   moved, green, touched, warned, budget>>

Part(s, tree) == [r \in Reqs |-> IF r \in Of(s) THEN tree[r] ELSE NoRule]

\* Rules SCM holds that Terraform's state does not know.
Orphans(s) == (Of(s) \cap Exists) \ owned

Pushing(s) == job[s].state = "running"

\* SCM works on one push of a scope at a time and answers a second with an error.
StartPush ==
    /\ pc = "push"
    /\ ShouldPush
    /\ At \in Pushable
    /\ \/ /\ ~Pushing(At)
          /\ job' = [job EXCEPT ![At] = [state |-> "running", content |-> Part(At, rules),
                                         clean |-> ~touched /\ Orphans(At) = {}]]
          /\ Goto("wait")
          /\ UNCHANGED <<k, plan, todo, staged, moved, green, touched, warned>>
       \/ /\ Pushing(At)
          /\ Abort
          /\ UNCHANGED job
    /\ UNCHANGED <<gitops, rules, objs, hand, live, owned, budget>>

\* "Nothing to push": SCM starts no job when the scope has no staged change.
PushNoop ==
    /\ pc = "push"
    /\ ShouldPush
    /\ At \in Pushable
    /\ ~Pushing(At)
    /\ Part(At, rules) = Part(At, live)
    /\ Goto("sweepTags")
    /\ UNCHANGED <<gitops, scm, owned, k, plan, todo, staged,
                   moved, green, touched, warned, budget>>

\* Slip: any finished job is taken for a success.
PollFinished ==
    /\ pc = "wait"
    /\ job[At].state # "running"
    /\ Goto("sweepTags")
    /\ UNCHANGED <<gitops, scm, owned, k, plan, todo, staged,
                   moved, green, touched, warned, budget>>

\* Only FIN with result OK is success.
PollOk ==
    /\ pc = "wait"
    /\ job[At].state = "ok"
    /\ Goto("sweepTags")
    /\ UNCHANGED <<gitops, scm, owned, k, plan, todo, staged,
                   moved, green, touched, warned, budget>>

PollFail ==
    /\ pc = "wait"
    /\ job[At].state = "fail"
    /\ Abort
    /\ UNCHANGED <<gitops, scm, owned, budget>>

\* Slip: the poll is not bounded.
PollForever ==
    /\ pc = "wait"
    /\ job[At].state = "running"
    /\ UNCHANGED vars

\* bounded_poll runs out of attempts; the job goes on without us.
PollTimeout ==
    /\ pc = "wait"
    /\ job[At].state = "running"
    /\ Abort
    /\ UNCHANGED <<gitops, scm, owned, budget>>

----
(* `tags sweep` and `objects sweep`: list what is there, list what refers  *)
(* to it, delete the rest.  An error ends the sweep but not the job.       *)

\* Slip: what the intents do not name is garbage, whoever else refers to it.
Undeclared(s, tags) == (Present(s) \cap Kind(tags)) \ Wanted(s)

\* Slip: only what refers to an object from the scope itself is listed.
UnreferencedHere(s, tags) ==
    ((Present(s) \cap Kind(tags)) \ (Names(Of(s), rules) \cup hand[s])) \ Wanted(s)

Unreferenced(s, tags) ==
    ((Present(s) \cap Kind(tags)) \ Referenced(s)) \ Wanted(s)

\* Slip: the object sweep is left out.
SweptTags == NextScope

AfterSweep ==
    IF pc \in {"sweepTags", "deleteTags"}
    THEN /\ Goto("sweepObjects")
         /\ todo' = {}
         /\ UNCHANGED <<k, green>>
    ELSE NextScope

Sweep ==
    /\ pc \in {"sweepTags", "sweepObjects"}
    /\ todo' = Unreferenced(At, pc = "sweepTags")
    /\ Goto(IF pc = "sweepTags" THEN "deleteTags" ELSE "deleteObjects")
    /\ UNCHANGED <<gitops, scm, owned, k, plan, staged,
                   moved, green, touched, warned, budget>>

\* The id read may be the copy of the scope or one it inherits.
DeleteRef(x, t) ==
    /\ pc \in {"deleteTags", "deleteObjects"}
    /\ x \in todo
    /\ t \in Lineage[At]
    /\ x \in objs[t] \ HeldBeneath(t)
    /\ objs' = [objs EXCEPT ![t] = @ \ {x}]
    /\ todo' = todo \ {x}
    /\ UNCHANGED <<gitops, rules, hand, live, job, owned, pc, k, plan, staged, moved,
                   green, touched, warned, budget>>

\* 409 NON_ZERO_REFS, or 404 for a name the console deleted since the list.
RefuseDelete ==
    /\ pc \in {"deleteTags", "deleteObjects"}
    /\ \E x \in todo : \A t \in Lineage[At] : x \notin objs[t] \ HeldBeneath(t)
    /\ AfterSweep
    /\ warned' = TRUE
    /\ UNCHANGED <<gitops, scm, owned, plan, staged, moved, touched, budget>>

\* A list or a delete that fails: an unread referrer means nothing is swept.
FailSweep ==
    /\ pc \in {"sweepTags", "deleteTags", "sweepObjects", "deleteObjects"}
    /\ pc \in {"deleteTags", "deleteObjects"} => todo # {}
    /\ faults < MaxFaults
    /\ faults' = faults + 1
    /\ AfterSweep
    /\ warned' = TRUE
    /\ UNCHANGED <<gitops, scm, owned, plan, staged, moved, touched, console>>

SweepDone ==
    /\ pc \in {"deleteTags", "deleteObjects"}
    /\ todo = {}
    /\ AfterSweep
    /\ UNCHANGED <<gitops, scm, owned, plan, staged, moved, touched, warned, budget>>

----
(* What happens around the job.                                            *)

\* A pull request is merged.
Merge(tree) ==
    /\ Len(main) <= MaxMerges
    /\ main' = Append(main, tree)
    /\ UNCHANGED <<n, good, scm, owned, run, budget>>

\* SCM finishes a push: the whole scope goes live, or none of it.
JobFinishes(s) ==
    /\ Pushing(s)
    /\ \/ /\ job' = [job EXCEPT ![s].state = "ok"]
          /\ live' = [r \in Reqs |-> IF r \in Of(s) THEN job[s].content[r] ELSE live[r]]
          /\ UNCHANGED faults
       \/ /\ job' = [job EXCEPT ![s].state = "fail"]
          /\ faults < MaxFaults
          /\ faults' = faults + 1
          /\ UNCHANGED live
    /\ UNCHANGED <<gitops, rules, objs, hand, owned, run, console>>

Touch ==
    /\ console < MaxConsole
    /\ console' = console + 1
    /\ touched' = TRUE
    /\ UNCHANGED <<gitops, owned, pc, k, plan, todo, staged, moved, green, warned, faults>>

\* Somebody edits or deletes a managed rule in the console and commits it.
ConsoleRule(r, c) ==
    /\ r \in Exists
    /\ c # rules[r]
    /\ UsesOf(c) \subseteq Present(Home[r])
    /\ rules' = [rules EXCEPT ![r] = c]
    /\ live' = [live EXCEPT ![r] = c]
    /\ Touch
    /\ UNCHANGED <<objs, hand, job>>

\* Hand-made config starts or stops referring to one of our objects.
ConsoleRefer(s, x) ==
    /\ x \in Present(s)
    /\ hand' = [hand EXCEPT ![s] = IF x \in @ THEN @ \ {x} ELSE @ \cup {x}]
    /\ Touch
    /\ UNCHANGED <<rules, objs, live, job>>

\* Somebody tidies up an object of ours that nothing refers to.
ConsoleDelete(s, x) ==
    /\ x \in objs[s] \ HeldBeneath(s)
    /\ objs' = [objs EXCEPT ![s] = @ \ {x}]
    /\ Touch
    /\ UNCHANGED <<rules, hand, live, job>>

\* The bucket that holds Terraform's state is lost (recover.py:3).
LoseState ==
    /\ pc = "idle"
    /\ owned # {}
    /\ faults < MaxFaults
    /\ faults' = faults + 1
    /\ owned' = {}
    /\ UNCHANGED <<gitops, scm, run, console>>

\* `recover-state`: imports every declared rule, or nothing at all when SCM
\* lacks one of them.
RecoverState ==
    LET declared == {r \in Reqs : main[Len(main)][r] # NoRule}
    IN  /\ pc = "idle"
        /\ declared \subseteq Exists
        /\ ~ declared \subseteq owned
        /\ owned' = owned \cup declared
        /\ UNCHANGED <<gitops, scm, run, budget>>

----
JobStep ==
    \/ EnterScope
    \/ PassScope
    \/ Ensure
    \/ CreateRef
    \/ EnsureDone
    \/ TerraformPlan
    \/ \E r \in Reqs : ApplyRule(r) \/ RefuseRule(r)
    \/ ApplyDone
    \/ Enrich
    \/ SkipPush
    \/ StartPush
    \/ PushNoop
    \/ PollOk
    \/ PollFail
    \/ PollTimeout
    \/ Sweep
    \/ \E x \in Refs, t \in Scopes : DeleteRef(x, t)
    \/ RefuseDelete
    \/ SweepDone

Faults ==
    \/ Fail
    \/ FailSweep
    \/ \E r \in Reqs : LoseStateWrite(r)
    \/ LoseState

Console ==
    \/ \E r \in Reqs, c \in Saying : ConsoleRule(r, c)
    \/ \E s \in Scopes, x \in Refs : ConsoleRefer(s, x) \/ ConsoleDelete(s, x)

Next ==
    \/ StartRun
    \/ JobStep
    \/ Faults
    \/ Console
    \/ RecoverState
    \/ \E tree \in Trees : Merge(tree)
    \/ \E s \in Scopes : JobFinishes(s)

\* The job runs to its end by itself, and some night's restore starts as long as
\* it is not refused (it waits for that night's deletions to end well).  Nothing
\* else need happen: an apply that failed or waits at its gate is started again
\* by a person or not at all, and a push job need never finish.
Spec == Init /\ [][Next]_vars /\ WF_vars(JobStep) /\ WF_vars(RestoreRun)

----
(* Properties *)

AfterEnsure == {"plan", "apply", "enrich", "push", "wait", "sweepTags", "deleteTags",
                "sweepObjects", "deleteObjects"}
AfterApply == AfterEnsure \ {"plan", "apply"}
AfterPush == {"sweepTags", "deleteTags", "sweepObjects", "deleteObjects"}

\* From the end of `objects ensure` to the end of the scope, every tag and
\* object its declared rules name resolves, unless the console interferes: no
\* write of terraform is refused for a missing reference, and neither sweep
\* takes away what the scope still wants (tagsweep.py:103, objectsweep.py:253).
RefsReady == pc \in AfterEnsure /\ ~touched => Wanted(At) \subseteq Present(At)

\* A sweep deletes nothing that something it can list refers to: what it read
\* stays true until its last delete, since the rule changes that release a
\* name were made in an earlier step (ADR-0009, objectsweep.py:284).
SweepSparesReferences ==
    pc \in {"deleteTags", "deleteObjects"} /\ ~touched =>
        todo \cap Referenced(At) = {}

\* What a push commits is a whole version of the scope as some commit of main
\* declares it: never the half of one that a failed apply left in the
\* candidate, never parts of two (push.py:1, the atomic commit boundary).
\* Excepted are scopes the console edited during the run, and scopes holding a
\* rule that Terraform's state has lost.
CommitIsWhole ==
    \A s \in Scopes :
        job[s].clean =>
            \E i \in 1 .. Len(main) : \A r \in Of(s) : job[s].content[r] = main[i][r]

\* A scope in which this run staged something is live before anything is
\* swept there (apply.yml:552, "SWEEP AFTER THE PUSH").
PushedBeforeSweep ==
    pc \in AfterPush /\ staged /\ ~touched /\ At \in Pushable =>
        Part(At, live) = Part(At, rules)

\* With a single scope, a successful run nobody disturbed, and whose sweeps did
\* not give up, leaves no object or tag of ours that nothing names: what earlier
\* failed runs and removed rules left over is gone too (objectsweep.py:284).
NoLeftovers ==
    pc = "idle" /\ green /\ ~touched /\ ~warned =>
        \A s \in Scopes : Compiled(s) => Present(s) \subseteq Referenced(s)

\* A run that has started ends, even if SCM never finishes a push job, and so
\* gives up the concurrency group (_poll.py:23).
RunEnds == []<>(pc = "idle")

\* Night after night the candidate is brought back to what main declares, in
\* every scope the loop enters, whatever a console or a restore that failed did
\* to it (remediate.yml:235), with two exceptions: Terraform's state stays
\* without a rule that SCM holds, or what main declares is not what the last
\* successful run applied, in which case the restore refuses and an apply of the
\* newest commit is left to a person (remediate.yml:191).  A merge that declares
\* nothing new is no reason to refuse.
RestoreCatchesUp ==
    \/ []<>(pc = "idle" /\ \A s \in Scopes :
              Compiled(s) => Part(s, rules) = Part(s, main[Len(main)]))
    \/ <>[](\E s \in Scopes : Orphans(s) # {})
    \/ []<>(main[LastGood] # main[Len(main)])

\* devicesync.py:75: "apply.yml pushes immediately after applying, so a
\* refused push FAILS THE JOB loudly".  A green run that nobody disturbed has
\* made its commit live wherever there is a firewall.
GreenMeansLive ==
    pc = "idle" /\ green /\ ~touched =>
        \A s \in Pushable : \A r \in Of(s) : live[r] = Tree[r]

====

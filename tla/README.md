# Verification of palo-firewall-gitops

TLA+ models of the GitOps pipeline for Palo Alto firewalls in this repository, the TLC
configurations that check them, and TLAPS proofs about them. Paths such as `cli.py` mean
`src/fwgitops/cli.py`, workflow names mean `.github/workflows/`.

Run a check with `tlc -config <cfg> <module>`, a proof with `tlapm <module>.tla`.
`PROJECT.json` maps every definition to the lines it models and lists the runs, the mutants
(plausible bugs each property must catch), the hazards and the findings.

## The system

A requester merges an intent file. The pipeline compiles all intents into Terraform
variables, one root per *scope* (an SCM folder or a device), and applies scope after scope:
Terraform stages rules in the Strata Cloud Manager (SCM) *candidate*, a push makes the
candidate live on the firewalls. At night the tenant is compared with Git, what Git does not
declare is deleted and what was changed by hand is restored.

| Component | State it keeps | Operations | Modelled by |
|---|---|---|---|
| Apply job (`apply.yml`) | position in the scope loop, `staged`, `moved` | ensure, terraform apply, enrich, push, sweep | `ApplyRun` |
| Tag and object lifecycle (`tagsweep.py`, `objectsweep.py`) | tags, addresses and services in SCM | `tags/objects ensure`, `sweep` | `ApplyRun` |
| Push (`push.py`, `clients.py`, `_poll.py`) | push jobs in SCM | push, poll, time out | `ApplyRun` |
| State recovery (`recover.py`) | Terraform state | import | `ApplyRun` |
| Rule order (`enrich.py`, `orderdrift.py`) | order of a rulebase | directives, restore of deployment order | `RuleOrder`, `EnrichOrder` |
| Approval gate (`apply.yml`, `remediate.yml`) | concurrency group, tiers, approvals | classify, approve, apply, nightly restore | `ApprovalGate` |
| Kind registry (`kinds.py`, `run_apply_order`) | registry of kinds, files per root | sort kinds, sort roots, walk them | `ApplyOrder` |
| Drift detection (`drift-detect.yml`, `drift.py`, `rulediff.py`, `objectdrift.py`) | red or green | compare declared and actual: plan, rules, state, objects | `Governance` (`devicesync.py` is not) |
| Remediation, violation records (`remediate.yml`, `remediate.py`, `violations.py`) | `evidence/violations`, the branch `violations/pending` | file, reopen, resolve, land; delete undeclared config, restore | `Governance` (restore also `ApprovalGate`) |
| Catalog (`catalog.py`, `catalogcheck.py`, `resolve.py`) | `catalog/*.yaml` | read, look up, verify against SCM | `Catalog` |
| Intents (`intent.py`) | `intent/` | load and validate a document | `Intents` |
| Compiler (`compiler.py`, `kinds.py`, `cli.py compile`, `folder-interfaces`) | tfvars files on disk | compile, check across intents, write, prune | `Intents`, `Compile` |
| Terraform contract (`tfcontract.py`) | none | what a root declares, wires and types | `Compile` (`Breach`); the scaffold is not |
| Classifier (`classify.py`) | none | tier an object, tier a removal | `Classify` |
| Removal contract (`removal.py`), `pr-validate.yml` | none | compare two trees; tickets, trailers | `Changeset` |
| Evidence (`evidence.py`, apply's evidence step) | `evidence/`, one branch per run | bundle, tombstone, write if changed, land | `Changeset`, `Ledger` |
| Provisioning, onboarding (`provision.py`, `onboard.py`, `adopt.py`) | stage reached | bring-up by hand | not modelled |
| Intake (`intake.py`, `intake.yml`) | none | issue form to pull request | not modelled |
| SCM transport (`scmapi.py`, `io.py`) | token | HTTP | only its failures |
| Operator workflows, bootstrap, spikes | none | run by hand | not modelled |

### How the parts interact, and what is hard

* **SCM is shared.** The job lists, then acts; between the two an operator may edit, reorder
  or delete (`ConsoleRule`, `ConsoleDelete`, `ConsoleEdit`). SCM answers a list at a scope
  with what the scope inherits as well, and refuses to delete what anything at or beneath the
  scope refers to.
* **Every call may fail and nothing is rolled back.** `set -euo pipefail` ends the run; the
  candidate, the state and the objects made so far stay. A push job outlives the job that
  polls it. Only a sweep may fail without ending the run.
* **Runs queue.** One runs, one waits, a third cancels the waiting one. The nightly restore
  joins the same queue without a reviewer.
* **What is tiered is a difference, what is applied is a tree.**
* **Terraform's state can be wrong**: lost, or behind a write that reached SCM.
* **Records land later, by pull requests of their own.** Violation records are recomputed from
  `main` every night and force-pushed; evidence is computed on a run's checkout. Either may
  land after `main`, or SCM, has moved on.
* **Pull requests are validated one by one** against the base they were opened on, and merge
  into a `main` that other merges have changed.
* **Intents are right alone and wrong together**: zones, routers and object keys span files,
  and the catalog drifts from SCM's own hierarchy.

The properties that make it correct: references resolve whenever a rule is written; nothing
in use is deleted; what is pushed is a whole commit; what is pushed comes before what is
swept; order is restored without crossing somebody else's rules; the gate is not bypassed;
scopes are applied after what they depend on; runs end, and repeating them converges; drift
detection misses nothing and its records say what stands; remediation spares policy; compile
writes exactly the tree; a change is reviewed at least as its objects ask for, on a ticket of
its own; the evidence follows what is live.

## The modules

### `RuleOrder`, `EnrichOrder`: the order of a rulebase

`RuleOrder` has the SCM moves (`MoveTop`, `MoveBefore`, `MoveAfter`) and the detection of
`orderdrift.py` (`Common`, `Actual`, `IsClean`) on sequences of rules.
`EnrichOrder` is `fwgitops enrich` step by step: `ReadIds` is pass 1 of `enrich_folder`,
`ApplyOrdering` one rule of pass 2, `ReadAgain` the second read of
`restore_deployment_order` with its early return, `Reseat` one iteration of its loop.
`ids` is the map read before the calls, so that a stale id can be used. `counted` is what the
JSON line reports, `restored` what the reorder record is made from. `NextApply` is the next
apply: Terraform recreates absent rules at the bottom, in any order.

| Run | Shows |
|---|---|
| `enrich_order` | order is restored (`RestoredInOrder`), rules of others keep their side (`FencesKept`), no false accusation of a reorder (`NoFalseReorderRecord`), and after the last console edit runs keep ending in order (`EventuallyInOrder`) |

Bounds: three managed rules, name order different from deployment order, is the least for
which a chain of anchored moves has an inner link; one foreign rule in every place; four
directives, among them an anchor that is a managed rule and one that the console can delete;
one console edit, at any point, which drags a rule anywhere or deletes it, and one failing
call, which leaves the restore half done.

Fairness: `WF(Enrich)`. The command is a sequence of calls each of which returns or fails;
that it starts again is the nightly restore (`remediate.yml`, `schedule`). The console has
no fairness.

### `ApplyRun`: the apply job

State: `main` and the checked-out commit `n`; the SCM candidate (`rules`, `objs`, `hand` for
references made by hand), the live rules, the latest push job of each scope; Terraform's
state (`owned`); the job's own variables (`pc`, `k`, `plan`, `todo`, `staged`, `moved`). The
history variables `green`, `touched`, `warned` say how the last run ended, whether the
console was used during it, and whether one of its sweeps gave up.

A scope is entered only when the compiler wrote a file for it (`Compiled`). Then
`Ensure`/`CreateRef`/`EnsureDone` are `tags ensure` and `objects ensure`, `TerraformPlan`,
`ApplyRule`, `RefuseRule`, `ApplyDone` are terraform with `-parallelism=1` writing in any
order, `Enrich` reports whether it moved something, `StartPush`/`PushNoop`/`SkipPush` and
`PollOk`/`PollFail`/`PollTimeout` are the push, `Sweep`/`DeleteRef`/`RefuseDelete`/`SweepDone`
the two sweeps. `Fail` ends the run at any step; `FailSweep` is the one error that does not
(`|| echo "::warning::`); `LoseStateWrite` is a run that dies between a write and its state.

Abstractions. A rule's content is a model value that stands for what it names (`Uses`).
Addresses and services are one phase. The marker tag `gitops:managed`, which objects carry
too, is not among `Refs`; it is always wanted where anything is declared. Console edits are
committed at once, and pushes are admin-scoped, so a push carries this platform's rules only.
That SCM works on one push of a folder at a time, and that it refuses a rule whose references
do not resolve, is how the code treats it; both are marked external in the map. Terraform
goes on with its other resources after one is refused: that is a `RefuseRule` taken after
them. Zones, interfaces and routes appear only as the reason a scope without rules is entered
(`OtherKinds`).

| Run | Instance | Shows |
|---|---|---|
| `apply_flat` | one folder, two requests sharing a tag | all safety properties |
| `apply_nested` | a shared folder and one that inherits from it | references and sweeps across scopes |
| `apply_live` | one scope, one request, two objects | `RunEnds`, `RestoreCatchesUp` |
| `apply_green` | as `apply_flat` | finding: green although the push never happened |

Properties: `RefsReady` and `SweepSparesReferences` (references), `CommitIsWhole` (the atomic
commit boundary), `PushedBeforeSweep` (ADR-0009's order), `NoLeftovers` (garbage of failed
runs goes with the next good one), `RunEnds`, `RestoreCatchesUp`. The first four hold *unless
the console was used during the run*: an operator can delete an object between the ensure
and the write, and the job can only fail then. `CommitIsWhole` also excepts pushes of a scope
with an *orphan*, a rule SCM holds and Terraform's state has lost: nobody removes it until
somebody runs `recover-state`, and it goes live with whatever is pushed.

`RestoreCatchesUp` is what the schedule alone promises. `good` and `n` are the commits of the
last successful run and of the latest; `AlreadyApplied` is the check of the night, that what is
declared has not changed between the two. While it holds, some night's restore brings the
candidate back to what main declares. While it does not, the restore refuses: an apply of the
newest commit that failed, or that nobody approved, is started again by a person or never
(`StartRun` without fairness). The property says so instead of assuming that somebody comes; the
other exception is a scope with an orphan. The first commit is an empty tree a run applied.

Bounds: two merges after the empty tree (create, change, withdraw), one console action, one
fault at any step. One fault reaches each error path followed by a complete undisturbed run,
which is what the properties speak of; a second merge lets a run of the old commit fail and a
run of the new one follow. The requests of `apply_flat` are interchangeable (same scope, same
contents), so the run uses them as a symmetry set. `apply_live` has a single request because
the properties are about the run and the scope as a whole, and a single scope because
`RestoreCatchesUp` is true of one scope only: with two, TLC finds an execution in which every
restore moves a rule of the first scope and its push times out, so the second is never
restored. Nothing in the code bounds how often that may happen.

Fairness: `WF(JobStep)`, since each step of the job is a call that returns, fails or times
out (`bounded_poll`); `WF(RestoreRun)`, since the restore is scheduled (`remediate.yml`,
`schedule`) and starts whenever its check passes and that night's deletions end without an
error. Merges, operators and reviewers have none, nor have push jobs: `RunEnds` holds although
one may never finish.

### `ApprovalGate`: who approves what

`running` and `pending` are the concurrency group of `apply.yml`, `outcome` how the run of
each commit stands, `night` the remediation: scheduled, cleared by `already_applied`, then
queued as a restore. `Tier` looks at `Changeset`, the difference of a commit to its
predecessor; `Succeed` applies the commit's tree; `FailApply` any part of it. `reviewed` is
a history variable: policies a reviewer saw in a changeset and let through. Runs may be
re-run after they failed, were rejected, or were cancelled in the queue.

| Run | Shows |
|---|---|
| `gate` | the restore applies only trees some attended run applied (`RestoreOnlyAppliedTrees`); the gate holds while no run is skipped (`UnreviewedOnlyAfterSkip`) |
| `gate_reviewed` | finding: after a rejected or cancelled HIGH run a LOW run applies the HIGH policy |

Bounds: one LOW and one HIGH policy give all trees and tiers; four commits are needed for a
run that is evicted between one that runs and one that waits; one night, one re-run.
Deadlock is not checked: with the bounds used up and the queue empty nothing happens.

### `ApplyOrder`: in which order

`KindOrder` is `kind_apply_order` (batches of ready kinds, as a recursive function so that it
can be reasoned about; `KeepOnly` of module `Selection` is the list comprehension that puts a
batch in alphabetical order). `Ordered` is the sort of `run_apply_order`, stated by rank: the
n-th root is the one that n roots come no later than (`NoLater`, `Before`), by the earliest kind
it holds and then by name. `Violations` is the check after it; `PrintOrder`,
`ApplyRoot`, `FailRoot`, `LoopDone` the loop of the job that consumes its output.
`KindsAreSorted` compares the sort with a reference definition of a cycle (a set of kinds
each of which needs another of the set).

A root `holds` the kinds a tfvars file was compiled for, and may be one of those with
`variables`, the file `folder-interfaces` writes from the interface catalog. `Listed` are the
roots `apply-order` prints: those with a file named after a registered kind.

| Run | Shows |
|---|---|
| `apply_order` | the sort (`KindsAreSorted`), dependencies before dependents (`DependenciesFirst`), and the roots with a tfvars file that a green run passes over are exactly those that only have interface variables (`SkipsOnlyVariables`) |

`apply.yml:394` says of the scopes it applies "ANY compiled tfvars, not just RULES". That is not
what the code does, and `SkipsOnlyVariables` does not say it: it says how far the code is from it,
and that rules are not what decides. The disagreement is listed under the findings.

Bounds: every registry over three kinds, cycles included, every layout over three roots, with
and without variables in one of them. Deadlock is not checked: the job ends.

### `Governance`: the nights

Per folder: `rulebase` (rows with a name, what their `gitops:` tags claim, declared or edited
content, and whether a field Git leaves undeclared is set, in order), `objects`, `zones`. In Git: `declared`, what the last apply
`applied`, the violation records on `main` and on the one branch `violations/pending` (`pr`).
Of the running job: `pc`, the folder it is `at`, its checkout (`base`), its workspace of
records (`ws`), `red`, and the removals left in a folder (`queue`).

* Drift: `DriftStart`, then per folder `Plan` (terraform plan), `RuleDrift` (`fwgitops drift`
  with a snapshot), `StateDrift` (zones), `ObjectDrift` (`objects drift`), then `Land`.
  `DriftError` is an error in any of them, after which only the landing runs.
  `TagFindings`, `OrderFindings`, `ContentFindings`, `ObjectFindings` are the engines;
  `Updated`, `Closable`, `Changed`, `WriteAll` are `violations.reconcile` and `write`, with the
  clash of ids that ends a run in the middle of its writes.
* Remediation: `RemediateRead`, one `Delete` per finding by the id it read, `Restore` after
  `already_applied`; the restore's effect is `Reassert`, what `ApplyRun` does in steps.
* What nobody looks at: a field that Git leaves undeclared is not compared (`rulediff.py:181`,
  `drift.py:291`) and terraform leaves it as it is (`Repaired`), so `ConsoleSetUndeclared` is an
  edit no step notices or undoes; an object of any snippet, one made by hand included, counts as
  vendor content (`objectdrift.py:30`). `SaysWhatGitSays` and `Unaccounted` are written
  accordingly, and no property promises more.
* People: `Console...` edits, `MergeChange`, `Apply` of approved changes, `Dispatch`.

| Property | Says |
|---|---|
| `CleanMeansInStep` | a folder in which a night about to begin has nothing to find has the declared rules and no other, in order, with the declared value in every field Git declares, the declared zones, and no object nothing accounts for; and the other way round |
| `ClosedMeansGone` | a record is resolved only when what the step read no longer shows the finding |
| `GreenMeansNothingOpen` | a green drift run leaves no open record of what it visited |
| `QuietWhenTagsIntact` | the same reading twice writes nothing the second time, unless a declared rule has damaged tags |
| `RemediationSparesPolicy` | no deletion takes a rule main declares at checkout and at the delete |
| `StrangersGo` | once people and faults stop, what nobody declared goes |
| `RecordsConverge` | ... and the open records of rules, their order and objects say what stands, no more and no less (zones and the plan have no records) |

Bounds: two folders, so that "here" and "everywhere" differ; two declared requests, the least that
has an order; a third that may be merged into either folder; a name only the console uses; one
hand-made object beside one minted and one inherited. The folders start as an apply left them.
Any two of console edits, a merge and a fault (`MaxEvents`) meet every step of the two jobs; two
edits make a rule both modified and reordered on one day. Nights are unbounded, so the liveness
is about a true infinite schedule. A restore that is not refused puts contents and order right.
It is refused while the merged third rule waits for its apply, which nothing promises (`Apply` has
no fairness): then what is edited or reordered stands for good, and `RecordsConverge` requires a
record of each, order included.
`Sheltered` holds every folder: SCM's reads also return rows of ancestors.

Fairness: `WF(Night)`, the two schedules; `WF(MergeRecords)`, `gh pr merge --auto` on a
repository that requires no review. People and faults have none.

### `Catalog`, `Intents`, `Compile`: from YAML to tfvars

`Catalog` reads the catalogs (`Bad` where a reader raises), looks roles, routers and
environments up, and compares the hierarchy with SCM's (`CatalogFindings`, the findings of
verify-catalog that block). `Intents` is `load_intent` for the four kinds: which fields are
reported, when a loader gives up (`Absent`), how a target, a role or an app resolves; and
`compile_any`. A document is a record of fields that are missing, bad or a value, so a bad
field of any sort is one value. `Compile` runs the two commands in one working copy: `Plan` is
`run_compile` up to its first write, `Write` one file, `Prune` one stale file; `VariablesStart`
and `VariableStep` are `folder-interfaces`; `Kill` ends either; the author edits between.

| Property | Says |
|---|---|
| `NothingHalfLoaded` | a document without a reported problem is loaded whole |
| `DiskIsTheTree` | after a compile that succeeds the tfvars files hold the tree's objects, each once, and nothing else, whatever was killed before |
| `RulesHaveTheirZones` | rules and zones agree across files, folder by folder |
| `RoutersKeepInterfaces` | a router Terraform rewrites keeps the interfaces of `routers.yaml` |
| `NamedScopesAreReal` | with a catalog verify-catalog accepts, compiled intents name scopes SCM has |
| `OnlyTheUnwantedGo` | only an accepted tree deletes a file, and only one it does not produce |

Bounds: three files, two of which share an id, templates of all four kinds and both ways to
name a scope; one changed file, one edited field (to a value that is missing, malformed,
unknown to the catalogs or another good one) and one kill; five worlds: the catalogs as they
should be, without routers, without folders, with a default port that contradicts a
firewall's, with an app the reader refuses, together with tenants that lack or have moved
something. Two trees to start from, so that zones meet rules and routes meet interfaces after
one change.

### `Classify`, `Changeset`, `Ledger`: from a pull request to its record

`Classify` has every check of `classify.py` over an address tree (a network is the path to it)
and port ranges, and the tier of a removal. `Changeset` has `main` as a sequence of commits
(tree, catalog, message, records). `Propose` is `pr-validate` over the base a pull request was
opened on, `Merge` the squash merge; `Begin` the classify job over a commit and the one before
it, `Apply` the apply, `Record` the evidence step on the run's checkout, `Land` the evidence
pull request. A newer run evicts the waiting one (`Start` skips commits), runs are started
again or dispatched (`StartAgain`), and end early (`Abandon`). Two validated pull requests may
merge into a tree the compiler refuses (`Refused`). `WriteAll` is the loop that writes bundles,
one `Entry` after the other, so that of two objects of one id and folder the later one stays.
The assumptions on the constants say that files are listed in one order (`PathsAreListed`), that
networks are paths of the address tree (`AddressesArePaths`) and that requests name apps of
the catalogs at hand (`RulesNameApps`; the others are refused, which `Intents` has).

`Ledger` is the abstract specification of the evidence: a page per request and scope never
goes blank, and is written over only for another change made by a later commit. `Changeset`
implements it (`KeepsTheLedger`), with `ledger` mapped to the records of main's tip.

A pull request's message is the one it was validated with. The workflow does not run again when
only the body is edited (`pr-validate.yml:24` has no `edited`), so a trailer can be lost after
the check; the classify job repeats the contract on the merged commit and ends the run
(`Begin`), so nothing is applied on a message that was not checked.

| Property | Says |
|---|---|
| `TierCoversTheChange` | a run waits with at least the tier of everything its commit makes different or takes away (unique ids, environments unmoved) |
| `EveryChangeHasItsTicket` | however pull requests interleave, no merged change rides on an old ticket and no removal lacks its trailer (catalog and ids left alone) |
| `RecordsInStep` | when everything is applied and landed, each declared object has a record that says so |
| `WiderIsNotSafer` | of two allow rules, the one that matches more is not tiered below |
| `KeepsTheLedger` | the refinement |

`RecordsInStep` and the finding's `AppliedMeansLive` except runs whose evidence *crossed*:
computed while earlier evidence had not landed.

Bounds: two pull requests are the least that can merge in another order than they were
validated; one run started again and one that ends early; three files, of which one can change
its kind; four catalogs (as it is, an app grown, an environment moved, an environment gone).
Deadlock is not checked: with the bounds used up nothing happens.

## Proofs

Every invariant and action property that a passing run checks is a theorem for all values of
the constants, and so is the refinement of `Ledger`. The proofs rest on the named `ASSUME`s of the modules (types of the constants, an order that lists
each element once) and, where it is said below, on a hypothesis of the theorem itself.

### The steps of the jobs

`ApplyRunSafety`, for every set of scopes, inheritance relation, requests, contents, names and
bounds. The inductive invariant is

    IInv == TypeOK /\ RefsInv /\ SweepInv /\ ApplyInv /\ CommitIsWhole /\ PushInv

None of the properties is inductive alone. `RefsInv` adds what ensure still has to create
(`todo`) and that no delete list holds a wanted name; `SweepInv` that a delete list stays
unreferenced, which needs that no rule changes during a sweep. `ApplyInv` says which rules
terraform is done with: a rule without an open operation is as declared, or, when the state
does not know it, is not declared; with no orphan this makes the candidate a whole tree at
the moment of the push, which is `CommitIsWhole`; merges only append to `main`, so the commit
it came from stays there. `PushInv` says that the job polled carries the scope's rules, and
that no push of the scope is still running in its sweep, so that a late one cannot overwrite
what is live. Each step lemma has a case per action; frame lemmas (`RefsFrame`, `ApplyFrame`,
`PushFrame`) cover the actions that leave a part alone. `NoLeftovers` needs `LeftInv` on top:
what is present is referenced or still on the delete list. It is a theorem of a tenant with one
scope (`OneScope`): with a second scope in the lineage a name has copies in both, and a sweep
deletes the one it sees.

`ApprovalGate_proofs`, for any policies and any number of commits, nights and re-runs. The
restore is followed from the check through the queue (`GInv`): a cleared night, a waiting and a
running restore all have a tree some applied commit has, and `applied` is an outcome nothing
changes. For `UnreviewedOnlyAfterSkip`, `GateInv` says that while no run was evicted, rejected,
failed or started again the queued runs hold the newest commits, oldest first, and the HIGH
policies of every applied commit and of the firewalls were reviewed (`InOrder`); and that a run
that applies has had the HIGH policies of its changeset let through (`LetThrough`). Together
they give the next applied tree: what its changeset leaves out is its predecessor's, applied
before it.

`EnrichOrder_proofs`, for every deployment order, directives and rulebase. `RuleOrder_proofs`
has what the three moves do to the positions of a sequence of distinct rules. `PrefixInOrder`
says that the rules reseated so far stand in order one behind the other, `NothingLost` that the
moves keep the rules the folder has, `OnlyRepairsMove` that a run that found order leaves it.

`ApplyOrder_proofs`, for every registry and every set of roots. The rounds of `KindOrder` put
out kinds after their dependencies (`RoundSound`), go on while anything is ready
(`RoundProgress`), and leave exactly the kinds that wait for each other (`KnotsWait`); the row
of roots is a bijection sorted by rank (`OrderedIs`); `IInv` says that what was applied and what
is queued are together an accepted row.

### What is compiled

`Compile_proofs`, for every tree, catalog, set of Terraform roots and any number of edits and
kills. The inductive invariant is

    IInv == TypeOK /\ Accepted /\ OnDisk

The properties speak of a finished compile and are not inductive. `Accepted` says that from
the moment the first file is written to the end, what the plan was made from has not changed
and the tree was accepted as a whole, so a kill cannot leave a plan of another tree behind.
`OnDisk` says every file is still to be written, already as planned, or still to be pruned;
at the end nothing is left of the first and third sort. `SameInputs` is the lemma that all
operators of a plan are functions of the tree and the catalogs. The theorems about the disk
do not depend on the loaders. The three about the loaders (`NothingIsHalfLoaded`,
`RoutersKeepTheirs`, `CompiledScopesAreReal`) open them, for documents and catalogs of any
contents. They take `AbsentIsNoFunction`: `Absent` stands for Python's `None` and is no loaded
part of a document; TLC has it as a model value, which differs from everything.

### The nights

`Governance_proofs`, for any folders, requests, objects, zones and initial trees and without
bounds on the nights. `TInv` types git, SCM, the three stores of records and the job: rows are
named once, a store holds one record per finding. `RemediationSpares` adds `SparedInv`: what is
queued for removal is not declared in the checkout, so that a rule declared there and now is not
on the list by any name or id. `GreenLeavesNothingOpen` adds `GreenInv`: while nothing is red,
what was visited has no open record, because a step without findings closes all it covers.
`ClosesOnlyWhatIsGone` and `CleanIsInStep` take `Sheltered = Scopes`, that a read of a folder
also returns rows of its ancestors: a read without any row covers nothing and finds nothing
missing, which is listed among the disagreements. `CleanIsInStep` is about the engines alone:
no finding is the same as `InStep`, which speaks of the fields Git declares and leaves the others
open, whatever `extra` says of a row.

`SecondReadingIsQuiet` takes `IdsApart`, that no two records of the checkout claim one id, which
TLC finds true of every state of the run. `FoundOnce` is where the tags matter: while they are
intact the tag sweep finds only rules that Git does not declare there and the order and content
sweeps only declared ones, so that no identity is found twice. `SecondPass` then compares the two
readings of any list of distinct findings. Without a clash each record wanted is in the store,
`FoundAgain` rebuilds it as it is, and what was closed is no longer open. With one, at the `m`th
write: it is the write of a finding (a closing takes no id the store did not have), what came
before it is not written again, and so it comes first the second time and clashes again
(`KeptOrder`, `NothingThrough`). Without `IdsApart` a closing itself could clash. The code visits
the files by name and would meet the same clash first; the model closes in an arbitrary order that
depends on the set, so there the model and not the code may write a second time.

### The changes and their record

`Changeset_proofs`, for any files, ids, catalogs, pull requests, runs and branches. `Inv` keeps
the history (each commit differs from the one before in one file or the catalog, and was
compared with some earlier base), the proposals, what each branch would write, the run's
classification and, while no records crossed, that what is live is recorded in `main` or by an
open branch (`CaughtUp`).

* `WiderIsTieredHigher`: each check of `classify` is monotone in what a rule matches.
* `TheTierCovers`: the worst tier of the changed ids bounds each of them.
* `ChangesHaveTickets` takes `AppsTellApart`, that no two apps of a catalog have the same
  addresses: the check compares loaded requests, in which an app is its addresses, so exchanging
  two equal apps changes a document and no request.
* `RecordsAreALedger` is the refinement, step by step: `Land` of a branch is a number of ledger
  writes, every other step a stutter. It takes `[]IdsKeepTheirKind`: two files of one id and
  folder but different kinds share a page, which then flaps between them, and an id that changes
  its kind and back repeats a tombstone. The run needs no such hypothesis because its bounds do
  not reach that.
* `SettledMeansRecorded`, like it, takes `AbsentIsNoBundle`: a missing page is not a bundle.

### Induction

The library's induction theorems take an operator and cannot be used; `RuleOrder_proofs` states
induction over sets and functions instead, which can: `Upward` (a set of numbers that holds the
first and each successor), `Recursion` (a function defined by recursion on `0 .. n` satisfies its
equation), `Climb` and `ClimbType` (what each step keeps holds at the end). With it the recursive
functions of `Selection`, `KindOrder` and `WriteAll` are proved about for inputs of any length.

### Model-checked only

* The liveness properties `EventuallyInOrder`, `RunEnds`, `RestoreCatchesUp`, `StrangersGo` and
  `RecordsConverge`: the prover has neither fairness nor `ENABLED`.

## Findings

Three runs end in a violation of what a doc or a comment says; `PROJECT.json` quotes the lines.

* `apply_green`: a failed push is never retried by a re-run, which ends green.
* `gate_reviewed`: skipping a HIGH run hands its policy to the next LOW run.
* `changeset_gone`: a removal whose own run did not reach its evidence step never gets a
  tombstone, and its record says "applied" for ever.

### Other disagreements seen

These are certain from the code, or outside the instances, and have no run.

* `run_enrich` leaves the moves of `restore_deployment_order` out of the JSON line
  (`cli.py:2936`) that `apply.yml:491` counts, so a restored order alone is not pushed.
* `restore_deployment_order` undoes a `before:`/`after:` between two managed rules
  (`enrich.py:147`, against `docs/requesting-rules.md:356`).
* A folder whose only tfvars file is that of its interface variables is in no order and is never
  applied (`cli.py:1864`), where `apply.yml:394` says "ANY compiled tfvars" and `cli.py:1431` that a
  greenfield folder needs its variables before its first intent. `SkipsOnlyVariables` is what does
  hold.
* Removing the last request of a scope removes its only tfvars file, so the apply loop passes
  the scope over and its rules stay (`cli.py:1864`, against `docs/adr/0008-deletion-contract.md:72`).
* `for folder in $(fwgitops apply-order)` does not see the command's exit status: a refused
  order is an empty loop and a green job (`apply.yml:389`, against `apply.yml:387`).
* An empty intent tree compiles to nothing and leaves every tfvars file as it was
  (`cli.py:101`, against the comment at `cli.py:254`).
* `docs/how-drift-enforcement-works.md:67` has "every field of a managed rule" compared; fields
  the intent leaves undeclared are not (`rulediff.py:181`), as the same page says at line 162.
* `folder-interfaces` says "nothing written" after it wrote earlier folders, and never
  deletes a file (`cli.py:1483`). The key spaces its comment says are disjoint
  (`cli.py:1477`) are not: an interface request on a folder compiles to the same
  `$`-variable, and `terraform/modules/security_folder/main.tf:248` merges the two maps.
* A zone on a firewall beside one on a folder ends `compile` with a `TypeError`
  (`compiler.py:845` sorts scopes of which one has no folder): `UnsortableZones`.
* A declared rule with damaged tags is found twice under one identity with different
  classes, so its record is rewritten every night (`cli.py:1381`), which `violations.py:166`
  rules out. `QuietWhenTagsIntact` is what does hold.
* `violation_id` leaves out the kind: a rule first seen modified and reordered on one day
  has two records of one id, and the second write raises (`violations.py:242`).
* A snapshot without any row covers no scope, yet the folder counts as checked
  (`cli.py:1394`): with `Sheltered = {}` TLC shows `ClosedMeansGone` violated, a record of a
  missing rule closed while the rule is missing.
* An edit of `environments.yaml` moves objects but changes no intent, and is tiered LOW; so
  is a new object whose id is in use under another directory (`cli.py:889`); so is a run
  dispatched on an evidence commit, whose baseline has the same tree (`apply.yml:629`).
* An edit of `apps.yaml` makes unchanged intents modified on a stale ticket, so a merge of
  two valid pull requests can be a commit `classify` rejects.
* A removed intent whose environment is gone too ends the evidence step in an uncaught
  `ResolveError` (`cli.py:2252`): `Refused`.
* Disabling or narrowing a deny is LOW, removing it is HIGH (`classify.py:286`, `removal.py:77`).
* A push or delete error that carries "409" anywhere, an id included, is read as "still
  referenced" (`cli.py:2596`).

## Not modelled

* Provisioning, onboarding, adoption: run by hand, in stages, against services of the vendor
  whose states the code only polls; nothing else of the system reads what they keep.
* Issue intake, previews, comments, reports, `devicesync.py`, `zonefit.py`, `where.py`: they
  print or post, and change no state the models have.
* Approvers, CI context and push results inside evidence bundles, the manual-action record of
  each automatic deletion, object names and hashes, HCL parsing, the scaffold generator.
* `Governance` has one rulebase per folder: deletions are live at once, where the code leaves
  them in the candidate until an apply pushes. `ApplyRun` has the candidate.
* Ids are compared among records first seen on the running day: `first_seen` is "today" or
  "before", and two records of an earlier day are not told to have the same date.
* `Classify` is given no snapshot of SCM: neither workflow passes one, so the checks that need
  it never fire there.

## Plan

Done, in this order: rule order; the apply job; the approval gate; the apply order; the
nights; the compiler; the changeset and its evidence, with the ledger as abstract
specification; the proofs of the apply job, the gate, the order of rules and of kinds, the
compiler and its loaders, the nights, the changeset and the refinement of the ledger.

1. *Abstract specification* `AtomicCommit`: each scope holds one commit's rules, replaced as a
   whole; refinement from `ApplyRun`, with its proof.
2. *Composition*: deletions of the night through `ApplyRun`'s candidate and push.
3. *Provisioning*: stages, retries of licence activation, resumption, adoption.

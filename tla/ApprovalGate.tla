---- MODULE ApprovalGate ----
(***************************************************************************)
(* Who has to approve what: runs of apply.yml queue in one concurrency     *)
(* group, each is tiered by the difference between its commit and the one  *)
(* before it, and the tier picks the environment it waits in.  The nightly *)
(* restore of remediate.yml joins the same queue without the gate, after   *)
(* checking that main declares nothing that was not applied before.        *)
(*                                                                         *)
(* A run applies the whole tree of its commit, not the difference that was *)
(* tiered.  Merges, human decisions, failures, re-runs and the schedule    *)
(* happen in any order; the group keeps one waiting run and cancels the    *)
(* waiting run when another arrives.                                       *)
(***************************************************************************)
EXTENDS Integers, Sequences, FiniteSets

CONSTANTS
    Policies,    \* what an intent file may declare
    High,        \* those the classifier tiers above LOW
    MaxCommits,  \* bound on the length of main
    MaxNights,   \* bound on scheduled remediations
    MaxReruns    \* bound on runs started again by hand

ASSUME PoliciesAssumption == High \subseteq Policies

ASSUME BoundsAssumption == {MaxCommits, MaxNights, MaxReruns} \subseteq Nat

VARIABLES
    main,       \* the trees of main, oldest first
    outcome,    \* commit -> how the run it triggered stands
    running,    \* the run holding the concurrency group
    pending,    \* the run waiting for the group
    night,      \* the nightly remediation: its commit and how far it is
    declared,   \* policies the firewalls have been made to hold
    reviewed,   \* policies a reviewer was shown in a changeset and let through
    nights, reruns

vars == <<main, outcome, running, pending, night, declared, reviewed, nights, reruns>>

Trees == SUBSET Policies
Commits == 1 .. Len(main)

NoRun == [commit |-> 0, unattended |-> FALSE, phase |-> "none"]
Asleep == [commit |-> 0, at |-> "asleep"]

Runs == [commit : Nat, unattended : BOOLEAN, phase : {"none", "queued", "waiting", "applying"}]

Outcomes == {"queued", "evicted", "displaced", "applied", "failed", "rejected"}

TypeOK ==
    /\ main \in Seq(Trees) \ {<<>>}
    /\ outcome \in Seq(Outcomes)
    /\ Len(outcome) = Len(main)
    /\ {running, pending} \subseteq Runs
    /\ \A r \in {running, pending} : r = NoRun \/ r.commit \in Commits
    /\ night \in [commit : Nat, at : {"asleep", "remediating", "cleared"}]
    /\ night = Asleep \/ night.commit \in Commits
    /\ declared \in Trees
    /\ reviewed \in Trees
    /\ nights \in 0 .. MaxNights
    /\ reruns \in 0 .. MaxReruns

\* The repository starts with an applied tree of LOW policies.
Init ==
    /\ main \in {<<t>> : t \in SUBSET (Policies \ High)}
    /\ outcome = <<"applied">>
    /\ running = NoRun
    /\ pending = NoRun
    /\ night = Asleep
    /\ declared = main[1]
    /\ reviewed = {}
    /\ nights = 0
    /\ reruns = 0

----
(* The concurrency group.                                                  *)

Waiting == pending # NoRun

\* A free group starts the waiting run before anything else joins the queue.
Settled == Waiting => running # NoRun

Attended(r) == r # NoRun /\ ~r.unattended

\* What becomes of the push run that a newly queued run finds waiting.
Displaced(byRestore) ==
    IF Attended(pending)
    THEN [outcome EXCEPT ![pending.commit] = IF byRestore THEN "displaced" ELSE "evicted"]
    ELSE outcome

Queue(c, restore) ==
    pending' = [commit |-> c, unattended |-> restore, phase |-> "queued"]

\* Slip: the merge matches none of the paths that trigger a run.
MergeUntriggered(tree) ==
    /\ Settled
    /\ Len(main) < MaxCommits
    /\ tree # main[Len(main)]
    /\ main' = Append(main, tree)
    /\ UNCHANGED <<outcome, running, pending, night, declared, reviewed, nights, reruns>>

\* A pull request that changes intent, catalog, terraform or the compiler.
Merge(tree) ==
    /\ Settled
    /\ Len(main) < MaxCommits
    /\ tree # main[Len(main)]
    /\ main' = Append(main, tree)
    /\ outcome' = Append(Displaced(FALSE), "queued")
    /\ Queue(Len(main) + 1, FALSE)
    /\ UNCHANGED <<running, night, declared, reviewed, nights, reruns>>

\* Somebody re-runs a run that did not succeed: same commit, same baseline.
Rerun(c) ==
    /\ Settled
    /\ reruns < MaxReruns
    /\ reruns' = reruns + 1
    /\ outcome[c] \in {"failed", "rejected", "evicted", "displaced"}
    /\ outcome' = [Displaced(FALSE) EXCEPT ![c] = "queued"]
    /\ Queue(c, FALSE)
    /\ UNCHANGED <<main, running, night, declared, reviewed, nights>>

----
(* A run: classify, the environment, the apply.                            *)

\* Slip: the baseline and the head are swapped, so only removals are tiered.
RemovedOnly(c) == main[c - 1] \ main[c]

\* What classify tiers: the commit against the one the push moved main from.
Changeset(c) == (main[c] \ main[c - 1]) \cup (main[c - 1] \ main[c])

Tier(c) == IF Changeset(c) \cap High = {} THEN "LOW" ELSE "HIGH"

\* The group is free: the waiting run starts, and its tier picks the
\* environment; only the reviewed one makes it wait for a person.
StartRun ==
    /\ running = NoRun
    /\ Waiting
    /\ running' = [pending EXCEPT !.phase =
         IF pending.unattended \/ Tier(pending.commit) = "LOW" THEN "applying" ELSE "waiting"]
    /\ pending' = NoRun
    /\ UNCHANGED <<main, outcome, night, declared, reviewed, nights, reruns>>

Approve ==
    /\ running.phase = "waiting"
    /\ running' = [running EXCEPT !.phase = "applying"]
    /\ reviewed' = reviewed \cup Changeset(running.commit)
    /\ UNCHANGED <<main, outcome, pending, night, declared, nights, reruns>>

Ended(result) ==
    /\ running' = NoRun
    /\ outcome' = IF running.unattended THEN outcome
                  ELSE [outcome EXCEPT ![running.commit] = result]

Reject ==
    /\ running.phase = "waiting"
    /\ Ended("rejected")
    /\ UNCHANGED <<main, pending, night, declared, reviewed, nights, reruns>>

\* The apply compiles and applies the tree of its commit (module ApplyRun).
Succeed ==
    /\ running.phase = "applying"
    /\ declared' = main[running.commit]
    /\ Ended("applied")
    /\ UNCHANGED <<main, pending, night, reviewed, nights, reruns>>

\* An apply that fails has changed some of what differed.
FailApply ==
    /\ running.phase = "applying"
    /\ LET tree == main[running.commit]
       IN  \E done \in SUBSET ((tree \ declared) \cup (declared \ tree)) :
             declared' = (declared \ (done \ tree)) \cup (done \cap tree)
    /\ Ended("failed")
    /\ UNCHANGED <<main, pending, night, reviewed, nights, reruns>>

----
(* The nightly remediation.  Its run, the check and the restore it calls   *)
(* all see the commit that was head when the schedule fired.               *)

Schedule ==
    /\ nights < MaxNights
    /\ nights' = nights + 1
    /\ night = Asleep
    /\ night' = [commit |-> Len(main), at |-> "remediating"]
    /\ UNCHANGED <<main, outcome, running, pending, declared, reviewed, reruns>>

Applied == {c \in Commits : outcome[c] = "applied"}

\* Slip: the last run is taken whatever its conclusion.
IsLastEnded(c) ==
    LET ended == {d \in Commits : outcome[d] \in {"applied", "failed", "rejected"}}
    IN  c \in ended /\ \A d \in ended : d <= c

IsLastApplied(c) == c \in Applied /\ \A d \in Applied : d <= c

\* already_applied: declared state equal to that of the newest successful
\* apply lets the restore go ahead.
AlreadyApplied ==
    /\ night.at = "remediating"
    /\ night' = IF \E c \in Commits : IsLastApplied(c) /\ main[c] = main[night.commit]
                THEN [night EXCEPT !.at = "cleared"] ELSE Asleep
    /\ UNCHANGED <<main, outcome, running, pending, declared, reviewed, nights, reruns>>

\* Its remediate job is done as well: the restore job joins the group.
Restore ==
    /\ Settled
    /\ night.at = "cleared"
    /\ outcome' = Displaced(TRUE)
    /\ Queue(night.commit, TRUE)
    /\ night' = Asleep
    /\ UNCHANGED <<main, running, declared, reviewed, nights, reruns>>

----
Next ==
    \/ \E tree \in Trees : Merge(tree)
    \/ \E c \in Commits : Rerun(c)
    \/ StartRun
    \/ Approve
    \/ Reject
    \/ Succeed
    \/ FailApply
    \/ Schedule
    \/ AlreadyApplied
    \/ Restore

Spec == Init /\ [][Next]_vars

----
(* Properties *)

\* The unattended restore applies only a tree some attended run has applied
\* successfully: nothing that waits at the gate, was rejected, was cancelled
\* in the queue or failed half-way reaches a firewall this way, however long
\* the restore waits for the group (remediate.yml:176).  It need not be the
\* tree applied last: a newer commit may be applied while the restore waits.
RestoreOnlyAppliedTrees ==
    running.unattended => \E c \in Applied : main[c] = main[running.commit]

\* The gate holds as long as no run is skipped: while every commit is applied or
\* still queued, in the order they were merged and with restores in between, no
\* HIGH policy is on a firewall that a reviewer has not let through
\* (apply.yml:239, the environment chosen by the tier of the changeset).
UnreviewedOnlyAfterSkip ==
    (\A c \in Commits : outcome[c] \in {"queued", "applied"}) /\ reruns = 0 =>
        declared \cap High \subseteq reviewed

\* apply.yml:4: "HIGH/CRITICAL -> firewall-apply (required reviewer) -> applies
\* once approved".  No HIGH policy is on a firewall unless a reviewer has let
\* through a changeset that adds it.
NoUnreviewedPolicy == declared \cap High \subseteq reviewed

====

---- MODULE Governance ----
(***************************************************************************)
(* The nightly loop that keeps SCM equal to Git: drift-detect.yml reads    *)
(* each managed folder and files a record per finding; remediate.yml, an   *)
(* hour later, deletes what no request authorised and then lets apply      *)
(* restore the rest.  People edit the same folders in the SCM console and  *)
(* merge intents while the jobs run.                                       *)
(*                                                                         *)
(* A folder's rulebase is a sequence of rows [name, tag, content, extra].  *)
(* A row's tag says what its gitops: tags claim: "own" (the marker and a   *)
(* request tag naming the row), "bare" (no marker), "noreq" (the marker    *)
(* alone) or "other" (the request tag of another rule, as a console copy   *)
(* has).  Its content is what the fields say that Git declares; extra is   *)
(* whether the console set a field Git leaves undeclared, which no engine  *)
(* compares and terraform leaves alone (rulediff.py:181).  An edited row   *)
(* is taken to use the hand-made objects of its folder.                    *)
(* A finding's record is [scope, kind, name, cls, tags, status, first];    *)
(* first_seen is kept as "today" or "before", which is what ids need.      *)
(***************************************************************************)
EXTENDS RuleOrder, FiniteSets

CONSTANTS
    Roots,          \* the managed folders, in the order the jobs visit them
    Requests,       \* ids of requests: the names of the rules Git may declare
    Strangers,      \* names of rules only the console uses
    InitialTrees,   \* the trees the jobs may start from, folder -> requests
    DeployOrder,    \* the requests, in the order they first landed on main
    Tags,           \* what a row's tags may claim, of the four above
    Objects,        \* address and service objects
    Snippet,        \* ... those that come from a snippet, SCM's own or one made by hand
    Elsewhere,      \* ... those defined in an ancestor folder
    Minted,         \* ... those whose name is the hash of their value
    Zones,          \* zone names
    DeclaredZones,  \* folder -> the zones Git declares there
    BaselineZones,  \* folder -> the zones that pre-date GitOps
    Sheltered,      \* folders whose reads also return rows of an ancestor
    MaxEdits,       \* bound on console edits and dispatched runs
    MaxMerges,      \* bound on merged intent changes
    MaxFaults,      \* bound on failing steps
    MaxEvents       \* bound on the three together

Scopes == ToSet(Roots)

ASSUME RootsAreVisited == Roots \in Seq(Scopes) /\ Roots # <<>>
ASSUME RequestsAreOrdered ==
    DeployOrder \in Seq(Requests) /\ IsInjective(DeployOrder) /\ ToSet(DeployOrder) = Requests
ASSUME NamesAreDistinct == Requests \cap Strangers = {}
ASSUME TreesDeclareOnce ==
    /\ InitialTrees \subseteq [Scopes -> SUBSET Requests]
    /\ \A tree \in InitialTrees : \A s, u \in Scopes : s # u => tree[s] \cap tree[u] = {}
ASSUME SomeTags == "own" \in Tags /\ Tags \subseteq {"own", "bare", "noreq", "other"}
ASSUME ObjectSets == IsFiniteSet(Objects) /\ Snippet \cup Elsewhere \cup Minted \subseteq Objects
ASSUME ZoneSets == /\ DeclaredZones \in [Scopes -> SUBSET Zones]
                   /\ BaselineZones \in [Scopes -> SUBSET Zones]
ASSUME ShelteredScopes == Sheltered \subseteq Scopes

VARIABLES
    declared,   \* main: folder -> the requests declared there
    applied,    \* what the last successful apply applied
    rulebase,   \* SCM: folder -> its own rules, in order
    objects,    \* SCM: folder -> the objects a read of it returns
    zones,      \* SCM: folder -> its own zones, [name, same]
    main,       \* evidence/violations on main
    pr,         \* the branch violations/pending: <<>> or <<its records>>
    ws,         \* evidence/violations in the running job's checkout
    base,       \* what the job checked out: [declared, recs]
    pc, at,     \* the job step, and the index of the folder it is at
    red,        \* has a step of this drift run found or failed something?
    queue,      \* removals the remediation has left in this folder
    budget      \* [edits, merges, faults] spent so far

scm == <<rulebase, objects, zones>>
git == <<declared, applied>>
records == <<main, pr, ws>>
job == <<pc, at, base, red, queue>>
vars == <<declared, applied, rulebase, objects, zones, main, pr, ws,
          base, pc, at, red, queue, budget>>

----
(* Rows.                                                                   *)

As(n, extra) == [name |-> n, tag |-> "own", content |-> "declared", extra |-> extra]

\* A rule as terraform creates it.
Good(n) == As(n, FALSE)

NamesOf(rows) == [i \in DOMAIN rows |-> rows[i].name]

RowsNamed(rows, n) == {r \in ToSet(rows) : r.name = n}

\* A rule as terraform updates it: a field Git does not declare stays as it is.
Repaired(rows, n) == As(n, \E r \in RowsNamed(rows, n) : r.extra)

Handmade == Objects \ (Snippet \cup Elsewhere \cup Minted)

\* An object in use cannot be deleted (NON_ZERO_REFS).
Held(s) == \E r \in ToSet(rulebase[s]) : r.content = "edited"

----
(* What the three engines of `fwgitops drift` and `objects drift` find in  *)
(* a folder: rows are its rules, D the requests declared there.            *)

\* A plausible bug: the marker and a matching request tag are trusted alone.
TrustedTags(row, D) ==
    CASE row.tag = "bare" -> "unmanaged"
      [] row.tag \in {"noreq", "other"} -> "malformed"
      [] OTHER -> "ours"

TagClass(row, D) ==
    CASE row.tag = "bare" -> "unmanaged"
      [] row.tag \in {"noreq", "other"} -> "malformed"
      [] row.tag = "own" /\ row.name \notin D -> "orphaned"
      [] OTHER -> "ours"

Finding(cls, kind, n, tags) == [cls |-> cls, kind |-> kind, name |-> n, tags |-> tags]

TagFindings(rows, D) ==
    LET Of(cls) == LET hit == KeepOnly(rows, {r \in ToSet(rows) : TagClass(r, D) = cls})
                   IN  [i \in DOMAIN hit |-> Finding(cls, "rule", hit[i].name, hit[i].tag)]
    IN  Of("unmanaged") \o Of("orphaned") \o Of("malformed")

Expected(D) == KeepOnly(DeployOrder, D)

\* The declared rules whose place among those present is not the expected one.
Moved(rows, D) ==
    LET common == Common(Expected(D), NamesOf(rows))
        actual == Actual(Expected(D), NamesOf(rows))
    IN  {common[i] : i \in {j \in DOMAIN common : common[j] # actual[j]}}

MovedFindings(rows, D) ==
    LET moved == KeepOnly(DeployOrder, Moved(rows, D))
    IN  [i \in DOMAIN moved |-> Finding("reordered", "order", moved[i], "none")]

OrderFindings(rows, D) == IF Cardinality(D) < 2 THEN <<>> ELSE MovedFindings(rows, D)

\* A plausible bug: content is not compared.
Absent(rows, n) == RowsNamed(rows, n) = {}

\* Only the fields Git declares are compared.
SaysWhatGitSays(row) == row.tag = "own" /\ row.content = "declared"

Differs(rows, n) == \A r \in RowsNamed(rows, n) : ~SaysWhatGitSays(r)

ContentFindings(rows, D) ==
    LET hit == KeepOnly(Expected(D), {n \in D : Differs(rows, n)})
        Class(n) == IF RowsNamed(rows, n) = {} THEN "missing" ELSE "modified"
    IN  [i \in DOMAIN hit |-> Finding(Class(hit[i]), "rule", hit[i], "none")]

\* The scopes of a snapshot are those its rows name: an empty one has none.
Covered(s, rows) == rows # <<>> \/ s \in Sheltered

RuleFindings(s, rows, D) ==
    TagFindings(rows, D)
    \o (IF Covered(s, rows) THEN OrderFindings(rows, D) \o ContentFindings(rows, D)
        ELSE <<>>)

Unaccounted(s) == objects[s] \cap Handmade

ObjectFindings(s) ==
    LET hit == SetToSeq(Unaccounted(s))
    IN  [i \in DOMAIN hit |-> Finding("unmanaged", "object", hit[i], "none")]

ZoneDrift(s) ==
    LET here == {z.name : z \in zones[s]}
    IN  \/ here \ (DeclaredZones[s] \cup BaselineZones[s]) # {}
        \/ \E z \in zones[s] : z.name \in DeclaredZones[s] /\ ~z.same
        \/ (here # {} \/ s \in Sheltered) /\ DeclaredZones[s] \ here # {}

\* terraform plan: resources of the state that are changed, gone, or no longer declared.
PlanDrift(s) ==
    \/ \E n \in base.declared[s] : Differs(rulebase[s], n)
    \/ \E z \in DeclaredZones[s] : [name |-> z, same |-> TRUE] \notin zones[s]
    \/ \E n \in applied[s] \ base.declared[s] : RowsNamed(rulebase[s], n) # {}

----
(* violations.py: the records.                                             *)

Identity(rec) == <<rec.scope, rec.kind, rec.name>>

\* A plausible bug: the record of a rule and that of its order are taken for one.
PriorOfName(store, s, f) == {r \in store : r.scope = s /\ r.name = f.name}

Prior(store, s, f) == {r \in store : Identity(r) = <<s, f.kind, f.name>>}

Build(s, f) ==
    [scope |-> s, kind |-> f.kind, name |-> f.name, cls |-> f.cls,
     tags |-> f.tags, status |-> "open", first |-> "today"]

Reopen(rec, f) == [rec EXCEPT !.status = "open", !.cls = f.cls, !.tags = f.tags]

\* What a finding makes of the record loaded before the run's first finding.
Updated(store, s, f) ==
    IF Prior(store, s, f) = {} THEN Build(s, f)
    ELSE Reopen(CHOOSE r \in Prior(store, s, f) : TRUE, f)

\* A plausible bug: "we did not look" taken for "it is gone".
ClosableAnywhere(store, s, kinds, found) ==
    {r \in store : /\ r.status = "open" /\ r.kind \in kinds
                   /\ \A i \in DOMAIN found : Identity(r) # <<s, found[i].kind, found[i].name>>}

Closable(store, s, kinds, found) ==
    {r \in store : /\ r.status = "open" /\ r.kind \in kinds /\ r.scope = s
                   /\ \A i \in DOMAIN found : Identity(r) # <<s, found[i].kind, found[i].name>>}

\* A plausible bug: nothing is closed.
OnlyFound(store, s, kinds, found) ==
    LET wanted == [i \in DOMAIN found |-> Updated(store, s, found[i])]
    IN  KeepOnly(wanted, ToSet(wanted) \ store)

\* A record of which only last_seen would move is not written.
Changed(store, s, kinds, found) ==
    LET closed == SetToSeq(Closable(store, s, kinds, found))
        wanted == [i \in DOMAIN found |-> Updated(store, s, found[i])]
    IN  KeepOnly(wanted, ToSet(wanted) \ store)
        \o [i \in DOMAIN closed |-> [closed[i] EXCEPT !.status = "resolved"]]

\* An id is built from scope, name and first_seen.
SameId(r, q) ==
    <<r.scope, r.name, r.first, q.first>> = <<q.scope, q.name, "today", "today">>

\* One write after the other, the last of a finding prevailing; a second file
\* claiming an id ends the run there.
WriteAll(store, changed) ==
    LET Clash(i) == \E r \in store \cup {changed[j] : j \in 1..(i - 1)} :
                        Identity(r) # Identity(changed[i]) /\ SameId(r, changed[i])
        done == {i \in DOMAIN changed : \A j \in 1..i : ~Clash(j)}
        Final(i) == \A j \in done : j > i => Identity(changed[j]) # Identity(changed[i])
    IN  [ok |-> done = DOMAIN changed,
         store |-> {r \in store : \A i \in done : Identity(r) # Identity(changed[i])}
                   \cup {changed[i] : i \in {j \in done : Final(j)}}]

Reconcile(store, s, kinds, found) == WriteAll(store, Changed(store, s, kinds, found))

\* A plausible bug: the sync closes rule records only.
RuleKindAlone == {"rule"}

RuleKinds == {"rule", "order"}

CheckRules(store, s, D) == Reconcile(store, s, RuleKinds, RuleFindings(s, rulebase[s], D))

----
\* What an apply leaves in a folder: its declared rules, in order.
Clean(s) ==
    LET names == Expected(declared[s]) IN [i \in DOMAIN names |-> Good(names[i])]

Init ==
    /\ declared \in InitialTrees
    /\ applied = declared
    /\ rulebase = [s \in Scopes |-> Clean(s)]
    /\ objects = [s \in Scopes |-> Snippet \cup Elsewhere \cup Minted]
    /\ zones = [s \in Scopes |-> {[name |-> z, same |-> TRUE] : z \in DeclaredZones[s]}]
    /\ main = {} /\ pr = <<>> /\ ws = {}
    /\ base = [declared |-> declared, recs |-> {}]
    /\ pc = "drift due" /\ at = 1 /\ red = FALSE /\ queue = <<>>
    /\ budget = [edits |-> 0, merges |-> 0, faults |-> 0]

Here == Roots[at]

Goto(step) == pc' = step /\ at' = 1

\* A plausible bug: one folder too many.
NextRootPastEnd(step) ==
    IF at <= Len(Roots) THEN at' = at + 1 /\ pc' = pc ELSE Goto(step)

\* The next folder of a step's loop, or the next step.
NextRoot(step) ==
    IF at < Len(Roots) THEN at' = at + 1 /\ pc' = pc ELSE Goto(step)

Spend(on, max) ==
    /\ budget[on] < max
    /\ budget.edits + budget.merges + budget.faults < MaxEvents
    /\ budget' = [budget EXCEPT ![on] = @ + 1]

Fault == Spend("faults", MaxFaults)

----
(* drift-detect.yml                                                        *)

DriftStart ==
    /\ pc = "drift due"
    /\ base' = [declared |-> declared, recs |-> main]
    /\ ws' = main
    /\ Goto("plan")
    /\ UNCHANGED <<git, scm, main, pr, red, queue, budget>>

\* An error, as opposed to a finding: the steps left are skipped, except the
\* landing of the records written so far.
DriftError ==
    /\ pc \in {"plan", "rules", "state", "objects"}
    /\ Fault
    /\ Goto("land") /\ red' = TRUE
    /\ UNCHANGED <<git, scm, records, base, queue>>

Plan ==
    /\ pc = "plan"
    /\ red' = (red \/ PlanDrift(Here))
    /\ NextRoot("rules")
    /\ UNCHANGED <<git, scm, records, base, queue, budget>>

\* A folder's findings become records; \E binds each stage's result once.
Record(kinds, findings, step) ==
    \E found \in {findings} :
    \E changed \in {Changed(ws, Here, kinds, found)} :
    \E done \in {WriteAll(ws, changed)} :
        /\ ws' = done.store
        /\ red' = (red \/ found # <<>> \/ ~done.ok)
        /\ IF done.ok THEN NextRoot(step) ELSE Goto("land")

RuleDrift ==
    /\ pc = "rules"
    /\ Record(RuleKinds, RuleFindings(Here, rulebase[Here], base.declared[Here]), "state")
    /\ UNCHANGED <<git, scm, main, pr, base, queue, budget>>

StateDrift ==
    /\ pc = "state"
    /\ red' = (red \/ ZoneDrift(Here))
    /\ NextRoot("objects")
    /\ UNCHANGED <<git, scm, records, base, queue, budget>>

ObjectDrift ==
    /\ pc = "objects"
    /\ Record({"object"}, ObjectFindings(Here), "land")
    /\ UNCHANGED <<git, scm, main, pr, base, queue, budget>>

\* The files of the workspace over those of main, on the branch that replaces
\* whatever violations/pending held.
Landed == {r \in main : \A q \in ws : Identity(q) # Identity(r)} \cup ws

Land ==
    /\ pc = "land"
    /\ pr' = IF ws = base.recs \/ Landed = main THEN pr ELSE <<Landed>>
    /\ ws' = {} /\ base' = [base EXCEPT !.recs = {}]
    /\ Goto("remediate due") /\ red' = FALSE
    /\ UNCHANGED <<git, scm, main, queue, budget>>

MergeRecords ==
    /\ pr # <<>>
    /\ main' = Head(pr) /\ pr' = <<>>
    /\ UNCHANGED <<git, scm, ws, job, budget>>

----
(* remediate.yml                                                           *)

RemediateStart ==
    /\ pc = "remediate due"
    /\ base' = [declared |-> declared, recs |-> {}]
    /\ Goto("read")
    /\ UNCHANGED <<git, scm, records, red, queue, budget>>

DeclaredAnywhere(tree) == UNION {tree[s] : s \in Scopes}

Removal(kind, n) == [kind |-> kind, name |-> n, live |-> TRUE]

\* A plausible bug: a declared rule with damaged tags goes like any other.
DriftedRemovals(s, tree) ==
    LET drifted == KeepOnly(rulebase[s], {r \in ToSet(rulebase[s]) : TagClass(r, tree[s]) # "ours"})
        handmade == SetToSeq(Unaccounted(s))
    IN  [i \in DOMAIN drifted |-> Removal("rule", drifted[i].name)]
        \o [i \in DOMAIN handmade |-> Removal("object", handmade[i])]

\* Rules before objects: the referrer before what it refers to.
Removals(s, tree) ==
    LET drifted == KeepOnly(rulebase[s],
                       {r \in ToSet(rulebase[s]) :
                           TagClass(r, tree[s]) # "ours" /\ r.name \notin DeclaredAnywhere(tree)})
        handmade == SetToSeq(Unaccounted(s))
    IN  [i \in DOMAIN drifted |-> Removal("rule", drifted[i].name)]
        \o [i \in DOMAIN handmade |-> Removal("object", handmade[i])]

RemediateRead ==
    /\ pc = "read"
    /\ queue' = Removals(Here, base.declared)
    /\ pc' = "delete"
    /\ UNCHANGED <<git, scm, records, base, at, red, budget>>

\* The delete goes to the id the read returned, whatever bears the name by now.
Delete ==
    /\ pc = "delete" /\ queue # <<>>
    /\ LET rem == Head(queue)
       IN  /\ rem.live
           /\ IF rem.kind = "rule"
              THEN /\ rulebase' = [rulebase EXCEPT ![Here] =
                                     KeepOnly(@, ToSet(@) \ RowsNamed(@, rem.name))]
                   /\ UNCHANGED objects
              ELSE /\ objects' = [objects EXCEPT ![Here] =
                                     IF Held(Here) THEN @ ELSE @ \ {rem.name}]
                   /\ UNCHANGED rulebase
    /\ queue' = Tail(queue)
    /\ UNCHANGED <<git, zones, records, pc, at, base, red, budget>>

RemediateNext ==
    /\ pc = "delete" /\ queue = <<>>
    /\ IF at < Len(Roots) THEN pc' = "read" /\ at' = at + 1 ELSE Goto("restore due")
    /\ UNCHANGED <<git, scm, records, base, red, queue, budget>>

\* A delete that fails otherwise ends the job, and with it the restore.
RemediateError ==
    /\ pc = "delete" /\ queue # <<>>
    /\ \/ ~Head(queue).live /\ UNCHANGED budget
       \/ Fault
    /\ Goto("day over") /\ queue' = <<>>
    /\ UNCHANGED <<git, scm, records, base, red>>

----
(* apply, as far as it meets the folders here (ApplyRun has its steps).    *)

\* The declared rules, repaired and in deployment order, in the places the
\* folder's managed rules hold; created ones last; those no longer declared gone.
Restored(s) ==
    LET D == declared[s]
        kept == KeepOnly(rulebase[s],
                         {r \in ToSet(rulebase[s]) : r.name \notin applied[s] \ D})
        new == KeepOnly(DeployOrder, D \ ToSet(NamesOf(kept)))
        rows == kept \o [i \in DOMAIN new |-> Good(new[i])]
        Nth(i) == Cardinality({j \in 1..i : rows[j].name \in D})
    IN  [i \in DOMAIN rows |-> IF rows[i].name \in D THEN Repaired(rows, Expected(D)[Nth(i)])
                               ELSE rows[i]]

\* A rule SCM already has under that name makes the create fail.
NoNameTaken ==
    \A s \in Scopes : \A n \in declared[s] \ applied[s] : RowsNamed(rulebase[s], n) = {}

\* Queued removals whose row is deleted or created anew lose their id.
Forget(q, gone) == [i \in DOMAIN q |->
    IF q[i].kind = "rule" /\ q[i].name \in gone THEN [q[i] EXCEPT !.live = FALSE] ELSE q[i]]

Reassert ==
    /\ rulebase' = [s \in Scopes |-> Restored(s)]
    /\ zones' = [s \in Scopes |->
                   {z \in zones[s] : z.name \notin DeclaredZones[s]}
                   \cup {[name |-> z, same |-> TRUE] : z \in DeclaredZones[s]}]
    /\ applied' = declared
    /\ queue' = Forget(queue, applied[Here] \ declared[Here])
    /\ UNCHANGED <<declared, objects>>

\* A run of apply somebody approved.
Apply ==
    /\ NoNameTaken /\ declared # applied
    /\ Reassert
    /\ UNCHANGED <<records, pc, at, base, red, budget>>

\* The unattended one, only while nothing newly declared awaits approval.
Restore ==
    /\ pc = "restore due"
    /\ IF declared = applied THEN Reassert ELSE UNCHANGED <<git, scm, queue>>
    /\ Goto("day over")
    /\ UNCHANGED <<records, base, red, budget>>

RestoreFails ==
    /\ pc = "restore due" /\ declared = applied
    /\ Fault
    /\ Goto("day over")
    /\ UNCHANGED <<git, scm, records, base, red, queue>>

Aged(store) == {[r EXCEPT !.first = "before"] : r \in store}

NextDay ==
    /\ pc = "day over"
    /\ main' = Aged(main)
    /\ pr' = [i \in DOMAIN pr |-> Aged(pr[i])]
    /\ Goto("drift due")
    /\ UNCHANGED <<git, scm, ws, base, red, queue, budget>>

----
(* People: the SCM console, merged intents, a dispatched drift run.        *)

Edit == Spend("edits", MaxEdits)

Outside == <<git, records, pc, at, base, red>>

ConsoleAddRule(s, n, tag) ==
    /\ RowsNamed(rulebase[s], n) = {}
    /\ Edit
    /\ rulebase' = [rulebase EXCEPT ![s] =
                      Append(@, [name |-> n, tag |-> tag, content |-> "edited", extra |-> FALSE])]
    /\ UNCHANGED <<Outside, objects, zones, queue>>

ConsoleEditRule(s, i, tag) ==
    /\ i \in DOMAIN rulebase[s]
    /\ Edit
    /\ rulebase' = [rulebase EXCEPT ![s][i].content = "edited", ![s][i].tag = tag]
    /\ UNCHANGED <<Outside, objects, zones, queue>>

ConsoleSetUndeclared(s, i) ==
    /\ i \in DOMAIN rulebase[s]
    /\ ~rulebase[s][i].extra
    /\ Edit
    /\ rulebase' = [rulebase EXCEPT ![s][i].extra = TRUE]
    /\ UNCHANGED <<Outside, objects, zones, queue>>

ConsoleDeleteRule(s, i) ==
    /\ i \in DOMAIN rulebase[s]
    /\ Edit
    /\ rulebase' = [rulebase EXCEPT ![s] = RemoveAt(@, i)]
    /\ queue' = IF s = Here THEN Forget(queue, {rulebase[s][i].name}) ELSE queue
    /\ UNCHANGED <<Outside, objects, zones>>

ConsoleMoveTop(s, i) ==
    /\ i \in DOMAIN rulebase[s] \ {1}
    /\ Edit
    /\ rulebase' = [rulebase EXCEPT ![s] = MoveTop(@, @[i])]
    /\ UNCHANGED <<Outside, objects, zones, queue>>

ConsoleAddObject(s, o) ==
    /\ o \notin objects[s]
    /\ Edit
    /\ objects' = [objects EXCEPT ![s] = @ \cup {o}]
    /\ UNCHANGED <<Outside, rulebase, zones, queue>>

ConsoleSetZone(s, z) ==
    /\ Edit
    /\ \E now \in {{}, {[name |-> z, same |-> FALSE]}} :
         zones' = [zones EXCEPT ![s] = {y \in @ : y.name # z} \cup now]
    /\ UNCHANGED <<Outside, rulebase, objects, queue>>

Console ==
    \E s \in Scopes :
        \/ \E n \in Requests \cup Strangers, tag \in Tags :
             ConsoleAddRule(s, n, tag)
        \/ \E i \in 1..Len(rulebase[s]) :
             \/ \E tag \in Tags : ConsoleEditRule(s, i, tag)
             \/ ConsoleSetUndeclared(s, i)
             \/ ConsoleDeleteRule(s, i)
             \/ ConsoleMoveTop(s, i)
        \/ \E o \in Handmade : ConsoleAddObject(s, o)
        \/ \E z \in Zones : ConsoleSetZone(s, z)

MergeChange(s, n) ==
    /\ Spend("merges", MaxMerges)
    /\ \/ /\ n \notin DeclaredAnywhere(declared)
          /\ declared' = [declared EXCEPT ![s] = @ \cup {n}]
       \/ /\ n \in declared[s]
          /\ declared' = [declared EXCEPT ![s] = @ \ {n}]
    /\ UNCHANGED <<applied, scm, records, job>>

Dispatch ==
    /\ pc = "day over"
    /\ Edit
    /\ Goto("drift due")
    /\ UNCHANGED <<git, scm, records, base, red, queue>>

People ==
    \/ Console \/ Dispatch \/ Apply
    \/ \E s \in Scopes, n \in Requests : MergeChange(s, n)

Faults == DriftError \/ RemediateError \/ RestoreFails

Night ==
    \/ DriftStart \/ Plan \/ RuleDrift \/ StateDrift \/ ObjectDrift \/ Land
    \/ RemediateStart \/ RemediateRead \/ Delete \/ RemediateNext
    \/ RemediateError \/ Restore \/ NextDay

Next == Night \/ MergeRecords \/ Faults \/ People

\* The schedule starts the jobs every day, and the records merge on their own.
Fairness == WF_vars(Night) /\ WF_vars(MergeRecords)

Spec == Init /\ [][Next]_vars /\ Fairness

----
(* Properties.                                                             *)

Row == [name : Requests \cup Strangers, tag : Tags, content : {"declared", "edited"},
        extra : BOOLEAN]
ViolationRecord == [scope : Scopes, kind : RuleKinds \cup {"object"},
           name : Requests \cup Strangers \cup Objects,
           cls : {"unmanaged", "orphaned", "malformed", "reordered", "missing", "modified"},
           tags : Tags \cup {"none"}, status : {"open", "resolved"}, first : {"today", "before"}]
Store(S) == S \subseteq ViolationRecord /\ \A r, q \in S : Identity(r) = Identity(q) => r = q

\* Every variable has its type; a store holds one record per finding, and at
\* most one branch of records waits to be merged.
TypeOK ==
    /\ declared \in [Scopes -> SUBSET Requests] /\ applied \in [Scopes -> SUBSET Requests]
    /\ \A s \in Scopes : ToSet(rulebase[s]) \subseteq Row /\ IsInjective(NamesOf(rulebase[s]))
    /\ objects \in [Scopes -> SUBSET Objects]
    /\ \A s \in Scopes : zones[s] \subseteq [name : Zones, same : BOOLEAN]
    /\ Store(main) /\ Store(ws) /\ Len(pr) <= 1 /\ \A i \in DOMAIN pr : Store(pr[i])
    /\ pc \in {"drift due", "plan", "rules", "state", "objects", "land",
               "remediate due", "read", "delete", "restore due", "day over"}
    /\ at \in 1..Len(Roots) /\ red \in BOOLEAN
    /\ ToSet(queue) \subseteq [kind : {"rule", "object"},
                             name : Requests \cup Strangers \cup Objects, live : BOOLEAN]

\* In every field Git declares the folder holds what Git declares, and no rule,
\* zone or hand-made object besides.
InStep(s) ==
    /\ NamesOf(rulebase[s]) = Expected(declared[s])
    /\ \A r \in ToSet(rulebase[s]) : SaysWhatGitSays(r)
    /\ Unaccounted(s) = {}
    /\ DeclaredZones[s] \subseteq {z.name : z \in zones[s]}
    /\ {z.name : z \in zones[s]} \subseteq DeclaredZones[s] \cup BaselineZones[s]
    /\ \A z \in zones[s] : z.name \in DeclaredZones[s] => z.same

\* The engines together miss nothing of what Git declares: a folder in which a
\* night that is about to begin would find nothing holds the declared rules, in
\* order, no other rule, and no object no rule accounts for, and every field Git
\* declares has its declared value; and no finding is raised on a folder that
\* does.  (Each engine alone misses most.)  It says nothing of what they do not
\* look at, which the code accepts: a field Git leaves undeclared
\* (rulediff.py:181, drift.py:291) and the objects of a hand-made snippet
\* (objectdrift.py:30).
CleanMeansInStep ==
    pc = "plan" => \A s \in Scopes :
        InStep(s) <=> /\ RuleFindings(s, rulebase[s], declared[s]) = <<>>
                      /\ ObjectFindings(s) = <<>>
                      /\ ~ZoneDrift(s)

\* Is a record's finding true of SCM and main at this moment?
Stands(rec) ==
    LET rows == rulebase[rec.scope]
        D == declared[rec.scope]
    IN  CASE rec.kind = "rule" -> IF rec.name \in D THEN Differs(rows, rec.name)
                                  ELSE RowsNamed(rows, rec.name) # {}
          [] rec.kind = "order" -> rec.name \in Moved(rows, D)
          [] rec.kind = "object" -> rec.name \in Unaccounted(rec.scope)

\* A drift step closes a record only when what it read no longer shows the
\* finding: "we looked and it is gone", never "we did not look", and never
\* because a checker of another kind or another folder ran.
ClosedMeansGone ==
    [][(pc \in {"rules", "objects"} /\ base.declared = declared) =>
         \A r \in ws : \A q \in ws' :
             (Identity(r) = Identity(q) /\ r.status = "open" /\ q.status = "resolved")
                 => ~Stands(r)]_vars

\* Remediation deletes no rule that main declares both when the job checks out
\* and when the delete is issued, whatever its tags say and however it was edited.
RemediationSparesPolicy ==
    [][(pc = "delete" /\ pc' = "delete" /\ Len(queue') < Len(queue)) =>
         \A s \in Scopes : \A r \in ToSet(rulebase[s]) :
             r.name \in declared[s] \cap base.declared[s]
                 => RowsNamed(rulebase'[s], r.name) # {}]_vars

\* A drift run that ends green leaves no open record of the folders it visited.
GreenMeansNothingOpen ==
    pc = "land" /\ ~red => \A r \in ws : r.status = "resolved"

\* Reading the same folder twice writes nothing the second time, as long as
\* no declared rule has damaged tags.
QuietWhenTagsIntact ==
    pc = "rules" =>
        LET D == base.declared[Here]
            once == CheckRules(ws, Here, D)
        IN  (\A r \in ToSet(rulebase[Here]) : r.name \in D => r.tag = "own")
                => CheckRules(once.store, Here, D).store = once.store

\* Once people and faults leave the system alone, what no request authorised
\* goes: rules whose name Git declares nowhere, and objects nothing uses.
StrangersGo ==
    <>[](\A s \in Scopes :
            /\ \A r \in ToSet(rulebase[s]) : r.name \in DeclaredAnywhere(declared)
            /\ Unaccounted(s) = {} \/ Held(s))

\* The findings that have a record: zones and the plan only turn the run red.
Recordable ==
    [scope : Scopes, kind : {"rule"}, name : Requests \cup Strangers]
    \cup [scope : Scopes, kind : {"order"}, name : Requests]
    \cup [scope : Scopes, kind : {"object"}, name : Objects]

\* ... and of rules, their order and objects the open records on main come to say
\* what is still wrong, no more and no less.
RecordsConverge ==
    <>[](/\ \A r \in main : r.status = "open" => Stands(r)
         /\ \A f \in Recordable : Stands(f) =>
               \E r \in main : Identity(r) = Identity(f) /\ r.status = "open")
====

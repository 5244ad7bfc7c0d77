---- MODULE Changeset ----
(***************************************************************************)
(* What a change to the intent tree is taken to be, from its pull request  *)
(* to its audit record: pr-validate and the classify job compare two trees *)
(* (run_classify), the tier decides who releases the apply, and the        *)
(* evidence step writes one record per object of the tree and a tombstone  *)
(* per removal (run_evidence), which reach main in a pull request of their *)
(* own.  Pull requests, runs and evidence branches overlap freely.         *)
(*                                                                         *)
(* A commit is [tree, catalog, message, records, by].  The tree maps a     *)
(* file <<directory, id>> to a document [kind, ticket, spec] or Absent; a  *)
(* message maps the ids of its Removes: trailers to tickets.               *)
(***************************************************************************)
EXTENDS Classify, Selection

CONSTANTS
    Absent,
    PathOrder,      \* the files of intent/, in the order they are read
    Docs,           \* path -> [kind, spec] of the documents people put there
    Catalogs,       \* [envs : environment -> [folder, from, to], apps : app -> addresses]
    Hierarchy,      \* folder -> its children
    Origins,        \* [tree, catalog] of the first commit
    MaxPulls,       \* bound on pull requests
    MaxAgain,       \* bound on runs started again or dispatched
    MaxMishaps      \* bound on runs that end early

Paths == ToSet(PathOrder)
Ids == {p[2] : p \in Paths}
Folders == UNION {{cat.envs[e].folder : e \in DOMAIN cat.envs} : cat \in Catalogs}
Pages == Folders \X Ids
NoSnapshot == <<>>      \* neither workflow exports what SCM holds

ASSUME TreesHaveDocs ==
    \A o \in Origins :
        /\ o.tree = [p \in Paths |-> o.tree[p]] /\ o.catalog \in Catalogs
        /\ \A p \in Paths : o.tree[p] # Absent =>
               [kind |-> o.tree[p].kind, spec |-> o.tree[p].spec] \in Docs[p]

ASSUME PathsAreListed ==
    PathOrder \in Seq(Paths) /\ IsInjective(PathOrder) /\ PathOrder # <<>>

RuleFields == {"env", "action", "sources", "destinations", "services", "negated", "profile",
               "disabled"}

(* What the loaders of the catalog and of the rules see to.                *)
ASSUME AddressesArePaths ==
    \A cat \in Catalogs : \A app \in DOMAIN cat.apps :
        \A addr \in cat.apps[app] : addr.type = "cidr" => addr.value \in Seq(STRING)
ASSUME RulesNameApps ==
    \A p \in Paths : \A d \in Docs[p] : d.kind = "AccessRequest" =>
        /\ d.spec = [f \in RuleFields |-> d.spec[f]]
        /\ d.spec.negated \in BOOLEAN
        /\ \A s \in d.spec.services : s.lo \in Nat /\ s.hi \in Nat
        /\ \A cat \in Catalogs : {d.spec.sources, d.spec.destinations} \subseteq DOMAIN cat.apps

VARIABLES
    main,       \* the commits of main, oldest first
    pulls,      \* validated pull requests: [path, doc, catalog, message, base]
    run,        \* the apply run under way
    live,       \* the commit applied last, and whether its records were written
    started,    \* the newest commit whose own run has started or was evicted
    branches,   \* open evidence pull requests: [base, records]
    crossed,    \* some records were computed before earlier ones had landed
    spent       \* [pulls, again, mishaps]

vars == <<main, pulls, run, live, started, branches, crossed, spent>>

----
(* Loading and compiling a commit's tree under its own catalog.            *)

Files(c) == KeepOnly(PathOrder, {p \in Paths : c.tree[p] # Absent})

Resolvable(doc, catalog) == doc.spec.env \in DOMAIN catalog.envs

Valid(c) == \A p \in ToSet(Files(c)) : Resolvable(c.tree[p], c.catalog)

(* The loaded spec of a rule holds addresses, not the names of apps.       *)
LoadedSpec(doc, catalog) ==
    IF doc.kind # "AccessRequest" THEN doc.spec
    ELSE [doc.spec EXCEPT !.sources = catalog.apps[@], !.destinations = catalog.apps[@]]

Compile(doc, id, catalog) ==
    LET sp == LoadedSpec(doc, catalog)
        env == catalog.envs[sp.env]
        scope == <<"folder", env.folder>>
    IN  IF doc.kind = "AccessRequest"
        THEN [kind |-> doc.kind, scope |-> scope, name |-> id, from |-> {env.from},
              to |-> {env.to}, action |-> sp.action, sources |-> sp.sources,
              destinations |-> sp.destinations, services |-> sp.services,
              negated |-> sp.negated, profile |-> sp.profile, disabled |-> sp.disabled]
        ELSE [kind |-> doc.kind, scope |-> scope, name |-> sp.zone, populated |-> sp.populated,
              protected |-> sp.protected, userId |-> sp.userId]

ObjectAt(c, p) == Compile(c.tree[p], p[2], c.catalog)
Objects(c) == {ObjectAt(c, p) : p \in ToSet(Files(c))}

(* compile refuses two objects of one kind and name in a scope.            *)
Mergeable(c) ==
    \A p, q \in ToSet(Files(c)) :
        LET o == ObjectAt(c, p)  k == ObjectAt(c, q)
        IN  p # q => <<o.kind, o.scope, o.name>> # <<k.kind, k.scope, k.name>>

----
(* The changeset: two trees, indexed by kind and id.                       *)

Key(c, p) == <<c.tree[p].kind, p[2]>>
KeysOf(c) == {Key(c, p) : p \in ToSet(Files(c))}

(* A later file of the same kind and id takes the place of an earlier one. *)
At(c, k) ==
    LET files == Files(c) IN Last(KeepOnly(files, {p \in ToSet(files) : Key(c, p) = k}))

DocAt(c, k) == c.tree[At(c, k)]

Removals(base, c) == KeysOf(base) \ KeysOf(c)

Modifications(base, c) ==
    {k \in KeysOf(base) \cap KeysOf(c) :
        LoadedSpec(DocAt(base, k), base.catalog) # LoadedSpec(DocAt(c, k), c.catalog)}

StaleTickets(base, c) ==
    {k \in Modifications(base, c) : DocAt(base, k).ticket = DocAt(c, k).ticket}

\* Slip: only the removal of a rule asks for a trailer.
UnauthorisedRules(base, c) ==
    {k \in Removals(base, c) : k[1] = "AccessRequest" /\ k[2] \notin DOMAIN c.message}

Unauthorised(base, c) == {k \in Removals(base, c) : k[2] \notin DOMAIN c.message}

IdsOf(c) == {p[2] : p \in ToSet(Files(c))}

\* Slip: a modified intent is in both trees, so it is not counted as a change.
AddedOrRemoved(base, c) ==
    (IdsOf(c) \ IdsOf(base)) \cup {k[2] : k \in Removals(base, c)}

ChangedIds(base, c) ==
    (IdsOf(c) \ IdsOf(base))
        \cup {k[2] : k \in Modifications(base, c)} \cup {k[2] : k \in Removals(base, c)}

Policy(c) == {o \in Objects(c) : o.kind = "AccessRequest"}

TierAt(c, p) == TierOf(ObjectAt(c, p), Policy(c), Hierarchy, NoSnapshot)

RemovalTier(base, k) ==
    LET doc == DocAt(base, k)
    IN  ClassifyRemoval(doc.kind, IF doc.kind = "AccessRequest" THEN doc.spec.action ELSE Absent)

(* classify --max-tier: the worst tier of what changed, or "rejected".     *)
Classify(base, c) ==
    LET changed == ChangedIds(base, c)
        kept == {p \in ToSet(Files(c)) : p[2] \in changed}
    IN  IF ~Valid(c) \/ StaleTickets(base, c) # {} \/ Unauthorised(base, c) # {}
        THEN "rejected"
        ELSE Worst({[tier |-> TierAt(c, p)] : p \in kept}
                   \cup {[tier |-> RemovalTier(base, k)] : k \in Removals(base, c)})

----
(* The evidence of a run of commit n: bundles, in the order written.       *)

Bundle(status, doc, object, n, ticket) ==
    [change |-> [status |-> status, kind |-> doc.kind, doc |-> doc, object |-> object],
     commit |-> n, ticket |-> ticket]

(* Where a bundle goes.                                                    *)
Page(object, id) == <<object.scope[2], id>>

\* A plausible bug: a record of the same document is the same change.
OfTheSameDocument(new, old) == new.change.doc = old.change.doc

\* Slip: the time a bundle was generated is compared too.
NothingIsTheSame(new, old) == FALSE

DescribesSameChange(new, old) == new.change = old.change

WriteIfChanged(records, page, bundle) ==
    IF records[page] # Absent /\ DescribesSameChange(bundle, records[page])
    THEN records ELSE [records EXCEPT ![page] = bundle]

(* One after the other, each on the records the one before left.           *)
WriteAll(records, entries) ==
    LET after[i \in 0 .. Len(entries)] ==
            IF i = 0 THEN records
            ELSE WriteIfChanged(after[i - 1], entries[i].page, entries[i].bundle)
    IN  after[Len(entries)]

Entry(status, doc, object, id, n, ticket) ==
    [page |-> Page(object, id), bundle |-> Bundle(status, doc, object, n, ticket)]

Applied(records, c, n) ==
    LET files == Files(c)
        EntryOf(p) == Entry("applied", c.tree[p], ObjectAt(c, p), p[2], n, c.tree[p].ticket)
    IN  WriteAll(records, [i \in DOMAIN files |-> EntryOf(files[i])])

(* A removed object is compiled with the catalog of today.                 *)
Tombstoned(records, base, c, n) ==
    LET gone == SetToSeq(Removals(base, c))
        EntryOf(k) == LET doc == DocAt(base, k)
                      IN  Entry("removed", doc, Compile(doc, k[2], c.catalog), k[2], n,
                                c.message[k[2]])
    IN  WriteAll(records, [i \in DOMAIN gone |-> EntryOf(gone[i])])

Evidence(records, base, c, n) == Tombstoned(Applied(records, c, n), base, c, n)

(* The evidence step fails on a removed intent whose environment is gone.  *)
Provable(base, c) == \A k \in Removals(base, c) : Resolvable(DocAt(base, k), c.catalog)

----
(* People propose and merge.                                               *)

NoRun == [commit |-> 0, tier |-> "LOW", at |-> "none"]

Blanks == [page \in Pages |-> Absent]

\* The repository starts applied and recorded.
Init ==
    /\ main \in {<<[tree |-> o.tree, catalog |-> o.catalog, message |-> <<>>, by |-> "people",
                    records |-> Applied(Blanks, o, 1)]>> : o \in Origins}
    /\ Valid(main[1]) /\ Mergeable(main[1])
    /\ live = [commit |-> 1, recorded |-> TRUE]
    /\ run = NoRun
    /\ started = 1
    /\ pulls = {} /\ branches = {} /\ crossed = FALSE
    /\ spent = [pulls |-> 0, again |-> 0, mishaps |-> 0]

Tip == main[Len(main)]
Fresh == spent.pulls + 1

\* What pr-validate sees of an edit, and whether its two commands accept it.
Edited(c, p, doc, catalog, message) ==
    [c EXCEPT !.tree[p] = doc, !.catalog = catalog, !.message = message, !.by = "people"]

Accepted(base, c) == Classify(base, c) # "rejected" /\ Mergeable(c)

\* An edit may forget its own ticket, and a removed file may come back as it was.
Drafts(p) ==
    LET old == Tip.tree[p]
        tickets == {Fresh, IF old = Absent THEN 0 ELSE old.ticket}
    IN  {[kind |-> d.kind, spec |-> d.spec, ticket |-> t] : d \in Docs[p], t \in tickets}

Rekinded(p, doc) ==
    LET old == Tip.tree[p] IN IF old = Absent THEN FALSE ELSE old.kind # doc.kind

Trailers(p) == {<<>>, p[2] :> Fresh}

\* pr-validate compares with the base the pull request was opened on.
Propose(p, doc, catalog, message) ==
    LET proposal == Edited(Tip, p, doc, catalog, message)
    IN  /\ spent.pulls < MaxPulls
        /\ <<proposal.tree, proposal.catalog>> # <<Tip.tree, Tip.catalog>>
        /\ Accepted(Tip, proposal)
        /\ pulls' = pulls \cup {[path |-> p, doc |-> doc, catalog |-> catalog,
                                 message |-> message, base |-> Len(main)]}
        /\ spent' = [spent EXCEPT !.pulls = @ + 1]
        /\ UNCHANGED <<main, run, live, started, branches, crossed>>

\* A squash merge takes the difference to the base, if nobody else touched it.
Merge(pull) ==
    LET base == main[pull.base]
        moved == pull.catalog # base.catalog
    IN  /\ Tip.tree[pull.path] = base.tree[pull.path]
        /\ moved => Tip.catalog = base.catalog
        /\ main' = Append(main, Edited(Tip, pull.path, pull.doc,
                                       IF moved THEN pull.catalog ELSE Tip.catalog,
                                       pull.message))
        /\ pulls' = pulls \ {pull}
        /\ UNCHANGED <<run, live, started, branches, crossed, spent>>

----
(* apply.yml: classify, wait for the environment, apply, record.           *)

\* Slip: a classify that fails does not keep the apply from running.
BeginAnyway(n) ==
    /\ run = NoRun
    /\ run' = [commit |-> n, tier |-> Classify(main[n - 1], main[n]), at |-> "waiting"]

\* The base is the commit before, whoever made it; rejected, nothing runs.
Begin(n) ==
    LET tier == Classify(main[n - 1], main[n])
    IN  /\ run = NoRun
        /\ run' = IF tier = "rejected" THEN NoRun
                  ELSE [commit |-> n, tier |-> tier, at |-> "waiting"]

\* The run of a merge; those of the merges it overtook were evicted.
Start(n) ==
    /\ n > started /\ main[n].by = "people"
    /\ Begin(n)
    /\ started' = n
    /\ UNCHANGED <<main, pulls, live, branches, crossed, spent>>

\* Somebody re-runs an earlier run, or dispatches one on the tip of main.
StartAgain(n) ==
    /\ spent.again < MaxAgain
    /\ \/ n \in 2 .. started /\ main[n].by = "people"
       \/ n = Len(main) /\ n > 1
    /\ Begin(n)
    /\ spent' = [spent EXCEPT !.again = @ + 1]
    /\ UNCHANGED <<main, pulls, live, started, branches, crossed>>

Apply ==
    /\ run.at = "waiting"
    /\ Mergeable(main[run.commit])
    /\ run' = [run EXCEPT !.at = "applied"]
    /\ live' = [commit |-> run.commit, recorded |-> FALSE]
    /\ UNCHANGED <<main, pulls, started, branches, crossed, spent>>

\* Rejected by its reviewer, cancelled, failed or killed.
Abandon ==
    /\ run # NoRun
    /\ spent.mishaps < MaxMishaps
    /\ run' = NoRun
    /\ spent' = [spent EXCEPT !.mishaps = @ + 1]
    /\ UNCHANGED <<main, pulls, live, started, branches, crossed>>

\* The compiler refuses the tree, or the evidence step the removed intents.
Refused ==
    /\ \/ run.at = "waiting" /\ ~Mergeable(main[run.commit])
       \/ run.at = "applied" /\ ~Provable(main[run.commit - 1], main[run.commit])
    /\ run' = NoRun
    /\ UNCHANGED <<main, pulls, live, started, branches, crossed, spent>>

(* The records of a run's checkout, and what the step makes of them.       *)
RecordsOf(n) == Evidence(main[n].records, main[n - 1], main[n], n)

\* The step works on the checkout, which lacks what landed since.
Record ==
    LET n == run.commit
    IN  /\ run.at = "applied"
        /\ Provable(main[n - 1], main[n])
        /\ branches' = branches \cup
               (IF RecordsOf(n) = main[n].records THEN {}
                ELSE {[base |-> n, records |-> RecordsOf(n)]})
        /\ live' = [live EXCEPT !.recorded = TRUE]
        /\ crossed' = \/ crossed \/ branches # {}
                      \/ \E m \in n + 1 .. Len(main) : main[m].by = "evidence"
        /\ run' = NoRun
        /\ UNCHANGED <<main, pulls, started, spent>>

(* The pages a branch changes.                                             *)
Touched(b) == {page \in Pages : b.records[page] # main[b.base].records[page]}

\* Auto-merge, unless another record of the same page got there first.
Land(b) ==
    /\ \A page \in Touched(b) : Tip.records[page] = main[b.base].records[page]
    /\ main' = Append(main, [Tip EXCEPT !.by = "evidence", !.message = <<>>,
                                        !.records = [page \in Pages |->
                                            IF page \in Touched(b) THEN b.records[page] ELSE @[page]]])
    /\ branches' = branches \ {b}
    /\ UNCHANGED <<pulls, run, live, started, crossed, spent>>

Next ==
    \/ \E p \in Paths : \E doc \in Drafts(p) :
          \E message \in IF Rekinded(p, doc) THEN Trailers(p) ELSE {<<>>} :
             Propose(p, doc, Tip.catalog, message)
    \/ \E p \in ToSet(Files(Tip)), catalog \in Catalogs :
          \E message \in Trailers(p) : Propose(p, Absent, catalog, message)
    \/ \E catalog \in Catalogs :
          Propose(Head(PathOrder), Tip.tree[Head(PathOrder)], catalog, <<>>)
    \/ \E pull \in pulls : Merge(pull)
    \/ \E n \in 2 .. Len(main) : Start(n) \/ StartAgain(n)
    \/ Apply \/ Abandon \/ Refused \/ Record
    \/ \E b \in branches : Land(b)

Spec == Init /\ [][Next]_vars

----
(* Properties.                                                             *)

(* Sequences of commits, runs and branches are as the steps expect them;   *)
(* in particular nothing runs whose classification was rejected            *)
(* (run_classify's exit codes, apply.yml's "needs: classify").             *)
TypeOK ==
    /\ \A n \in DOMAIN main :
          /\ DOMAIN main[n].tree = Paths /\ DOMAIN main[n].records = Pages
          /\ main[n].catalog \in Catalogs /\ main[n].by \in {"people", "evidence"}
    /\ run.tier \in ToSet(Tiers) /\ run.at \in {"none", "waiting", "applied"}
    /\ {run.commit, live.commit, started} \subseteq 0 .. Len(main)
    /\ \A b \in branches : b.base \in DOMAIN main /\ DOMAIN b.records = Pages
    /\ \A pull \in pulls : pull.base \in DOMAIN main /\ pull.path \in Paths

UniqueIds(c) == \A p, q \in ToSet(Files(c)) : p[2] = q[2] => p = q

(* No id was ever used twice, or for objects of two kinds.                 *)
IdsKeepTheirKind ==
    /\ \A n \in DOMAIN main : UniqueIds(main[n])
    /\ \A m, n \in DOMAIN main : \A k \in KeysOf(main[m]), l \in KeysOf(main[n]) :
          k[2] = l[2] => k = l

(* The tier a run waits with is at least that of every object its commit   *)
(* makes different and of every object it takes away, as long as no id is  *)
(* used twice and the environments stay (run_classify's changed_ids).      *)
TierCoversTheChange ==
    LET n == run.commit
    IN  run.at = "waiting" /\ UniqueIds(main[n - 1]) /\ UniqueIds(main[n])
        /\ main[n].catalog.envs = main[n - 1].catalog.envs /\ Valid(main[n - 1]) =>
        /\ \A p \in ToSet(Files(main[n])) :
              ObjectAt(main[n], p) \notin Objects(main[n - 1]) =>
                  Rank(TierAt(main[n], p)) <= Rank(run.tier)
        /\ \A p \in ToSet(Files(main[n - 1])) :
              LET o == ObjectAt(main[n - 1], p)
              IN  (\A q \in ToSet(Files(main[n])) : q[2] # p[2])
                  /\ (o.kind = "AccessRequest" => o.action # "allow") => run.tier # "LOW"

(* While the catalog and the ids are left alone, no two pull requests can  *)
(* merge into a commit that changes or removes an object on the ticket of  *)
(* something else (stale_ticket_problems, removal_ticket_problems).        *)
(* A message is merged as it was validated; one edited after the check is  *)
(* checked again by the run that would apply it, not here.                 *)
EveryChangeHasItsTicket ==
    \A n \in 2 .. Len(main) :
        (\A m \in 1 .. n : main[m].catalog = main[1].catalog /\ UniqueIds(main[m])) =>
        \A p \in ToSet(Files(main[n - 1])) :
            LET old == main[n - 1].tree[p]
                same == {q \in ToSet(Files(main[n])) :
                            q[2] = p[2] /\ main[n].tree[q].kind = old.kind}
            IN  IF same = {} THEN p[2] \in DOMAIN main[n].message
                ELSE \A q \in same : main[n].tree[q].spec # old.spec =>
                                         main[n].tree[q].ticket # old.ticket

LastChange == CHOOSE n \in DOMAIN main : /\ main[n].by = "people"
                                         /\ \A m \in n + 1 .. Len(main) : main[m].by = "evidence"

(* Everything merged is applied, recorded and landed.                      *)
Settled ==
    branches = {} /\ run = NoRun /\ live = [commit |-> LastChange, recorded |-> TRUE]

(* Once settled, each declared object has a record that says it is applied *)
(* from its current document and as its current object, unless records     *)
(* overtook each other (write_bundle_if_changed, _IDENTITY).               *)
RecordsInStep ==
    Settled /\ ~crossed /\ IdsKeepTheirKind =>
        \A p \in ToSet(Files(Tip)) :
            LET o == ObjectAt(Tip, p)  page == <<o.scope[2], p[2]>>
            IN  /\ Tip.records[page] # Absent
                /\ Tip.records[page].change =
                       [status |-> "applied", kind |-> o.kind, doc |-> Tip.tree[p], object |-> o]

(* A record says applied only of an object that is still declared and      *)
(* live: "created, changed, removed" is the life the ledger shows.         *)
AppliedMeansLive ==
    Settled /\ ~crossed /\ IdsKeepTheirKind =>
        \A page \in Pages :
            Tip.records[page] # Absent =>
                \/ Tip.records[page].change.status = "removed"
                \/ Tip.records[page].change.object \in Objects(Tip)

(* Of two allow rules of a folder, the one that matches whatever the other *)
(* matches is not tiered below it (classify's stateless checks and its     *)
(* policy context together).                                               *)
WiderIsNotSafer ==
    Valid(Tip) => \A a, b \in {r \in Policy(Tip) : r.action = "allow" /\ ~r.negated} :
        a.scope = b.scope /\ Covered(a, b) =>
            Rank(TierOf(a, Policy(Tip), Hierarchy, NoSnapshot))
                <= Rank(TierOf(b, Policy(Tip), Hierarchy, NoSnapshot))

(* The records of main keep what the audit record promises: a page is      *)
(* written over only for another change, by a later commit, and never      *)
(* goes blank, however runs and evidence pull requests overlap.            *)
TheLedger == INSTANCE Ledger WITH Blank <- Absent, ledger <- Tip.records
KeepsTheLedger == TheLedger!Spec
====

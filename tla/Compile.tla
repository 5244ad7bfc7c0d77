---- MODULE Compile ----
(***************************************************************************)
(* fwgitops compile and fwgitops folder-interfaces in one working copy:    *)
(* people edit the intent tree, the two commands turn it and the catalogs  *)
(* into the tfvars files Terraform reads, and either may be killed between *)
(* two files.  CI is the case that starts without any tfvars.              *)
(***************************************************************************)
EXTENDS Intents, Sequences

CONSTANTS
    Paths,          \* the files of intent/: [dir, stem]
    Templates,      \* path -> the documents an author may put there
    MetaValues,     \* field of metadata -> the values an author may give it
    SpecValues,     \* kind -> field of spec -> the values an author may give it
    InitialTrees,   \* path -> document or Absent
    Worlds,         \* [files, live]: what catalog/*.yaml may hold, and SCM's
                    \* own hierarchy, name -> [device, parent]
    Modules,        \* terraform/<scope>: scope -> [declared, wired, lacking]
    FolderOrder,    \* the folders of the catalog, sorted
    Dollar,         \* interface names that are folder variables
    MaxSlips,       \* bound on edited fields
    MaxChanges,     \* bound on files replaced or deleted
    MaxKills        \* bound on killed commands

Scopes == UNION {{<<"folder", f>> : f \in DOMAIN files.folders}
                 \cup {<<"device", s>> : s \in Serials(files.folders)}
                 \cup {<<"folder", files.environments[e].folder>> : e \in DOMAIN files.environments} :
                 files \in {w.files : w \in {w \in Worlds : w.files.folders \notin Unset
                                                         /\ w.files.environments \notin Unset}}}

(* The tfvars files compile owns: one per kind and scope.                  *)
Owned == Kinds \X Scopes

ASSUME TreesAreTrees ==
    \A t \in InitialTrees : DOMAIN t = Paths /\ \A p \in Paths : t[p] \in Templates[p] \cup {Absent}
ASSUME BoundsAreNumbers == {MaxSlips, MaxChanges, MaxKills} \subseteq Nat
ASSUME ModuleScopes ==
    /\ DOMAIN Modules \subseteq Scopes
    /\ \A s \in Scopes \cap DOMAIN Modules : Modules[s].declared \subseteq Kinds

VARIABLES
    tree,       \* intent/: path -> document or Absent
    files,      \* catalog/*.yaml
    live,       \* SCM's hierarchy
    disk,       \* the owned tfvars files there are -> the objects in them
    variables,  \* the folders with a folder_interfaces file -> its content
    pc,         \* "idle", or the loop a command is in
    planned,    \* the files of the running compile, file -> objects
    todo,       \* those not yet written; or the folders not yet visited
    exit,       \* how the last command ended
    budget      \* [slips, changes, kills] spent so far

inputs == <<tree, files, live>>
output == <<disk, variables>>
command == <<pc, planned, todo, exit>>
vars == <<tree, files, live, disk, variables, pc, planned, todo, exit, budget>>

----
(* What a tree compiles to.                                                *)

Files == {p \in Paths : tree[p] # Absent}
CatalogsOf == [c \in {w.files : w \in Worlds} |-> LoadCatalogs(c)]
Catalogs == CatalogsOf[files]
Envs == EnvMap(files.environments)
Usable == Catalogs # Bad /\ Envs # Bad
Loaded(p) == LoadIntent(tree[p], Catalogs, Envs)

(* The object of a file, or Bad: it must load, be named for its id, and    *)
(* name an environment that exists.                                        *)
ObjectOf(p, got) ==
    IF got.problems # {} THEN Bad
    ELSE IF got.value.metadata.id # p.stem THEN Bad
    ELSE CompileAny(got.value, Envs)

Compiled(p) == ObjectOf(p, Loaded(p))

(* tfvars files: file -> content.                                          *)
NoFiles == [f \in {} |-> {}]
Put(store, f, content) ==
    [g \in DOMAIN store \cup {f} |-> IF g = f THEN content ELSE store[g]]
Unlink(store, f) == [g \in DOMAIN store \ {f} |-> store[g]]

InFile(objs, f) == {p \in DOMAIN objs : objs[p].kind = f[1] /\ objs[p].scope = f[2]}

FilesOf(objs) == {<<objs[p].kind, objs[p].scope>> : p \in DOMAIN objs}

(* What the payload of a file keys its objects by: a route by its router   *)
(* and VRF as well.                                                        *)
Key(obj) == IF obj.kind = "RouteRequest" THEN <<obj.router, obj.vrf, obj.name>> ELSE <<obj.name>>

(* The aggregators refuse two objects under one key, and routes that       *)
(* disagree on the interfaces of their VRF.                                *)
Unmergeable(objs, f) ==
    \E p, q \in InFile(objs, f) :
        /\ p # q
        /\ \/ Key(objs[p]) = Key(objs[q])
           \/ /\ f[1] = "RouteRequest" /\ objs[p].router = objs[q].router
              /\ objs[p].vrf = objs[q].vrf /\ objs[p].members # objs[q].members

ZoneRequests(objs) == {p \in DOMAIN objs : objs[p].kind = "ZoneRequest"}

DeclaredZones(objs, scope) ==
    BaselineZones(Envs, scope[2])
        \cup {objs[p].name : p \in {q \in ZoneRequests(objs) : objs[q].scope = scope}}

\* Slip: only the zones of the destination are looked up.
OnlyDestinationZones(objs) ==
    \E p \in DOMAIN objs : /\ objs[p].kind = "AccessRequest"
                           /\ ~(objs[p].to \subseteq DeclaredZones(objs, objs[p].scope))

(* check_zone_consistency, check_zone_collisions.                          *)
UndeclaredZone(objs) ==
    \E p \in DOMAIN objs : /\ objs[p].kind = "AccessRequest"
                           /\ ~(objs[p].from \cup objs[p].to \subseteq DeclaredZones(objs, objs[p].scope))

CollidingZone(objs) ==
    \E p \in ZoneRequests(objs) : /\ objs[p].scope[1] = "folder"
                                  /\ objs[p].name \in BaselineZones(Envs, objs[p].scope[2])

(* It sorts the zones by folder, which a firewall's zone has none of.      *)
UnsortableZones(objs) == Cardinality({objs[p].scope[1] : p \in ZoneRequests(objs)}) = 2

(* check_contract and check_object_attributes: is the scope a Terraform    *)
(* root whose module declares, wires and types what the file sets?         *)
Breach(f) ==
    \/ f[2] \notin DOMAIN Modules
    \/ f[1] \notin Modules[f[2]].declared \cap Modules[f[2]].wired
    \/ f[1] \in Modules[f[2]].lacking

(* Nothing is written for a tree of which something must be refused.       *)
Refused(objs) ==
    \/ UndeclaredZone(objs) \/ CollidingZone(objs)
    \/ \E f \in FilesOf(objs) : Unmergeable(objs, f) \/ Breach(f)

(* The files to write.                                                     *)
Payloads(objs) == [f \in FilesOf(objs) |-> {objs[p] : p \in InFile(objs, f)}]

Objects == [p \in Files |-> Compiled(p)]

----
(* The commands.                                                           *)

(* Every variable has its type; every tfvars file is one compile owns.     *)
TypeOK ==
    /\ DOMAIN tree = Paths
    /\ \E w \in Worlds : files = w.files /\ live = w.live
    /\ DOMAIN disk \subseteq Owned
    /\ DOMAIN variables \subseteq {FolderOrder[i] : i \in DOMAIN FolderOrder}
    /\ pc \in {"idle", "variables", "write", "prune"}
    /\ exit \in {"none", "ok", "empty", "rejected", "error", "killed", "variables"}
    /\ DOMAIN planned \subseteq Owned
    /\ budget \in [slips : 0..MaxSlips, changes : 0..MaxChanges, kills : 0..MaxKills]

Init ==
    /\ tree \in InitialTrees
    /\ \E w \in Worlds : files = w.files /\ live = w.live
    /\ disk = NoFiles /\ variables = NoFiles
    /\ pc = "idle" /\ planned = NoFiles /\ todo = {} /\ exit = "none"
    /\ budget = [slips |-> 0, changes |-> 0, kills |-> 0]

End(how) == pc' = "idle" /\ todo' = {} /\ exit' = how

WriteAll(objs) ==
    /\ pc' = "write" /\ exit' = "none"
    /\ planned' = Payloads(objs) /\ todo' = DOMAIN planned'

\* A plausible bug: an intent with problems is passed over, not refused.
PlanTheGoodOnes(objs) ==
    LET good == [p \in {p \in DOMAIN objs : objs[p] # Bad} |-> objs[p]]
    IN  IF Refused(good) \/ DOMAIN good = {} THEN End("rejected") /\ planned' = NoFiles
        ELSE WriteAll(good)

(* run_compile up to its first write: everything is checked and planned    *)
(* before a file is touched.                                               *)
Plan(objs) ==
    IF \E p \in Files : objs[p] = Bad THEN End("rejected") /\ planned' = NoFiles
    ELSE IF UnsortableZones(objs) THEN End("error") /\ planned' = NoFiles
    ELSE IF Refused(objs) THEN End("rejected") /\ planned' = NoFiles
    ELSE WriteAll(objs)

CompileStart ==
    /\ pc = "idle"
    /\ IF ~Usable THEN End("error") /\ planned' = NoFiles
       ELSE IF Files = {} THEN End("empty") /\ planned' = NoFiles
       ELSE Plan(Objects)
    /\ UNCHANGED <<inputs, output, budget>>

(* Files are written in apply order: interfaces, zones, routes, rules.     *)
KindRank == [k \in Kinds |-> CASE k = "InterfaceRequest" -> 1 [] k = "ZoneRequest" -> 2
                               [] k = "RouteRequest" -> 3 [] OTHER -> 4]

Write ==
    /\ pc = "write"
    /\ \E f \in todo :
          /\ \A g \in todo : KindRank[f[1]] <= KindRank[g[1]]
          /\ disk' = Put(disk, f, planned[f])
          /\ todo' = todo \ {f}
          /\ pc' = IF todo = {f} THEN "prune" ELSE "write"
    /\ UNCHANGED <<inputs, variables, planned, exit, budget>>

\* A plausible bug: the sweep visits the scopes this run wrote to.
StaleWhereWritten ==
    {f \in DOMAIN disk \ DOMAIN planned : \E g \in DOMAIN planned : g[2] = f[2]}

Stale == DOMAIN disk \ DOMAIN planned

(* The sweep deletes every owned file, in any scope, the tree no longer    *)
(* produces.                                                               *)
Prune ==
    /\ pc = "prune"
    /\ IF Stale = {} THEN disk' = disk /\ End("ok")
       ELSE /\ \E f \in Stale : disk' = Unlink(disk, f)
            /\ UNCHANGED <<pc, todo, exit>>
    /\ UNCHANGED <<inputs, variables, planned, budget>>

(* folder-interfaces: the conflict check, then folder by folder.           *)
VariablesStart ==
    /\ pc = "idle"
    /\ IF files.folders = Absent \/ files.interfaces = Absent THEN End("error")
       ELSE LET h == FolderHierarchy(files.folders)
                cat == InterfaceCatalog(files.interfaces)
            IN  IF Bad \in {h, cat} THEN End("error")
                ELSE IF CreateInConflicts(cat, h) # {} THEN End("rejected")
                ELSE /\ pc' = "variables" /\ exit' = "none"
                     /\ todo' = {f \in h.targetable : DOMAIN FolderVariables(cat, f) # {}}
    /\ planned' = NoFiles
    /\ UNCHANGED <<inputs, output, budget>>

VariableStep ==
    /\ pc = "variables"
    /\ IF todo = {} THEN End("variables") /\ variables' = variables
       ELSE \E i \in DOMAIN FolderOrder :
            LET f == FolderOrder[i]
                content == FolderVariables(files.interfaces, f)
                root == <<"folder", f>>
            IN  /\ f \in todo /\ \A j \in 1..(i - 1) : FolderOrder[j] \notin todo
                /\ IF \/ ~(DOMAIN content \subseteq Dollar)
                      \/ root \in DOMAIN Modules /\ "variables" \in Modules[root].lacking
                   THEN End("rejected") /\ variables' = variables
                   ELSE /\ variables' = Put(variables, f, content)
                        /\ todo' = todo \ {f} /\ UNCHANGED <<pc, exit>>
    /\ UNCHANGED <<inputs, disk, planned, budget>>

Kill ==
    /\ pc # "idle" /\ budget.kills < MaxKills
    /\ End("killed") /\ planned' = NoFiles
    /\ budget' = [budget EXCEPT !.kills = @ + 1]
    /\ UNCHANGED <<inputs, output>>

----
(* The author, between commands.                                           *)

Edit(p, doc) ==
    /\ pc = "idle" /\ tree[p] # doc
    /\ tree' = [tree EXCEPT ![p] = doc]
    /\ exit' = "none" /\ planned' = NoFiles
    /\ UNCHANGED <<files, live, output, pc, todo>>

Change ==
    /\ budget.changes < MaxChanges
    /\ budget' = [budget EXCEPT !.changes = @ + 1]

Slip ==
    /\ budget.slips < MaxSlips
    /\ budget' = [budget EXCEPT !.slips = @ + 1]

PutFile == Change /\ \E p \in Paths : \E doc \in Templates[p] : Edit(p, doc)

DeleteFile == Change /\ \E p \in Files : Edit(p, Absent)

EditMetadata == Slip /\
    \E p \in Files : \E k \in DOMAIN MetaValues : \E v \in MetaValues[k] :
        /\ tree[p] # Bad /\ tree[p].metadata # Bad
        /\ Edit(p, [tree[p] EXCEPT !.metadata[k] = v])

EditSpec == Slip /\
    \E p \in Files :
        /\ tree[p] # Bad /\ tree[p].kind \in Kinds /\ tree[p].spec # Bad
        /\ \E k \in DOMAIN SpecValues[tree[p].kind] : \E v \in SpecValues[tree[p].kind][k] :
              Edit(p, [tree[p] EXCEPT !.spec[k] = v])

Author == PutFile \/ DeleteFile \/ EditMetadata \/ EditSpec

Next == \/ Author \/ CompileStart \/ Write \/ Prune
        \/ VariablesStart \/ VariableStep \/ Kill

Spec == Init /\ [][Next]_vars

----
Settled == pc = "idle" /\ exit = "ok"

Whole(got) ==
    got.problems = {} => got.value.metadata # Absent /\ got.value.spec # Absent

(* A document with any problem never produces a partial result, and one    *)
(* without any is complete: where a loader gives up on a part, it has      *)
(* reported something (load_intent, and the casts that rely on it).        *)
NothingHalfLoaded == Usable => \A p \in Files : Whole(Loaded(p))

DiskHolds(objs) ==
    /\ \A p \in Files : LET f == <<objs[p].kind, objs[p].scope>>
                        IN  f \in DOMAIN disk /\ objs[p] \in disk[f]
    /\ \A f \in DOMAIN disk :
          /\ \E p \in Files : <<objs[p].kind, objs[p].scope>> = f
          /\ \A o \in disk[f] : \E p \in Files : objs[p] = o /\ <<o.kind, o.scope>> = f
    /\ \A p, q \in Files : objs[p] = objs[q] => p = q

(* After a compile that succeeded, whatever runs were killed before it,    *)
(* each intent's object is in the file of its kind and scope, a file holds *)
(* nothing else and is not empty, and no two intents make one object       *)
(* (run_compile).                                                          *)
DiskIsTheTree == Settled => DiskHolds(Objects)

Content(f) == IF f \in DOMAIN disk THEN disk[f] ELSE {}

(* ... every rule's zones are in the zones file of the rule's own folder   *)
(* or pre-date GitOps there, and no zones file takes over one of those     *)
(* (check_zone_consistency, check_zone_collisions).                        *)
RulesHaveTheirZones ==
    Settled => \A s \in Scopes :
        LET made == {z.name : z \in Content(<<"ZoneRequest", s>>)}
        IN  /\ s[1] = "folder" => made \cap BaselineZones(Envs, s[2]) = {}
            /\ \A r \in Content(<<"AccessRequest", s>>) :
                  r.from \cup r.to \subseteq made \cup BaselineZones(Envs, s[2])

(* ... and a router Terraform rewrites whole keeps the interfaces that     *)
(* routers.yaml gives its VRF at the very scope the file is for, however   *)
(* the intent named that scope (_load_route_spec, route_tfvars).           *)
RoutersKeepInterfaces ==
    Settled => \A s \in Scopes : \A r \in Content(<<"RouteRequest", s>>) :
        r.members = IF Catalogs.routers = Absent THEN {}
                    ELSE InterfacesFor(Catalogs.routers, s, r.router, r.vrf)

(* With a catalog verify-catalog does not object to, a compiled intent     *)
(* that names a folder or a firewall names one SCM has, as what it is, and *)
(* the firewall under the folder whose policy it inherits (_load_target).  *)
NamedScopesAreReal ==
    Settled /\ Catalogs.interfaces # Absent /\ Catalogs.folders # Absent
            /\ CatalogFindings(Catalogs.interfaces, Catalogs.folders, live) = {} =>
        \A p \in {p \in Files : tree[p].kind # "AccessRequest"} :
            LET sp == tree[p].spec
            IN  /\ sp.folder # Absent => sp.folder \in DOMAIN live /\ ~live[sp.folder].device
                /\ sp.device # Absent => /\ sp.device \in DOMAIN live /\ live[sp.device].device
                                         /\ live[sp.device].parent = Catalogs.folders.devices[sp.device]

Unwanted(f, objs) ==
    \A p \in Files : objs[p] # Bad /\ <<objs[p].kind, objs[p].scope>> # f

(* A command deletes a file only when the whole tree, read and accepted,   *)
(* no longer produces it: no file is lost to a refused or a killed run.    *)
UnwantedGoes ==
    \A f \in DOMAIN disk \ DOMAIN disk' : pc = "prune" /\ Unwanted(f, Objects)

OnlyTheUnwantedGo == [][UnwantedGoes]_vars

====

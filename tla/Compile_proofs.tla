---- MODULE Compile_proofs ----
(***************************************************************************)
(* What compile leaves on disk, for every tree, catalog, scope layout and  *)
(* any number of edits and killed commands.  What LoadIntent and           *)
(* CompileAny make of a document stays opaque in the theorems about the    *)
(* disk; those about the loaders open them.                                *)
(*                                                                         *)
(* The properties speak of a finished compile; what carries them is that   *)
(* from the moment everything is planned nothing the plan was made from    *)
(* changes (Accepted), and that each file on disk is either still to be    *)
(* written, already as planned, or still to be pruned (OnDisk).            *)
(***************************************************************************)
EXTENDS Compile, FiniteSetTheorems, TLAPS

\* The tree as it stands was accepted as a whole.
Sound == (\A p \in Files : Objects[p] # Bad) /\ ~Refused(Objects)

Accepted ==
    /\ pc \in {"write", "prune"} => Sound /\ planned = Payloads(Objects)
    /\ pc = "write" => todo \subseteq DOMAIN planned

AsPlanned(S) == \A f \in S : f \in DOMAIN disk /\ disk[f] = planned[f]

OnDisk ==
    /\ disk = [f \in DOMAIN disk |-> disk[f]]
    /\ pc = "write" => AsPlanned(DOMAIN planned \ todo)
    /\ pc = "prune" => AsPlanned(DOMAIN planned)
    /\ Settled => Sound /\ disk = Payloads(Objects)

IInv == TypeOK /\ Accepted /\ OnDisk

----
(* The plan is a function of the tree and the catalogs alone.              *)

LEMMA SameInputs ==
    ASSUME UNCHANGED inputs
    PROVE  /\ Files' = Files /\ Objects' = Objects /\ Payloads(Objects)' = Payloads(Objects)
           /\ Sound' = Sound
<1>1. tree' = tree /\ files' = files
  BY DEF inputs
<1>2. Files' = Files /\ Envs' = Envs
  BY <1>1 DEF Files, Envs
<1>3. Objects' = Objects
  BY <1>1, <1>2 DEF Objects, Compiled, ObjectOf, Loaded, Catalogs, Files, Envs
<1>4. Payloads(Objects)' = Payloads(Objects)
  BY <1>3 DEF Payloads, FilesOf, InFile
<1>5. Refused(Objects)' = Refused(Objects)
  BY <1>2, <1>3 DEF Refused, UndeclaredZone, CollidingZone, DeclaredZones, ZoneRequests,
                    FilesOf, InFile, Unmergeable, Breach, Key
<1>6. Sound' = Sound
  BY <1>2, <1>3, <1>5 DEF Sound
<1> QED
  BY <1>2, <1>3, <1>4, <1>6

\* What an accepted tree compiles to are files compile owns.
LEMMA PlannedAreOwned ==
    ASSUME Sound
    PROVE  DOMAIN Payloads(Objects) \subseteq Owned
<1> SUFFICES ASSUME NEW f \in FilesOf(Objects)
             PROVE  f \in Owned
  BY DEF Payloads
<1>1. PICK p \in DOMAIN Objects : f = <<Objects[p].kind, Objects[p].scope>>
  BY DEF FilesOf
<1>2. ~Breach(f)
  BY DEF Sound, Refused
<1>3. f[2] \in DOMAIN Modules /\ f[1] \in Modules[f[2]].declared
  BY <1>2 DEF Breach
<1>4. f[2] \in Scopes /\ f[1] \in Kinds
  BY <1>3, ModuleScopes
<1> QED
  BY <1>1, <1>4 DEF Owned


----
(* The type invariant.                                                     *)

LEMMA InitTyped == Init => TypeOK
  BY TreesAreTrees, BoundsAreNumbers DEF Init, TypeOK, NoFiles

LEMMA NextTyped ==
    ASSUME TypeOK, Accepted, [Next]_vars
    PROVE  TypeOK'
<1>1. CASE Author
  <2>1. PICK p \in Paths : \E doc : Edit(p, doc) /\ (Change \/ Slip)
    BY <1>1 DEF Author, PutFile, DeleteFile, EditMetadata, EditSpec, Files
  <2>2. budget' \in [slips : 0..MaxSlips, changes : 0..MaxChanges, kills : 0..MaxKills]
    BY <2>1, BoundsAreNumbers DEF Change, Slip, TypeOK
  <2>3. DOMAIN tree' = Paths
    BY <2>1 DEF Edit, TypeOK
  <2> QED
    BY <2>1, <2>2, <2>3 DEF Edit, TypeOK, output, NoFiles
<1>2. CASE CompileStart
  <2>1. CASE End("error") \/ End("empty") \/ End("rejected")
    <3>1. planned' = NoFiles
      BY <1>2, <2>1 DEF CompileStart, Plan, WriteAll, End
    <3> QED
      BY <1>2, <2>1, <3>1 DEF CompileStart, TypeOK, NoFiles, End, inputs, output
  <2>2. CASE Sound /\ WriteAll(Objects)
    <3>1. DOMAIN planned' \subseteq Owned
      BY <2>2, PlannedAreOwned DEF WriteAll
    <3> QED
      BY <1>2, <2>2, <3>1 DEF CompileStart, TypeOK, WriteAll, inputs, output
  <2> QED
    BY <1>2, <2>1, <2>2 DEF CompileStart, Plan, Sound
<1>3. CASE Write
  <2>1. PICK f \in todo : disk' = Put(disk, f, planned[f]) /\ pc' \in {"write", "prune"}
    BY <1>3 DEF Write
  <2>2. DOMAIN disk' \subseteq Owned
    BY <1>3, <2>1 DEF Write, Accepted, Put, TypeOK
  <2> QED
    BY <1>3, <2>1, <2>2 DEF Write, TypeOK, inputs
<1>4. CASE Prune
  BY <1>4 DEF Prune, End, Unlink, Stale, TypeOK, inputs
<1>5. CASE VariablesStart
  BY <1>5 DEF VariablesStart, End, TypeOK, NoFiles, inputs, output
<1>6. CASE VariableStep
  <2>1. \/ variables' = variables
        \/ \E i \in DOMAIN FolderOrder : \E content :
              variables' = Put(variables, FolderOrder[i], content)
    BY <1>6 DEF VariableStep
  <2>2. DOMAIN variables' \subseteq {FolderOrder[i] : i \in DOMAIN FolderOrder}
    <3>1. CASE variables' = variables
      BY <3>1 DEF TypeOK
    <3>2. CASE variables' # variables
      <4>1. PICK i \in DOMAIN FolderOrder : \E content :
                    variables' = Put(variables, FolderOrder[i], content)
        BY <2>1, <3>2
      <4>2. DOMAIN variables' = DOMAIN variables \cup {FolderOrder[i]}
        BY <4>1 DEF Put
      <4> QED
        BY <4>2 DEF TypeOK
    <3> QED
      BY <3>1, <3>2
  <2>3. pc' \in {"idle", "variables"} /\ exit' \in {exit, "variables", "rejected"}
    BY <1>6 DEF VariableStep, End
  <2> QED
    BY <1>6, <2>2, <2>3 DEF VariableStep, TypeOK, inputs
<1>7. CASE Kill
  BY <1>7, BoundsAreNumbers DEF Kill, End, TypeOK, NoFiles, inputs, output
<1>8. CASE UNCHANGED vars
  BY <1>8 DEF vars, TypeOK
<1> QED
  BY <1>1, <1>2, <1>3, <1>4, <1>5, <1>6, <1>7, <1>8 DEF Next

----
(* The plan and the disk.                                                  *)

LEMMA NextAccepted ==
    ASSUME TypeOK, Accepted, [Next]_vars
    PROVE  Accepted'
<1>1. CASE Author
  BY <1>1 DEF Author, PutFile, DeleteFile, EditMetadata, EditSpec, Edit, Accepted
<1>2. CASE CompileStart
  <2>1. CASE End("error") \/ End("empty") \/ End("rejected")
    BY <2>1 DEF End, Accepted
  <2>2. CASE Sound /\ WriteAll(Objects)
    <3>1. UNCHANGED inputs
      BY <1>2 DEF CompileStart
    <3> QED
      BY <2>2, <3>1, SameInputs DEF WriteAll, Accepted
  <2> QED
    BY <1>2, <2>1, <2>2 DEF CompileStart, Plan, Sound
<1>3. CASE Write
  <2>1. UNCHANGED inputs /\ planned' = planned /\ pc' \in {"write", "prune"} /\ todo' \subseteq todo
    BY <1>3 DEF Write
  <2>2. Sound /\ planned = Payloads(Objects) /\ todo \subseteq DOMAIN planned
    BY <1>3 DEF Write, Accepted
  <2> QED
    BY <2>1, <2>2, SameInputs DEF Accepted
<1>4. CASE Prune
  <2>1. UNCHANGED inputs /\ planned' = planned /\ pc' \in {"idle", "prune"}
    BY <1>4 DEF Prune, End
  <2>2. Sound /\ planned = Payloads(Objects)
    BY <1>4 DEF Prune, Accepted
  <2> QED
    BY <2>1, <2>2, SameInputs DEF Accepted
<1>5. CASE VariablesStart
  BY <1>5 DEF VariablesStart, End, Accepted
<1>6. CASE VariableStep
  BY <1>6 DEF VariableStep, End, Accepted
<1>7. CASE Kill
  BY <1>7 DEF Kill, End, Accepted
<1>8. CASE UNCHANGED vars
  <2>1. UNCHANGED inputs
    BY <1>8 DEF vars, inputs
  <2> QED
    BY <1>8, <2>1, SameInputs DEF vars, Accepted
<1> QED
  BY <1>1, <1>2, <1>3, <1>4, <1>5, <1>6, <1>7, <1>8 DEF Next

\* Two functions with one domain and the same values.
LEMMA SameFunction ==
    ASSUME AsPlanned(DOMAIN planned), DOMAIN disk = DOMAIN planned,
           disk = [f \in DOMAIN disk |-> disk[f]], planned = [f \in DOMAIN planned |-> planned[f]]
    PROVE  disk = planned
  BY DEF AsPlanned

LEMMA NextOnDisk ==
    ASSUME IInv, [Next]_vars
    PROVE  OnDisk'
<1> USE DEF IInv
<1>1. CASE Author
  BY <1>1 DEF Author, PutFile, DeleteFile, EditMetadata, EditSpec, Edit, OnDisk, Settled, output
<1>2. CASE CompileStart
  <2>0. disk' = disk
    BY <1>2 DEF CompileStart, output
  <2>1. CASE End("error") \/ End("empty") \/ End("rejected")
    BY <2>0, <2>1 DEF End, OnDisk, Settled
  <2>2. CASE WriteAll(Objects)
    BY <2>0, <2>2 DEF WriteAll, OnDisk, Settled, AsPlanned
  <2> QED
    BY <1>2, <2>1, <2>2 DEF CompileStart, Plan
<1>3. CASE Write
  <2>1. PICK f \in todo : /\ disk' = Put(disk, f, planned[f])
                          /\ todo' = todo \ {f}
                          /\ pc' = IF todo = {f} THEN "prune" ELSE "write"
    BY <1>3 DEF Write
  <2>2. planned' = planned /\ AsPlanned(DOMAIN planned \ todo)
    BY <1>3 DEF Write, OnDisk
  <2>3. \A g \in DOMAIN planned \ todo' : g \in DOMAIN disk' /\ disk'[g] = planned[g]
    BY <2>1, <2>2 DEF AsPlanned, Put
  <2>4. pc' = "prune" => todo' = {}
    BY <2>1
  <2>5. disk' = [g \in DOMAIN disk' |-> disk'[g]]
    BY <2>1 DEF Put
  <2> QED
    BY <2>1, <2>2, <2>3, <2>4, <2>5 DEF OnDisk, AsPlanned, Settled
<1>4. CASE Prune
  <2>1. UNCHANGED inputs /\ planned' = planned
    BY <1>4 DEF Prune
  <2>2. Sound /\ planned = Payloads(Objects) /\ AsPlanned(DOMAIN planned)
    BY <1>4 DEF Prune, Accepted, OnDisk
  <2>3. CASE Stale = {}
    <3>1. DOMAIN disk = DOMAIN planned
      BY <2>2, <2>3 DEF Stale, AsPlanned
    <3>2. planned = [f \in DOMAIN planned |-> planned[f]]
      BY <2>2 DEF Payloads
    <3>3. disk = [f \in DOMAIN disk |-> disk[f]]
      BY DEF OnDisk
    <3>4. disk = planned
      BY <2>2, <3>1, <3>2, <3>3, SameFunction
    <3> QED
      BY <1>4, <2>1, <2>2, <2>3, <3>4, SameInputs DEF Prune, End, OnDisk, Settled
  <2>4. CASE Stale # {}
    <3>1. PICK f \in Stale : disk' = Unlink(disk, f)
      BY <1>4, <2>4 DEF Prune
    <3>2. \A g \in DOMAIN planned : g \in DOMAIN disk' /\ disk'[g] = planned[g]
      BY <2>2, <3>1 DEF AsPlanned, Stale, Unlink
    <3>3. disk' = [g \in DOMAIN disk' |-> disk'[g]] /\ pc' = "prune"
      BY <1>4, <2>4, <3>1 DEF Prune, Unlink
    <3> QED
      BY <2>1, <3>2, <3>3 DEF OnDisk, AsPlanned, Settled
  <2> QED
    BY <2>3, <2>4
<1>5. CASE VariablesStart
  <2>1. disk' = disk /\ (pc' = "variables" \/ (pc' = "idle" /\ exit' # "ok"))
    BY <1>5 DEF VariablesStart, End, output
  <2> QED
    BY <2>1 DEF OnDisk, Settled
<1>6. CASE VariableStep
  <2>1. disk' = disk /\ (pc' = "variables" \/ (pc' = "idle" /\ exit' # "ok"))
    BY <1>6 DEF VariableStep, End
  <2> QED
    BY <2>1 DEF OnDisk, Settled
<1>7. CASE Kill
  <2>1. disk' = disk /\ pc' = "idle" /\ exit' # "ok"
    BY <1>7 DEF Kill, End, output
  <2> QED
    BY <2>1 DEF OnDisk, Settled
<1>8. CASE UNCHANGED vars
  <2>1. UNCHANGED inputs
    BY <1>8 DEF vars, inputs
  <2> QED
    BY <1>8, <2>1, SameInputs DEF vars, OnDisk, Settled, AsPlanned
<1> QED
  BY <1>1, <1>2, <1>3, <1>4, <1>5, <1>6, <1>7, <1>8 DEF Next

----
(* What the invariant gives.                                               *)

LEMMA InitIInv == Init => IInv
  BY InitTyped DEF Init, IInv, Accepted, OnDisk, Settled, NoFiles

LEMMA Invariance == Spec => []IInv
<1>1. IInv /\ [Next]_vars => IInv'
  BY NextTyped, NextAccepted, NextOnDisk DEF IInv
<1> QED
  BY InitIInv, <1>1, PTL DEF Spec

\* Once the sweep is over, the disk is what was planned from the tree.
LEMMA DiskFollows ==
    ASSUME IInv, Settled
    PROVE  DiskIsTheTree
<1>1. Sound /\ disk = Payloads(Objects)
  BY DEF IInv, OnDisk
<1>2. \A p \in Files : Objects[p] = Compiled(p)
  BY DEF Objects
<1>3. DOMAIN Objects = Files
  BY DEF Objects
<1>4. ASSUME NEW p \in Files
      PROVE  LET f == <<Compiled(p).kind, Compiled(p).scope>>
             IN  f \in DOMAIN disk /\ Compiled(p) \in disk[f]
  BY <1>1, <1>2, <1>3 DEF Payloads, FilesOf, InFile
<1>5. ASSUME NEW f \in DOMAIN disk
      PROVE  /\ \E p \in Files : <<Compiled(p).kind, Compiled(p).scope>> = f
             /\ \A o \in disk[f] : \E p \in Files : Compiled(p) = o /\ <<o.kind, o.scope>> = f
  BY <1>1, <1>2, <1>3 DEF Payloads, FilesOf, InFile
<1>6. ASSUME NEW p \in Files, NEW q \in Files, Compiled(p) = Compiled(q), p # q
      PROVE  FALSE
  <2> DEFINE f == <<Compiled(p).kind, Compiled(p).scope>>
  <2>1. f \in FilesOf(Objects) /\ p \in InFile(Objects, f) /\ q \in InFile(Objects, f)
    BY <1>2, <1>3, <1>6 DEF FilesOf, InFile
  <2>2. Unmergeable(Objects, f)
    BY <2>1, <1>2, <1>6 DEF Unmergeable, Key
  <2> QED
    BY <1>1, <2>1, <2>2 DEF Sound, Refused
<1> QED
  BY <1>4, <1>5, <1>6, <1>2 DEF DiskIsTheTree, DiskHolds

\* What was planned passed the checks on zones.
LEMMA ZonesFollow ==
    ASSUME IInv, Settled
    PROVE  RulesHaveTheirZones
<1> SUFFICES ASSUME NEW s \in Scopes
             PROVE  LET made == {z.name : z \in Content(<<"ZoneRequest", s>>)}
                    IN  /\ s[1] = "folder" => made \cap BaselineZones(Envs, s[2]) = {}
                        /\ \A r \in Content(<<"AccessRequest", s>>) :
                              r.from \cup r.to \subseteq made \cup BaselineZones(Envs, s[2])
  BY DEF RulesHaveTheirZones
<1> DEFINE made == {z.name : z \in Content(<<"ZoneRequest", s>>)}
<1>1. Sound /\ disk = Payloads(Objects)
  BY DEF IInv, OnDisk
<1>2. \A f : \A o \in Content(f) : \E p \in DOMAIN Objects :
        Objects[p] = o /\ o.kind = f[1] /\ o.scope = f[2]
  BY <1>1 DEF Content, Payloads, InFile
<1>3. \A p \in DOMAIN Objects : Objects[p] \in Content(<<Objects[p].kind, Objects[p].scope>>)
  BY <1>1 DEF Content, Payloads, FilesOf, InFile
<1>4. ASSUME s[1] = "folder"
      PROVE  made \cap BaselineZones(Envs, s[2]) = {}
  <2>1. \A z \in Content(<<"ZoneRequest", s>>) : \E p \in ZoneRequests(Objects) :
          Objects[p] = z /\ z.scope = s
    BY <1>2 DEF ZoneRequests
  <2> QED
    BY <1>1, <1>4, <2>1 DEF Sound, Refused, CollidingZone
<1>5. ASSUME NEW r \in Content(<<"AccessRequest", s>>)
      PROVE  r.from \cup r.to \subseteq made \cup BaselineZones(Envs, s[2])
  <2>1. PICK p \in DOMAIN Objects : Objects[p] = r /\ r.kind = "AccessRequest" /\ r.scope = s
    BY <1>2
  <2>2. r.from \cup r.to \subseteq DeclaredZones(Objects, s)
    BY <1>1, <2>1 DEF Sound, Refused, UndeclaredZone
  <2>3. \A q \in ZoneRequests(Objects) : Objects[q].scope = s => Objects[q].name \in made
    BY <1>3 DEF ZoneRequests
  <2> QED
    BY <2>2, <2>3 DEF DeclaredZones
<1> QED
  BY <1>4, <1>5

----
(* The loaders, for every document: what a clean report promises.          *)

\* Absent stands for Python's None, so it is no record, tuple or map.
AbsentIsNoFunction == \A f : Absent # [x \in DOMAIN f |-> f[x]]

LEMMA MetadataIsWhole ==
    ASSUME AbsentIsNoFunction, NEW md, LoadMetadata(md).problems = {}
    PROVE  LoadMetadata(md).value # Absent
<1> DEFINE missing == Required(md, MetadataKeys)
           rest == {k \in {"id", "ticket"} \ missing : md[k] \notin SafeNames} \cup md.extra
           loaded == [k \in MetadataKeys |-> md[k]]
<1>1. md # Bad
  BY DEF LoadMetadata, Failed, Answer
<1>2. LoadMetadata(md).problems = missing \cup rest
  BY <1>1 DEF LoadMetadata, Answer
<1>3. LoadMetadata(md).value = IF missing # {} THEN Absent ELSE loaded
  BY <1>1 DEF LoadMetadata, Answer
<1>4. loaded = [x \in DOMAIN loaded |-> loaded[x]]
  OBVIOUS
<1> HIDE DEF missing, rest, loaded
<1>5. loaded # Absent
  BY <1>4 DEF AbsentIsNoFunction
<1> QED
  BY <1>2, <1>3, <1>5

\* A target without a problem is the one scope the document names, and one
\* the hierarchy lets it name.
LEMMA TargetIsNamed ==
    ASSUME NEW sp, NEW h, LoadTarget(sp, h).problems = {}
    PROVE  \E k \in TargetKeys :
             /\ sp[k] \notin Unset
             /\ \A j \in TargetKeys : j # k => sp[j] = Absent
             /\ \A j \in TargetKeys : LoadTarget(sp, h).value[j] = IF j = k THEN sp[k] ELSE Absent
             /\ k = "folder" => sp[k] \in h.targetable /\ Known(h, sp[k])
             /\ k = "device" => sp[k] \in h.targetableDevices /\ DeviceKnown(h, sp[k])
<1> DEFINE given == {k \in TargetKeys : sp[k] # Absent}
           c == CHOOSE k \in given : TRUE
           refused == /\ c # "environment"
                      /\ \/ h = Absent
                         \/ c = "folder" /\ \/ DeviceKnown(h, sp[c]) \/ ~Known(h, sp[c])
                                            \/ sp[c] \notin h.targetable
                         \/ c = "device" /\ \/ Known(h, sp[c]) \/ ~DeviceKnown(h, sp[c])
                                            \/ sp[c] \notin h.targetableDevices
           bad == Malformed(sp, TargetKeys)
           named == [NoTarget EXCEPT ![c] = sp[c]]
<1>1. LoadTarget(sp, h) = IF bad # {} THEN Answer(bad, NoTarget)
                          ELSE IF Cardinality(given) # 1 \/ refused
                               THEN Answer({"target"}, NoTarget) ELSE Answer({}, named)
  BY DEF LoadTarget
<1>2. bad = {} /\ Cardinality(given) = 1 /\ ~refused /\ LoadTarget(sp, h).value = named
  <2> HIDE DEF bad, given, refused, named
  <2> QED
    BY <1>1 DEF Answer
<1>3. given = {c}
  <2>1. IsFiniteSet({"folder"}) /\ IsFiniteSet({"device"}) /\ IsFiniteSet({"environment"})
    BY FS_Singleton
  <2>2. IsFiniteSet({"folder"} \cup {"device"} \cup {"environment"})
    BY <2>1, FS_Union
  <2>3. TargetKeys = {"folder"} \cup {"device"} \cup {"environment"}
    BY DEF TargetKeys
  <2>4. IsFiniteSet(given)
    BY <2>2, <2>3, FS_Subset
  <2>5. \E x : given = {x}
    <3> HIDE DEF given
    <3> QED
      BY <1>2, <2>4, FS_Singleton
  <2> QED
    BY <2>5
<1>4. c \in TargetKeys /\ sp[c] # Absent /\ sp[c] # Bad
  BY <1>2, <1>3 DEF Malformed
<1>5. \A j \in TargetKeys : j # c => sp[j] = Absent
  BY <1>3
<1>6. \A j \in TargetKeys : LoadTarget(sp, h).value[j] = IF j = c THEN sp[c] ELSE Absent
  BY <1>2, <1>4 DEF NoTarget
<1>7. /\ c = "folder" => sp[c] \in h.targetable /\ Known(h, sp[c])
      /\ c = "device" => sp[c] \in h.targetableDevices /\ DeviceKnown(h, sp[c])
  <2> HIDE DEF c
  <2> QED
    BY <1>2
<1> HIDE DEF c
<1> QED
  BY <1>4, <1>5, <1>6, <1>7 DEF Unset

LEMMA RouteIsWhole ==
    ASSUME AbsentIsNoFunction, NEW sp, NEW cats, NEW envs,
           NEW got, got = LoadRouteSpec(sp, cats, envs), got.problems = {},
           NEW scope, scope = TargetScope(LoadTarget(sp, cats.folders).value, envs)
    PROVE  /\ got.value # Absent
           /\ LoadTarget(sp, cats.folders).problems = {}
           /\ got.value.target = LoadTarget(sp, cats.folders).value
           /\ got.value.members = IF scope = Absent \/ cats.routers = Absent THEN {}
                                  ELSE InterfacesFor(cats.routers, scope, got.value.router, got.value.vrf)
<1> DEFINE target == LoadTarget(sp, cats.folders)
           router == IF sp.router \in Unset THEN "default" ELSE sp.router
           vrf == IF sp.vrf \in Unset THEN "default" ELSE sp.vrf
           hops == {"nexthop", "nexthop_interface"}
           early == Malformed(sp, {"router", "vrf"} \cup hops)
                    \cup Required(sp, {"destination"})
                    \cup target.problems \cup sp.extra
           late == Malformed(sp, {"metric", "admin_dist"})
           members == IF scope = Absent \/ cats.routers = Absent THEN {}
                      ELSE InterfacesFor(cats.routers, scope, router, vrf)
           loaded == [target |-> target.value, router |-> router, vrf |-> vrf,
                      destination |-> sp.destination, members |-> members]
           twoHops == Malformed(sp, hops) = {} /\ Cardinality({k \in hops : sp[k] # Absent}) # 1
           badHop == sp.nexthop \notin Addresses \cup Unset
           lost == Required(sp, {"destination"}) # {} \/ ~HasTarget(target.value)
                   \/ late # {} \/ Malformed(sp, {"router", "vrf"} \cup hops) # {}
<1>1. sp # Bad
  BY DEF LoadRouteSpec, Failed, Answer
<1>2. got = IF twoHops THEN Failed(early \cup {"hops"})
            ELSE IF badHop THEN Failed(early \cup {"nexthop"})
            ELSE IF members = Absent THEN Failed(early \cup late \cup {"router"})
            ELSE Answer(early \cup late, IF lost THEN Absent ELSE loaded)
  BY <1>1, Zenon DEF LoadRouteSpec
<1>3. early \cup late = {} /\ got.value = IF lost THEN Absent ELSE loaded
  <2> HIDE DEF twoHops, badHop, members, early, late, lost, loaded
  <2> QED
    BY <1>2 DEF Failed, Answer
<1>4. target.problems = {}
  BY <1>3
<1>5. HasTarget(target.value)
  BY <1>4, TargetIsNamed DEF HasTarget, NoTarget, Unset
<1>6. ~lost
  BY <1>3, <1>5
<1>7. loaded = [x \in DOMAIN loaded |-> loaded[x]]
  OBVIOUS
<1>8. loaded # Absent
  <2> HIDE DEF loaded
  <2> QED
    BY <1>7 DEF AbsentIsNoFunction
<1>9. /\ loaded.target = target.value /\ loaded.members = members
      /\ loaded.router = router /\ loaded.vrf = vrf
  OBVIOUS
<1> HIDE DEF lost, loaded
<1> QED
  BY <1>3, <1>4, <1>6, <1>8, <1>9

LEMMA ZoneIsWhole ==
    ASSUME AbsentIsNoFunction, NEW sp, NEW cats, LoadZoneSpec(sp, cats).problems = {}
    PROVE  /\ LoadZoneSpec(sp, cats).value # Absent
           /\ LoadTarget(sp, cats.folders).problems = {}
<1> DEFINE target == LoadTarget(sp, cats.folders)
           unusable == Required(sp, {"zone"}) \cup {k \in {"type"} : sp.type \notin ZoneTypes}
                       \cup Malformed(sp, {"interfaces", "plain", "protection_profile",
                                           "log_forwarding", "dos_log_forwarding"})
           unknown == {k \in {"protection_profile"} : UnknownName(sp[k], cats.protection)}
                      \cup {k \in {"log_forwarding", "dos_log_forwarding"} :
                               UnknownName(sp[k], cats.logs)}
           loaded == [target |-> target.value, zone |-> sp.zone,
                      protection |-> sp.protection_profile]
<1>1. sp # Bad
  BY DEF LoadZoneSpec, Failed, Answer
<1>2. LoadZoneSpec(sp, cats) =
        Answer(target.problems \cup unusable \cup unknown \cup sp.extra,
               IF unusable # {} \/ ~HasTarget(target.value) THEN Absent ELSE loaded)
  BY <1>1, Zenon DEF LoadZoneSpec
<1>3. loaded = [x \in DOMAIN loaded |-> loaded[x]]
  OBVIOUS
<1> HIDE DEF unusable, unknown, loaded
<1>4. target.problems = {} /\ unusable = {}
  BY <1>2 DEF Answer
<1>5. HasTarget(target.value)
  BY <1>4, TargetIsNamed DEF HasTarget, NoTarget, Unset
<1>6. loaded # Absent
  BY <1>3 DEF AbsentIsNoFunction
<1> QED
  BY <1>2, <1>4, <1>5, <1>6 DEF Answer

LEMMA InterfaceIsWhole ==
    ASSUME AbsentIsNoFunction, NEW sp, NEW cats, LoadInterfaceSpec(sp, cats).problems = {}
    PROVE  /\ LoadInterfaceSpec(sp, cats).value # Absent
           /\ LoadTarget(sp, cats.folders).problems = {}
<1> DEFINE target == LoadTarget(sp, cats.folders)
           name == IF cats.interfaces = Absent \/ sp.interface \in Unset THEN Bad
                   ELSE ResolveRole(cats.interfaces, sp.interface, target.value.device)
           ip == IF sp.ip = Absent THEN {} ELSE sp.ip
           optional == Malformed(sp, {"ip", "dhcp", "mtu", "plain", "management_profile"})
           clash == {"ip", "dhcp"} \cap optional = {} /\ ((ip # {}) <=> (sp.dhcp = TRUE))
           unknown == {k \in {"management_profile"} : UnknownName(sp[k], cats.management)}
           found == target.problems \cup sp.extra \cup optional
                    \cup {k \in {"interface"} : name = Bad} \cup unknown
           lost == ~HasTarget(target.value) \/ name = Bad \/ optional # {}
           loaded == [target |-> target.value, interface |-> name, ip |-> ip]
<1>1. sp # Bad
  BY DEF LoadInterfaceSpec, Failed, Answer
<1>2. LoadInterfaceSpec(sp, cats) = IF clash THEN Failed(found \cup {"addressing"})
                                    ELSE Answer(found, IF lost THEN Absent ELSE loaded)
  BY <1>1, Zenon DEF LoadInterfaceSpec
<1>3. found = {} /\ LoadInterfaceSpec(sp, cats).value = IF lost THEN Absent ELSE loaded
  <2> HIDE DEF clash, found, lost, loaded
  <2> QED
    BY <1>2 DEF Failed, Answer
<1>4. loaded = [x \in DOMAIN loaded |-> loaded[x]]
  OBVIOUS
<1>5. target.problems = {} /\ optional = {} /\ name # Bad
  <2> HIDE DEF optional, unknown, name
  <2> QED
    BY <1>3
<1>6. HasTarget(target.value)
  BY <1>5, TargetIsNamed DEF HasTarget, NoTarget, Unset
<1>7. loaded # Absent
  <2> HIDE DEF loaded
  <2> QED
    BY <1>4 DEF AbsentIsNoFunction
<1> HIDE DEF name, optional, loaded
<1> QED
  BY <1>3, <1>5, <1>6, <1>7

LEMMA RuleIsWhole ==
    ASSUME AbsentIsNoFunction, NEW sp, NEW cats, LoadSpec(sp, cats).problems = {}
    PROVE  LoadSpec(sp, cats).value # Absent
<1> DEFINE env == Value(sp.environment)
           parts == [source |-> LoadEndpoints(sp.source, cats, env),
                     destination |-> LoadEndpoints(sp.destination, cats, env),
                     service |-> LoadServices(sp.service, cats)]
           apps == IF sp.application = Absent THEN {"any"} ELSE sp.application
           unusable == Required(sp, {"environment"})
                       \cup {k \in {"action"} : sp.action \notin Actions}
                       \cup Malformed(parts, DOMAIN parts)
                       \cup Malformed(sp, {"log", "application", "profile", "log_forwarding",
                                           "plain", "users"})
                       \cup {k \in {"position"} : sp.position \notin Positions \cup {Absent}}
           unknown == {k \in {"application"} : /\ apps # Bad /\ cats.applications # Absent
                                               /\ ~(apps \subseteq cats.applications)}
                      \cup {k \in {"profile"} : UnknownName(sp.profile, cats.profiles)}
                      \cup {k \in {"log_forwarding"} : UnknownName(sp.log_forwarding, cats.logs)}
           loaded == [environment |-> env, action |-> sp.action, application |-> apps,
                      source |-> parts.source, destination |-> parts.destination,
                      service |-> parts.service, log |-> sp.log_forwarding]
<1>1. sp # Bad
  BY DEF LoadSpec, Failed, Answer
<1>2. LoadSpec(sp, cats) = Answer(unusable \cup unknown \cup sp.extra,
                                  IF unusable # {} THEN Absent ELSE loaded)
  BY <1>1, Zenon DEF LoadSpec
<1> HIDE DEF parts
<1>3. loaded = [x \in DOMAIN loaded |-> loaded[x]]
  OBVIOUS
<1> HIDE DEF unusable, unknown, loaded
<1>4. loaded # Absent
  BY <1>3 DEF AbsentIsNoFunction
<1> QED
  BY <1>2, <1>4 DEF Answer

\* A document without a problem has a known kind, and its parts have none.
LEMMA IntentIsClean ==
    ASSUME NEW doc, NEW cats, NEW envs, LoadIntent(doc, cats, envs).problems = {}
    PROVE  /\ doc.kind \in Kinds
           /\ LoadMetadata(doc.metadata).problems = {}
           /\ LoadKind(doc, cats, envs).problems = {}
           /\ LoadIntent(doc, cats, envs).value.kind = doc.kind
           /\ LoadIntent(doc, cats, envs).value.metadata = LoadMetadata(doc.metadata).value
           /\ LoadIntent(doc, cats, envs).value.spec = LoadKind(doc, cats, envs).value
<1> DEFINE md == LoadMetadata(doc.metadata)
           sp == LoadKind(doc, cats, envs)
<1>1. doc # Bad /\ doc.kind \in Kinds
  BY DEF LoadIntent, Failed, Answer
<1>2. LoadIntent(doc, cats, envs) = Request(doc, md, sp)
  BY <1>1 DEF LoadIntent
<1> HIDE DEF md, sp
<1>3. md.problems = {} /\ sp.problems = {}
  BY <1>2 DEF Request, Answer
<1>4. LoadIntent(doc, cats, envs).value = [kind |-> doc.kind, metadata |-> md.value, spec |-> sp.value]
  BY <1>2 DEF Request, Answer
<1> QED
  BY <1>1, <1>3, <1>4 DEF md, sp

LEMMA IntentIsWhole ==
    ASSUME AbsentIsNoFunction, NEW doc, NEW cats, NEW envs
    PROVE  Whole(LoadIntent(doc, cats, envs))
<1> SUFFICES ASSUME LoadIntent(doc, cats, envs).problems = {}
             PROVE  /\ LoadIntent(doc, cats, envs).value.metadata # Absent
                    /\ LoadIntent(doc, cats, envs).value.spec # Absent
  BY DEF Whole
<1>1. LoadMetadata(doc.metadata).value # Absent
  BY IntentIsClean, MetadataIsWhole
<1>2. LoadKind(doc, cats, envs).value # Absent
  <2>1. LoadKind(doc, cats, envs).problems = {} /\ doc.kind \in Kinds
    BY IntentIsClean
  <2>2. CASE doc.kind = "AccessRequest"
    BY <2>1, <2>2, RuleIsWhole DEF LoadKind
  <2>3. CASE doc.kind = "ZoneRequest"
    BY <2>1, <2>3, ZoneIsWhole DEF LoadKind
  <2>4. CASE doc.kind = "InterfaceRequest"
    BY <2>1, <2>4, InterfaceIsWhole DEF LoadKind
  <2>5. CASE doc.kind = "RouteRequest"
    <3>1. LoadKind(doc, cats, envs) = LoadRouteSpec(doc.spec, cats, envs)
      BY <2>5 DEF LoadKind
    <3> QED
      BY <2>1, <3>1, RouteIsWhole
  <2> QED
    BY <2>1, <2>2, <2>3, <2>4, <2>5 DEF Kinds
<1> QED
  BY <1>1, <1>2, IntentIsClean

\* However a document names its scope, the loader that reads the router
\* catalog and the compiler that picks the root mean the same scope.
LEMMA ScopesAgree ==
    ASSUME AbsentIsNoFunction, NEW sp, NEW h, NEW envs, LoadTarget(sp, h).problems = {},
           NEW target, target = LoadTarget(sp, h).value, ScopeOf(target, envs) # Bad
    PROVE  /\ TargetScope(target, envs) = ScopeOf(target, envs)
           /\ TargetScope(target, envs) # Absent
<1>1. PICK k \in TargetKeys :
        /\ sp[k] # Absent
        /\ \A j \in TargetKeys : target[j] = IF j = k THEN sp[k] ELSE Absent
  BY TargetIsNamed DEF Unset
<1>2. ASSUME NEW x, NEW y PROVE <<x, y>> # Absent
  <2> DEFINE pair == <<x, y>>
  <2>1. pair = [i \in DOMAIN pair |-> pair[i]]
    OBVIOUS
  <2> HIDE DEF pair
  <2>2. pair # Absent
    BY <2>1 DEF AbsentIsNoFunction
  <2> QED
    BY <2>2 DEF pair
<1>3. CASE k = "folder"
  <2>1. target.folder # Absent /\ target.device = Absent
    BY <1>1, <1>3 DEF TargetKeys
  <2> QED
    BY <1>2, <2>1 DEF TargetScope, ScopeOf
<1>4. CASE k = "device"
  <2>1. target.folder = Absent /\ target.device # Absent
    BY <1>1, <1>4 DEF TargetKeys
  <2> QED
    BY <1>2, <2>1 DEF TargetScope, ScopeOf
<1>5. CASE k = "environment"
  <2>1. target.folder = Absent /\ target.device = Absent
    BY <1>1, <1>5 DEF TargetKeys
  <2>2. target.environment \in DOMAIN envs
    BY <2>1 DEF ScopeOf, ResolveEnv
  <2> QED
    BY <1>2, <2>1, <2>2 DEF TargetScope, ScopeOf
<1> QED
  BY <1>1, <1>3, <1>4, <1>5 DEF TargetKeys

\* An object has the kind of its request; only a route has members.
LEMMA CompiledKind ==
    ASSUME NEW req, NEW envs, CompileAny(req, envs) # Bad, req.kind \in Kinds
    PROVE  /\ CompileAny(req, envs).kind = req.kind
           /\ req.kind = "RouteRequest" =>
                /\ ScopeOf(req.spec.target, envs) # Bad
                /\ CompileAny(req, envs).scope = ScopeOf(req.spec.target, envs)
                /\ CompileAny(req, envs).router = req.spec.router
                /\ CompileAny(req, envs).vrf = req.spec.vrf
                /\ CompileAny(req, envs).members = req.spec.members
<1>1. CASE req.kind = "AccessRequest"
  BY <1>1 DEF CompileAny, CompileRequest
<1>2. CASE req.kind # "AccessRequest"
  <2>1. ScopeOf(req.spec.target, envs) # Bad
    BY <1>2 DEF CompileAny
  <2> QED
    BY <1>2, <2>1 DEF CompileAny, CompileZone, CompileInterface, CompileRoute, Kinds
<1> QED
  BY <1>1, <1>2

\* A file of an accepted tree is read without a problem and compiles.
LEMMA AcceptedFile ==
    ASSUME Sound, NEW p \in Files
    PROVE  /\ Loaded(p).problems = {}
           /\ Objects[p] # Bad
           /\ Objects[p] = CompileAny(Loaded(p).value, Envs)
  BY DEF Sound, Objects, Compiled, ObjectOf

\* The members of a planned route are those of its own scope.
LEMMA RoutersFollow ==
    ASSUME AbsentIsNoFunction, IInv, Settled
    PROVE  RoutersKeepInterfaces
<1> SUFFICES ASSUME NEW s \in Scopes, NEW r \in Content(<<"RouteRequest", s>>)
             PROVE  r.members = IF Catalogs.routers = Absent THEN {}
                                ELSE InterfacesFor(Catalogs.routers, s, r.router, r.vrf)
  BY DEF RoutersKeepInterfaces
<1>1. Sound /\ disk = Payloads(Objects)
  BY DEF IInv, OnDisk
<1>2. PICK p \in Files : Objects[p] = r /\ r.kind = "RouteRequest" /\ r.scope = s
  <2>1. DOMAIN Objects = Files
    BY DEF Objects
  <2> QED
    BY <1>1, <2>1 DEF Content, Payloads, InFile
<1> DEFINE doc == tree[p]
           req == Loaded(p).value
           got == LoadRouteSpec(doc.spec, Catalogs, Envs)
           target == LoadTarget(doc.spec, Catalogs.folders).value
<1>3. Loaded(p).problems = {} /\ r # Bad /\ r = CompileAny(req, Envs)
  BY <1>1, <1>2, AcceptedFile
<1>4. /\ doc.kind \in Kinds /\ LoadKind(doc, Catalogs, Envs).problems = {}
      /\ req.kind = doc.kind /\ req.spec = LoadKind(doc, Catalogs, Envs).value
  BY <1>3, IntentIsClean DEF Loaded
<1> HIDE DEF req
<1>5. doc.kind = "RouteRequest"
  BY <1>2, <1>3, <1>4, CompiledKind
<1>6. got.problems = {} /\ req.spec = got.value
  BY <1>4, <1>5 DEF LoadKind
<1>7. /\ ScopeOf(req.spec.target, Envs) = s /\ s # Bad
      /\ r.router = req.spec.router /\ r.vrf = req.spec.vrf /\ r.members = req.spec.members
  BY <1>2, <1>3, <1>4, <1>5, CompiledKind
<1>8. /\ LoadTarget(doc.spec, Catalogs.folders).problems = {}
      /\ req.spec.target = target
      /\ req.spec.members =
           IF TargetScope(target, Envs) = Absent \/ Catalogs.routers = Absent THEN {}
           ELSE InterfacesFor(Catalogs.routers, TargetScope(target, Envs),
                              req.spec.router, req.spec.vrf)
  BY <1>6, RouteIsWhole
<1>9. TargetScope(target, Envs) = s /\ TargetScope(target, Envs) # Absent
  BY <1>7, <1>8, ScopesAgree
<1> QED
  BY <1>7, <1>8, <1>9

\* The loader lets an intent name only what the hierarchy knows, and a clean
\* verify-catalog says that SCM has it, as what it is and where it is.
LEMMA ScopesFollow ==
    ASSUME AbsentIsNoFunction, IInv, Settled
    PROVE  NamedScopesAreReal
<1> DEFINE h == Catalogs.folders
<1> SUFFICES ASSUME CatalogFindings(Catalogs.interfaces, h, live) = {},
                    NEW p \in Files, tree[p].kind # "AccessRequest"
             PROVE  LET sp == tree[p].spec
                    IN  /\ sp.folder # Absent => sp.folder \in DOMAIN live /\ ~live[sp.folder].device
                        /\ sp.device # Absent =>
                             /\ sp.device \in DOMAIN live /\ live[sp.device].device
                             /\ live[sp.device].parent = h.devices[sp.device]
  BY DEF NamedScopesAreReal
<1> DEFINE sp == tree[p].spec
<1>1. LoadKind(tree[p], Catalogs, Envs).problems = {} /\ tree[p].kind \in Kinds
  <2>1. Sound
    BY DEF IInv, OnDisk
  <2> QED
    BY <2>1, AcceptedFile, IntentIsClean DEF Loaded
<1>2. LoadTarget(sp, h).problems = {}
  <2>1. CASE tree[p].kind = "ZoneRequest"
    BY <1>1, <2>1, ZoneIsWhole DEF LoadKind
  <2>2. CASE tree[p].kind = "InterfaceRequest"
    BY <1>1, <2>2, InterfaceIsWhole DEF LoadKind
  <2>3. CASE tree[p].kind = "RouteRequest"
    <3>1. LoadKind(tree[p], Catalogs, Envs) = LoadRouteSpec(sp, Catalogs, Envs)
      BY <2>3 DEF LoadKind
    <3> QED
      BY <1>1, <3>1, RouteIsWhole
  <2> QED
    BY <1>1, <2>1, <2>2, <2>3 DEF Kinds
<1>3. PICK k \in TargetKeys :
        /\ \A j \in TargetKeys : j # k => sp[j] = Absent
        /\ k = "folder" => sp[k] \in h.targetable /\ Known(h, sp[k])
        /\ k = "device" => sp[k] \in h.targetableDevices /\ DeviceKnown(h, sp[k])
  BY <1>2, TargetIsNamed
<1>4. FolderFindings(h, live) = {} /\ DeviceFindings(h, live) = {}
  BY DEF CatalogFindings
<1> HIDE DEF h
<1>5. ASSUME sp.folder # Absent
      PROVE  sp.folder \in DOMAIN live /\ ~live[sp.folder].device
  <2>1. sp.folder \in h.targetable /\ sp.folder \in DOMAIN h.children
    BY <1>3, <1>5 DEF TargetKeys, Known
  <2> QED
    BY <1>4, <2>1 DEF FolderFindings, DeclaredFolders
<1>6. ASSUME sp.device # Absent
      PROVE  /\ sp.device \in DOMAIN live /\ live[sp.device].device
             /\ live[sp.device].parent = h.devices[sp.device]
  <2>1. sp.device \in h.targetableDevices /\ sp.device \in DOMAIN h.devices
    BY <1>3, <1>6 DEF TargetKeys, DeviceKnown
  <2> QED
    BY <1>4, <2>1 DEF DeviceFindings
<1> QED
  BY <1>5, <1>6

----
(* The theorems.                                                           *)

\* Every file on disk is one compile owns, whoever edits what and kills when.
THEOREM TypeCorrect == Spec => []TypeOK
  BY Invariance, PTL DEF IInv

\* However many runs were killed before it and whatever the files held, a
\* compile that succeeds leaves the tree on disk: each object once, in its
\* file, and nothing else (run_compile, write and sweep).
THEOREM TheDiskIsTheTree == Spec => []DiskIsTheTree
<1>1. IInv => DiskIsTheTree
  <2>1. ~Settled => DiskIsTheTree
    BY DEF DiskIsTheTree
  <2> QED
    BY <2>1, DiskFollows
<1> QED
  BY Invariance, <1>1, PTL

\* ... with every rule's zones beside it or older than GitOps, and none of the
\* latter taken over (check_zone_consistency, check_zone_collisions).
THEOREM ZonesComeWithTheirRules == Spec => []RulesHaveTheirZones
<1>1. IInv => RulesHaveTheirZones
  <2>1. ~Settled => RulesHaveTheirZones
    BY DEF RulesHaveTheirZones
  <2> QED
    BY <2>1, ZonesFollow
<1> QED
  BY Invariance, <1>1, PTL

\* No run, refused, killed or complete, deletes a file that some intent of the
\* tree still compiles to (run_compile's sweep).
THEOREM OnlyTheUnwantedAreDeleted == Spec => OnlyTheUnwantedGo
<1>1. ASSUME IInv, [Next]_vars, NEW f \in DOMAIN disk \ DOMAIN disk'
      PROVE  /\ pc = "prune"
             /\ \A p \in Files : Compiled(p) # Bad /\ <<Compiled(p).kind, Compiled(p).scope>> # f
  <2>1. CASE Prune
    <3>1. f \in Stale
      BY <1>1, <2>1 DEF Prune, Unlink
    <3>2. Sound /\ planned = Payloads(Objects)
      BY <1>1, <2>1 DEF Prune, IInv, Accepted
    <3>3. f \notin FilesOf(Objects)
      BY <3>1, <3>2 DEF Stale, Payloads
    <3> QED
      BY <2>1, <3>2, <3>3 DEF Prune, Sound, Objects, FilesOf
  <2>2. CASE Write
    BY <1>1, <2>2 DEF Write, Put
  <2>3. CASE UNCHANGED disk
    BY <1>1, <2>3
  <2> QED
    BY <1>1, <2>1, <2>2, <2>3 DEF Next, Author, PutFile, DeleteFile, EditMetadata, EditSpec, Edit,
       CompileStart, VariablesStart, VariableStep, Kill, output, vars
<1>2. IInv /\ [Next]_vars => [UnwantedGoes]_vars
  BY <1>1 DEF UnwantedGoes, Unwanted, Objects
<1> QED
  BY Invariance, <1>2, PTL DEF Spec, OnlyTheUnwantedGo

\* Whatever a document holds, a loader that reports nothing has loaded all of
\* it: giving up on a part is always reported (load_intent).
THEOREM NothingIsHalfLoaded == AbsentIsNoFunction => (Spec => []NothingHalfLoaded)
<1> SUFFICES ASSUME AbsentIsNoFunction PROVE Spec => []NothingHalfLoaded
  OBVIOUS
<1>1. NothingHalfLoaded
  BY IntentIsWhole DEF NothingHalfLoaded, Loaded
<1> QED
  BY <1>1, PTL

\* After a compile that succeeds, every router that is rewritten keeps the
\* interfaces routers.yaml gives it at the scope its file is for, in every
\* catalog and layout, whether an intent names a folder, a firewall or an
\* environment (_load_route_spec, route_tfvars).
THEOREM RoutersKeepTheirs == AbsentIsNoFunction => (Spec => []RoutersKeepInterfaces)
<1> SUFFICES ASSUME AbsentIsNoFunction PROVE Spec => []RoutersKeepInterfaces
  OBVIOUS
<1>1. IInv => RoutersKeepInterfaces
  <2>1. ~Settled => RoutersKeepInterfaces
    BY DEF RoutersKeepInterfaces
  <2> QED
    BY <2>1, RoutersFollow
<1> QED
  BY Invariance, <1>1, PTL

\* With a catalog verify-catalog accepts, an intent that was compiled names a
\* scope SCM has, whatever the hierarchies are (_load_target).
THEOREM CompiledScopesAreReal == AbsentIsNoFunction => (Spec => []NamedScopesAreReal)
<1> SUFFICES ASSUME AbsentIsNoFunction PROVE Spec => []NamedScopesAreReal
  OBVIOUS
<1>1. IInv => NamedScopesAreReal
  <2>1. ~Settled => NamedScopesAreReal
    BY DEF NamedScopesAreReal
  <2> QED
    BY <2>1, ScopesFollow
<1> QED
  BY Invariance, <1>1, PTL

====

---- MODULE Catalog ----
(***************************************************************************)
(* The reference catalogs under catalog/*.yaml, and what the readers make  *)
(* of them.  A YAML value that is missing is Absent, one of a wrong type   *)
(* or blank is Bad.  A reader returns Bad where the code raises an error.  *)
(***************************************************************************)
EXTENDS Naturals, FiniteSets

CONSTANTS
    Absent,     \* no such key, file or object
    Bad         \* a value the readers cannot use

ASSUME MarksDiffer == Absent # Bad

Unset == {Absent, Bad}

(* The values of a map.                                                    *)
Values(f) == {f[x] : x \in DOMAIN f}

(* An absent optional file reads as no catalog at all.                     *)
Optional(raw, catalog) == IF raw = Absent THEN Absent ELSE catalog

----
(* Services, apps and plain name lists.                                    *)

PortProtocols == {"tcp", "udp"}

(* What an intent may write as a port, and what the catalog takes besides. *)
IntentPorts == {"443", "8000-8100"}
CatalogPorts == IntentPorts \cup {"0", "443-443"}

ServiceCatalog(raw) ==
    IF raw = Bad \/ \E svc \in Values(raw) : \/ svc.protocol \notin PortProtocols
                                             \/ svc.port \notin CatalogPorts
    THEN Bad ELSE raw

SoundApp(app) ==
    /\ app.folder = Absent                       \* the environment decides
    /\ {app.environment, app.zone} \cap Unset = {}
    /\ Bad \notin app.addresses \cup app.fqdns
    /\ app.addresses \cup app.fqdns # {}

AppCatalog(raw) ==
    IF raw = Bad \/ \E app \in Values(raw) : ~SoundApp(app) THEN Bad ELSE raw

NameCatalog(raw, always) == IF raw = Bad \/ Bad \in raw THEN Bad ELSE raw \cup always

----
(* folders.yaml: folder -> [children, targetable, devices], the devices a  *)
(* map from serial to [targetable, display].                               *)

Serials(raw) == UNION {DOMAIN raw[f].devices : f \in DOMAIN raw}

SoundFolders(raw) ==
    /\ \A spec \in Values(raw) :
          /\ Bad \notin spec.children /\ spec.targetable # Bad
          /\ \A dev \in Values(spec.devices) : dev.targetable # Bad /\ dev.display # Bad
    /\ \A f, g \in DOMAIN raw : f # g => DOMAIN raw[f].devices \cap DOMAIN raw[g].devices = {}
    /\ Serials(raw) \cap DOMAIN raw = {}

FolderHierarchy(raw) ==
    IF raw = Bad THEN Bad ELSE IF ~SoundFolders(raw) THEN Bad ELSE
    LET home == [s \in Serials(raw) |-> CHOOSE f \in DOMAIN raw : s \in DOMAIN raw[f].devices]
        spec(s) == raw[home[s]].devices[s]
    IN  [children |-> [f \in DOMAIN raw |-> raw[f].children],
         targetable |-> {f \in DOMAIN raw : raw[f].targetable = TRUE},
         devices |-> home,
         targetableDevices |-> {s \in DOMAIN home : spec(s).targetable = TRUE},
         display |-> [s \in DOMAIN home |-> spec(s).display]]

Known(h, f) == f \in DOMAIN h.children
DeviceKnown(h, s) == s \in DOMAIN h.devices
DevicesOf(h, f) == {s \in DOMAIN h.devices : h.devices[s] = f}

----
(* interfaces.yaml: role -> [folder, devices, create_in, site_specific].   *)

InterfaceCatalog(raw) ==
    IF raw = Bad \/ \E spec \in Values(raw) :
                       \/ spec.folder \in Unset
                       \/ Bad \in Values(spec.devices) \cup Values(spec.create_in)
                       \/ spec.site_specific = Bad
    THEN Bad ELSE raw

(* The name of a role's interface at a scope: the folder's variable, or    *)
(* the port of one firewall.  Bad where the code raises.                   *)
ResolveRole(cat, role, device) ==
    CASE role \notin DOMAIN cat -> Bad
      [] role \in DOMAIN cat /\ device = Absent -> cat[role].folder
      [] OTHER -> IF device \in DOMAIN cat[role].devices THEN cat[role].devices[device] ELSE Bad

(* A folder's variables, name -> default port.                             *)
FolderVariables(cat, f) ==
    LET roles == {r \in DOMAIN cat : f \in DOMAIN cat[r].create_in}
        of(name) == CHOOSE r \in roles : cat[r].folder = name
    IN  [name \in {cat[r].folder : r \in roles} |-> cat[of(name)].create_in[f]]

(* A folder's default port differs from the one mapped for a firewall.     *)
CreateInConflicts(cat, h) ==
    LET differ(r, f) == {s \in DOMAIN cat[r].devices \cap DevicesOf(h, f) :
                            cat[r].devices[s] # cat[r].create_in[f]}
    IN  {r \in DOMAIN cat : \E f \in DOMAIN cat[r].create_in : differ(r, f) # {}}

----
(* routers.yaml: scope -> router -> vrf -> its interfaces; and             *)
(* environments.yaml: name -> [folder, from_zone, to_zone, baseline, log]. *)

RouterCatalog(raw) ==
    IF raw = Bad \/ \E routers \in Values(raw) : \E vrfs \in Values(routers) :
                       DOMAIN vrfs = {} \/ Bad \in Values(vrfs)
    THEN Bad ELSE raw

InterfacesFor(cat, scope, router, vrf) ==
    IF scope \notin DOMAIN cat THEN Absent
    ELSE IF router \notin DOMAIN cat[scope] THEN Absent
    ELSE IF vrf \notin DOMAIN cat[scope][router] THEN Absent
    ELSE cat[scope][router][vrf]

EnvMap(raw) ==
    IF raw \in Unset THEN Bad
    ELSE IF DOMAIN raw = {} \/ \E env \in Values(raw) :
                                  \/ {env.folder, env.from_zone, env.to_zone} \cap Unset # {}
                                  \/ Bad \in env.baseline
    THEN Bad ELSE raw

ResolveEnv(envs, e) == IF e \in DOMAIN envs THEN envs[e] ELSE Bad

(* A folder's zones that pre-date GitOps, over every environment there.    *)
BaselineZones(envs, f) ==
    UNION {envs[e].baseline \cup {envs[e].from_zone, envs[e].to_zone} :
           e \in {e \in DOMAIN envs : envs[e].folder = f}}

(* All catalogs for the loaders, or Bad when one of the files is.          *)
LoadCatalogs(files) ==
    LET cats == [services     |-> Optional(files.services, ServiceCatalog(files.services)),
                 apps         |-> Optional(files.apps, AppCatalog(files.apps)),
                 profiles     |-> Optional(files.profiles, NameCatalog(files.profiles, {})),
                 applications |-> Optional(files.applications, NameCatalog(files.applications, {"any"})),
                 logs         |-> Optional(files.logs, NameCatalog(files.logs, {})),
                 routers      |-> Optional(files.routers, RouterCatalog(files.routers)),
                 management   |-> Optional(files.management, NameCatalog(files.management, {})),
                 protection   |-> Optional(files.protection, NameCatalog(files.protection, {})),
                 folders      |-> Optional(files.folders, FolderHierarchy(files.folders)),
                 interfaces   |-> Optional(files.interfaces, InterfaceCatalog(files.interfaces))]
    IN  IF \E k \in DOMAIN cats : cats[k] = Bad THEN Bad ELSE cats

----
(* verify-catalog: the declared hierarchy against SCM's own.  A live entry *)
(* is name -> [device, parent].                                            *)

DeclaredFolders(h) == DOMAIN h.children \cup UNION Values(h.children)

FolderFindings(h, live) ==
    {f \in DeclaredFolders(h) : \/ f \notin DOMAIN live /\ f \in h.targetable
                                \/ f \in DOMAIN live /\ live[f].device}

ParentFindings(h, live) ==
    {c \in DOMAIN live : /\ ~live[c].device
                         /\ \E f \in DOMAIN h.children : c \in h.children[f] /\ live[c].parent # f}

\* Slip: where SCM has the firewall is not compared.
PlacelessFindings(h, live) ==
    {s \in DOMAIN h.devices :
        \/ s \notin DOMAIN live /\ s \in h.targetableDevices
        \/ s \in DOMAIN live /\ ~live[s].device}

DeviceFindings(h, live) ==
    {s \in DOMAIN h.devices :
        \/ s \notin DOMAIN live /\ s \in h.targetableDevices
        \/ s \in DOMAIN live /\ (~live[s].device \/ live[s].parent # h.devices[s])}

StrangerFindings(h, live) ==
    {s \in DOMAIN live : live[s].device /\ live[s].parent \in DOMAIN h.children
                         /\ s \notin DOMAIN h.devices}

InterfaceFindings(cat, h, live) ==
    {s \in UNION {DOMAIN cat[r].devices : r \in DOMAIN cat} :
        s \notin DOMAIN live /\ s \in h.targetableDevices}

(* The findings that block; notes are left out.                            *)
CatalogFindings(cat, h, live) ==
    FolderFindings(h, live) \cup ParentFindings(h, live) \cup DeviceFindings(h, live)
        \cup StrangerFindings(h, live) \cup InterfaceFindings(cat, h, live)
====

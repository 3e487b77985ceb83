---------------------------- MODULE Provisioning ----------------------------
(***************************************************************************)
(* How a venture comes to be: POST /tenants (routes/tenants.rs, and        *)
(* Ledger::create_tenant), the carry-forward that is recorded once         *)
(* (routes/carry_forward.rs), and the gateway process itself: it stops,    *)
(* starts again, maybe as another release, and migrates every venture      *)
(* before it serves (main.rs, Ledger::migrate_all_tenants).                *)
(*                                                                         *)
(* The two databases of a request - the control database and the venture's *)
(* own - share no transaction.  As in Contributions, an action is one      *)
(* statement and what the handler does until its next await; an await that *)
(* nobody else can influence (the caller's user row, a connection) belongs *)
(* to the action after it.  A connection that is kept is as good as a new  *)
(* one, so which ones are kept makes no difference.  A statement that a    *)
(* dying process sent takes effect before the process is started again, or *)
(* never.                                                                  *)
(***************************************************************************)
EXTENDS Integers, FiniteSets

CONSTANTS
    Slugs,        \* slugs that TenantSlug::new accepts
    Typed,        \* what clients send as a slug
    People,       \* users; each has a row before it has a session
    Names,        \* display names
    Roles,        \* roles an invite may offer (a bound on the schema's three)
    Seeds,        \* carry-forwards that the gateway's own checks accept
    OnCalendar,   \* those among them whose dates the schema's pattern accepts
    Releases,     \* gateway releases, each with its own tenant schema
    MaxStops,     \* bound: how often the gateway process ends
    Requests,     \* requests that may be in flight at once (a bound)
    None          \* no value

ASSUME ProvisioningAssumption ==
    /\ Slugs \subseteq Typed
    /\ OnCalendar \subseteq Seeds
    /\ MaxStops \in Nat
    /\ None \notin Typed
    /\ None \notin People
    /\ None \notin Names
    /\ None \notin Seeds
    /\ None \notin Releases
    /\ None \notin Roles \cup {"owner"}
    /\ None \notin [by : People, name : Names]
    /\ None \notin [seed : Seeds, by : People]

VARIABLES
    directory,    \* tenant_directory: founder and name by slug, or None
    membership,   \* role by person and slug; None: no row
    schema,       \* the release whose schema a venture's database has, or None
    settings,     \* display_name in settings:current of a venture, or None
    seed,         \* carry_forward:current of a venture, or None
    gateway,      \* the gateway process
    stops,        \* how often it ended
    request       \* request[r]: what the handler of r holds

tables == <<directory, membership, schema, settings, seed>>
process == <<gateway, stops>>
provVars == <<tables, process, request>>

\* What a gateway process knows: its release, and the ventures it has yet to
\* migrate.
Gateway ==
    [pc : {"down", "control", "list", "migrate", "bucket", "serving"},
     release : Releases \cup {None}, todo : SUBSET Slugs]

Down == [pc |-> "down", release |-> None, todo |-> {}]

Quiet == [pc |-> "none", who |-> None, slug |-> None, name |-> None, seed |-> None, status |-> None]

\* Where create_tenant and set_carry_forward wait.
CreateWaits == {"directory", "schema", "settings", "register"}
SeedWaits == {"role", "look", "record"}

\* "ok", 409, another 4xx, and 5xx.
Statuses == {"ok", "conflict", "refused", "error"}

RequestState ==
    [pc : {"none", "answered"} \cup CreateWaits \cup SeedWaits,
     who : People \cup {None}, slug : Typed \cup {None}, name : Names \cup {None},
     seed : Seeds \cup {None}, status : Statuses \cup {None}]

Holds(r, held) == request' = [request EXCEPT ![r] = held]
Goes(r, pc) == Holds(r, [request[r] EXCEPT !.pc = pc])

\* What is left of a request is its answer, and which venture it is about.
Answer(h, status) == [Quiet EXCEPT !.pc = "answered", !.slug = h.slug, !.status = status]
Answers(r, status) == Holds(r, Answer(request[r], status))

Waiting(r) == request[r].pc \in CreateWaits \cup SeedWaits
At(r, pc) == gateway.pc = "serving" /\ request[r].pc = pc

-----------------------------------------------------------------------------

ProvInit ==
    /\ directory = [v \in Slugs |-> None]
    /\ membership = [p \in People |-> [v \in Slugs |-> None]]
    /\ schema = [v \in Slugs |-> None]
    /\ settings = [v \in Slugs |-> None]
    /\ seed = [v \in Slugs |-> None]
    /\ gateway = Down
    /\ stops = 0
    /\ request = [r \in Requests |-> Quiet]

(***************************************************************************)
(* The process                                                             *)
(***************************************************************************)

\* The service manager starts the process, of the release that is installed.
Start ==
    /\ gateway.pc = "down"
    /\ \E release \in Releases :
          gateway' = [Down EXCEPT !.pc = "control", !.release = release]
    /\ UNCHANGED <<tables, stops, request>>

\* Ledger::connect and apply_control_schema; every DEFINE overwrites.
ApplyControlSchema ==
    /\ gateway.pc = "control"
    /\ gateway' = [gateway EXCEPT !.pc = "list"]
    /\ UNCHANGED <<tables, stops, request>>

\* migrate_all_tenants: the slugs of the directory ...
ListVentures ==
    /\ gateway.pc = "list"
    /\ gateway' = [gateway EXCEPT !.pc = "migrate", !.todo = {v \in Slugs : directory[v] # None}]
    /\ UNCHANGED <<tables, stops, request>>

\* Variant for the checks: a venture whose schema fails is passed over.
MigrateOrSkip(slug) ==
    /\ gateway.pc = "migrate"
    /\ slug \in gateway.todo
    /\ gateway' = [gateway EXCEPT !.todo = @ \ {slug}]
    /\ schema' \in {schema, [schema EXCEPT ![slug] = gateway.release]}
    /\ UNCHANGED <<directory, membership, settings, seed, stops, request>>

\* Variant for the checks: a venture that has the schema is not touched.
MigrateIfNeeded(slug) ==
    /\ gateway.pc = "migrate"
    /\ slug \in gateway.todo
    /\ schema[slug] # gateway.release
    /\ gateway' = [gateway EXCEPT !.todo = @ \ {slug}]
    /\ schema' = [schema EXCEPT ![slug] = gateway.release]
    /\ UNCHANGED <<directory, membership, settings, seed, stops, request>>

\* ... and venture by venture the connection and the schema, over whatever
\* rows there are ...
Migrate(slug) ==
    /\ gateway.pc = "migrate"
    /\ slug \in gateway.todo
    /\ gateway' = [gateway EXCEPT !.todo = @ \ {slug}]
    /\ schema' = [schema EXCEPT ![slug] = gateway.release]
    /\ UNCHANGED <<directory, membership, settings, seed, stops, request>>

MigrationDone ==
    /\ gateway.pc = "migrate"
    /\ gateway.todo = {}
    /\ gateway' = [gateway EXCEPT !.pc = "bucket"]
    /\ UNCHANGED <<tables, stops, request>>

\* ... then ensure_bucket, and the gateway listens.
Listen ==
    /\ gateway.pc = "bucket"
    /\ gateway' = [gateway EXCEPT !.pc = "serving"]
    /\ UNCHANGED <<tables, stops, request>>

\* The process dies, or a step of its start returns an error out of main.  The
\* requests in flight die with it; their clients see a broken connection.
Stop ==
    /\ gateway.pc # "down"
    /\ stops < MaxStops
    /\ stops' = stops + 1
    /\ gateway' = Down
    /\ request' = [r \in Requests |->
          IF Waiting(r) THEN Answer(request[r], "error") ELSE request[r]]
    /\ UNCHANGED tables

(***************************************************************************)
(* POST /tenants                                                           *)
(***************************************************************************)

\* A session holder asks for a venture; TenantSlug::new looks at the slug, and
\* get_user_by_email finds the caller.
AskToCreate(r, p, slug, name) ==
    /\ ~Waiting(r)
    /\ LET asked == [Quiet EXCEPT !.who = p, !.slug = slug, !.name = name]
       IN  Holds(r, IF slug \in Slugs THEN [asked EXCEPT !.pc = "directory"]
                    ELSE Answer(asked, "refused"))
    /\ UNCHANGED <<tables, process>>

\* create_tenant looks for the slug in the directory ...
LookUpSlug(r) ==
    /\ At(r, "directory")
    /\ IF directory[request[r].slug] = None THEN Goes(r, "schema") ELSE Answers(r, "conflict")
    /\ UNCHANGED <<tables, process>>

\* ... connects to a namespace of that name and defines its tables ...
ApplySchema(r) ==
    /\ At(r, "schema")
    /\ schema' = [schema EXCEPT ![request[r].slug] = gateway.release]
    /\ Goes(r, "settings")
    /\ UNCHANGED <<directory, membership, settings, seed, process>>

\* Variant for the checks: the settings are written over what is there.
WritesSettingsOver(h) ==
    /\ settings' = [settings EXCEPT ![h.slug] = h.name]
    /\ UNCHANGED <<directory, membership, schema, seed>>

\* CREATE settings:current, which the database refuses when there is one.
CreatesSettings(h) ==
    /\ settings[h.slug] = None
    /\ settings' = [settings EXCEPT ![h.slug] = h.name]
    /\ UNCHANGED <<directory, membership, schema, seed>>

\* ... creates its settings ...
CreateSettings(r) ==
    /\ At(r, "settings")
    /\ CreatesSettings(request[r])
    /\ Goes(r, "register")
    /\ UNCHANGED process

\* ... unless the record is there already, whoever left it: a 500 ...
SettingsExist(r) ==
    /\ At(r, "settings")
    /\ settings[request[r].slug] # None
    /\ Answers(r, "error")
    /\ UNCHANGED <<tables, process>>

\* Variant for the checks: two statements with no transaction around them; the
\* second may be lost.
EntersLoosely(h) ==
    /\ directory[h.slug] = None
    /\ directory' = [directory EXCEPT ![h.slug] = [by |-> h.who, name |-> h.name]]
    /\ membership' \in {membership, [membership EXCEPT ![h.who][h.slug] = "owner"]}
    /\ UNCHANGED <<schema, settings, seed>>

\* The transaction on the control database, past its unique indexes.
Enters(h) ==
    /\ directory[h.slug] = None
    /\ membership[h.who][h.slug] = None
    /\ directory' = [directory EXCEPT ![h.slug] = [by |-> h.who, name |-> h.name]]
    /\ membership' = [membership EXCEPT ![h.who][h.slug] = "owner"]
    /\ UNCHANGED <<schema, settings, seed>>

\* ... and enters the venture and its owner in the control database.
Register(r) ==
    /\ At(r, "register")
    /\ Enters(request[r])
    /\ Answers(r, "ok")
    /\ UNCHANGED process

(***************************************************************************)
(* POST /tenants/{slug}/carry-forward                                      *)
(***************************************************************************)

\* The gateway's own checks of the dates and the amount are those of Seeds.
AskToSeed(r, p, slug, s) ==
    /\ ~Waiting(r)
    /\ Holds(r, [Quiet EXCEPT !.pc = "role", !.who = p, !.slug = slug, !.seed = s])
    /\ UNCHANGED <<tables, process>>

\* caller_role: owners only.
CheckOwner(r) ==
    /\ At(r, "role")
    /\ IF membership[request[r].who][request[r].slug] = "owner"
       THEN Goes(r, "look") ELSE Answers(r, "refused")
    /\ UNCHANGED <<tables, process>>

\* set_carry_forward looks ...
LookForSeed(r) ==
    /\ At(r, "look")
    /\ IF seed[request[r].slug] = None THEN Goes(r, "record") ELSE Answers(r, "conflict")
    /\ UNCHANGED <<tables, process>>

\* Variant for the checks: the look alone keeps a second seed out.
RecordsSeedOver(h) ==
    /\ h.seed \in OnCalendar
    /\ seed' = [seed EXCEPT ![h.slug] = [seed |-> h.seed, by |-> h.who]]
    /\ UNCHANGED <<directory, membership, schema, settings>>

\* CREATE carry_forward:current, past the schema's pattern for dates.
RecordsSeed(h) ==
    /\ seed[h.slug] = None
    /\ h.seed \in OnCalendar
    /\ seed' = [seed EXCEPT ![h.slug] = [seed |-> h.seed, by |-> h.who]]
    /\ UNCHANGED <<directory, membership, schema, settings>>

\* ... and creates the one record ...
RecordSeed(r) ==
    /\ At(r, "record")
    /\ RecordsSeed(request[r])
    /\ Answers(r, "ok")
    /\ UNCHANGED process

\* ... unless it is there by now, a 409, or its dates are on no calendar, a 500.
SeedRefused(r) ==
    /\ At(r, "record")
    /\ \/ seed[request[r].slug] # None /\ Answers(r, "conflict")
       \/ request[r].seed \notin OnCalendar /\ Answers(r, "error")
    /\ UNCHANGED <<tables, process>>

(***************************************************************************)
(* Everybody else                                                          *)
(***************************************************************************)

\* A statement fails: a 500; or nobody listens.
Fail(r) ==
    /\ Waiting(r)
    /\ Answers(r, "error")
    /\ UNCHANGED <<tables, process>>

\* The statement takes effect, and the connection fails before its answer is
\* back: a 500 all the same.
FailUnacknowledged(r) ==
    /\ \/ At(r, "settings") /\ CreatesSettings(request[r])
       \/ At(r, "register") /\ Enters(request[r])
       \/ At(r, "record") /\ RecordsSeed(request[r])
    /\ Answers(r, "error")
    /\ UNCHANGED process

\* accept_pending_invites: an invite of an existing venture gives its role, also
\* to someone who had another.
Join(p, slug, role) ==
    /\ gateway.pc = "serving"
    /\ directory[slug] # None
    /\ membership[p][slug] # role
    /\ membership' = [membership EXCEPT ![p][slug] = role]
    /\ UNCHANGED <<directory, schema, settings, seed, process, request>>

\* patch_settings renames a venture in its own database alone.
Rename(p, slug, name) ==
    /\ gateway.pc = "serving"
    /\ membership[p][slug] = "owner"
    /\ settings[slug] \notin {None, name}
    /\ settings' = [settings EXCEPT ![slug] = name]
    /\ UNCHANGED <<directory, membership, schema, seed, process, request>>

StartStep ==
    \/ Start
    \/ ApplyControlSchema
    \/ ListVentures
    \/ \E slug \in Slugs : Migrate(slug)
    \/ MigrationDone
    \/ Listen

RequestStep(r) ==
    \/ LookUpSlug(r)
    \/ ApplySchema(r)
    \/ CreateSettings(r)
    \/ SettingsExist(r)
    \/ Register(r)
    \/ CheckOwner(r)
    \/ LookForSeed(r)
    \/ RecordSeed(r)
    \/ SeedRefused(r)

ServerStep ==
    \/ StartStep
    \/ Stop
    \/ \E r \in Requests : RequestStep(r) \/ Fail(r) \/ FailUnacknowledged(r)
    \/ \E p \in People, slug \in Slugs :
          \/ \E role \in Roles : Join(p, slug, role)
          \/ \E name \in Names : Rename(p, slug, name)

-----------------------------------------------------------------------------
(***************************************************************************)
(* Properties                                                              *)
(***************************************************************************)

\* Every variable has its type.
ProvTypeOK ==
    /\ directory \in [Slugs -> [by : People, name : Names] \cup {None}]
    /\ membership \in [People -> [Slugs -> Roles \cup {"owner", None}]]
    /\ schema \in [Slugs -> Releases \cup {None}]
    /\ settings \in [Slugs -> Names \cup {None}]
    /\ seed \in [Slugs -> [seed : Seeds, by : People] \cup {None}]
    /\ gateway \in Gateway
    /\ stops \in 0..MaxStops
    /\ request \in [Requests -> RequestState]

\* A venture that is listed is complete, although its parts live in two
\* databases and the process may die between any two statements: its schema and
\* settings are there, and someone is in it; and nobody is in a venture, and no
\* money is recorded for one, that is not listed.
ListedMeansComplete ==
    \A v \in Slugs :
        /\ directory[v] # None =>
              schema[v] # None /\ settings[v] # None /\ membership[directory[v].by][v] # None
        /\ seed[v] # None => directory[v] # None
        /\ \A p \in People : membership[p][v] # None => directory[v] # None

\* Of all who ask for a slug at once at most one gets past the settings: he
\* finds there what he asked for, and the slug free in the directory, however
\* long ago he looked.
OneRegistrar ==
    \A r \in Requests : request[r].pc = "register" =>
        /\ settings[request[r].slug] = request[r].name
        /\ directory[request[r].slug] = None
        /\ \A q \in Requests \ {r} :
              request[q].pc = "register" => request[q].slug # request[r].slug

\* "existing tenants pick up new tables" (migrate_all_tenants): whenever the
\* gateway serves, every venture has the schema of the release that serves it,
\* whatever crashed in the middle of which migration or creation before.
ServingMeansMigrated ==
    gateway.pc = "serving" =>
        \A v \in Slugs : directory[v] # None => schema[v] = gateway.release

\* The tables behind the requests are the registry.
TheRegistry == INSTANCE Registry WITH
    Lots <- Slugs,
    Folk <- People,
    Sums <- Seeds,
    Nobody <- None,
    founder <- [v \in Slugs |-> IF directory[v] = None THEN None ELSE directory[v].by],
    roster <- [v \in Slugs |-> {p \in People : membership[p][v] # None}],
    savings <- seed

\* Concurrent, failing, crashing and repeated requests add up to what the
\* registry promises: one founder per slug, who is in it from the same moment;
\* nobody is removed; the carry-forward is recorded once, by one of them.
KeepsTheRegistry == TheRegistry!RegistrySpec

\* The gateway comes back: wherever its start is broken off, it starts again,
\* and finishes, as long as it is not stopped for ever.
ComesBack == gateway.pc # "serving" ~> gateway.pc = "serving"
=============================================================================

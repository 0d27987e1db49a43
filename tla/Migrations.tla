------------------------------ MODULE Migrations ------------------------------
(***************************************************************************)
(* The database schema as the chain of revisions builds it, and the        *)
(* containers that upgrade it before they serve.                           *)
(*                                                                         *)
(* A container's command is "alembic upgrade head && uvicorn": one         *)
(* transaction over all missing revisions of its image, then the service.  *)
(* Nothing keeps two containers from upgrading at once.                    *)
(*                                                                         *)
(* A table's indexes come and go with it and are left out, as are columns  *)
(* that no later revision touches.                                         *)
(***************************************************************************)
EXTENDS Naturals, Sequences, SequencesExt

CONSTANTS
  Containers,
  Releases      \* images in use, each by the newest revision it ships

VARIABLES
  revision,     \* alembic_version, 0 for an empty database
  schema,       \* tables, enum types, and columns that revisions touch
  container     \* what each container does, its image, the revision it read

migrationsVars == <<revision, schema, container>>

(***************************************************************************)
(* The revisions                                                           *)
(***************************************************************************)

\* Tables in the order of their creation, the enum types that the downgrade
\* drops, the columns that are replaced or added.
Creating(tables, enums) == [tables |-> tables, enums |-> enums, gone |-> {}, new |-> {}]
Replacing(gone, new) == [tables |-> <<>>, enums |-> {}, gone |-> gone, new |-> new]

Foundation ==
  Creating(<<"organizations", "projects", "assets">>,
           {"organization_status", "project_status", "asset_type", "asset_environment",
            "asset_criticality", "asset_status", "verification_method"})
AssetVerifications ==
  Creating(<<"asset_verification_challenges">>, {"challenge_method", "challenge_status"})
AuthorizationTables ==
  Creating(<<"authorizations", "authorization_scopes">>, {"authorization_status", "risk_tier"})
EngagementTables == Creating(<<"engagements", "engagement_scopes">>, {"engagement_status"})
ValidationExecutions ==
  Creating(<<"validation_executions", "validation_step_results">>,
           {"execution_status", "execution_outcome", "step_status"})
PortsAsJson == Replacing({"allowed_ports as text"}, {"allowed_ports as json"})
WorkerCredentials == Creating(<<"validation_worker_credentials">>, {})
AuditEvents == Creating(<<"audit_events">>, {})
UsersAuth == Creating(<<"users">>, {})
TokenVersion == Replacing({}, {"token_version"})

Chain ==
  <<Foundation, AssetVerifications, AuthorizationTables, EngagementTables,
    ValidationExecutions, PortsAsJson, WorkerCredentials, AuditEvents, UsersAuth,
    TokenVersion>>

ASSUME ReleasesAssumption == Releases \subseteq 1..Len(Chain)

\* The enum types of a table's columns.
Uses(t) ==
  CASE t = "organizations" -> {"organization_status"}
    [] t = "projects" -> {"project_status"}
    [] t = "assets" -> {"asset_type", "asset_environment", "asset_criticality",
                        "asset_status", "verification_method"}
    [] t = "asset_verification_challenges" -> {"challenge_method", "challenge_status"}
    [] t = "authorizations" -> {"authorization_status", "risk_tier"}
    [] t = "engagements" -> {"engagement_status", "risk_tier"}
    [] t = "validation_executions" -> {"execution_status", "execution_outcome", "risk_tier"}
    [] t = "validation_step_results" -> {"step_status"}
    [] OTHER -> {}

\* The tables its foreign keys name.
Refers(t) ==
  CASE t \in {"organizations", "users"} -> {}
    [] t \in {"projects", "audit_events"} -> {"organizations"}
    [] t = "assets" -> {"organizations", "projects"}
    [] t = "asset_verification_challenges" -> {"organizations", "projects", "assets"}
    [] t = "authorizations" -> {"organizations", "projects"}
    [] t = "authorization_scopes" -> {"organizations", "authorizations", "assets"}
    [] t = "engagements" -> {"organizations", "projects", "authorizations"}
    [] t = "engagement_scopes" ->
         {"organizations", "engagements", "assets", "authorization_scopes"}
    [] t = "validation_executions" ->
         {"organizations", "projects", "assets", "authorizations",
          "authorization_scopes", "engagements", "engagement_scopes"}
    [] t \in {"validation_step_results", "validation_worker_credentials"} ->
         {"organizations", "validation_executions"}

\* Columns a table is created with that a later revision touches.
Columns(t) == IF t = "authorization_scopes" THEN {"allowed_ports as text"} ELSE {}

(***************************************************************************)
(* Running them: a state is a schema, the types this command has met and   *)
(* whether every statement so far was accepted                             *)
(***************************************************************************)

Start(db) == [tables |-> db.tables, types |-> db.types, columns |-> db.columns,
              met |-> {}, ok |-> TRUE]
Result(s) == [tables |-> s.tables, types |-> s.types, columns |-> s.columns]

Using(tables) == UNION {Uses(t) : t \in tables}
Holding(tables) == UNION {Columns(t) : t \in tables}

\* Each table is created after those before it. A type is created with the
\* first table of a command that uses it, without a look at the database.
Creates(s, r) ==
  \A i \in DOMAIN r.tables :
    LET t == r.tables[i]
        before == {r.tables[j] : j \in 1..(i - 1)}
    IN  /\ t \notin s.tables \cup before /\ Refers(t) \subseteq s.tables \cup before
        /\ (Uses(t) \ (s.met \cup Using(before))) \cap s.types = {}

Up(s, r) ==
  LET tables == Range(r.tables)
      columns == s.columns \cup Holding(tables)
  IN  [tables |-> s.tables \cup tables, types |-> s.types \cup Using(tables),
       columns |-> (columns \ r.gone) \cup r.new, met |-> s.met \cup Using(tables),
       ok |-> s.ok /\ Creates(s, r) /\ r.gone \subseteq columns /\ r.new \cap columns = {}]

\* Each table is dropped after those behind it, while no other refers to it.
Drops(s, r) ==
  \A i \in DOMAIN r.tables :
    LET behind == {r.tables[j] : j \in i..Len(r.tables)}
    IN  r.tables[i] \in s.tables /\ \A x \in s.tables \ behind : r.tables[i] \notin Refers(x)

\* Broken: the enum types are left behind.
DropTypesBroken(types, enums) == types
DropTypes(types, enums) == types \ enums

\* The types go last, while no table uses them.
Down(s, r) ==
  LET tables == Range(r.tables) IN
  [tables |-> s.tables \ tables, types |-> DropTypes(s.types, r.enums),
   columns |-> ((s.columns \ r.new) \cup r.gone) \ Holding(tables), met |-> s.met,
   ok |-> /\ s.ok /\ r.new \subseteq s.columns /\ r.gone \cap s.columns = {}
          /\ Drops(s, r)
          /\ r.enums \subseteq s.types /\ Using(s.tables \ tables) \cap r.enums = {}]

\* The states a command passes, one for each revision.
Ups(db, from, to) ==
  LET at[n \in from..to] == IF n = from THEN Start(db) ELSE Up(at[n - 1], Chain[n]) IN at
Downs(db, from, to) ==
  LET at[n \in to..from] == IF n = from THEN Start(db) ELSE Down(at[n + 1], Chain[n + 1]) IN at

Upgraded(db, from, to) == Ups(db, from, to)[to]
Downgraded(db, from, to) == Downs(db, from, to)[to]

(***************************************************************************)
(* Containers and operators                                                *)
(***************************************************************************)

Off == [phase |-> "off", image |-> 0, read |-> 0]

MigrationsInit ==
  /\ revision = 0
  /\ schema = [tables |-> {}, types |-> {}, columns |-> {}]
  /\ container = [c \in Containers |-> Off]

Becomes(c, phase, image) ==
  container' = [container EXCEPT ![c] = [phase |-> phase, image |-> image, read |-> revision]]

\* Reads the version; one that the image does not know ends the container.
BootContainer(c, image) ==
  /\ container[c] = Off /\ revision <= image
  /\ Becomes(c, "upgrading", image)
  /\ UNCHANGED <<revision, schema>>

\* Broken: the service starts although the upgrade failed.
AfterFailureBroken == "serving"
AfterFailure == "off"

\* Every statement is accepted and the version is still the one that was read.
Migrate(c) ==
  LET k == container[c] up == Upgraded(schema, k.read, k.image) IN
  /\ k.phase = "upgrading"
  /\ IF up.ok /\ revision = k.read
     THEN /\ revision' = k.image /\ schema' = Result(up)
          /\ container' = [container EXCEPT ![c] = [k EXCEPT !.phase = "serving", !.read = 0]]
     ELSE /\ container' = [container EXCEPT ![c] =
                             IF AfterFailure = "off" THEN Off
                             ELSE [k EXCEPT !.phase = AfterFailure, !.read = 0]]
          /\ UNCHANGED <<revision, schema>>

StopContainer(c) ==
  /\ container[c] # Off
  /\ container' = [container EXCEPT ![c] = Off]
  /\ UNCHANGED <<revision, schema>>

\* The operator takes the service down first.
Downgrade(to) ==
  LET down == Downgraded(schema, revision, to) IN
  /\ to < revision /\ \A c \in Containers : container[c] = Off
  /\ down.ok
  /\ revision' = to /\ schema' = Result(down)
  /\ UNCHANGED container

MigrationsNext ==
  \/ \E c \in Containers : Migrate(c) \/ StopContainer(c)
  \/ \E c \in Containers, r \in Releases : BootContainer(c, r)
  \/ \E to \in 0..(Len(Chain) - 1) : Downgrade(to)

MigrationsSpec == MigrationsInit /\ [][MigrationsNext]_migrationsVars

-----------------------------------------------------------------------------

\* What the first n revisions say is there.
Declared(n) ==
  [tables |-> UNION {Range(Chain[i].tables) : i \in 1..n},
   types |-> UNION {Chain[i].enums : i \in 1..n},
   columns |-> (IF n \in 3..5 THEN {"allowed_ports as text"} ELSE {})
     \cup (IF n >= 6 THEN {"allowed_ports as json"} ELSE {})
     \cup (IF n >= 10 THEN {"token_version"} ELSE {})]

\* From where to where, and whether every statement is accepted.
Changes ==
  {<<n, to, IF to < n THEN Downgraded(Declared(n), n, to).ok
            ELSE Upgraded(Declared(n), n, to).ok>> : n, to \in 0..Len(Chain)}

\* Whatever was upgraded, rolled back, downgraded and upgraded again, the
\* schema is the one its revision declares, and every other revision can be
\* reached from it - except that no upgrade works from the two revisions before
\* which, and after which, risk_tier is declared.
SchemaFollowsRevision ==
  /\ schema = Declared(revision)
  /\ \A to \in 0..Len(Chain) :
       to < revision \/ revision \notin {3, 4} => <<revision, to, TRUE>> \in Changes

\* However many containers start at once, and whichever image they run, one
\* that serves has at least the schema of its image.
ServesItsSchema ==
  \A c \in Containers :
    container[c].phase = "serving" => container[c].image <= revision

=============================================================================

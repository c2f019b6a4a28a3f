------------------------------ MODULE Startup ------------------------------
(***************************************************************************)
(* How the process gets from its environment to serving, or exits          *)
(* (main and the configuration of src/src/main.rs, src/src/private_ingress *)
(* .rs, and AccountDatabase::open of src/src/account_management.rs).       *)
(*                                                                         *)
(* An environment gives each variable a setting, a record with a form:      *)
(* is "unset", "blank", "not_unicode", "malformed" (text that does not     *)
(* parse) or "text".  The value of a number is the number, that of a list  *)
(* of names its length, that of an address [loopback, port], that of a     *)
(* path the file found there, [kind, private, content], and that of the    *)
(* cache origins a set of [form, host].  The file of the account database  *)
(* outlives the process and has a variable of its own.                     *)
(*                                                                         *)
(* The environment does not change while the process reads it, except for  *)
(* the database, which another instance of the program may be opening too. *)
(***************************************************************************)
EXTENDS ProxyRequest

CONSTANTS
    Environments,        \* the environments operators start the process in
    Databases,           \* what may be at the database path at first
    UsizeMax,            \* usize::MAX and u64::MAX
    CounterMax,          \* i64::MAX, the range of the database's counters
    DefaultConnections, DefaultCachedAccounts,
    LeasesPerConnection, \* bridge identity leases per client connection
    MAX_CONNECTION_TASKS,
    CACHE_DEFAULT_MAX_TTL, CACHE_ABSOLUTE_MAX_TTL,
    DefaultDrain, DefaultForceStop,
    MAX_BRIDGE_TASK_SHUTDOWN_SECONDS, SHUTDOWN_GRACE_MARGIN_SECONDS,
    SCHEMA_VERSION

\* What may be found at a path; schema is the version of the tables in it.
FileKinds == {"absent", "file", "symlink", "directory"}
Files == [kind : FileKinds, private : BOOLEAN, schema : Nat]

ASSUME StartupAssumption ==
    /\ {UsizeMax, CounterMax, LeasesPerConnection, SCHEMA_VERSION, SHUTDOWN_GRACE_MARGIN_SECONDS}
           \subseteq Nat \ {0}
    /\ {DefaultConnections, DefaultCachedAccounts, MAX_CONNECTION_TASKS} \subseteq 1 .. UsizeMax
    /\ CACHE_DEFAULT_MAX_TTL \in 1 .. CACHE_ABSOLUTE_MAX_TTL
    /\ {DefaultDrain, DefaultForceStop} \subseteq 1 .. MAX_BRIDGE_TASK_SHUTDOWN_SECONDS
    /\ MAX_BRIDGE_TASK_SHUTDOWN_SECONDS \in Nat /\ CACHE_ABSOLUTE_MAX_TTL \in Nat
    /\ Databases \subseteq Files

VARIABLES
    process,     \* [pc, listener]: where main is, and the bridge's public listener
    environment, \* what the process was started in
    database,    \* [kind, private, schema] of the file at the database path
    config       \* what main has configured

startVars == <<process, environment, database, config>>

Down == [pc |-> "down", listener |-> "none"]
NoEnvironment == <<>>

\* secured is a history variable: the operator gave a production-only setting.
NoConfig ==
    [production |-> FALSE, loopback |-> TRUE, secured |-> FALSE, connections |-> 0, accounts |-> 0,
     leases |-> 0, budgets |-> 0, origins |-> {}, ttl |-> 0, shutdown |-> 0, grace |-> 0]

StartInit ==
    /\ process = Down /\ environment = NoEnvironment /\ config = NoConfig
    /\ database \in Databases

-----------------------------------------------------------------------------
(***************************************************************************)
(* Reading settings.  A reader that fails returns the empty set.           *)
(***************************************************************************)
RequiredSettings ==
    {"server_names", "server_cert", "server_key", "client_ca", "account_database",
     "api_key_hash_key_file"}
DurationSettings == {"tls_handshake", "first_request", "trust_overlap", "usage_period"}
CountSettings == {"max_handshakes", "max_connections", "max_cached_accounts"}
ProductionOnly == RequiredSettings \cup DurationSettings \cup CountSettings

\* optional_value takes a blank for an unset variable.
optional_value(setting) == setting.form \notin {"unset", "blank"}

usize_value(setting, default) ==
    IF ~optional_value(setting) THEN {default}
    ELSE {n \in 1 .. UsizeMax : setting.form = "text" /\ setting.value = n}

\* The defaults of the durations are positive numbers of seconds.
duration_value(setting) == usize_value(setting, 1) # {}

DeploymentMode(env) ==
    IF ~optional_value(env.mode) THEN {"development"}
    ELSE {mode \in {"development", "production"} : env.mode.form = "text" /\ env.mode.value = mode}

\* A value that is not Unicode fails even where the variable must be absent.
DevelopmentSettings(env) ==
    /\ \A name \in ProductionOnly : ~optional_value(env[name])
    /\ optional_value(env.listen_addr) =>
           env.listen_addr.form = "text" /\ env.listen_addr.value.loopback

validate(env) == env.listen_addr.value.port # 0 /\ env.server_names.value # 0

ProductionSettings(env) ==
    /\ env.listen_addr.form = "text"
    /\ \A name \in RequiredSettings : env[name].form = "text"
    /\ \A name \in DurationSettings : duration_value(env[name])
    /\ \A name \in CountSettings : usize_value(env[name], 1) # {}
    /\ validate(env)

from_lookup(env) ==
    {mode \in DeploymentMode(env) :
        IF mode = "development" THEN DevelopmentSettings(env) ELSE ProductionSettings(env)}

\* SingleTierPolicy: required in production, where a blank does not parse, and
\* refused in development, where even a blank is refused.
SingleTierPolicy(env, mode) ==
    IF mode = "development"
    THEN env.period_byte_limit.form = "unset"
    ELSE env.period_byte_limit.form = "text" /\ env.period_byte_limit.value \in 1 .. CounterMax

-----------------------------------------------------------------------------
(***************************************************************************)
(* Files.  Secrets must be regular files that only their owner can use;    *)
(* certificates are opened through links too.                              *)
(***************************************************************************)
PrivateFile(file) == file.kind = "file" /\ file.private

open_material(file) == file.kind \in {"file", "symlink"}
load_certificates(file) ==
    IF open_material(file) /\ file.content # "garbage" THEN {file.content} ELSE {}
load_one_private_key(file) == PrivateFile(file) /\ file.content = "one_key"
load_client_roots(file) == load_certificates(file) = {"certificates"}

\* The last step compares the key with the certificate.
load_server_config(env) ==
    /\ load_certificates(env.server_cert.value) \notin {{}, {"empty"}}
    /\ load_one_private_key(env.server_key.value)
    /\ load_client_roots(env.client_ca.value)
    /\ env.server_cert.value.content = "certificates"

ApiKeyHasher(file) == PrivateFile(file) /\ file.content = "32_bytes"

-----------------------------------------------------------------------------
(***************************************************************************)
(* CachePolicy and BridgeTaskDrainConfig.                                  *)
(***************************************************************************)
canonical_configured_http_origin(origin) ==
    IF /\ origin.form = "http_authority"
       /\ origin.host.class \notin {"malformed", "empty"} /\ 0 \notin origin.host.port
       /\ cache_origin_host_allowed(origin.host)
    THEN {format_canonical_origin("http", normalized_authority(origin.host, "http"))}
    ELSE {}

CacheOrigins(env) ==
    IF env.cache_origins.form = "text"
    THEN {canonical_configured_http_origin(origin) : origin \in env.cache_origins.value}
    ELSE {}

\* A blank TTL does not parse; blank origins are none.
CachePolicyAccepts(env, production) ==
    /\ env.cache_origins.form # "not_unicode" /\ {} \notin CacheOrigins(env)
    /\ production => CacheOrigins(env) # {}
    /\ \/ env.cache_ttl.form = "unset"
       \/ env.cache_ttl.form = "text" /\ env.cache_ttl.value \in 1 .. CACHE_ABSOLUTE_MAX_TTL

shutdown_seconds_from_environment(setting, default) ==
    IF setting.form = "unset" THEN {default}
    ELSE {n \in 1 .. MAX_BRIDGE_TASK_SHUTDOWN_SECONDS : setting.form = "text" /\ setting.value = n}

ShutdownBudget(env) ==
    {drain + force : drain \in shutdown_seconds_from_environment(env.drain, DefaultDrain),
                     force \in shutdown_seconds_from_environment(env.force_stop, DefaultForceStop)}

pingora_grace_period_seconds(budget) == budget + SHUTDOWN_GRACE_MARGIN_SECONDS

\* Mutant: the product wraps around.
checked_mulMutant(m, n) == {(m * n) % (UsizeMax + 1)}

checked_mul(m, n) == {product \in {m * n} : product <= UsizeMax}

\* configured_public_ingress and the two policies, as main keeps them.
Capacities(env) ==
    UNION {
        {[connections |-> connections, accounts |-> accounts, leases |-> leases, budgets |-> budgets] :
            leases \in checked_mul(connections, LeasesPerConnection),
            budgets \in checked_mul(accounts, 2) \ {0}} :
        connections \in usize_value(env.max_connections, DefaultConnections),
        accounts \in usize_value(env.max_cached_accounts, DefaultCachedAccounts)}

ConfigOf(env, production, budget, capacity) ==
    [NoConfig EXCEPT
        !.production = production,
        !.loopback = optional_value(env.listen_addr) => env.listen_addr.value.loopback,
        !.secured = \E name \in ProductionOnly : optional_value(env[name]),
        !.connections = capacity.connections, !.accounts = capacity.accounts,
        !.leases = capacity.leases, !.budgets = capacity.budgets, !.origins = UNION CacheOrigins(env),
        !.ttl = IF env.cache_ttl.form = "unset" THEN CACHE_DEFAULT_MAX_TTL ELSE env.cache_ttl.value,
        !.shutdown = budget, !.grace = pingora_grace_period_seconds(budget)]

Configured(env, production) ==
    {ConfigOf(env, production, budget, capacity) :
        budget \in ShutdownBudget(env),
        capacity \in IF production
                     THEN Capacities(env)
                     ELSE {[connections |-> MAX_CONNECTION_TASKS, accounts |-> 0, leases |-> 0,
                            budgets |-> 0]}}

-----------------------------------------------------------------------------
(***************************************************************************)
(* main.  Every failure before run_forever ends the process.               *)
(***************************************************************************)
At(pc) == process.pc = pc
Goto(pc) == process' = [process EXCEPT !.pc = pc] /\ UNCHANGED <<environment, config>>
Exit == process' = Down /\ environment' = NoEnvironment /\ config' = NoConfig

Boot ==
    /\ At("down")
    /\ process' = [Down EXCEPT !.pc = "ingress"]
    /\ environment' \in Environments
    /\ UNCHANGED <<database, config>>

\* configured_public_ingress up to the account database.
IngressAccepted(mode) ==
    /\ mode \in from_lookup(environment) /\ SingleTierPolicy(environment, mode)
    /\ mode = "production" => /\ load_server_config(environment)
                              /\ ApiKeyHasher(environment.api_key_hash_key_file.value)

ReadIngress ==
    /\ At("ingress")
    /\ CASE IngressAccepted("development") -> Goto("policies")
         [] IngressAccepted("production") -> Goto("database")
         [] OTHER -> Exit
    /\ UNCHANGED database

\* prepare_database_file: a look at the path, then, if nothing was there, the
\* creation of a new private file, which fails if one has appeared meanwhile.
InspectDatabase ==
    /\ At("database")
    /\ IF database.kind = "absent" THEN Goto("create")
       ELSE IF PrivateFile(database) THEN Goto("open") ELSE Exit
    /\ UNCHANGED database

\* Mutant: create and truncate instead of create_new.
CreateDatabaseMutant ==
    /\ At("create")
    /\ database' = [kind |-> "file", private |-> TRUE, schema |-> 0] /\ Goto("open")

CreateDatabase ==
    /\ At("create")
    /\ IF database.kind = "absent"
       THEN database' = [kind |-> "file", private |-> TRUE, schema |-> 0] /\ Goto("open")
       ELSE UNCHANGED database /\ Exit

\* migrate_schema reads the version before its transaction begins.
ReadVersion ==
    /\ At("open")
    /\ CASE database.schema = SCHEMA_VERSION -> Goto("capacities")
         [] database.schema = 0 -> Goto("migrate")
         [] OTHER -> Exit
    /\ UNCHANGED database

\* The transaction creates tables that must not exist yet.
Migrate ==
    /\ At("migrate")
    /\ IF database.schema = 0
       THEN database' = [database EXCEPT !.schema = SCHEMA_VERSION] /\ Goto("capacities")
       ELSE UNCHANGED database /\ Exit

\* Opening, configuring or writing the file fails; an open transaction is rolled back.
DatabaseFails ==
    /\ process.pc \in {"create", "open", "migrate"}
    /\ Exit /\ UNCHANGED database

\* Another instance of the program starts on the same database.
OtherInstance ==
    /\ process.pc \in {"database", "create", "open", "migrate"}
    /\ \/ /\ database.kind = "absent"
          /\ database' = [kind |-> "file", private |-> TRUE, schema |-> 0]
       \/ /\ PrivateFile(database) /\ database.schema = 0
          /\ database' = [database EXCEPT !.schema = SCHEMA_VERSION]
    /\ UNCHANGED <<process, environment, config>>

\* The multiplications of the capacities come after the database was opened; the
\* key of the isolation hasher may then fail for want of randomness.
CheckCapacities ==
    /\ At("capacities")
    /\ Exit \/ (Capacities(environment) # {} /\ Goto("policies"))
    /\ UNCHANGED database

ReadPolicies ==
    /\ At("policies")
    /\ LET production == DeploymentMode(environment) = {"production"}
           configured == Configured(environment, production)
       IN  IF CachePolicyAccepts(environment, production) /\ configured # {}
           THEN /\ config' \in configured
                /\ process' = [process EXCEPT !.pc = "bootstrap"]
                /\ environment' = NoEnvironment
           ELSE Exit
    /\ UNCHANGED database

\* TorCircuit::bootstrap may fail; afterwards the bridge runs beside main.
Bootstrap ==
    /\ At("bootstrap")
    /\ Goto("pingora") \/ Exit
    /\ UNCHANGED database

\* run_bridge binds its listeners, or ends and leaves the process without them.
BridgeListens ==
    /\ process.pc \in {"pingora", "serving"} /\ process.listener = "none"
    /\ \E listener \in {"open", "failed"} : process' = [process EXCEPT !.listener = listener]
    /\ UNCHANGED <<environment, database, config>>

PingoraListens == At("pingora") /\ Goto("serving") /\ UNCHANGED database

StartNext ==
    \/ Boot \/ ReadIngress
    \/ InspectDatabase \/ CreateDatabase \/ ReadVersion \/ Migrate \/ DatabaseFails \/ OtherInstance
    \/ CheckCapacities \/ ReadPolicies \/ Bootstrap \/ BridgeListens \/ PingoraListens

-----------------------------------------------------------------------------
\* Capacities derived from settings neither wrap around nor undercut what depends on
\* them: every client connection finds room for a lease, every cached account for the
\* budgets of two periods, and Pingora waits longer than the bridge takes to drain and force-stop.
CapacitiesFit ==
    At("serving") =>
        /\ config.connections > 0 /\ config.grace > config.shutdown /\ config.shutdown >= 2
        /\ config.production =>
               config.leases >= config.connections /\ config.budgets >= 2 * config.accounts

\* However starts fail, are killed or overlap, the account database only ever comes
\* into being as a private file and gets its tables once: a schema in place, of this
\* or another version, is never touched, and production serves only a current one.
DatabaseIntact ==
    /\ [](At("serving") /\ config.production =>
              PrivateFile(database) /\ database.schema = SCHEMA_VERSION)
    /\ [][\/ database.kind = "absent" /\ PrivateFile(database') /\ database'.schema = 0
          \/ /\ PrivateFile(database) /\ database.schema = 0
             /\ database' = [database EXCEPT !.schema = SCHEMA_VERSION]]_database

=============================================================================

--------------------------- MODULE StartupProofs ---------------------------
(***************************************************************************)
(* What main guarantees by the time it serves, for every environment and   *)
(* every file at the database path.  Settings are read several steps       *)
(* before they are used and checked several steps after: StartInv records, *)
(* for every point main may be at, what the checks before it established   *)
(* about the environment, which stays what it was, and about the database, *)
(* which another instance may be opening at the same time.                 *)
(***************************************************************************)
EXTENDS Service, TLAPS

Points ==
    {"down", "ingress", "database", "create", "open", "migrate", "capacities", "policies",
     "bootstrap", "pingora", "serving"}

DatabaseReady == PrivateFile(database) /\ database.schema = SCHEMA_VERSION

\* What the checks of the environment leave of a configuration.
ConfigChecked(c) ==
    /\ c.production \in BOOLEAN
    /\ ~c.production => c.loopback /\ ~c.secured
    /\ c.connections \in Nat \ {0} /\ c.accounts \in Nat
    /\ c.leases \in Nat /\ c.budgets \in Nat
    /\ c.ttl \in 1 .. CACHE_ABSOLUTE_MAX_TTL
    /\ c.shutdown \in Nat /\ c.shutdown >= 2
    /\ c.grace = c.shutdown + SHUTDOWN_GRACE_MARGIN_SECONDS
    /\ c.production => c.leases >= c.connections /\ c.budgets >= 2 * c.accounts

\* What holds at each point of main.
ProcessTyped == process \in [pc : Points, listener : {"none", "open", "failed"}]

SettingsAccepted ==
    /\ process.pc \in {"database", "create", "open", "migrate", "capacities"} =>
           IngressAccepted("production")
    /\ At("policies") => \/ IngressAccepted("development")
                         \/ IngressAccepted("production") /\ DatabaseReady

DatabaseFollowed ==
    /\ database \in Files
    /\ process.pc \in {"open", "migrate", "capacities"} => PrivateFile(database)
    /\ At("capacities") => DatabaseReady

ConfigFollowed ==
    process.pc \in {"bootstrap", "pingora", "serving"} =>
        ConfigChecked(config) /\ (config.production => DatabaseReady)

StartInv == ProcessTyped /\ SettingsAccepted /\ DatabaseFollowed /\ ConfigFollowed

-----------------------------------------------------------------------------
(***************************************************************************)
(* The settings.                                                           *)
(***************************************************************************)
\* The two modes exclude each other.
LEMMA OneMode ==
    ASSUME NEW env
    PROVE  /\ "development" \in DeploymentMode(env) => DeploymentMode(env) = {"development"}
           /\ "production" \in DeploymentMode(env) => DeploymentMode(env) = {"production"}
BY DEF DeploymentMode

\* A product that was checked is exact.
LEMMA ProductsAreExact ==
    ASSUME NEW m \in Nat \ {0}, NEW n \in Nat \ {0}, NEW product \in checked_mul(m, n)
    PROVE  product \in Nat /\ product = m * n /\ product >= m
<1>1. product = m * n
  BY DEF checked_mul
<1>2. m * n \in Nat /\ m * n >= m
  <2>1. PICK k \in Nat : n = k + 1
    BY n - 1 \in Nat /\ n = (n - 1) + 1
  <2>2. m * n = m * k + m
    BY <2>1
  <2>3. m * k \in Nat
    BY <2>1
  <2> QED BY <2>1, <2>2, <2>3
<1> QED BY <1>1, <1>2

\* A count that was read is positive.
LEMMA CountsArePositive ==
    ASSUME NEW setting, NEW default \in 1 .. UsizeMax, NEW n \in usize_value(setting, default)
    PROVE  n \in Nat \ {0}
BY StartupAssumption DEF usize_value

\* Capacities and deadlines of any configuration main makes.
LEMMA ConfiguredIsChecked ==
    ASSUME NEW env, NEW production \in BOOLEAN, NEW c \in Configured(env, production),
           CachePolicyAccepts(env, production), ~production => DevelopmentSettings(env)
    PROVE  ConfigChecked(c) /\ c.production = production
<1>1. PICK budget \in ShutdownBudget(env),
           capacity \in IF production
                        THEN Capacities(env)
                        ELSE {[connections |-> MAX_CONNECTION_TASKS, accounts |-> 0, leases |-> 0,
                               budgets |-> 0]} :
        c = ConfigOf(env, production, budget, capacity)
  BY DEF Configured
<1>2. /\ c.production = production
      /\ c.loopback = (optional_value(env.listen_addr) => env.listen_addr.value.loopback)
      /\ c.secured = \E name \in ProductionOnly : optional_value(env[name])
      /\ c.connections = capacity.connections /\ c.accounts = capacity.accounts
      /\ c.leases = capacity.leases /\ c.budgets = capacity.budgets
      /\ c.ttl = IF env.cache_ttl.form = "unset" THEN CACHE_DEFAULT_MAX_TTL
                      ELSE env.cache_ttl.value
      /\ c.shutdown = budget /\ c.grace = pingora_grace_period_seconds(budget)
  BY <1>1 DEF ConfigOf, NoConfig
<1>3. ~production => c.loopback /\ ~c.secured
  BY <1>2 DEF DevelopmentSettings
<1>4. c.ttl \in 1 .. CACHE_ABSOLUTE_MAX_TTL
  BY <1>2, StartupAssumption DEF CachePolicyAccepts
<1>5. budget \in Nat /\ budget >= 2
  <2>1. PICK drain \in shutdown_seconds_from_environment(env.drain, DefaultDrain),
             force \in shutdown_seconds_from_environment(env.force_stop, DefaultForceStop) :
          budget = drain + force
    BY DEF ShutdownBudget
  <2>2. drain \in Nat \ {0} /\ force \in Nat \ {0}
    BY StartupAssumption DEF shutdown_seconds_from_environment
  <2> QED BY <2>1, <2>2
<1>6. /\ capacity.connections \in Nat \ {0} /\ capacity.accounts \in Nat
      /\ capacity.leases \in Nat /\ capacity.budgets \in Nat
      /\ production => /\ capacity.leases >= capacity.connections
                       /\ capacity.budgets >= 2 * capacity.accounts
  <2>1. CASE ~production
    BY <2>1, <1>1, StartupAssumption
  <2>2. CASE production
    <3>1. PICK connections \in usize_value(env.max_connections, DefaultConnections),
               accounts \in usize_value(env.max_cached_accounts, DefaultCachedAccounts) :
            \E leased \in checked_mul(connections, LeasesPerConnection),
               budgets \in checked_mul(accounts, 2) \ {0} :
                capacity = [connections |-> connections, accounts |-> accounts,
                            leases |-> leased, budgets |-> budgets]
      BY <2>2, <1>1 DEF Capacities
    <3>5. PICK leased \in checked_mul(connections, LeasesPerConnection),
               budgets \in checked_mul(accounts, 2) \ {0} :
            capacity = [connections |-> connections, accounts |-> accounts,
                        leases |-> leased, budgets |-> budgets]
      BY <3>1
    <3>2. connections \in Nat \ {0} /\ accounts \in Nat \ {0}
      BY CountsArePositive, StartupAssumption
    <3>3. leased \in Nat /\ leased >= connections
      BY <3>2, ProductsAreExact, StartupAssumption
    <3>4. budgets \in Nat /\ budgets >= 2 * accounts
      BY <3>2, ProductsAreExact, 2 \in Nat \ {0}
    <3> QED BY <2>2, <3>5, <3>2, <3>3, <3>4
  <2> QED BY <2>1, <2>2
<1> QED
  BY <1>2, <1>3, <1>4, <1>5, <1>6 DEF ConfigChecked, pingora_grace_period_seconds

-----------------------------------------------------------------------------
(***************************************************************************)
(* The points of main.                                                     *)
(***************************************************************************)
\* The end of the process leaves the database alone, and StartInv asks nothing
\* of the environment and the configuration then.
LEMMA ExitKeeps ==
    ASSUME StartInv, Exit, database' = database
    PROVE  StartInv'
<1>1. process' = [pc |-> "down", listener |-> "none"]
  BY DEF Exit, Down
<1> QED
  BY <1>1 DEF StartInv, ProcessTyped, SettingsAccepted, DatabaseFollowed, ConfigFollowed, At, Points

\* What a step to another point that keeps environment and configuration has to show.
LEMMA GotoKeeps ==
    ASSUME StartInv, NEW pc \in Points, Goto(pc), database' \in Files,
           pc \in {"database", "create", "open", "migrate", "capacities"} =>
               IngressAccepted("production"),
           pc = "policies" => \/ IngressAccepted("development")
                              \/ IngressAccepted("production") /\ DatabaseReady',
           pc \in {"open", "migrate", "capacities"} => PrivateFile(database)',
           pc = "capacities" => DatabaseReady',
           pc \in {"bootstrap", "pingora", "serving"} =>
               ConfigChecked(config) /\ (config.production => DatabaseReady')
    PROVE  StartInv'
<1>1. process' = [process EXCEPT !.pc = pc] /\ environment' = environment /\ config' = config
  BY DEF Goto
<1>2. ProcessTyped' /\ process'.pc = pc
  BY <1>1 DEF StartInv, ProcessTyped
<1>3. \A mode : IngressAccepted(mode)' = IngressAccepted(mode)
  BY <1>1 DEF IngressAccepted
<1>4. SettingsAccepted'
  BY <1>2, <1>3 DEF SettingsAccepted, At
<1>5. DatabaseFollowed'
  BY <1>2 DEF DatabaseFollowed, At
<1>6. ConfigFollowed'
  BY <1>1, <1>2 DEF ConfigFollowed
<1> QED BY <1>2, <1>4, <1>5, <1>6 DEF StartInv

\* The database of a private file that is empty gets the schema and stays private.
LEMMA SchemaSet ==
    ASSUME database \in Files, PrivateFile(database),
           database' = [database EXCEPT !.schema = SCHEMA_VERSION]
    PROVE  database' \in Files /\ DatabaseReady'
BY StartupAssumption DEF Files, PrivateFile, DatabaseReady

\* What a file is made of.
LEMMA FileFields ==
    ASSUME NEW kind \in FileKinds, NEW private \in BOOLEAN, NEW schema \in Nat,
           NEW file, file = [kind |-> kind, private |-> private, schema |-> schema]
    PROVE  file \in Files /\ (kind = "file" /\ private => PrivateFile(file))
<1>1. file \in Files
  BY DEF Files
<1>2. file.kind = kind /\ file.private = private
  OBVIOUS
<1> QED BY <1>1, <1>2 DEF PrivateFile

\* A file that was created is private.
LEMMA FileCreated ==
    database' = [kind |-> "file", private |-> TRUE, schema |-> 0] =>
        database' \in Files /\ PrivateFile(database)'
<1>1. 0 \in Nat /\ "file" \in FileKinds
  BY SMT DEF FileKinds
<1>2. TRUE \in BOOLEAN
  BY Zenon
<1>3. PrivateFile(database)' = PrivateFile(database')
  BY Zenon DEF PrivateFile
<1> QED BY <1>1, <1>2, <1>3, FileFields, Zenon

\* Every step of main keeps what its earlier steps established.
LEMMA StartStep ==
    ASSUME StartInv, StartNext
    PROVE  StartInv'
<1> USE DEF At
<1>1. CASE Boot
  BY <1>1 DEF Boot, Down, StartInv, ProcessTyped, SettingsAccepted, DatabaseFollowed, ConfigFollowed,
     Points
<1>2. CASE ReadIngress
  <2>1. database' = database /\ database' \in Files
    BY <1>2 DEF ReadIngress, StartInv, DatabaseFollowed
  <2>2. CASE IngressAccepted("development") /\ Goto("policies")
    BY <2>1, <2>2, GotoKeeps DEF Points
  <2>3. CASE IngressAccepted("production") /\ Goto("database")
    BY <2>1, <2>3, GotoKeeps DEF Points
  <2>4. CASE Exit
    BY <2>1, <2>4, ExitKeeps
  <2> QED BY <1>2, <2>2, <2>3, <2>4 DEF ReadIngress
<1>3. CASE InspectDatabase
  <2>1. database' = database /\ database' \in Files /\ IngressAccepted("production")
    BY <1>3 DEF InspectDatabase, StartInv, DatabaseFollowed, SettingsAccepted
  <2>2. CASE Goto("create")
    BY <2>1, <2>2, GotoKeeps DEF Points
  <2>3. CASE PrivateFile(database) /\ Goto("open")
    BY <2>1, <2>3, GotoKeeps DEF Points, PrivateFile
  <2>4. CASE Exit
    BY <2>1, <2>4, ExitKeeps
  <2> QED BY <1>3, <2>2, <2>3, <2>4 DEF InspectDatabase
<1>4. CASE CreateDatabase
  <2>1. IngressAccepted("production")
    BY <1>4 DEF CreateDatabase, StartInv, SettingsAccepted
  <2>2. CASE database' = [kind |-> "file", private |-> TRUE, schema |-> 0] /\ Goto("open")
    <3>1. database' \in Files /\ PrivateFile(database)'
      BY <2>2, FileCreated, Zenon
    <3> QED BY <2>1, <2>2, <3>1, GotoKeeps DEF Points
  <2>3. CASE UNCHANGED database /\ Exit
    BY <2>3, ExitKeeps
  <2> QED BY <1>4, <2>2, <2>3 DEF CreateDatabase
<1>5. CASE ReadVersion
  <2>1. /\ database' = database /\ database' \in Files /\ IngressAccepted("production")
        /\ PrivateFile(database) /\ PrivateFile(database)'
    BY <1>5 DEF ReadVersion, StartInv, DatabaseFollowed, SettingsAccepted, PrivateFile
  <2>2. CASE database.schema = SCHEMA_VERSION /\ Goto("capacities")
    BY <2>1, <2>2, GotoKeeps DEF Points, DatabaseReady
  <2>3. CASE Goto("migrate")
    BY <2>1, <2>3, GotoKeeps DEF Points
  <2>4. CASE Exit
    BY <2>1, <2>4, ExitKeeps
  <2> QED BY <1>5, <2>2, <2>3, <2>4 DEF ReadVersion
<1>6. CASE Migrate
  <2>1. database \in Files /\ IngressAccepted("production") /\ PrivateFile(database)
    BY <1>6 DEF Migrate, StartInv, DatabaseFollowed, SettingsAccepted
  <2>2. CASE database' = [database EXCEPT !.schema = SCHEMA_VERSION] /\ Goto("capacities")
    <3>1. database' \in Files /\ DatabaseReady'
      BY <2>1, <2>2, SchemaSet
    <3> QED BY <2>1, <2>2, <3>1, GotoKeeps DEF Points, DatabaseReady
  <2>3. CASE UNCHANGED database /\ Exit
    BY <2>3, ExitKeeps
  <2> QED BY <1>6, <2>2, <2>3 DEF Migrate
<1>7. CASE DatabaseFails
  BY <1>7, ExitKeeps DEF DatabaseFails
<1>8. CASE OtherInstance
  <2>1. /\ process' = process /\ environment' = environment /\ config' = config
        /\ process.pc \in {"database", "create", "open", "migrate"}
    BY <1>8 DEF OtherInstance
  <2>2. database' \in Files /\ PrivateFile(database)'
    <3>1. CASE database' = [kind |-> "file", private |-> TRUE, schema |-> 0]
      BY <3>1, FileCreated, Zenon
    <3>2. CASE PrivateFile(database) /\ database' = [database EXCEPT !.schema = SCHEMA_VERSION]
      BY <3>2, SchemaSet DEF StartInv, DatabaseFollowed, DatabaseReady
    <3> QED BY <1>8, <3>1, <3>2 DEF OtherInstance
  <2>3. \A mode : IngressAccepted(mode)' = IngressAccepted(mode)
    BY <2>1 DEF IngressAccepted
  <2> QED
    BY <2>1, <2>2, <2>3 DEF StartInv, ProcessTyped, SettingsAccepted, DatabaseFollowed, ConfigFollowed
<1>9. CASE CheckCapacities
  <2>1. /\ database' = database /\ database' \in Files /\ IngressAccepted("production")
        /\ DatabaseReady
    BY <1>9 DEF CheckCapacities, StartInv, DatabaseFollowed, SettingsAccepted
  <2>2. CASE Goto("policies")
    BY <2>1, <2>2, GotoKeeps DEF Points, DatabaseReady
  <2>3. CASE Exit
    BY <2>1, <2>3, ExitKeeps
  <2> QED BY <1>9, <2>2, <2>3 DEF CheckCapacities
<1>10. CASE ReadPolicies
  <2> DEFINE production == DeploymentMode(environment) = {"production"}
  <2>1. database' = database /\ database \in Files
    BY <1>10 DEF ReadPolicies, StartInv, DatabaseFollowed
  <2>2. CASE Exit
    BY <2>1, <2>2, ExitKeeps
  <2>3. CASE /\ CachePolicyAccepts(environment, production)
             /\ config' \in Configured(environment, production)
             /\ process' = [process EXCEPT !.pc = "bootstrap"]
    <3>1. /\ ~production => DevelopmentSettings(environment)
          /\ production => DatabaseReady
      <4>1. CASE IngressAccepted("development")
        BY <4>1, OneMode DEF IngressAccepted, from_lookup
      <4>2. CASE IngressAccepted("production") /\ DatabaseReady
        BY <4>2, OneMode DEF IngressAccepted, from_lookup
      <4> QED BY <1>10, <4>1, <4>2 DEF ReadPolicies, StartInv, SettingsAccepted
    <3>2. ConfigChecked(config') /\ config'.production = production
      <4> HIDE DEF production
      <4>1. production \in BOOLEAN
        BY DEF production
      <4> QED BY <2>3, <3>1, <4>1, ConfiguredIsChecked
    <3>3. DatabaseReady' = DatabaseReady /\ ConfigChecked(config)' = ConfigChecked(config')
      BY <2>1 DEF DatabaseReady, PrivateFile, ConfigChecked
    <3>4. ProcessTyped' /\ process'.pc = "bootstrap"
      BY <2>3 DEF StartInv, ProcessTyped, Points
    <3> HIDE DEF production
    <3> QED
      BY <2>1, <3>1, <3>2, <3>3, <3>4
      DEF StartInv, SettingsAccepted, DatabaseFollowed, ConfigFollowed
  <2> QED BY <1>10, <2>2, <2>3 DEF ReadPolicies
<1>11. CASE Bootstrap
  <2>1. /\ database' = database /\ database' \in Files
        /\ ConfigChecked(config) /\ (config.production => DatabaseReady)
    BY <1>11 DEF Bootstrap, StartInv, DatabaseFollowed, ConfigFollowed
  <2>2. CASE Goto("pingora")
    BY <2>1, <2>2, GotoKeeps DEF Points, DatabaseReady
  <2>3. CASE Exit
    BY <2>1, <2>3, ExitKeeps
  <2> QED BY <1>11, <2>2, <2>3 DEF Bootstrap
<1>12. CASE BridgeListens
  <2>1. /\ environment' = environment /\ config' = config /\ database' = database
        /\ process.pc \in {"pingora", "serving"}
    BY <1>12 DEF BridgeListens
  <2>2. ProcessTyped' /\ process'.pc = process.pc
    BY <1>12 DEF BridgeListens, StartInv, ProcessTyped
  <2> QED
    BY <2>1, <2>2
    DEF StartInv, SettingsAccepted, DatabaseFollowed, ConfigFollowed, DatabaseReady, PrivateFile
<1>13. CASE PingoraListens
  <2>1. /\ database' = database /\ database' \in Files /\ Goto("serving")
        /\ ConfigChecked(config) /\ (config.production => DatabaseReady)
    BY <1>13 DEF PingoraListens, StartInv, DatabaseFollowed, ConfigFollowed
  <2> QED BY <2>1, GotoKeeps DEF Points, DatabaseReady
<1> QED
  BY <1>1, <1>2, <1>3, <1>4, <1>5, <1>6, <1>7, <1>8, <1>9, <1>10, <1>11, <1>12, <1>13 DEF StartNext

-----------------------------------------------------------------------------
\* Serving requests leaves alone what start-up made, and an end of the process is
\* an end of main.
LEMMA StartInductive ==
    /\ Init => StartInv
    /\ StartInv /\ [Next]_vars => StartInv'
<1>1. Init => StartInv
  BY StartupAssumption
  DEF Init, StartInit, Down, StartInv, ProcessTyped, SettingsAccepted, DatabaseFollowed,
      ConfigFollowed, At, Points, Files
<1>2. ASSUME StartInv, [Next]_vars
      PROVE  StartInv'
  <2>1. CASE Start
    BY <1>2, <2>1, StartStep DEF Start
  <2>2. CASE Kill
    BY <1>2, <2>2, ExitKeeps DEF Kill
  <2>3. CASE UNCHANGED startVars
    BY <1>2, <2>3
    DEF startVars, StartInv, ProcessTyped, SettingsAccepted, DatabaseFollowed, ConfigFollowed, At,
        IngressAccepted, DatabaseReady, PrivateFile
  <2> QED BY <1>2, <2>1, <2>2, <2>3 DEF Next, ServeHttp, vars
<1> QED BY <1>1, <1>2

\* main goes through its reads in order: a process at a later point has accepted the
\* settings and files of every earlier one, and one that serves has a configuration
\* that passed every check, with a private, migrated database in production.
THEOREM StartIsFollowed == Spec => []StartInv
BY StartInductive, PTL DEF Spec

\* Whatever the operator sets, a process that serves has capacities that fit each
\* other: room for the lease of every connection, for the budgets of two periods of
\* every cached account, and a grace period longer than the bridge's shutdown.
THEOREM CapacitiesAlwaysFit == Spec => []CapacitiesFit
<1>1. StartInv => CapacitiesFit
  <2> SUFFICES ASSUME StartInv, At("serving")
               PROVE  /\ config.connections > 0 /\ config.grace > config.shutdown
                      /\ config.shutdown >= 2
                      /\ config.production =>
                            /\ config.leases >= config.connections
                            /\ config.budgets >= 2 * config.accounts
    BY DEF CapacitiesFit
  <2>1. ConfigChecked(config)
    BY DEF StartInv, ConfigFollowed, At
  <2>2. SHUTDOWN_GRACE_MARGIN_SECONDS \in Nat \ {0}
    BY StartupAssumption
  <2> QED BY <2>1, <2>2 DEF ConfigChecked
<1> QED BY <1>1, StartIsFollowed, PTL

\* However starts fail, are killed or overlap, the database file is only ever made
\* private and empty, gets its tables once, and is current when production serves.
THEOREM DatabaseStaysIntact == Spec => DatabaseIntact
<1> DEFINE Served == At("serving") /\ config.production =>
                        PrivateFile(database) /\ database.schema = SCHEMA_VERSION
           Moves == \/ database.kind = "absent" /\ PrivateFile(database') /\ database'.schema = 0
                    \/ /\ PrivateFile(database) /\ database.schema = 0
                       /\ database' = [database EXCEPT !.schema = SCHEMA_VERSION]
<1>1. StartInv => Served
  BY DEF StartInv, ConfigFollowed, At, DatabaseReady
<1>2. StartInv /\ [Next]_vars => [Moves]_database
  <2> SUFFICES ASSUME StartInv, [Next]_vars, database' # database
               PROVE  Moves
    OBVIOUS
  <2>1. CASE /\ database.kind = "absent"
             /\ database' = [kind |-> "file", private |-> TRUE, schema |-> 0]
    <3>1. PrivateFile(database)' = PrivateFile(database')
      BY Zenon DEF PrivateFile
    <3>2. PrivateFile(database')
      BY <2>1, <3>1, FileCreated, Zenon
    <3>3. database'.schema = 0
      BY <2>1, Zenon
    <3> QED BY <2>1, <3>2, <3>3, Zenon
  <2>2. CASE /\ PrivateFile(database) /\ database.schema = 0
             /\ database' = [database EXCEPT !.schema = SCHEMA_VERSION]
    BY <2>2, Zenon
  <2>3. CASE CreateDatabase
    BY <2>1, <2>3 DEF CreateDatabase
  <2>4. CASE Migrate
    BY <2>2, <2>4 DEF Migrate, StartInv, DatabaseFollowed, At
  <2>5. CASE OtherInstance
    BY <2>1, <2>2, <2>5 DEF OtherInstance
  <2> QED
    BY <2>3, <2>4, <2>5
    DEF Next, vars, startVars, Start, StartNext, Boot, ReadIngress, InspectDatabase, ReadVersion,
        DatabaseFails, CheckCapacities, ReadPolicies, Bootstrap, BridgeListens, PingoraListens,
        ServeHttp, Kill
<1>3. DatabaseIntact <=> []Served /\ [][Moves]_database
  BY DEF DatabaseIntact
<1> HIDE DEF Served, Moves
<1> QED BY <1>1, <1>2, <1>3, StartIsFollowed, PTL DEF Spec

=============================================================================

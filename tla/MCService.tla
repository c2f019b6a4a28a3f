----------------------------- MODULE MCService -----------------------------
(***************************************************************************)
(* Small instances of Service for TLC.                                     *)
(***************************************************************************)
EXTENDS Service, TLC

\* Two workspaces of one account.
Tenants == [k1 |-> [account |-> "a", workspace |-> "v"], k2 |-> [account |-> "a", workspace |-> "w"]]

Host(class, spelling, port) ==
    [class |-> class, name |-> "origin", spelling |-> spelling, port |-> port]
Origin == Host("name", "plain", {})
SameOrigin == Host("name", "upper case", {80})

Get(host, headers) ==
    [wire |-> "complete", method |-> "GET", host |-> host, target |-> "relative", path |-> "/",
     headers |-> headers, private |-> FALSE]
Header(name, value) == [name |-> name, value |-> value]
Key(k) == Header("authorization", k)
Strict == Header("mode", "strict")

\* Only the first three are forwarded: a lease of the client's own, an unacceptable
\* mode, a credential twice, an unknown one and a head cut off are refused, and a
\* CONNECT takes another way.
FirstHeads ==
    {Get(Origin, <<Key("k1"), Header("isolation", "i")>>), Get(Origin, <<Key("k2")>>),
     [Get(SameOrigin, <<Key("k1"), Strict>>) EXCEPT !.target = "agrees_https"],
     Get(Origin, <<Key("k1"), Header("lease", "x")>>),
     Get(Origin, <<Key("k1"), Header("mode", Unacceptable)>>),
     Get(Origin, <<Key("k1"), Key("k2")>>), Get(Origin, <<Key("k3")>>),
     [Get(Origin, <<Key("k1")>>) EXCEPT !.wire = "broken"],
     [Get(Origin, <<Key("k1")>>) EXCEPT !.method = "CONNECT"]}

\* Behind the first request: one with headers of its own, one whose target disagrees
\* with its Host header and one without a usable authority.
NextHeads ==
    {Get(Origin, <<Key("k2"), Header("isolation", "i")>>),
     [Get(Origin, <<>>) EXCEPT !.target = "disagrees"], Get(Host("malformed", "plain", {}), <<>>)}
OwnHeads == {Get(Origin, <<Key("k2"), Header("isolation", "i")>>)}

Answer(status, lifetime) ==
    [status |-> status, cookie |-> FALSE, vary |-> FALSE, control |-> "public", lifetime |-> lifetime]
Answers == {Answer(200, 3), Answer(404, 3)}

-----------------------------------------------------------------------------
Unset == [form |-> "unset"]
Blank == [form |-> "blank"]
NotUnicode == [form |-> "not_unicode"]
Malformed == [form |-> "malformed"]
Text(value) == [form |-> "text", value |-> value]
File(kind, private, content) == Text([kind |-> kind, private |-> private, content |-> content])
HttpOrigin(host) == [form |-> "http_authority", host |-> host]

AllUnset ==
    [name \in ProductionOnly \cup {"mode", "listen_addr", "period_byte_limit", "cache_origins",
                                   "cache_ttl", "drain", "force_stop"} |-> Unset]

GoodProduction ==
    [AllUnset EXCEPT
        !.mode = Text("production"), !.listen_addr = Text([loopback |-> FALSE, port |-> 443]),
        !.server_names = Text(1), !.server_cert = File("symlink", FALSE, "certificates"),
        !.server_key = File("file", TRUE, "one_key"),
        !.client_ca = File("file", FALSE, "certificates"), !.account_database = Text("path"),
        !.api_key_hash_key_file = File("file", TRUE, "32_bytes"),
        !.period_byte_limit = Text(CounterMax), !.cache_origins = Text({HttpOrigin(Origin)})]

\* One connection at a time, and the longest time in the cache that may be set.
SmallProduction ==
    [GoodProduction EXCEPT !.max_connections = Text(1), !.cache_ttl = Text(CACHE_ABSOLUTE_MAX_TTL)]

\* What else a variable may be set to.
Numbers == {Blank, NotUnicode, Malformed, Text(0), Text(UsizeMax + 1)}
Secrets == {File("absent", FALSE, "empty"), File("symlink", TRUE, "one_key"),
            File("directory", TRUE, "empty"), File("file", FALSE, "one_key"),
            File("file", TRUE, "two_keys")}
Certificates == {File("absent", FALSE, "empty"), File("file", FALSE, "empty"),
                 File("file", FALSE, "garbage"), File("file", FALSE, "other_certificates")}

Alternatives(name) ==
    CASE name = "mode" -> {Blank, NotUnicode, Text("development"), Text("prod")}
      [] name = "listen_addr" ->
            {Blank, Malformed, Text([loopback |-> TRUE, port |-> 0]), Text([loopback |-> FALSE, port |-> 0])}
      [] name = "server_names" -> {Unset, Text(0)}
      [] name \in {"server_cert", "client_ca"} -> {Unset} \cup Certificates
      [] name \in {"server_key", "api_key_hash_key_file"} -> {Blank} \cup Secrets
      [] name = "account_database" -> {Unset}
      [] name = "max_connections" -> {Text(UsizeMax - 3)} \cup Numbers
      [] name = "max_cached_accounts" -> {Text(UsizeMax - 2)} \cup Numbers
      [] name \in {"max_handshakes", "usage_period"} -> Numbers
      [] name \in DurationSettings \ {"usage_period"} -> {Text(0)}
      [] name = "period_byte_limit" -> {Unset, Blank, Text(0), Text(CounterMax + 1)}
      [] name = "cache_origins" ->
            {Blank, NotUnicode, Text({[form |-> "wildcard", host |-> Origin]}),
             Text({HttpOrigin(Origin), HttpOrigin(Host("v4_private", "plain", {}))})}
      [] name = "cache_ttl" -> {Blank, Text(0), Text(CACHE_ABSOLUTE_MAX_TTL + 1)}
      [] name = "drain" -> {Blank, Text(0), Text(MAX_BRIDGE_TASK_SHUTDOWN_SECONDS)}
      [] name = "force_stop" -> {Malformed, Text(MAX_BRIDGE_TASK_SHUTDOWN_SECONDS + 1)}

\* A good environment, or one with changes in at most two variables.
Changed(envs) ==
    envs \cup UNION {{[env EXCEPT ![name] = setting] : setting \in Alternatives(name)} :
                         env \in envs, name \in DOMAIN AllUnset}

SomeEnvironments == Changed(Changed({GoodProduction, AllUnset})) \cup {SmallProduction}

SomeDatabases ==
    {[kind |-> "absent", private |-> FALSE, schema |-> 0],
     [kind |-> "file", private |-> FALSE, schema |-> SCHEMA_VERSION],
     [kind |-> "file", private |-> TRUE, schema |-> SCHEMA_VERSION + 1]}

\* The members of each of these sets are interchangeable.
Symmetry == Permutations(Conns) \cup Permutations(Ports) \cup Permutations(Bridges)

=============================================================================

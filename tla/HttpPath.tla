------------------------------ MODULE HttpPath ------------------------------
(***************************************************************************)
(* The way of an ordinary HTTP request through the proxy (src/src/main.rs):*)
(*                                                                         *)
(*   public handler --socket--> Pingora --CONNECT--> bridge --> Tor        *)
(*                                                                         *)
(* Pingora runs in the same process but only sees a loopback socket.  The  *)
(* admitted identity crosses it twice: on the way in through              *)
(* AuthenticatedDownstreamStore, keyed by the local address of the socket, *)
(* and on the way out through BridgeIdentityRegistry, keyed by a lease     *)
(* token in a header of the CONNECT.  Responses may come from a cache      *)
(* whose keys carry a scope made of the identity and its isolation.  The   *)
(* capacities and policies are those of config, which module Startup sets. *)
(*                                                                         *)
(* Values the code draws from counters or at random and never repeats      *)
(* (generations, group keys, nonces, lease tokens) are named here by the   *)
(* least number no state component still refers to.  Which of its group    *)
(* keys the isolation store has for an identity is the subject of module   *)
(* Isolation: here a request gets any of those in use for its identity, or *)
(* a new one.  Admission is the subject of module Admission.               *)
(***************************************************************************)
EXTENDS Startup

CONSTANTS
    Conns,               \* public connections
    Ports,               \* local addresses of the sockets to Pingora
    Bridges,             \* connections from Pingora to the bridge
    IdentityOf,          \* the IngressIdentity each usable credential stands for
    Heads,               \* request heads that clients send first
    LaterHeads,          \* heads that clients send behind the first request
    LocalHeads,          \* heads that local processes send to Pingora
    Responses,           \* what origins answer
    CacheCapacity,       \* objects the cache holds
    MaxGroups            \* bound: group keys in use at a time

ASSUME HttpAssumption ==
    /\ CacheCapacity \in Nat \ {0} /\ MaxGroups \in Nat \ {0}
    /\ IsFiniteSet(Conns)
    /\ \A head \in Heads : IsFiniteSet(DOMAIN head.headers)
    /\ \A head \in Heads \cup LaterHeads \cup LocalHeads : IsHead(head)
    /\ \A response \in Responses : response.lifetime \in Nat

VARIABLES
    conn,       \* the public handler of each connection
    downstream, \* AuthenticatedDownstreamStore.entries
    session,    \* Pingora's session on each socket, with its RequestCtx
    leases,     \* BridgeIdentityRegistry.entries
    bridge,     \* CONNECT streams between Pingora and the bridge
    cache       \* the HTTP cache

httpVars == <<conn, downstream, session, leases, bridge, cache>>

Credentials == DOMAIN IdentityOf

NoConn == [pc |-> "idle", head |-> {}, context |-> {}, port |-> {}, generation |-> {}]

\* sender is a history variable: the context of the connection that wrote the
\* request.  via names the request that filled the cache entry served, if any.
NoSession ==
    [pc |-> "none", open |-> FALSE, head |-> {}, first |-> TRUE, sender |-> {},
     ctx |-> {}, bridge |-> {}, via |-> {}]

NoBridge ==
    [pc |-> "free", host |-> {}, group |-> {}, lease |-> {}, scope |-> {}, user |-> {},
     reused |-> FALSE]

HttpInit ==
    /\ conn = [c \in Conns |-> NoConn]
    /\ downstream = <<>>
    /\ session = [p \in Ports |-> NoSession]
    /\ leases = <<>>
    /\ bridge = [b \in Bridges |-> NoBridge]
    /\ cache = {}

Least(used) ==
    CHOOSE n \in 1 .. Cardinality(used) + 1 : n \notin used /\ \A m \in 1 .. n - 1 : m \in used

With(f, key, value) == [k \in DOMAIN f \cup {key} |-> IF k = key THEN value ELSE f[k]]
Without(f, key) == [k \in DOMAIN f \ {key} |-> f[k]]

-----------------------------------------------------------------------------
(***************************************************************************)
(* The public handler.                                                     *)
(***************************************************************************)
\* What a request gets when it passes every check of the handler: in production
\* the context registered for Pingora.
ContextOf(parsed) ==
    IF config.production
    THEN {[identity |-> IdentityOf[k], isolation |-> parsed.isolation] :
              k \in parsed.proxy_authorization \cap Credentials}
    ELSE {}

\* A handler holds one of the client connection permits until it returns.  A
\* request that is refused, a CONNECT (module Tunnels) and a request that finds
\* Pingora unreachable leave no trace here.  The kernel hands out a local address
\* that no open socket has.
Admit(c, p) ==
    /\ process.listener = "open" /\ conn[c].pc = "idle" /\ session[p].pc = "none"
    /\ Cardinality({d \in Conns : conn[d].pc # "idle"}) < config.connections
    /\ \E head \in Heads : \E parsed \in parse_proxy_request(head) :
        /\ parsed.internal_identity = {}
        /\ config.production => ContextOf(parsed) # {}
        /\ head.method # "CONNECT"
        /\ conn' = [conn EXCEPT ![c] =
            [NoConn EXCEPT !.pc = "connected", !.port = {p}, !.context = ContextOf(parsed),
                           !.head = {IF config.production
                                     THEN [head EXCEPT !.headers =
                                               strip_ingress_headers(head.headers)]
                                     ELSE head}]]
    /\ session' = [session EXCEPT ![p].pc = "reading", ![p].open = TRUE]
    /\ UNCHANGED <<downstream, leases, bridge, cache>>

\* Pingora listens on a loopback address, where any local process may connect.
LocalConnect(p) ==
    /\ session[p].pc = "none"
    /\ \E head \in LocalHeads :
        session' = [session EXCEPT ![p] = [NoSession EXCEPT !.pc = "reading", !.head = {head}]]
    /\ UNCHANGED <<conn, downstream, leases, bridge, cache>>

\* AuthenticatedDownstreamStore::register: a full store refuses before it
\* inserts, a duplicate address is refused after the insertion.
StoreFull(address) ==
    Cardinality(DOMAIN downstream) >= config.connections /\ address \notin DOMAIN downstream

FreshGeneration ==
    Least({downstream[p].generation : p \in DOMAIN downstream}
              \cup UNION {conn[c].generation : c \in Conns})

Register(c) ==
    /\ conn[c].pc = "connected" /\ config.production
    /\ \E address \in conn[c].port, context \in conn[c].context :
        /\ downstream' =
            IF StoreFull(address)
            THEN downstream
            ELSE With(downstream, address, [generation |-> FreshGeneration, context |-> context])
        /\ conn' = [conn EXCEPT ![c] =
            IF StoreFull(address) \/ address \in DOMAIN downstream
            THEN [@ EXCEPT !.pc = "refused"]
            ELSE [@ EXCEPT !.pc = "registered", !.generation = {FreshGeneration}]]
    /\ UNCHANGED <<session, leases, bridge, cache>>

\* The handler writes the head and goes on copying in both directions.
Forward(c) ==
    /\ conn[c].pc = IF config.production THEN "registered" ELSE "connected"
    /\ conn' = [conn EXCEPT ![c].pc = "copying", ![c].head = {}]
    /\ session' = [p \in Ports |->
        IF p \in conn[c].port
        THEN [session[p] EXCEPT !.head = conn[c].head, !.sender = conn[c].context]
        ELSE session[p]]
    /\ UNCHANGED <<downstream, leases, bridge, cache>>

\* The handler returns, at the end of the copy, at its idle timeout or on an
\* error.  Its locals are dropped in reverse order of declaration: first the
\* guard, which removes its own entry only, then the socket.
\* Mutant: the entry goes only once another has taken its place.
RemoveEntryMutant(address, generation) ==
    IF address \in DOMAIN downstream /\ downstream[address].generation # generation
    THEN Without(downstream, address)
    ELSE downstream

RemoveEntry(address, generation) ==
    IF address \in DOMAIN downstream /\ downstream[address].generation = generation
    THEN Without(downstream, address)
    ELSE downstream

DropGuard(c) ==
    /\ conn[c].pc \in {"connected", "registered", "copying", "refused"}
    /\ conn' = [conn EXCEPT ![c] = [@ EXCEPT !.pc = "closing", !.head = {}, !.generation = {}]]
    /\ downstream' = IF conn[c].generation = {}
                     THEN downstream
                     ELSE RemoveEntry(CHOOSE p \in conn[c].port : TRUE,
                                      CHOOSE g \in conn[c].generation : TRUE)
    /\ UNCHANGED <<session, leases, bridge, cache>>

CloseSocket(c) ==
    /\ conn[c].pc = "closing"
    /\ conn' = [conn EXCEPT ![c] = NoConn]
    /\ session' = [p \in Ports |->
        IF p \in conn[c].port THEN [session[p] EXCEPT !.open = FALSE] ELSE session[p]]
    /\ UNCHANGED <<downstream, leases, bridge, cache>>

-----------------------------------------------------------------------------
(***************************************************************************)
(* TenantIsolationHasher and resolve_isolation.  The keyed hash is taken   *)
(* to be injective: an isolation identity is the tuple of what is hashed.  *)
(***************************************************************************)
CtxsOf(sessions) == UNION {sessions[p].ctx : p \in Ports}
GroupsInUse ==
    {ctx.group : ctx \in CtxsOf(session)} \cup UNION {bridge[b].group : b \in Bridges}
        \cup {entry.by.group : entry \in cache}

WithNonce(isolation) ==
    [isolation EXCEPT !.nonce =
        {Least(UNION {group.owner.nonce : group \in
                  {g \in GroupsInUse : [g.owner EXCEPT !.nonce = {}] = isolation}})}]

Resolve(identity, origin, request) ==
    LET isolation == [tenant |-> identity, destination |-> origin,
                      caller |-> request.identity, nonce |-> {}]
    IN  IF request.strict THEN WithNonce(isolation) ELSE isolation

\* The generated names strict-n and anonymous-n are nonces; a caller that names
\* itself like one would share it, which no development property depends on.
resolve_isolation(request) ==
    LET isolation(caller) == [tenant |-> {}, destination |-> {}, caller |-> caller, nonce |-> {}]
    IN  IF request.strict \/ request.identity = {}
        THEN WithNonce(isolation({}))
        ELSE isolation(request.identity)

\* Mutant: the scope of a session survives the rotation of its group key.
cache_scopeMutant(identity, isolation, group) ==
    <<identity.account, identity.workspace, isolation>>

cache_scope(identity, isolation, group) ==
    <<identity.account, identity.workspace, isolation, group>>

\* The group keys material_for may return, all of them only ever given to this
\* identity; a strict request takes a new one without the store.
GroupsFor(isolation) ==
    LET used == {group \in GroupsInUse : group.owner = isolation}
        new == [owner |-> isolation, number |-> Least({group.number : group \in used})]
    IN  used \cup {group \in {new} : Cardinality(GroupsInUse) < MaxGroups}

-----------------------------------------------------------------------------
(***************************************************************************)
(* Proxy, the hooks Pingora calls for each request on a session.           *)
(***************************************************************************)
Reading(p) == session[p].pc = "reading" /\ session[p].head # {}
HeadOf(p) == CHOOSE head \in session[p].head : TRUE
CtxOf(p) == CHOOSE ctx \in session[p].ctx : TRUE

\* request_filter answers 403 when the client address has no context.
FilterForbids(p) ==
    /\ Reading(p) /\ config.production /\ p \notin DOMAIN downstream
    /\ session' = [session EXCEPT ![p].pc = "ending", ![p].head = {}]
    /\ UNCHANGED <<conn, downstream, leases, bridge, cache>>

\* BridgeIdentityRegistry::issue
LeaseRoom == Cardinality(DOMAIN leases) < config.leases
FreshLease(p) ==
    <<p, Least({lease[2] : lease \in {l \in DOMAIN leases \cup UNION {bridge[b].lease : b \in Bridges} :
                                          l[1] = p}})>>

\* An invalid isolation header or destination, or a registry without room.
FilterAccepts(p) ==
    /\ take_isolation_request(HeadOf(p).headers) # {}
    /\ config.production => canonical_cache_key_parts(HeadOf(p)) # {} /\ LeaseRoom

FilterFails(p) ==
    /\ Reading(p) /\ (config.production => p \in DOMAIN downstream)
    /\ ~FilterAccepts(p)
    /\ session' = [session EXCEPT ![p].pc = "ending", ![p].head = {}]
    /\ UNCHANGED <<conn, downstream, leases, bridge, cache>>

\* Mutant: only a strict request closes its session.
KeepsAliveMutant(strict) == ~strict

\* set_keepalive(None) after an authenticated or a strict request.
KeepsAlive(strict) == ~config.production /\ ~strict

NewCtx(p, identity, isolation, group, strict, lease, taken) ==
    [identity |-> identity, isolation |-> isolation, strict |-> strict, group |-> group,
     lease |-> lease, keepalive |-> KeepsAlive(strict),
     cache_scope |-> IF strict THEN {}
                     ELSE {cache_scope(i, isolation, group) : i \in identity},
     head |-> [HeadOf(p) EXCEPT !.headers = taken.headers]]

Begin(p, ctx) ==
    /\ session' = [session EXCEPT ![p].pc = "filtered", ![p].head = {}, ![p].ctx = {ctx}]
    /\ UNCHANGED <<conn, downstream, bridge, cache>>

\* The isolation that counts is the registered one; what the request still
\* carries is discarded.
FilterAuthenticated(p) ==
    /\ Reading(p) /\ config.production /\ p \in DOMAIN downstream /\ FilterAccepts(p)
    /\ \E taken \in take_isolation_request(HeadOf(p).headers),
          parts \in canonical_cache_key_parts(HeadOf(p)) :
        LET context == downstream[p].context
            isolation == Resolve({context.identity}, {parts.origin}, context.isolation)
            lease == FreshLease(p)
        IN  /\ leases' = With(leases, lease, context.identity)
            /\ \E group \in GroupsFor(isolation) :
                Begin(p, NewCtx(p, {context.identity}, isolation, group,
                                context.isolation.strict, {lease}, taken))

\* Mutant: a request without a registered context is taken for an open one.
FilterDevelopmentMutant(p) ==
    /\ Reading(p) /\ p \notin DOMAIN downstream
    /\ \E taken \in take_isolation_request(HeadOf(p).headers) :
        LET isolation == resolve_isolation(taken.isolation)
        IN  \E group \in GroupsFor(isolation) :
                Begin(p, NewCtx(p, {}, isolation, group, taken.isolation.strict, {}, taken))
    /\ UNCHANGED leases

FilterDevelopment(p) ==
    /\ Reading(p) /\ ~config.production /\ FilterAccepts(p)
    /\ \E taken \in take_isolation_request(HeadOf(p).headers) :
        LET isolation == resolve_isolation(taken.isolation)
        IN  \E group \in GroupsFor(isolation) :
                Begin(p, NewCtx(p, {}, isolation, group, taken.isolation.strict, {}, taken))
    /\ UNCHANGED leases

(***************************************************************************)
(* The cache.  An entry has the time it stays fresh, its age, and the      *)
(* request that filled it.                                                 *)
(***************************************************************************)
CacheEligible(ctx) ==
    /\ ~ctx.strict /\ ctx.cache_scope # {}
    /\ \E parts \in canonical_cache_key_parts(ctx.head) : parts.origin \in config.origins
    /\ request_cache_eligible(ctx.head)

\* Mutant: a key of the target alone.
scoped_cache_keyMutant(ctx) ==
    [scope |-> {}, parts |-> canonical_cache_key_parts(ctx.head)]

scoped_cache_key(ctx) ==
    [scope |-> ctx.cache_scope, parts |-> canonical_cache_key_parts(ctx.head)]

Entries(ctx) == IF CacheEligible(ctx)
                THEN {entry \in cache : entry.key = scoped_cache_key(ctx)}
                ELSE {}

CacheHit(p) ==
    /\ session[p].pc = "filtered"
    /\ \E entry \in Entries(CtxOf(p)) :
        session' = [session EXCEPT ![p].pc = "ending", ![p].via = {entry.by}]
    /\ UNCHANGED <<conn, downstream, leases, bridge, cache>>

\* Pingora goes upstream after a miss, and again for a retry.  It does so too when
\* request_cache_filter fails, for a GET without a canonical authority: it logs the
\* error and leaves the cache disabled.  upstream_peer then needs a Host it can parse;
\* without one the request fails (Abandon).
GoesUpstream(p) ==
    /\ session[p].pc = "retry" \/ (session[p].pc = "filtered" /\ Entries(CtxOf(p)) = {})
    /\ CtxOf(p).head.host.class # "malformed"

conservative_response_cacheable(head, response) ==
    /\ request_cache_eligible(head)
    /\ response.status = 200 /\ ~response.cookie /\ ~response.vary
    /\ response.control = "public" /\ response.lifetime > 0

Smaller(m, n) == IF m <= n THEN m ELSE n
effective_max_ttl == Smaller(config.ttl, CACHE_ABSOLUTE_MAX_TTL)

\* Mutant: the origin decides.
bounded_response_cacheableMutant(ctx, response) ==
    IF CacheEligible(ctx) /\ conservative_response_cacheable(ctx.head, response)
    THEN response.lifetime
    ELSE 0

\* How long a response is served from the cache: 0 if it is not stored.
bounded_response_cacheable(ctx, response) ==
    IF CacheEligible(ctx) /\ conservative_response_cacheable(ctx.head, response)
    THEN Smaller(response.lifetime, Smaller(effective_max_ttl, CACHE_ABSOLUTE_MAX_TTL))
    ELSE 0

Stored(ctx, ttl) ==
    [key |-> scoped_cache_key(ctx), left |-> ttl, age |-> 0,
     by |-> [identity |-> ctx.identity, isolation |-> ctx.isolation, group |-> ctx.group,
             strict |-> ctx.strict]]

\* An admitted object replaces the one with its key; a full cache evicts another.
CachesAfter(ctx, ttl) ==
    LET others == {entry \in cache : entry.key # scoped_cache_key(ctx)}
    IN  IF ttl = 0 THEN {cache}
        ELSE IF Cardinality(others) < CacheCapacity
        THEN {others \cup {Stored(ctx, ttl)}}
        ELSE {(others \ {victim}) \cup {Stored(ctx, ttl)} : victim \in others}

Tick ==
    /\ cache # {}
    /\ cache' = {[entry EXCEPT !.left = @ - 1, !.age = @ + 1] :
                     entry \in {e \in cache : e.left > 1}}
    /\ UNCHANGED <<conn, downstream, session, leases, bridge>>

-----------------------------------------------------------------------------
(***************************************************************************)
(* Upstream: Pingora keeps open CONNECT streams and reuses one for a peer  *)
(* with the same address and group key.                                    *)
(***************************************************************************)
upstream_peer(ctx) ==
    [host |-> {[ctx.head.host EXCEPT !.port = IF @ = {} THEN {80} ELSE @]},
     group |-> {ctx.group}]

\* What leaves for the origin: never a reserved header, whatever Pingora put there.
upstream_request_filter(ctx) ==
    [headers |-> WithoutReserved(ctx.head.headers), close |-> ctx.strict]

\* Mutant: streams are pooled by destination only.
PoolMatchMutant(b, ctx) == bridge[b].host = upstream_peer(ctx).host

PoolMatch(b, ctx) ==
    bridge[b].host = upstream_peer(ctx).host /\ bridge[b].group = upstream_peer(ctx).group

ReuseUpstream(p, b) ==
    /\ GoesUpstream(p)
    /\ bridge[b].pc = "open" /\ bridge[b].user = {} /\ PoolMatch(b, CtxOf(p))
    /\ bridge' = [bridge EXCEPT ![b].user = {p}, ![b].reused = TRUE]
    /\ session' = [session EXCEPT ![p].pc = "serving", ![p].bridge = {b}]
    /\ UNCHANGED <<conn, downstream, leases, cache>>

\* The CONNECT carries the lease of the request, if it has one.
ConnectUpstream(p, b) ==
    /\ GoesUpstream(p) /\ bridge[b].pc = "free"
    /\ bridge' = [bridge EXCEPT ![b] =
        [NoBridge EXCEPT !.pc = "connecting", !.user = {p}, !.lease = CtxOf(p).lease,
                         !.host = upstream_peer(CtxOf(p)).host,
                         !.group = upstream_peer(CtxOf(p)).group]]
    /\ session' = [session EXCEPT ![p].pc = "connecting", ![p].bridge = {b}]
    /\ UNCHANGED <<conn, downstream, leases, cache>>

\* handle_internal_connect: the lease decides who is charged.
LeaseAccepted(b) ==
    IF config.production
    THEN \E lease \in bridge[b].lease : lease \in DOMAIN leases
    ELSE bridge[b].lease = {}

DestinationAccepted(b) ==
    \A host \in bridge[b].host :
        parse_connect_destination(host) /\ connect_destination_allowed(host)

\* A stream whose request was abandoned meanwhile is set up all the same.
InternalConnect(b) ==
    /\ bridge[b].pc = "connecting"
    /\ LeaseAccepted(b) /\ DestinationAccepted(b)
    /\ bridge' = [bridge EXCEPT
        ![b].pc = IF bridge[b].user = {} THEN "abandoned" ELSE "open",
        ![b].scope = {leases[lease] : lease \in bridge[b].lease}]
    /\ session' = [p \in Ports |->
        IF p \in bridge[b].user THEN [session[p] EXCEPT !.pc = "serving"] ELSE session[p]]
    /\ UNCHANGED <<conn, downstream, leases, cache>>

\* It is refused, by the lease, by the destination policy or by any later gate of
\* the tunnel (module Tunnels), or Tor does not connect.
InternalConnectFails(b) ==
    /\ bridge[b].pc = "connecting"
    /\ bridge' = [bridge EXCEPT ![b] = NoBridge]
    /\ session' = [p \in Ports |->
        IF p \in bridge[b].user THEN [session[p] EXCEPT !.pc = "ending", !.bridge = {}]
        ELSE session[p]]
    /\ UNCHANGED <<conn, downstream, leases, cache>>

\* The response is complete.  A stream whose request asked for Connection: close is
\* never kept.
Respond(p) ==
    /\ session[p].pc = "serving"
    /\ session' = [session EXCEPT ![p].pc = "ending", ![p].bridge = {}]
    /\ \E response \in Responses :
        cache' \in CachesAfter(CtxOf(p), bounded_response_cacheable(CtxOf(p), response))
    /\ \E b \in session[p].bridge, kept \in BOOLEAN :
        /\ kept => ~upstream_request_filter(CtxOf(p)).close
        /\ bridge' = [bridge EXCEPT ![b] =
                          IF kept THEN [@ EXCEPT !.user = {}, !.lease = {}, !.reused = FALSE]
                          ELSE NoBridge]
    /\ UNCHANGED <<conn, downstream, leases>>

\* The request fails or its client leaves.  The stream it used is closed; one
\* that is being set up is left to the bridge.
Abandon(p) ==
    /\ session[p].pc \in {"filtered", "retry", "connecting", "serving"}
    /\ session' = [session EXCEPT ![p].pc = "ending", ![p].bridge = {}]
    /\ bridge' = [b \in Bridges |->
        CASE b \notin session[p].bridge -> bridge[b]
          [] b \in session[p].bridge /\ bridge[b].pc = "connecting" ->
                [bridge[b] EXCEPT !.user = {}, !.group = {}]
          [] OTHER -> NoBridge]
    /\ UNCHANGED <<conn, downstream, leases, cache>>

\* error_while_proxy: a request that failed on a reused stream is tried again.
RetryUpstream(p) ==
    /\ session[p].pc = "serving" /\ \E b \in session[p].bridge : bridge[b].reused
    /\ session' = [session EXCEPT ![p].pc = "retry", ![p].bridge = {}]
    /\ bridge' = [b \in Bridges |-> IF b \in session[p].bridge THEN NoBridge ELSE bridge[b]]
    /\ UNCHANGED <<conn, downstream, leases, cache>>

StreamEnds(b) ==
    /\ bridge[b].pc \in {"open", "abandoned"} /\ bridge[b].user = {}
    /\ bridge' = [bridge EXCEPT ![b] = NoBridge]
    /\ UNCHANGED <<conn, downstream, session, leases, cache>>

\* The RequestCtx is dropped, its lease with it.  Without keep-alive the session
\* ends, and so do the bytes its client may have sent behind the request.
LeasesAfter(ctxs) ==
    [lease \in DOMAIN leases \ UNION {ctx.lease : ctx \in ctxs} |-> leases[lease]]

EndRequest(p) ==
    /\ session[p].pc = "ending"
    /\ leases' = LeasesAfter(session[p].ctx)
    /\ session' = [session EXCEPT ![p] =
        IF \E ctx \in session[p].ctx : ctx.keepalive
        THEN [@ EXCEPT !.pc = "reading", !.first = FALSE, !.ctx = {}, !.via = {}]
        ELSE [NoSession EXCEPT !.pc = "closed", !.open = session[p].open]]
    /\ UNCHANGED <<conn, downstream, bridge, cache>>

\* With keep-alive Pingora reads the next request the handler has copied to it, as
\* the client wrote it.
NextRequest(p) ==
    /\ session[p].pc = "reading" /\ session[p].head = {} /\ ~session[p].first
    /\ \E head \in LaterHeads : session' = [session EXCEPT ![p].head = {head}]
    /\ UNCHANGED <<conn, downstream, leases, bridge, cache>>

\* Pingora's side of the socket goes once the handler has closed its side.
SessionGone(p) ==
    /\ session[p].pc \in {"reading", "closed"} /\ ~session[p].open
    /\ session' = [session EXCEPT ![p] = NoSession]
    /\ UNCHANGED <<conn, downstream, leases, bridge, cache>>

PublicNext(c) ==
    \/ \E p \in Ports : Admit(c, p)
    \/ Register(c) \/ Forward(c) \/ DropGuard(c) \/ CloseSocket(c)

SessionNext(p) ==
    \/ LocalConnect(p) \/ FilterForbids(p) \/ FilterFails(p) \/ FilterAuthenticated(p) \/ FilterDevelopment(p)
    \/ CacheHit(p)
    \/ \E b \in Bridges : ReuseUpstream(p, b) \/ ConnectUpstream(p, b)
    \/ Respond(p) \/ RetryUpstream(p) \/ Abandon(p) \/ EndRequest(p)
    \/ NextRequest(p) \/ SessionGone(p)

HttpNext ==
    \/ \E c \in Conns : PublicNext(c)
    \/ \E p \in Ports : SessionNext(p)
    \/ \E b \in Bridges : InternalConnect(b) \/ InternalConnectFails(b) \/ StreamEnds(b)
    \/ Tick

-----------------------------------------------------------------------------
\* The store holds exactly one entry per live guard, under the guard's address and
\* generation, and register never fails: the connection permits bound the entries,
\* and an address is only handed out again after its entry was removed.
DownstreamExact ==
    /\ \A c \in Conns : conn[c].pc # "refused"
    /\ {<<p, downstream[p].generation, {downstream[p].context}>> : p \in DOMAIN downstream}
         = {<<CHOOSE p \in conn[c].port : TRUE, CHOOSE g \in conn[c].generation : TRUE,
              conn[c].context>> : c \in {d \in Conns : conn[d].generation # {}}}

\* A request in Pingora runs under the identity and isolation admitted for the very
\* connection that sent it, whatever headers it carries and whoever else uses or used
\* its address; and no bytes behind an admitted request are served as a request.
Attributed ==
    config.production =>
        \A p \in Ports : \A ctx \in session[p].ctx :
            /\ session[p].first
            /\ \A sender \in session[p].sender :
                /\ ctx.identity = {sender.identity}
                /\ ctx.isolation.tenant = ctx.identity
                /\ ctx.isolation.caller = sender.isolation.identity
                /\ ctx.strict = sender.isolation.strict
            /\ session[p].sender # {}

\* A lease exists exactly as long as the request it was issued for, and a stream is
\* used by one request and charged to the tenant of that request, also when the stream
\* was opened by an earlier request.
LeasesExact ==
    /\ DOMAIN leases = UNION {ctx.lease : ctx \in CtxsOf(session)}
    /\ \A p \in Ports : \A ctx \in session[p].ctx :
        /\ \A lease \in ctx.lease : {leases[lease]} = ctx.identity
        /\ \A b \in session[p].bridge :
            /\ bridge[b].user = {p}
            /\ session[p].pc = "serving" => bridge[b].scope = ctx.identity

\* A cached response is only served to a request of the tenant, the isolation identity
\* and the group key that fetched it, and never to or from a strict request.
CacheIsolated ==
    \A p \in Ports : \A by \in session[p].via : \A ctx \in session[p].ctx :
        /\ by.identity = ctx.identity /\ by.isolation = ctx.isolation /\ by.group = ctx.group
        /\ ~by.strict /\ ~ctx.strict

\* No entry is served beyond the time the operator allows, whatever the origin says.
CacheFresh ==
    \A entry \in cache : entry.age + entry.left <= effective_max_ttl

=============================================================================

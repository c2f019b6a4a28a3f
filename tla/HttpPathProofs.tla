--------------------------- MODULE HttpPathProofs ---------------------------
(***************************************************************************)
(* The HTTP path, for any number of connections, sockets, streams, tenants *)
(* and heads.  What the properties of HttpPath say about one component     *)
(* rests on what the others keep at the same time: the context store on    *)
(* the order in which sockets and guards go, the identity of a request on  *)
(* the context store, the charge of a stream on the leases and the pool,   *)
(* and the owner of a cached response on the identity of the request that  *)
(* fetched it.  HttpInv states all of it at once.                          *)
(***************************************************************************)
EXTENDS StartupProofs, FiniteSetTheorems

Tenant == {IdentityOf[k] : k \in Credentials}

-----------------------------------------------------------------------------
(***************************************************************************)
(* Sessions.  A session has a request exactly between its filter and its   *)
(* end, and a stream exactly while it is connecting or serving.            *)
(***************************************************************************)
SessionShape(s) ==
    s = [pc |-> s.pc, open |-> s.open, head |-> s.head, first |-> s.first, sender |-> s.sender,
         ctx |-> s.ctx, bridge |-> s.bridge, via |-> s.via]

SessionPhase(s) ==
    \/ /\ s.pc \in {"none", "reading", "closed"}
       /\ s.ctx = {} /\ s.bridge = {} /\ s.via = {}
    \/ /\ s.pc \in {"filtered", "retry"}
       /\ (\E ctx : s.ctx = {ctx}) /\ s.bridge = {} /\ s.via = {}
    \/ /\ s.pc \in {"connecting", "serving"}
       /\ (\E ctx : s.ctx = {ctx}) /\ (\E b \in Bridges : s.bridge = {b}) /\ s.via = {}
    \/ /\ s.pc = "ending"
       /\ \/ s.ctx = {} /\ s.via = {}
          \/ \E ctx : s.ctx = {ctx}
       /\ s.bridge = {}

SessionOK(s) ==
    /\ SessionShape(s) /\ SessionPhase(s)
    /\ s.open \in BOOLEAN /\ s.first \in BOOLEAN
    /\ s.pc = "none" => s = NoSession
    /\ s.head # {} => s.pc = "reading"
    /\ \A head \in s.head : IsHead(head)
    /\ config.production => s.first
    /\ ~config.production => s.sender = {}

SessionsOK ==
    /\ session = [p \in Ports |-> session[p]]
    /\ \A p \in Ports : SessionOK(session[p])

(***************************************************************************)
(* Requests.  In production the identity is that of the sender, in         *)
(* development there is none; in both it is the tenant of the isolation,   *)
(* which owns the group key and makes up the scope in the cache.           *)
(***************************************************************************)
Scopes(ctx) ==
    IF ctx.strict THEN {} ELSE {cache_scope(i, ctx.isolation, ctx.group) : i \in ctx.identity}

CtxOK(p, sender, ctx) ==
    /\ ctx.isolation.tenant = ctx.identity /\ ctx.group.owner = ctx.isolation
    /\ ctx.strict \in BOOLEAN /\ ctx.cache_scope = Scopes(ctx)
    /\ config.production =>
        /\ ~ctx.keepalive
        /\ \E x : /\ sender = {x} /\ ctx.identity = {x.identity} /\ x.identity \in Tenant
                  /\ ctx.isolation.caller = x.isolation.identity
                  /\ ctx.strict = x.isolation.strict
        /\ \E lease : ctx.lease = {lease} /\ lease[1] = p
    /\ ~config.production => ctx.identity = {} /\ ctx.lease = {}

CtxsOK == \A p \in Ports : \A ctx \in session[p].ctx : CtxOK(p, session[p].sender, ctx)

\* A lease exists for as long as its request and stands for its identity.
LeasesOK ==
    /\ \A p \in Ports : \A ctx \in session[p].ctx : \A lease \in ctx.lease :
        lease \in DOMAIN leases /\ {leases[lease]} = ctx.identity
    /\ \A lease \in DOMAIN leases :
        \E p \in Ports : \E ctx \in session[p].ctx : lease \in ctx.lease

(***************************************************************************)
(* Connections.  The socket of a connection stays open until the handler   *)
(* has dropped its guard; nothing reaches Pingora before the registration, *)
(* and what reaches it carries the admitted context.                       *)
(***************************************************************************)
ConnShape(t) ==
    t = [pc |-> t.pc, head |-> t.head, context |-> t.context, port |-> t.port,
         generation |-> t.generation]

Pristine(s) == s.pc = "reading" /\ s.head = {} /\ s.first /\ s.ctx = {}

ConnOK(t) ==
    /\ ConnShape(t)
    /\ t.pc \in {"idle", "connected", "registered", "copying", "closing"}
    /\ t.pc = "idle" => t.port = {} /\ t.generation = {}
    /\ t.pc # "idle" => /\ \E p \in Ports : t.port = {p}
                        /\ config.production =>
                               \E x : t.context = {x} /\ x.identity \in Tenant /\ x.isolation.strict \in BOOLEAN
                        /\ ~config.production => t.context = {}
    /\ t.generation # {} => /\ t.pc \in {"registered", "copying"} /\ config.production
                            /\ \E g : t.generation = {g}
    /\ \A head \in t.head : IsHead(head)

\* What a connection may count on at Pingora's side of its socket.
SocketOK(t, s) ==
    /\ s.pc # "none" /\ s.open
    /\ t.pc \in {"connected", "registered"} => Pristine(s)
    /\ t.pc = "copying" => s.sender = t.context \/ s.pc = "closed"

Active == {c \in Conns : conn[c].pc # "idle"}

ConnsOK ==
    /\ conn = [c \in Conns |-> conn[c]]
    /\ \A c \in Conns : ConnOK(conn[c])
    /\ \A c, d \in Conns : \A p \in conn[c].port : p \in conn[d].port => c = d

SocketsOK == \A c \in Conns : \A p \in conn[c].port : SocketOK(conn[c], session[p])

\* The permits bound the connections, and with them the entries of the store.
PermitsOK == At("serving") => Cardinality(Active) <= config.connections

\* One entry per guard, and one guard per entry.
DownstreamOK ==
    /\ \A p \in DOMAIN downstream :
        \E c \in Conns : p \in conn[c].port /\ conn[c].generation # {}
    /\ \A c \in Conns : conn[c].generation # {} =>
        \A p \in conn[c].port :
            /\ p \in DOMAIN downstream
            /\ conn[c].generation = {downstream[p].generation}
            /\ conn[c].context = {downstream[p].context}

(***************************************************************************)
(* Streams.  A stream and the request that uses it name each other; while  *)
(* it is set up it carries the lease of that request, and once open it is  *)
(* charged to the tenant that owns its group key, whoever uses it.         *)
(***************************************************************************)
BridgeShape(u) ==
    u = [pc |-> u.pc, host |-> u.host, group |-> u.group, lease |-> u.lease, scope |-> u.scope,
         user |-> u.user, reused |-> u.reused]

BridgeOK(b, u) ==
    /\ BridgeShape(u) /\ u.pc \in {"free", "connecting", "open", "abandoned"}
    /\ u.pc \in {"free", "abandoned"} => u.user = {}
    /\ u.user # {} => \E p \in Ports : u.user = {p} /\ session[p].bridge = {b}
    /\ u.pc = "open" => \E g : u.group = {g} /\ u.scope = g.owner.tenant

UseOK(p, s, u, ctx) ==
    /\ u.user = {p} /\ u.group = {ctx.group}
    /\ s.pc = "connecting" => u.pc = "connecting" /\ u.lease = ctx.lease
    /\ s.pc = "serving" => u.pc = "open"

BridgesOK ==
    /\ bridge = [b \in Bridges |-> bridge[b]]
    /\ \A b \in Bridges : BridgeOK(b, bridge[b])

UsesOK ==
    \A p \in Ports : \A b \in session[p].bridge : \A ctx \in session[p].ctx :
        UseOK(p, session[p], bridge[b], ctx)

(***************************************************************************)
(* The cache.  An entry is filed under the tenant of the request that      *)
(* fetched it, together with its isolation and group key.                  *)
(***************************************************************************)
EntryOK(entry) ==
    /\ entry = [key |-> entry.key, left |-> entry.left, age |-> entry.age, by |-> entry.by]
    /\ entry.left \in Nat /\ entry.age \in Nat
    /\ entry.age + entry.left <= effective_max_ttl
    /\ ~entry.by.strict
    /\ entry.by.isolation.tenant = entry.by.identity
    /\ \E x \in Tenant : /\ entry.by.identity = {x}
                         /\ entry.key.scope = {cache_scope(x, entry.by.isolation, entry.by.group)}

CacheOK == \A entry \in cache : EntryOK(entry)

HttpInv ==
    /\ SessionsOK /\ CtxsOK /\ LeasesOK
    /\ ConnsOK /\ SocketsOK /\ PermitsOK /\ DownstreamOK
    /\ BridgesOK /\ UsesOK
    /\ CacheOK /\ CacheIsolated

\* Until the process serves, and after it has ended, there is nothing to keep.
ServiceInv == StartInv /\ HttpInv /\ (~At("serving") => HttpInit)

-----------------------------------------------------------------------------
(***************************************************************************)
(* Where nothing is going on the invariant holds, whatever config is.      *)
(***************************************************************************)
\* Without connections, sessions, leases, streams and entries.
LEMMA NothingYet ==
    ASSUME StartInv, HttpInit
    PROVE  HttpInv
<1>1. /\ \A p \in Ports : session[p] = NoSession
      /\ \A c \in Conns : conn[c] = NoConn
      /\ \A b \in Bridges : bridge[b] = NoBridge
  BY DEF HttpInit
<1>2. DOMAIN downstream = {} /\ DOMAIN leases = {} /\ cache = {}
  BY DEF HttpInit
<1>3. SessionsOK
  <2>1. session = [p \in Ports |-> session[p]]
    BY DEF HttpInit
  <2>2. SessionShape(NoSession) /\ NoSession.pc = "none" /\ NoSession.head = {}
    BY DEF SessionShape, NoSession
  <2>3. NoSession.ctx = {} /\ NoSession.bridge = {} /\ NoSession.via = {} /\ NoSession.sender = {}
    BY DEF NoSession
  <2>4. NoSession.open = FALSE /\ NoSession.first = TRUE
    BY Zenon DEF NoSession
  <2>5. SessionOK(NoSession)
    BY <2>2, <2>3, <2>4 DEF SessionOK, SessionPhase
  <2> QED BY <1>1, <2>1, <2>5 DEF SessionsOK
<1>4. CtxsOK /\ LeasesOK /\ UsesOK /\ CacheIsolated
  BY <1>1, <1>2 DEF CtxsOK, LeasesOK, UsesOK, CacheIsolated, NoSession
<1>5. ConnsOK /\ SocketsOK /\ DownstreamOK
  <2>1. conn = [c \in Conns |-> conn[c]]
    BY DEF HttpInit
  <2>2. /\ NoConn.pc = "idle" /\ NoConn.port = {} /\ NoConn.generation = {} /\ NoConn.head = {}
        /\ ConnShape(NoConn)
    BY DEF NoConn, ConnShape
  <2>3. ConnOK(NoConn)
    BY <2>2 DEF ConnOK
  <2> QED BY <1>1, <1>2, <2>1, <2>2, <2>3 DEF ConnsOK, SocketsOK, DownstreamOK
<1>6. PermitsOK
  <2>1. Active = {}
    BY <1>1 DEF Active, NoConn
  <2>2. At("serving") => config.connections \in Nat
    BY DEF StartInv, ConfigFollowed, ConfigChecked, At
  <2> QED BY <2>1, <2>2, FS_EmptySet DEF PermitsOK
<1>7. BridgesOK
  <2>1. bridge = [b \in Bridges |-> bridge[b]]
    BY DEF HttpInit
  <2>2. BridgeShape(NoBridge) /\ NoBridge.pc = "free" /\ NoBridge.user = {}
    BY Zenon DEF NoBridge, BridgeShape
  <2> QED BY <1>1, <2>1, <2>2 DEF BridgesOK, BridgeOK
<1>8. CacheOK
  BY <1>2 DEF CacheOK
<1> QED BY <1>3, <1>4, <1>5, <1>6, <1>7, <1>8 DEF HttpInv

-----------------------------------------------------------------------------
(***************************************************************************)
(* What a step of one component leaves to the others.                      *)
(***************************************************************************)
\* A step of sessions is of no concern to connections unless it closes or takes over
\* a socket, or begins before the handler has written.
SocketKept(s, t) ==
    \/ t = s
    \/ s.pc = "none" \/ ~s.open
    \/ /\ ~Pristine(s) /\ s.pc # "closed" /\ t.pc # "none" /\ t.open = s.open
       /\ t.sender = s.sender \/ t.pc = "closed"

\* Sessions whose sockets stay as they are keep what the handlers count on.
LEMMA ConnectionsKeep ==
    ASSUME HttpInv, UNCHANGED <<conn, downstream, config, process>>,
           \A p \in Ports : SocketKept(session[p], session'[p])
    PROVE  ConnsOK' /\ SocketsOK' /\ PermitsOK' /\ DownstreamOK'
<1>1. ConnsOK' /\ PermitsOK' /\ DownstreamOK'
  BY DEF HttpInv, ConnsOK, ConnOK, PermitsOK, Active, At, DownstreamOK
<1>2. ASSUME NEW c \in Conns, NEW p \in conn[c].port
      PROVE  SocketOK(conn[c], session'[p])
  <2>1. SocketOK(conn[c], session[p]) /\ p \in Ports
    BY DEF HttpInv, SocketsOK, ConnsOK, ConnOK
  <2>2. SocketKept(session[p], session'[p])
    BY <2>1
  <2>3. CASE session'[p] = session[p]
    BY <2>1, <2>3
  <2>4. CASE ~session[p].open \/ session[p].pc = "none"
    BY <2>1, <2>4 DEF SocketOK
  <2>5. CASE /\ ~Pristine(session[p]) /\ session[p].pc # "closed" /\ session'[p].pc # "none"
             /\ session'[p].open = session[p].open
             /\ session'[p].sender = session[p].sender \/ session'[p].pc = "closed"
    <3> HIDE DEF Pristine
    <3>1. session'[p].open
      BY <2>1, <2>5 DEF SocketOK
    <3>2. ~(conn[c].pc \in {"connected", "registered"})
      BY <2>1, <2>5 DEF SocketOK
    <3>3. conn[c].pc = "copying" =>
              session'[p].sender = conn[c].context \/ session'[p].pc = "closed"
      <4> SUFFICES ASSUME conn[c].pc = "copying", session'[p].pc # "closed"
                   PROVE  session'[p].sender = conn[c].context
        OBVIOUS
      <4>1. session'[p].sender = session[p].sender
        BY <2>5
      <4>2. session[p].sender = conn[c].context \/ session[p].pc = "closed"
        BY <2>1 DEF SocketOK
      <4> QED BY <4>1, <4>2, <2>5
    <3> QED BY <2>5, <3>1, <3>2, <3>3 DEF SocketOK
  <2> QED BY <2>2, <2>3, <2>4, <2>5 DEF SocketKept
<1>3. SocketsOK'
  BY <1>2 DEF SocketsOK, SocketOK, Pristine
<1> QED BY <1>1, <1>3

\* A step that leaves requests as they are, and the leases.
RequestKept(s, t) ==
    /\ t.ctx = s.ctx /\ t.via = s.via
    /\ s.ctx # {} => t.sender = s.sender

\* Sessions whose requests stay as they are keep the contexts and the leases.
LEMMA RequestsKeep ==
    ASSUME HttpInv, UNCHANGED <<leases, config>>,
           \A p \in Ports : RequestKept(session[p], session'[p])
    PROVE  CtxsOK' /\ LeasesOK' /\ CacheIsolated'
<1>1. CtxsOK'
  <2>1. \A p, sender, ctx : CtxOK(p, sender, ctx)' = CtxOK(p, sender, ctx)
    BY DEF CtxOK
  <2> QED BY <2>1 DEF HttpInv, CtxsOK, RequestKept
<1>2. LeasesOK'
  BY DEF HttpInv, LeasesOK, RequestKept
<1>3. CacheIsolated'
  BY DEF HttpInv, CacheIsolated, RequestKept
<1> QED BY <1>1, <1>2, <1>3

\* A step that leaves the use of streams as it is.
UseKept(s, t) ==
    /\ t.ctx = s.ctx /\ t.bridge = s.bridge
    /\ s.bridge # {} => t.pc = s.pc

\* Sessions that use the same streams keep what is known of the streams.
LEMMA StreamsKeep ==
    ASSUME HttpInv, UNCHANGED <<bridge, config>>,
           \A p \in Ports : UseKept(session[p], session'[p])
    PROVE  BridgesOK' /\ UsesOK'
<1>1. BridgesOK'
  BY DEF HttpInv, BridgesOK, BridgeOK, BridgeShape, UseKept
<1>2. UsesOK'
  BY DEF HttpInv, UsesOK, UseOK, UseKept
<1> QED BY <1>1, <1>2

\* An unchanged cache stays sound under an unchanged configuration.
LEMMA CacheKeeps ==
    ASSUME HttpInv, UNCHANGED <<cache, config>>
    PROVE  CacheOK'
BY DEF HttpInv, CacheOK, EntryOK, effective_max_ttl, cache_scope

\* A session that changes alone.
LEMMA OneSession ==
    ASSUME HttpInv, UNCHANGED config, NEW p \in Ports, NEW s,
           session' = [session EXCEPT ![p] = s], SessionOK(s)
    PROVE  SessionsOK'
<1>1. /\ session' = [q \in Ports |-> session'[q]] /\ session'[p] = s
      /\ \A q \in Ports \ {p} : session'[q] = session[q]
  BY DEF HttpInv, SessionsOK
<1>2. \A q \in Ports : SessionOK(session'[q])
  BY <1>1 DEF HttpInv, SessionsOK
<1>3. \A q \in Ports : SessionOK(session[q])' = SessionOK(session'[q])
  BY DEF SessionOK
<1> QED BY <1>1, <1>2, <1>3 DEF SessionsOK

-----------------------------------------------------------------------------
(***************************************************************************)
(* Sessions that read, are refused or go.                                  *)
(***************************************************************************)
LEMMA QuietStep ==
    ASSUME HttpInv, UNCHANGED <<conn, downstream, leases, bridge, cache, config, process>>,
           NEW p \in Ports, NEW s, session' = [session EXCEPT ![p] = s],
           SessionOK(s), SocketKept(session[p], s), RequestKept(session[p], s),
           UseKept(session[p], s)
    PROVE  HttpInv'
<1>1. \A q \in Ports : session'[q] = IF q = p THEN s ELSE session[q]
  BY DEF HttpInv, SessionsOK
<1>2. \A q \in Ports : /\ SocketKept(session[q], session'[q])
                       /\ RequestKept(session[q], session'[q])
                       /\ UseKept(session[q], session'[q])
  BY <1>1 DEF SocketKept, RequestKept, UseKept
<1>3. SessionsOK'
  BY OneSession
<1> QED
  BY <1>2, <1>3, ConnectionsKeep, RequestsKeep, StreamsKeep, CacheKeeps DEF HttpInv

\* A session with another point and another head.
LEMMA HeadSet ==
    ASSUME NEW r, SessionShape(r), NEW pc, NEW head, NEW s,
           s = [r EXCEPT !.pc = pc, !.head = head]
    PROVE  /\ s.pc = pc /\ s.head = head /\ s.open = r.open /\ s.first = r.first
           /\ s.sender = r.sender /\ s.ctx = r.ctx /\ s.bridge = r.bridge
           /\ s.via = r.via /\ SessionShape(s)
<1>1. s = [pc |-> pc, open |-> r.open, head |-> head, first |-> r.first, sender |-> r.sender,
           ctx |-> r.ctx, bridge |-> r.bridge, via |-> r.via]
  BY DEF SessionShape
<1> QED BY <1>1 DEF SessionShape

\* A request is refused before it has a context.
LEMMA RefusedStep ==
    ASSUME HttpInv, UNCHANGED <<conn, downstream, leases, bridge, cache, config, process>>,
           NEW p \in Ports, Reading(p),
           session' = [session EXCEPT ![p].pc = "ending", ![p].head = {}]
    PROVE  HttpInv'
<1> DEFINE s == [session[p] EXCEPT !.pc = "ending", !.head = {}]
<1>1. SessionOK(session[p]) /\ session[p].pc = "reading" /\ session[p].head # {}
  BY DEF HttpInv, SessionsOK, Reading
<1>2. session' = [session EXCEPT ![p] = s]
  BY DEF HttpInv, SessionsOK
<1>3. /\ s.pc = "ending" /\ s.head = {} /\ s.open = session[p].open /\ s.first = session[p].first
      /\ s.sender = session[p].sender /\ s.ctx = session[p].ctx /\ s.bridge = session[p].bridge
      /\ s.via = session[p].via /\ SessionShape(s)
  BY <1>1, HeadSet DEF SessionOK
<1> HIDE DEF s
<1>4. session[p].ctx = {} /\ session[p].bridge = {} /\ session[p].via = {}
  BY <1>1 DEF SessionOK, SessionPhase
<1>5. SessionOK(s)
  BY <1>1, <1>3, <1>4 DEF SessionOK, SessionPhase
<1>6. SocketKept(session[p], s) /\ RequestKept(session[p], s) /\ UseKept(session[p], s)
  BY <1>1, <1>3, <1>4 DEF SocketKept, RequestKept, UseKept, Pristine
<1> QED BY <1>2, <1>5, <1>6, QuietStep

\* The next head arrives on a session that was kept alive.
LEMMA NextRequestStep ==
    ASSUME HttpInv, UNCHANGED <<config, process>>, NEW p \in Ports, NextRequest(p)
    PROVE  HttpInv'
<1>1. PICK head \in LaterHeads : session' = [session EXCEPT ![p].head = {head}]
  BY DEF NextRequest
<1> DEFINE s == [session[p] EXCEPT !.head = {head}]
<1>2. SessionOK(session[p]) /\ session[p].pc = "reading" /\ ~session[p].first
  BY DEF HttpInv, SessionsOK, NextRequest
<1>3. session' = [session EXCEPT ![p] = s]
  BY <1>1 DEF HttpInv, SessionsOK
<1>4. /\ s.pc = session[p].pc /\ s.head = {head} /\ s.open = session[p].open
      /\ s.first = session[p].first
      /\ s.sender = session[p].sender /\ s.ctx = session[p].ctx /\ s.bridge = session[p].bridge
      /\ s.via = session[p].via /\ SessionShape(s)
  BY <1>2 DEF SessionOK, SessionShape
<1> HIDE DEF s
<1>5. session[p].bridge = {} /\ session[p].via = {} /\ session[p].ctx = {}
  BY <1>2 DEF SessionOK, SessionPhase
<1>6. IsHead(head)
  BY HttpAssumption
<1>7. SessionOK(s)
  BY <1>2, <1>4, <1>5, <1>6 DEF SessionOK, SessionPhase
<1>8. SocketKept(session[p], s) /\ RequestKept(session[p], s) /\ UseKept(session[p], s)
  BY <1>2, <1>4, <1>5 DEF SocketKept, RequestKept, UseKept, Pristine
<1> QED BY <1>3, <1>7, <1>8, QuietStep DEF NextRequest

\* What a session is before and after its socket.
LEMMA NoSessionFields ==
    /\ SessionShape(NoSession) /\ NoSession.pc = "none" /\ NoSession.head = {}
    /\ NoSession.ctx = {} /\ NoSession.bridge = {} /\ NoSession.via = {} /\ NoSession.sender = {}
    /\ NoSession.open = FALSE /\ NoSession.first = TRUE
    /\ SessionOK(NoSession)
<1>1. SessionShape(NoSession) /\ NoSession.pc = "none" /\ NoSession.head = {}
  BY DEF SessionShape, NoSession
<1>2. NoSession.ctx = {} /\ NoSession.bridge = {} /\ NoSession.via = {} /\ NoSession.sender = {}
  BY DEF NoSession
<1>3. NoSession.open = FALSE /\ NoSession.first = TRUE
  BY Zenon DEF NoSession
<1>4. SessionOK(NoSession)
  BY <1>1, <1>2, <1>3 DEF SessionOK, SessionPhase
<1> QED BY <1>1, <1>2, <1>3, <1>4

\* A local process connects where no connection has its socket.
LEMMA LocalConnectStep ==
    ASSUME HttpInv, UNCHANGED <<config, process>>, NEW p \in Ports, LocalConnect(p)
    PROVE  HttpInv'
<1>1. PICK head \in LocalHeads :
        session' = [session EXCEPT ![p] = [NoSession EXCEPT !.pc = "reading", !.head = {head}]]
  BY DEF LocalConnect
<1> DEFINE s == [NoSession EXCEPT !.pc = "reading", !.head = {head}]
<1>2. session[p].pc = "none" /\ session[p] = NoSession
  BY DEF HttpInv, SessionsOK, SessionOK, LocalConnect
<1>3. /\ s.pc = "reading" /\ s.head = {head} /\ s.open = NoSession.open
      /\ s.first = NoSession.first
      /\ s.sender = NoSession.sender /\ s.ctx = NoSession.ctx /\ s.bridge = NoSession.bridge
      /\ s.via = NoSession.via /\ SessionShape(s)
  <2>1. PICK r : r = NoSession
    OBVIOUS
  <2>2. SessionShape(r)
    BY <2>1, NoSessionFields
  <2>3. s = [r EXCEPT !.pc = "reading", !.head = {head}]
    BY <2>1
  <2> HIDE DEF s
  <2>4. s = [pc |-> "reading", open |-> r.open, head |-> {head}, first |-> r.first,
             sender |-> r.sender, ctx |-> r.ctx, bridge |-> r.bridge, via |-> r.via]
    BY <2>2, <2>3 DEF SessionShape
  <2> QED BY <2>1, <2>4 DEF SessionShape
<1>4. session' = [session EXCEPT ![p] = s]
  BY <1>1
<1> HIDE DEF s
<1>5. IsHead(head)
  BY HttpAssumption
<1>6. SessionOK(s)
  BY <1>3, <1>5, NoSessionFields DEF SessionOK, SessionPhase
<1>7. SocketKept(session[p], s) /\ RequestKept(session[p], s) /\ UseKept(session[p], s)
  BY <1>2, <1>3, NoSessionFields DEF SocketKept, RequestKept, UseKept
<1> QED BY <1>4, <1>6, <1>7, QuietStep DEF LocalConnect

\* Pingora closes its side after the handler.
LEMMA SessionGoneStep ==
    ASSUME HttpInv, UNCHANGED <<config, process>>, NEW p \in Ports, SessionGone(p)
    PROVE  HttpInv'
<1>1. SessionOK(session[p]) /\ session[p].pc \in {"reading", "closed"} /\ ~session[p].open
  BY DEF HttpInv, SessionsOK, SessionGone
<1>2. session[p].bridge = {} /\ session[p].via = {} /\ session[p].ctx = {}
  BY <1>1 DEF SessionOK, SessionPhase
<1>3. /\ SocketKept(session[p], NoSession) /\ RequestKept(session[p], NoSession)
      /\ UseKept(session[p], NoSession)
  BY <1>1, <1>2, NoSessionFields DEF SocketKept, RequestKept, UseKept
<1> QED BY <1>3, NoSessionFields, QuietStep DEF SessionGone

-----------------------------------------------------------------------------
(***************************************************************************)
(* The filter: what a request runs under.                                  *)
(***************************************************************************)
\* A group key belongs to the isolation identity it was issued for.
LEMMA GroupsAreOwned ==
    ASSUME NEW isolation, NEW group \in GroupsFor(isolation)
    PROVE  group.owner = isolation
BY DEF GroupsFor

\* The isolation of an authenticated request names its tenant and its caller.
LEMMA ResolvedFor ==
    ASSUME NEW identity, NEW origin, NEW request
    PROVE  /\ Resolve(identity, origin, request).tenant = identity
           /\ Resolve(identity, origin, request).caller = request.identity
<1> DEFINE isolation == [tenant |-> identity, destination |-> origin,
                         caller |-> request.identity, nonce |-> {}]
<1>1. isolation.tenant = identity /\ isolation.caller = request.identity
  OBVIOUS
<1>2. /\ WithNonce(isolation).tenant = identity
      /\ WithNonce(isolation).caller = request.identity
  BY DEF WithNonce
<1>3. Resolve(identity, origin, request) = IF request.strict THEN WithNonce(isolation) ELSE isolation
  BY DEF Resolve
<1> HIDE DEF isolation
<1> QED BY <1>1, <1>2, <1>3

\* In development nobody is the tenant.
LEMMA ResolvedForNobody ==
    ASSUME NEW request
    PROVE  resolve_isolation(request).tenant = {}
<1> DEFINE isolation(caller) == [tenant |-> {}, destination |-> {}, caller |-> caller, nonce |-> {}]
<1>1. \A caller : isolation(caller).tenant = {}
  OBVIOUS
<1>2. WithNonce(isolation({})).tenant = {}
  BY DEF WithNonce
<1>3. resolve_isolation(request) = IF request.strict \/ request.identity = {}
                                   THEN WithNonce(isolation({})) ELSE isolation(request.identity)
  BY DEF resolve_isolation
<1> HIDE DEF isolation
<1> QED BY <1>1, <1>2, <1>3

\* The one head of a session that is reading.
LEMMA HeadIsHead ==
    ASSUME HttpInv, NEW p \in Ports, Reading(p)
    PROVE  HeadOf(p) \in session[p].head /\ IsHead(HeadOf(p))
BY DEF HttpInv, SessionsOK, SessionOK, Reading, HeadOf

\* A socket with an entry in the context store belongs to a connection that has written
\* its request, and the entry is the context of that connection.
LEMMA SenderIsRegistered ==
    ASSUME HttpInv, NEW p \in Ports, Reading(p), p \in DOMAIN downstream
    PROVE  /\ session[p].sender = {downstream[p].context}
           /\ downstream[p].context.identity \in Tenant
           /\ downstream[p].context.isolation.strict \in BOOLEAN
<1>1. PICK c \in Conns : p \in conn[c].port /\ conn[c].generation # {}
  BY DEF HttpInv, DownstreamOK
<1>2. conn[c].context = {downstream[p].context}
  BY <1>1 DEF HttpInv, DownstreamOK
<1>3. conn[c].pc \in {"registered", "copying"} /\ config.production
  BY <1>1 DEF HttpInv, ConnsOK, ConnOK
<1>4. SocketOK(conn[c], session[p])
  BY <1>1 DEF HttpInv, SocketsOK
<1>5. session[p].pc = "reading" /\ session[p].head # {}
  BY DEF Reading
<1>6. conn[c].pc = "copying"
  BY <1>3, <1>4, <1>5 DEF SocketOK, Pristine
<1>7. session[p].sender = conn[c].context
  BY <1>4, <1>5, <1>6 DEF SocketOK
<1>8. PICK x : conn[c].context = {x} /\ x.identity \in Tenant /\ x.isolation.strict \in BOOLEAN
  BY <1>3 DEF HttpInv, ConnsOK, ConnOK
<1>9. x = downstream[p].context
  BY <1>2, <1>8
<1> QED BY <1>2, <1>7, <1>8, <1>9

\* What NewCtx makes of what the filter found.
MadeOf(ctx, identity, isolation, group, strict, lease) ==
    /\ ctx.identity = identity /\ ctx.isolation = isolation /\ ctx.group = group
    /\ ctx.strict = strict /\ ctx.lease = lease /\ ctx.keepalive = KeepsAlive(strict)
    /\ ctx.group.owner = ctx.isolation /\ ctx.cache_scope = Scopes(ctx)

\* What request_filter puts in a new context.
LEMMA NewCtxOK ==
    ASSUME HttpInv, NEW p \in Ports, Reading(p), NEW identity, NEW isolation, NEW group, NEW strict,
           NEW lease, group \in GroupsFor(isolation),
           NEW taken, taken \in take_isolation_request(HeadOf(p).headers), NEW ctx,
           ctx = NewCtx(p, identity, isolation, group, strict, lease, taken)
    PROVE  MadeOf(ctx, identity, isolation, group, strict, lease)
<1> DEFINE scope == IF strict THEN {} ELSE {cache_scope(i, isolation, group) : i \in identity}
           head == [HeadOf(p) EXCEPT !.headers = taken.headers]
           keep == KeepsAlive(strict)
<1>1. ctx = [identity |-> identity, isolation |-> isolation, strict |-> strict, group |-> group,
             lease |-> lease, keepalive |-> keep, cache_scope |-> scope, head |-> head]
  BY DEF NewCtx
<1> HIDE DEF scope, head, keep
<1>2. /\ ctx.identity = identity /\ ctx.isolation = isolation /\ ctx.group = group
      /\ ctx.strict = strict /\ ctx.lease = lease /\ ctx.keepalive = keep
      /\ ctx.cache_scope = scope /\ ctx.head = head
  BY <1>1
<1>3. ctx.group.owner = ctx.isolation
  BY <1>2, GroupsAreOwned
<1>4. ctx.cache_scope = Scopes(ctx)
  BY <1>2 DEF Scopes, scope
<1> QED BY <1>2, <1>3, <1>4 DEF keep, MadeOf

\* A request begins.  Its lease, if it has one, was issued with it and bears the number
\* of its socket, so that no other request has it.
LEMMA BeginStep ==
    ASSUME HttpInv, UNCHANGED <<config, process>>, NEW p \in Ports, NEW ctx, Reading(p),
           Begin(p, ctx), CtxOK(p, session[p].sender, ctx),
           DOMAIN leases' = DOMAIN leases \cup ctx.lease,
           \A lease \in DOMAIN leases \ ctx.lease : leases'[lease] = leases[lease],
           \A lease \in ctx.lease : {leases'[lease]} = ctx.identity
    PROVE  HttpInv'
<1> DEFINE s == [session[p] EXCEPT !.pc = "filtered", !.head = {}, !.ctx = {ctx}]
<1>1. SessionOK(session[p]) /\ session[p].pc = "reading" /\ session[p].head # {}
  BY DEF HttpInv, SessionsOK, Reading
<1>2. session' = [session EXCEPT ![p] = s]
  BY DEF HttpInv, SessionsOK, Begin
<1>3. s = [pc |-> "filtered", open |-> session[p].open, head |-> {}, first |-> session[p].first,
           sender |-> session[p].sender, ctx |-> {ctx}, bridge |-> session[p].bridge,
           via |-> session[p].via]
  <2>1. PICK r : r = session[p]
    OBVIOUS
  <2>2. SessionShape(r) /\ s = [r EXCEPT !.pc = "filtered", !.head = {}, !.ctx = {ctx}]
    BY <1>1, <2>1 DEF SessionOK
  <2> HIDE DEF s
  <2>3. s = [pc |-> "filtered", open |-> r.open, head |-> {}, first |-> r.first,
             sender |-> r.sender, ctx |-> {ctx}, bridge |-> r.bridge, via |-> r.via]
    BY <2>2 DEF SessionShape
  <2> QED BY <2>1, <2>3
<1> HIDE DEF s
<1>4. /\ s.pc = "filtered" /\ s.head = {} /\ s.open = session[p].open /\ s.first = session[p].first
      /\ s.sender = session[p].sender /\ s.ctx = {ctx} /\ s.bridge = session[p].bridge
      /\ s.via = session[p].via /\ SessionShape(s)
  BY <1>3 DEF SessionShape
<1>5. session[p].ctx = {} /\ session[p].bridge = {} /\ session[p].via = {}
  BY <1>1 DEF SessionOK, SessionPhase
<1>6. SessionOK(s)
  BY <1>1, <1>4, <1>5 DEF SessionOK, SessionPhase
<1>7. SessionsOK'
  BY <1>2, <1>6, OneSession
<1>8. \A q \in Ports : session'[q] = IF q = p THEN s ELSE session[q]
  BY <1>2 DEF HttpInv, SessionsOK
<1>9. UNCHANGED <<conn, downstream, bridge, cache>>
  BY DEF Begin
<1>10. ConnsOK' /\ SocketsOK' /\ PermitsOK' /\ DownstreamOK'
  <2>1. \A q \in Ports : SocketKept(session[q], session'[q])
    BY <1>1, <1>4, <1>8 DEF SocketKept, Pristine
  <2> QED BY <1>9, <2>1, ConnectionsKeep
<1>11. CtxsOK'
  <2>1. \A q, sender, r : CtxOK(q, sender, r)' = CtxOK(q, sender, r)
    BY DEF CtxOK
  <2>2. \A q \in Ports : \A r \in session'[q].ctx : CtxOK(q, session'[q].sender, r)
    BY <1>4, <1>8 DEF HttpInv, CtxsOK
  <2> QED BY <2>1, <2>2 DEF CtxsOK
<1>12. LeasesOK'
  <2>1. ASSUME NEW q \in Ports, NEW r \in session'[q].ctx, NEW lease \in r.lease
        PROVE  lease \in DOMAIN leases' /\ {leases'[lease]} = r.identity
    <3>1. CASE q = p
      BY <1>4, <1>8, <2>1, <3>1
    <3>2. CASE q # p
      <4>1. r \in session[q].ctx /\ lease \in DOMAIN leases /\ {leases[lease]} = r.identity
        BY <1>8, <2>1, <3>2 DEF HttpInv, LeasesOK
      <4>2. CtxOK(q, session[q].sender, r)
        BY <4>1 DEF HttpInv, CtxsOK
      <4>3. lease \notin ctx.lease
        BY <2>1, <3>2, <4>2 DEF CtxOK
      <4> QED BY <4>1, <4>3
    <3> QED BY <3>1, <3>2
  <2>2. ASSUME NEW lease \in DOMAIN leases'
        PROVE  \E q \in Ports : \E r \in session'[q].ctx : lease \in r.lease
    <3>1. CASE lease \in ctx.lease
      BY <1>4, <1>8, <3>1
    <3>2. CASE lease \in DOMAIN leases
      <4>1. PICK q \in Ports : \E r \in session[q].ctx : lease \in r.lease
        BY <3>2 DEF HttpInv, LeasesOK
      <4>2. q # p
        BY <1>5, <4>1
      <4> QED BY <1>8, <4>1, <4>2
    <3> QED BY <3>1, <3>2
  <2> QED BY <2>1, <2>2 DEF LeasesOK
<1>13. BridgesOK' /\ UsesOK'
  <2>1. \A b \in Bridges : bridge[b].user # {} =>
            \E q \in Ports : bridge[b].user = {q} /\ session'[q].bridge = {b}
    <3>1. \A q \in Ports : session'[q].bridge = session[q].bridge
      BY <1>4, <1>8
    <3> QED BY <3>1 DEF HttpInv, BridgesOK, BridgeOK
  <2>2. BridgesOK'
    BY <1>9, <2>1 DEF HttpInv, BridgesOK, BridgeOK, BridgeShape
  <2>3. UsesOK'
    BY <1>4, <1>5, <1>8, <1>9 DEF HttpInv, UsesOK, UseOK
  <2> QED BY <2>2, <2>3
<1>14. CacheOK'
  BY <1>9, CacheKeeps
<1>15. CacheIsolated'
  BY <1>4, <1>5, <1>8 DEF HttpInv, CacheIsolated
<1> QED
  BY <1>7, <1>10, <1>11, <1>12, <1>13, <1>14, <1>15 DEF HttpInv

\* In production the request runs under the context of its sender.
LEMMA FilterAuthenticatedStep ==
    ASSUME HttpInv, UNCHANGED <<config, process>>, NEW p \in Ports, FilterAuthenticated(p)
    PROVE  HttpInv'
<1> DEFINE context == downstream[p].context
           lease == FreshLease(p)
<1>1. Reading(p) /\ config.production /\ p \in DOMAIN downstream
  BY DEF FilterAuthenticated
<1>2. PICK taken \in take_isolation_request(HeadOf(p).headers),
           parts \in canonical_cache_key_parts(HeadOf(p)) :
        /\ leases' = With(leases, lease, context.identity)
        /\ \E group \in GroupsFor(Resolve({context.identity}, {parts.origin}, context.isolation)) :
            Begin(p, NewCtx(p, {context.identity},
                            Resolve({context.identity}, {parts.origin}, context.isolation), group,
                            context.isolation.strict, {lease}, taken))
  BY DEF FilterAuthenticated
<1> DEFINE isolation == Resolve({context.identity}, {parts.origin}, context.isolation)
<1>3. isolation.tenant = {context.identity} /\ isolation.caller = context.isolation.identity
  BY ResolvedFor
<1>4. PICK group \in GroupsFor(isolation) :
        Begin(p, NewCtx(p, {context.identity}, isolation, group, context.isolation.strict, {lease},
                        taken))
  BY <1>2
<1>5. PICK ctx : ctx = NewCtx(p, {context.identity}, isolation, group, context.isolation.strict,
                              {lease}, taken)
  OBVIOUS
<1>6. lease[1] = p
  BY DEF FreshLease
<1>7. DOMAIN leases' = DOMAIN leases \cup {lease} /\ leases'[lease] = context.identity
  BY <1>2 DEF With
<1>8. \A l \in DOMAIN leases \ {lease} : leases'[l] = leases[l]
  BY <1>2 DEF With
<1>9. /\ session[p].sender = {context} /\ context.identity \in Tenant
      /\ context.isolation.strict \in BOOLEAN
  BY <1>1, SenderIsRegistered
<1> HIDE DEF isolation, context, lease
<1>10. /\ ctx.identity = {context.identity} /\ ctx.isolation = isolation /\ ctx.group = group
       /\ ctx.strict = context.isolation.strict /\ ctx.lease = {lease}
       /\ ctx.keepalive = KeepsAlive(context.isolation.strict)
       /\ ctx.group.owner = ctx.isolation
       /\ ctx.strict \in BOOLEAN /\ ctx.cache_scope = Scopes(ctx)
  <2>1. PICK identity, strict, issued, resolved :
            /\ identity = {context.identity} /\ strict = context.isolation.strict
            /\ issued = {lease} /\ resolved = isolation
    OBVIOUS
  <2>2. /\ ctx = NewCtx(p, identity, resolved, group, strict, issued, taken)
        /\ strict \in BOOLEAN /\ group \in GroupsFor(resolved)
    BY <1>5, <1>9, <2>1
  <2>3. MadeOf(ctx, identity, resolved, group, strict, issued)
    BY <1>1, <2>2, NewCtxOK
  <2>4. /\ ctx.identity = identity /\ ctx.isolation = resolved /\ ctx.group = group
        /\ ctx.strict = strict /\ ctx.lease = issued /\ ctx.keepalive = KeepsAlive(strict)
        /\ ctx.group.owner = ctx.isolation /\ ctx.cache_scope = Scopes(ctx)
    BY <2>3 DEF MadeOf
  <2> QED BY <2>1, <2>2, <2>4
<1>11. ~ctx.keepalive
  BY <1>1, <1>10 DEF KeepsAlive
<1>12. CtxOK(p, session[p].sender, ctx)
  BY <1>1, <1>3, <1>6, <1>9, <1>10, <1>11 DEF CtxOK
<1>13. Begin(p, ctx)
  BY <1>4, <1>5
<1>14. /\ DOMAIN leases' = DOMAIN leases \cup ctx.lease
       /\ \A l \in DOMAIN leases \ ctx.lease : leases'[l] = leases[l]
       /\ \A l \in ctx.lease : {leases'[l]} = ctx.identity
  BY <1>7, <1>8, <1>10
<1> QED BY <1>1, <1>12, <1>13, <1>14, BeginStep

\* In development it runs under no identity.
LEMMA FilterDevelopmentStep ==
    ASSUME HttpInv, UNCHANGED <<config, process>>, NEW p \in Ports, FilterDevelopment(p)
    PROVE  HttpInv'
<1>1. Reading(p) /\ ~config.production /\ leases' = leases
  BY DEF FilterDevelopment
<1>2. PICK taken \in take_isolation_request(HeadOf(p).headers) :
        \E group \in GroupsFor(resolve_isolation(taken.isolation)) :
            Begin(p, NewCtx(p, {}, resolve_isolation(taken.isolation), group,
                            taken.isolation.strict, {}, taken))
  BY DEF FilterDevelopment
<1> DEFINE isolation == resolve_isolation(taken.isolation)
           strict == taken.isolation.strict
<1>3. isolation.tenant = {}
  BY ResolvedForNobody
<1>4. PICK group \in GroupsFor(isolation) : Begin(p, NewCtx(p, {}, isolation, group, strict, {}, taken))
  BY <1>2
<1>5. PICK ctx : ctx = NewCtx(p, {}, isolation, group, strict, {}, taken)
  OBVIOUS
<1>6. strict \in BOOLEAN
  <2>1. taken.isolation = IsolationOf(HeadOf(p).headers)
    BY DEF take_isolation_request
  <2>2. \A headers : IsolationOf(headers).strict = ("strict" \in ValueOf(headers, "mode"))
    BY Zenon DEF IsolationOf
  <2>3. \A headers : ("strict" \in ValueOf(headers, "mode")) \in BOOLEAN
    OBVIOUS
  <2> QED BY <2>1, <2>2, <2>3, Zenon
<1> HIDE DEF isolation, strict
<1>7. /\ ctx.identity = {} /\ ctx.isolation = isolation /\ ctx.group = group
      /\ ctx.strict = strict /\ ctx.lease = {}
      /\ ctx.group.owner = ctx.isolation
      /\ ctx.strict \in BOOLEAN /\ ctx.cache_scope = Scopes(ctx)
  <2>1. PICK none : none = {}
    OBVIOUS
  <2>2. ctx = NewCtx(p, none, isolation, group, strict, none, taken)
    BY <1>5, <2>1
  <2>3. MadeOf(ctx, none, isolation, group, strict, none)
    BY <1>1, <2>2, NewCtxOK
  <2>4. /\ ctx.identity = none /\ ctx.isolation = isolation /\ ctx.group = group
        /\ ctx.strict = strict /\ ctx.lease = none
        /\ ctx.group.owner = ctx.isolation /\ ctx.cache_scope = Scopes(ctx)
    BY <2>3 DEF MadeOf
  <2> QED BY <1>6, <2>1, <2>4
<1>8. CtxOK(p, session[p].sender, ctx)
  BY <1>1, <1>3, <1>7 DEF CtxOK
<1> QED BY <1>1, <1>4, <1>5, <1>7, <1>8, BeginStep

-----------------------------------------------------------------------------
(***************************************************************************)
(* The cache.                                                              *)
(***************************************************************************)
\* A response is found only by a request of the tenant, the isolation and the group
\* key that fetched it.
LEMMA FoundByItsOwner ==
    ASSUME HttpInv, NEW p \in Ports, NEW ctx \in session[p].ctx, NEW entry \in Entries(ctx)
    PROVE  /\ entry \in cache /\ entry.by.identity = ctx.identity
           /\ entry.by.isolation = ctx.isolation /\ entry.by.group = ctx.group
           /\ ~entry.by.strict /\ ~ctx.strict /\ ctx.identity # {}
<1>1. entry \in cache /\ CacheEligible(ctx) /\ entry.key = scoped_cache_key(ctx)
  BY DEF Entries
<1>2. entry.key.scope = ctx.cache_scope
  BY <1>1 DEF scoped_cache_key
<1>3. ~ctx.strict
  BY <1>1 DEF CacheEligible
<1>4. EntryOK(entry) /\ CtxOK(p, session[p].sender, ctx)
  BY <1>1 DEF HttpInv, CacheOK, CtxsOK
<1>5. PICK x \in Tenant : /\ entry.by.identity = {x}
                          /\ entry.key.scope = {cache_scope(x, entry.by.isolation, entry.by.group)}
  BY <1>4 DEF EntryOK
<1>6. ctx.cache_scope = {cache_scope(i, ctx.isolation, ctx.group) : i \in ctx.identity}
  BY <1>3, <1>4 DEF CtxOK, Scopes
<1>7. PICK i \in ctx.identity : cache_scope(x, entry.by.isolation, entry.by.group)
                                  = cache_scope(i, ctx.isolation, ctx.group)
  BY <1>2, <1>5, <1>6
<1>8. entry.by.isolation = ctx.isolation /\ entry.by.group = ctx.group
  BY <1>7 DEF cache_scope
<1>9. entry.by.identity = ctx.identity
  BY <1>4, <1>8 DEF EntryOK, CtxOK
<1> QED BY <1>1, <1>3, <1>4, <1>7, <1>8, <1>9 DEF EntryOK

\* The one request of a session.
LEMMA OneCtx ==
    ASSUME HttpInv, NEW p \in Ports,
           session[p].pc \in {"filtered", "retry", "connecting", "serving"}
    PROVE  session[p].ctx = {CtxOf(p)}
<1>1. PICK ctx : session[p].ctx = {ctx}
  BY DEF HttpInv, SessionsOK, SessionOK, SessionPhase
<1> QED BY <1>1 DEF CtxOf

\* A hit answers the request from an entry of the request's own scope.
LEMMA CacheHitStep ==
    ASSUME HttpInv, UNCHANGED <<config, process>>, NEW p \in Ports, CacheHit(p)
    PROVE  HttpInv'
<1>1. PICK entry \in Entries(CtxOf(p)) :
        session' = [session EXCEPT ![p].pc = "ending", ![p].via = {entry.by}]
  BY DEF CacheHit
<1> DEFINE s == [session[p] EXCEPT !.pc = "ending", !.via = {entry.by}]
<1>2. SessionOK(session[p]) /\ session[p].pc = "filtered" /\ session[p].ctx = {CtxOf(p)}
  BY OneCtx DEF HttpInv, SessionsOK, CacheHit
<1>3. session' = [session EXCEPT ![p] = s]
  BY <1>1 DEF HttpInv, SessionsOK
<1>4. /\ s.pc = "ending" /\ s.head = session[p].head /\ s.open = session[p].open
      /\ s.first = session[p].first /\ s.sender = session[p].sender /\ s.ctx = session[p].ctx
      /\ s.bridge = session[p].bridge /\ s.via = {entry.by} /\ SessionShape(s)
  <2>1. PICK r : r = session[p]
    OBVIOUS
  <2>2. SessionShape(r) /\ s = [r EXCEPT !.pc = "ending", !.via = {entry.by}]
    BY <1>2, <2>1 DEF SessionOK
  <2> HIDE DEF s
  <2>3. s = [pc |-> "ending", open |-> r.open, head |-> r.head, first |-> r.first,
             sender |-> r.sender, ctx |-> r.ctx, bridge |-> r.bridge, via |-> {entry.by}]
    BY <2>2 DEF SessionShape
  <2> QED BY <2>1, <2>3 DEF SessionShape
<1> HIDE DEF s
<1>5. session[p].bridge = {} /\ session[p].via = {}
  BY <1>2 DEF SessionOK, SessionPhase
<1>6. SessionOK(s)
  BY <1>2, <1>4, <1>5 DEF SessionOK, SessionPhase
<1>7. SessionsOK'
  BY <1>3, <1>6, OneSession
<1>8. \A q \in Ports : session'[q] = IF q = p THEN s ELSE session[q]
  BY <1>3 DEF HttpInv, SessionsOK
<1>9. UNCHANGED <<conn, downstream, leases, bridge, cache>>
  BY DEF CacheHit
<1>10. ConnsOK' /\ SocketsOK' /\ PermitsOK' /\ DownstreamOK'
  <2>1. \A q \in Ports : SocketKept(session[q], session'[q])
    BY <1>2, <1>4, <1>8 DEF SocketKept, Pristine
  <2> QED BY <1>9, <2>1, ConnectionsKeep
<1>11. CtxsOK' /\ LeasesOK'
  <2>1. \A q, sender, r : CtxOK(q, sender, r)' = CtxOK(q, sender, r)
    BY DEF CtxOK
  <2>2. \A q \in Ports : session'[q].ctx = session[q].ctx /\ session'[q].sender = session[q].sender
    BY <1>4, <1>8
  <2> QED BY <1>9, <2>1, <2>2 DEF HttpInv, CtxsOK, LeasesOK
<1>12. BridgesOK' /\ UsesOK'
  <2>1. \A q \in Ports : UseKept(session[q], session'[q])
    BY <1>4, <1>5, <1>8 DEF UseKept
  <2> QED BY <1>9, <2>1, StreamsKeep
<1>13. CacheIsolated'
  <2>1. /\ entry.by.identity = CtxOf(p).identity /\ entry.by.isolation = CtxOf(p).isolation
        /\ entry.by.group = CtxOf(p).group /\ ~entry.by.strict /\ ~CtxOf(p).strict
    BY <1>2, FoundByItsOwner
  <2>2. session'[p].via = {entry.by} /\ session'[p].ctx = {CtxOf(p)}
    BY <1>2, <1>4, <1>8
  <2>3. \A q \in Ports \ {p} : session'[q] = session[q]
    BY <1>8
  <2> QED BY <2>1, <2>2, <2>3 DEF HttpInv, CacheIsolated
<1> QED BY <1>7, <1>9, <1>10, <1>11, <1>12, <1>13, CacheKeeps DEF HttpInv

\* An entry that gets older, or goes.
LEMMA TickStep ==
    ASSUME HttpInv, UNCHANGED <<config, process>>, Tick
    PROVE  HttpInv'
<1>1. UNCHANGED <<conn, downstream, session, leases, bridge>>
  BY DEF Tick
<1>2. CacheOK'
  <2> SUFFICES ASSUME NEW entry \in cache'
               PROVE  EntryOK(entry)'
    BY DEF CacheOK
  <2>1. PICK e \in cache : e.left > 1 /\ entry = [e EXCEPT !.left = @ - 1, !.age = @ + 1]
    BY DEF Tick
  <2>2. EntryOK(e)
    BY DEF HttpInv, CacheOK
  <2>3. entry = [key |-> e.key, left |-> e.left - 1, age |-> e.age + 1, by |-> e.by]
    BY <2>1, <2>2 DEF EntryOK
  <2>4. /\ entry.key = e.key /\ entry.by = e.by /\ entry.left = e.left - 1 /\ entry.age = e.age + 1
        /\ entry = [key |-> entry.key, left |-> entry.left, age |-> entry.age, by |-> entry.by]
    BY <2>3
  <2>5. entry.left \in Nat /\ entry.age \in Nat /\ entry.age + entry.left = e.age + e.left
    BY <2>1, <2>2, <2>4 DEF EntryOK
  <2>6. effective_max_ttl' = effective_max_ttl
    BY DEF effective_max_ttl
  <2>7. EntryOK(entry)
    BY <2>2, <2>4, <2>5 DEF EntryOK
  <2> QED BY <2>6, <2>7 DEF EntryOK
<1>3. \A p \in Ports : /\ SocketKept(session[p], session'[p]) /\ RequestKept(session[p], session'[p])
                       /\ UseKept(session[p], session'[p])
  BY <1>1 DEF SocketKept, RequestKept, UseKept
<1>4. SessionsOK'
  BY <1>1 DEF HttpInv, SessionsOK, SessionOK, SessionPhase
<1> QED
  BY <1>1, <1>2, <1>3, <1>4, ConnectionsKeep, RequestsKeep, StreamsKeep DEF HttpInv

-----------------------------------------------------------------------------
(***************************************************************************)
(* Streams.                                                                *)
(***************************************************************************)
\* A session at another point, with another stream or none.
Moved(r, s) ==
    /\ s.head = r.head /\ s.open = r.open /\ s.first = r.first /\ s.sender = r.sender
    /\ s.ctx = r.ctx /\ s.via = r.via /\ SessionShape(s)

MovedTo(r, s, pc, used) == s.pc = pc /\ s.bridge = used /\ Moved(r, s)

\* A request that moves to pc with the streams used, field by field.
LEMMA MovedFields ==
    ASSUME NEW r, SessionShape(r), NEW pc, NEW used
    PROVE  MovedTo(r, [r EXCEPT !.pc = pc, !.bridge = used], pc, used)
<1> SUFFICES ASSUME NEW s, s = [r EXCEPT !.pc = pc, !.bridge = used]
             PROVE  MovedTo(r, s, pc, used)
  BY Zenon
<1>1. s = [pc |-> pc, open |-> r.open, head |-> r.head, first |-> r.first, sender |-> r.sender,
           ctx |-> r.ctx, bridge |-> used, via |-> r.via]
  BY DEF SessionShape
<1> QED BY <1>1 DEF SessionShape, Moved, MovedTo

\* What is left to show of a step that moves requests between streams.
LEMMA StreamStep ==
    ASSUME HttpInv, UNCHANGED <<conn, downstream, leases, config, process>>,
           session' = [q \in Ports |-> session'[q]],
           \A q \in Ports : \/ session'[q] = session[q]
                            \/ /\ session[q].pc \in {"filtered", "retry", "connecting", "serving"}
                               /\ Moved(session[q], session'[q])
                               /\ session'[q].pc \in {"retry", "connecting", "serving", "ending"}
                               /\ SessionPhase(session'[q]),
           BridgesOK', UsesOK', CacheOK'
    PROVE  HttpInv'
<1>1. \A q \in Ports : SessionOK(session'[q])
  <2> SUFFICES ASSUME NEW q \in Ports
               PROVE  SessionOK(session'[q])
    OBVIOUS
  <2>1. SessionOK(session[q])
    BY DEF HttpInv, SessionsOK
  <2>2. CASE session'[q] = session[q]
    BY <2>1, <2>2
  <2>3. CASE /\ session[q].pc \in {"filtered", "retry", "connecting", "serving"}
             /\ Moved(session[q], session'[q])
             /\ session'[q].pc \in {"retry", "connecting", "serving", "ending"}
             /\ SessionPhase(session'[q])
    BY <2>1, <2>3 DEF SessionOK, Moved
  <2> QED BY <2>2, <2>3
<1>2. SessionsOK'
  <2>1. \A q \in Ports : SessionOK(session[q])' = SessionOK(session'[q])
    BY DEF SessionOK
  <2> QED BY <1>1, <2>1 DEF SessionsOK
<1>3. \A q \in Ports : SocketKept(session[q], session'[q]) /\ RequestKept(session[q], session'[q])
  <2> SUFFICES ASSUME NEW q \in Ports
               PROVE  SocketKept(session[q], session'[q]) /\ RequestKept(session[q], session'[q])
    OBVIOUS
  <2>1. CASE session'[q] = session[q]
    BY <2>1 DEF SocketKept, RequestKept
  <2>2. CASE /\ session[q].pc \in {"filtered", "retry", "connecting", "serving"}
             /\ Moved(session[q], session'[q])
             /\ session'[q].pc \in {"retry", "connecting", "serving", "ending"}
    BY <2>2 DEF SocketKept, RequestKept, Moved, Pristine
  <2> QED BY <2>1, <2>2
<1> QED
  BY <1>2, <1>3, ConnectionsKeep, RequestsKeep DEF HttpInv

\* One request takes, keeps or leaves the stream b.
RequestMoves(p, s, b) ==
    /\ session' = [session EXCEPT ![p] = s] /\ Moved(session[p], s)
    /\ session[p].pc \in {"filtered", "retry", "connecting", "serving"}
    /\ s.pc \in {"retry", "connecting", "serving", "ending"} /\ SessionPhase(s)
    /\ session[p].bridge \subseteq {b}

Taken(p, s, b, u) == u.user = {p} /\ s.bridge = {b}
Left(s, u) == u.user = {} /\ s.bridge = {}

StreamMoves(p, s, b, u) ==
    /\ BridgeShape(u)
    /\ u.pc \in {"free", "connecting", "open", "abandoned"}
    /\ u.pc \in {"free", "abandoned"} => u.user = {}
    /\ Taken(p, s, b, u) \/ Left(s, u)
    /\ u.pc = "open" => \E g : u.group = {g} /\ u.scope = g.owner.tenant
    /\ s.bridge = {b} => \A ctx \in session[p].ctx : UseOK(p, s, u, ctx)
    /\ bridge[b].user \subseteq {p}

\* A request and the stream it uses change together, and nothing else does.
LEMMA OneStream ==
    ASSUME HttpInv, UNCHANGED <<conn, downstream, leases, config, process>>, NEW p \in Ports,
           NEW b \in Bridges, NEW s, NEW u, RequestMoves(p, s, b), StreamMoves(p, s, b, u), CacheOK',
           bridge' = [bridge EXCEPT ![b] = u]
    PROVE  HttpInv'
<1>0. /\ session' = [session EXCEPT ![p] = s] /\ Moved(session[p], s)
      /\ session[p].pc \in {"filtered", "retry", "connecting", "serving"}
      /\ s.pc \in {"retry", "connecting", "serving", "ending"} /\ SessionPhase(s)
      /\ session[p].bridge \subseteq {b}
      /\ BridgeShape(u)
      /\ u.pc \in {"free", "connecting", "open", "abandoned"}
      /\ u.pc \in {"free", "abandoned"} => u.user = {}
      /\ Taken(p, s, b, u) \/ Left(s, u)
      /\ u.pc = "open" => \E g : u.group = {g} /\ u.scope = g.owner.tenant
      /\ s.bridge = {b} => \A ctx \in session[p].ctx : UseOK(p, s, u, ctx)
      /\ bridge[b].user \subseteq {p}
  BY DEF RequestMoves, StreamMoves
<1> USE <1>0 DEF Taken, Left
<1>1. /\ session' = [q \in Ports |-> session'[q]] /\ session'[p] = s
      /\ \A q \in Ports \ {p} : session'[q] = session[q]
  BY DEF HttpInv, SessionsOK
<1>2. /\ bridge' = [e \in Bridges |-> bridge'[e]] /\ bridge'[b] = u
      /\ \A e \in Bridges \ {b} : bridge'[e] = bridge[e]
  BY DEF HttpInv, BridgesOK
<1>3. BridgesOK'
  <2>1. ASSUME NEW e \in Bridges
        PROVE  /\ BridgeShape(bridge'[e]) /\ bridge'[e].pc \in {"free", "connecting", "open", "abandoned"}
               /\ bridge'[e].pc \in {"free", "abandoned"} => bridge'[e].user = {}
               /\ bridge'[e].user # {} =>
                      \E q \in Ports : bridge'[e].user = {q} /\ session'[q].bridge = {e}
               /\ bridge'[e].pc = "open" =>
                      \E g : bridge'[e].group = {g} /\ bridge'[e].scope = g.owner.tenant
    <3>1. CASE e = b
      BY <1>1, <1>2, <3>1
    <3>2. CASE e # b
      <4>1. BridgeOK(e, bridge[e]) /\ bridge'[e] = bridge[e]
        BY <1>2, <3>2 DEF HttpInv, BridgesOK
      <4>2. \A q \in Ports : session[q].bridge = {e} => session'[q].bridge = {e}
        BY <1>1, <3>2
      <4> QED BY <4>1, <4>2 DEF BridgeOK
    <3> QED BY <3>1, <3>2
  <2> QED BY <1>2, <2>1 DEF BridgesOK, BridgeOK, BridgeShape
<1>4. UsesOK'
  <2>1. ASSUME NEW q \in Ports, NEW e \in session'[q].bridge, NEW ctx \in session'[q].ctx
        PROVE  UseOK(q, session'[q], bridge'[e], ctx)
    <3>1. CASE q = p
      <4>1. s.bridge = {b} /\ e = b /\ ctx \in session[p].ctx
        BY <1>1, <2>1, <3>1 DEF Moved
      <4> QED BY <1>1, <1>2, <3>1, <4>1
    <3>2. CASE q # p
      <4>1. session'[q] = session[q] /\ UseOK(q, session[q], bridge[e], ctx)
        BY <1>1, <2>1, <3>2 DEF HttpInv, UsesOK
      <4>2. e # b
        BY <3>2, <4>1 DEF UseOK
      <4>3. e \in Bridges
        BY <2>1, <4>1 DEF HttpInv, SessionsOK, SessionOK, SessionPhase
      <4> QED BY <1>2, <4>1, <4>2, <4>3
    <3> QED BY <3>1, <3>2
  <2> QED BY <2>1 DEF UsesOK, UseOK
<1>5. \A q \in Ports : \/ session'[q] = session[q]
                       \/ /\ session[q].pc \in {"filtered", "retry", "connecting", "serving"}
                          /\ Moved(session[q], session'[q])
                          /\ session'[q].pc \in {"retry", "connecting", "serving", "ending"}
                          /\ SessionPhase(session'[q])
  BY <1>1
<1> QED BY <1>1, <1>3, <1>4, <1>5, StreamStep

\* The request and the stream of a session that has one.
LEMMA StreamInUse ==
    ASSUME HttpInv, NEW p \in Ports, NEW b, b \in session[p].bridge
    PROVE  /\ b \in Bridges /\ session[p].bridge = {b} /\ session[p].ctx = {CtxOf(p)}
           /\ session[p].pc \in {"connecting", "serving"}
           /\ UseOK(p, session[p], bridge[b], CtxOf(p))
<1>1. SessionOK(session[p])
  BY DEF HttpInv, SessionsOK
<1>2. session[p].pc \in {"connecting", "serving"}
  BY <1>1 DEF SessionOK, SessionPhase
<1>3. session[p].bridge = {b} /\ b \in Bridges
  BY <1>1, <1>2 DEF SessionOK, SessionPhase
<1>4. session[p].ctx = {CtxOf(p)}
  BY <1>2, OneCtx
<1>5. UseOK(p, session[p], bridge[b], CtxOf(p))
  BY <1>3, <1>4 DEF HttpInv, UsesOK
<1> QED BY <1>2, <1>3, <1>4, <1>5

\* The request that uses a stream.
LEMMA StreamUser ==
    ASSUME HttpInv, NEW b \in Bridges, bridge[b].user # {}
    PROVE  \E p \in Ports : /\ bridge[b].user = {p} /\ session[p].bridge = {b}
                            /\ bridge[b].pc = "connecting" => session[p].pc = "connecting"
<1>1. PICK p \in Ports : bridge[b].user = {p} /\ session[p].bridge = {b}
  BY DEF HttpInv, BridgesOK, BridgeOK
<1>2. UseOK(p, session[p], bridge[b], CtxOf(p)) /\ session[p].pc \in {"connecting", "serving"}
  BY <1>1, StreamInUse
<1> QED BY <1>1, <1>2 DEF UseOK

\* What a stream is before it is made and after it has ended.
LEMMA NoBridgeFields ==
    BridgeShape(NoBridge) /\ NoBridge.pc = "free" /\ NoBridge.user = {}
BY Zenon DEF NoBridge, BridgeShape

\* A stream nobody uses changes or ends.
LEMMA UnusedStream ==
    ASSUME HttpInv, UNCHANGED <<conn, downstream, session, leases, cache, config, process>>,
           NEW b \in Bridges, NEW u, bridge' = [bridge EXCEPT ![b] = u], bridge[b].user = {},
           BridgeShape(u), u.pc \in {"free", "abandoned"}, u.user = {}
    PROVE  HttpInv'
<1>1. /\ bridge' = [e \in Bridges |-> bridge'[e]] /\ bridge'[b] = u
      /\ \A e \in Bridges \ {b} : bridge'[e] = bridge[e]
  BY DEF HttpInv, BridgesOK
<1>2. BridgesOK'
  <2>1. \A e \in Bridges : BridgeOK(e, bridge'[e])
    BY <1>1 DEF HttpInv, BridgesOK, BridgeOK
  <2> QED BY <1>1, <2>1 DEF BridgesOK, BridgeOK, BridgeShape
<1>3. UsesOK'
  <2>1. ASSUME NEW q \in Ports, NEW e \in session[q].bridge, NEW ctx \in session[q].ctx
        PROVE  UseOK(q, session[q], bridge'[e], ctx)
    <3>1. UseOK(q, session[q], bridge[e], ctx)
      BY DEF HttpInv, UsesOK
    <3>2. e # b
      BY <3>1 DEF UseOK
    <3>3. e \in Bridges
      BY StreamInUse
    <3> QED BY <1>1, <3>1, <3>2, <3>3
  <2> QED BY <2>1 DEF UsesOK, UseOK
<1>4. session' = [q \in Ports |-> session'[q]] /\ \A q \in Ports : session'[q] = session[q]
  BY DEF HttpInv, SessionsOK
<1>5. CacheOK'
  BY CacheKeeps
<1> QED BY <1>2, <1>3, <1>4, <1>5, StreamStep

\* A pooled stream that ends was used by no request.
LEMMA StreamEndsStep ==
    ASSUME HttpInv, UNCHANGED <<config, process>>, NEW b \in Bridges, StreamEnds(b)
    PROVE  HttpInv'
BY UnusedStream, NoBridgeFields DEF StreamEnds

\* A pooled stream of the same group key is charged to the tenant of the request.
LEMMA ReuseUpstreamStep ==
    ASSUME HttpInv, UNCHANGED <<config, process>>, NEW p \in Ports, NEW b \in Bridges,
           ReuseUpstream(p, b)
    PROVE  HttpInv'
<1> DEFINE s == [session[p] EXCEPT !.pc = "serving", !.bridge = {b}]
           u == [bridge[b] EXCEPT !.user = {p}, !.reused = TRUE]
<1>1. /\ session[p].pc \in {"filtered", "retry"} /\ bridge[b].pc = "open" /\ bridge[b].user = {}
      /\ bridge[b].group = {CtxOf(p).group}
  BY DEF ReuseUpstream, GoesUpstream, PoolMatch, upstream_peer
<1>2. SessionOK(session[p]) /\ BridgeOK(b, bridge[b])
  BY DEF HttpInv, SessionsOK, BridgesOK
<1>3. session[p].ctx = {CtxOf(p)} /\ session[p].bridge = {} /\ session[p].via = {}
  BY <1>1, <1>2, OneCtx DEF SessionOK, SessionPhase
<1>4. session' = [session EXCEPT ![p] = s]
  BY DEF HttpInv, SessionsOK, ReuseUpstream
<1>5. bridge' = [bridge EXCEPT ![b] = u]
  BY DEF HttpInv, BridgesOK, ReuseUpstream
<1>6. s.pc = "serving" /\ s.bridge = {b} /\ Moved(session[p], s)
  <2>1. SessionShape(session[p])
    BY <1>2 DEF SessionOK
  <2>2. MovedTo(session[p], s, "serving", {b})
    BY <2>1, MovedFields, Zenon
  <2> QED BY <2>2 DEF MovedTo
<1>7. /\ u.pc = "open" /\ u.user = {p} /\ u.group = bridge[b].group /\ u.scope = bridge[b].scope
      /\ BridgeShape(u)
  <2>1. PICK r, user, reused : r = bridge[b] /\ user = {p} /\ reused = TRUE
    BY Zenon
  <2>2. u = [r EXCEPT !.user = user, !.reused = reused]
    BY <2>1, Zenon
  <2>3. BridgeShape(r)
    BY <1>2, <2>1 DEF BridgeOK
  <2> HIDE DEF u
  <2>4. u = [pc |-> r.pc, host |-> r.host, group |-> r.group, lease |-> r.lease,
             scope |-> r.scope, user |-> user, reused |-> reused]
    BY <2>2, <2>3 DEF BridgeShape
  <2>5. u.pc = r.pc /\ u.user = user /\ u.group = r.group /\ u.scope = r.scope /\ BridgeShape(u)
    BY <2>4 DEF BridgeShape
  <2> QED BY <1>1, <2>1, <2>5
<1> HIDE DEF s, u
<1>8. SessionPhase(s)
  BY <1>3, <1>6 DEF SessionPhase, Moved
<1>9. \A ctx \in session[p].ctx : UseOK(p, s, u, ctx)
  BY <1>1, <1>3, <1>6, <1>7 DEF UseOK
<1>10. \E g : u.group = {g} /\ u.scope = g.owner.tenant
  BY <1>1, <1>2, <1>7 DEF BridgeOK
<1>11. UNCHANGED <<conn, downstream, leases, cache>> /\ CacheOK'
  BY CacheKeeps DEF ReuseUpstream
<1>12. RequestMoves(p, s, b)
  BY <1>1, <1>3, <1>4, <1>6, <1>8 DEF RequestMoves
<1>13. StreamMoves(p, s, b, u)
  <2>1. /\ u.pc \in {"free", "connecting", "open", "abandoned"}
        /\ ~(u.pc \in {"free", "abandoned"}) /\ bridge[b].user \subseteq {p}
    BY <1>1, <1>7
  <2>2. u.pc = "open" => \E g : u.group = {g} /\ u.scope = g.owner.tenant
    BY <1>7, <1>10
  <2>3. Taken(p, s, b, u)
    BY <1>6, <1>7 DEF Taken
  <2> QED BY <1>7, <1>9, <2>1, <2>2, <2>3 DEF StreamMoves
<1> QED BY <1>5, <1>11, <1>12, <1>13, OneStream

\* A new stream carries the lease and the group key of the request.
LEMMA ConnectUpstreamStep ==
    ASSUME HttpInv, UNCHANGED <<config, process>>, NEW p \in Ports, NEW b \in Bridges,
           ConnectUpstream(p, b)
    PROVE  HttpInv'
<1> DEFINE s == [session[p] EXCEPT !.pc = "connecting", !.bridge = {b}]
           u == [NoBridge EXCEPT !.pc = "connecting", !.user = {p}, !.lease = CtxOf(p).lease,
                         !.host = upstream_peer(CtxOf(p)).host,
                         !.group = upstream_peer(CtxOf(p)).group]
<1>1. session[p].pc \in {"filtered", "retry"} /\ bridge[b].pc = "free"
  BY DEF ConnectUpstream, GoesUpstream
<1>2. SessionOK(session[p]) /\ BridgeOK(b, bridge[b])
  BY DEF HttpInv, SessionsOK, BridgesOK
<1>3. session[p].ctx = {CtxOf(p)} /\ session[p].bridge = {} /\ session[p].via = {}
  BY <1>1, <1>2, OneCtx DEF SessionOK, SessionPhase
<1>4. session' = [session EXCEPT ![p] = s]
  BY DEF HttpInv, SessionsOK, ConnectUpstream
<1>5. bridge' = [bridge EXCEPT ![b] = u]
  BY DEF HttpInv, BridgesOK, ConnectUpstream
<1>6. s.pc = "connecting" /\ s.bridge = {b} /\ Moved(session[p], s)
  <2>1. SessionShape(session[p])
    BY <1>2 DEF SessionOK
  <2>2. MovedTo(session[p], s, "connecting", {b})
    BY <2>1, MovedFields, Zenon
  <2> QED BY <2>2 DEF MovedTo
<1>7. /\ u.pc = "connecting" /\ u.user = {p} /\ u.group = {CtxOf(p).group}
      /\ u.lease = CtxOf(p).lease /\ BridgeShape(u)
  <2>1. upstream_peer(CtxOf(p)).group = {CtxOf(p).group}
    BY DEF upstream_peer
  <2>2. PICK r, host, group, issued, user :
            /\ r = NoBridge /\ host = upstream_peer(CtxOf(p)).host
            /\ group = upstream_peer(CtxOf(p)).group /\ issued = CtxOf(p).lease /\ user = {p}
    OBVIOUS
  <2>3. u = [r EXCEPT !.pc = "connecting", !.user = user, !.lease = issued, !.host = host,
                      !.group = group] /\ BridgeShape(r)
    BY <2>2, NoBridgeFields
  <2> HIDE DEF u
  <2>4. u = [pc |-> "connecting", host |-> host, group |-> group, lease |-> issued,
             scope |-> r.scope, user |-> user, reused |-> r.reused]
    BY <2>3 DEF BridgeShape
  <2>5. u.pc = "connecting" /\ u.user = user /\ u.group = group /\ u.lease = issued /\ BridgeShape(u)
    BY <2>4 DEF BridgeShape
  <2> QED BY <2>1, <2>2, <2>5
<1> HIDE DEF s, u
<1>8. SessionPhase(s)
  BY <1>3, <1>6 DEF SessionPhase, Moved
<1>9. \A ctx \in session[p].ctx : UseOK(p, s, u, ctx)
  BY <1>1, <1>3, <1>6, <1>7 DEF UseOK
<1>10. bridge[b].user = {}
  BY <1>1, <1>2 DEF BridgeOK
<1>11. UNCHANGED <<conn, downstream, leases, cache>> /\ CacheOK'
  BY CacheKeeps DEF ConnectUpstream
<1>12. RequestMoves(p, s, b)
  BY <1>1, <1>3, <1>4, <1>6, <1>8 DEF RequestMoves
<1>13. StreamMoves(p, s, b, u)
  <2>1. /\ u.pc \in {"free", "connecting", "open", "abandoned"}
        /\ ~(u.pc \in {"free", "abandoned"}) /\ bridge[b].user \subseteq {p}
    BY <1>7, <1>10
  <2>2. u.pc = "open" => \E g : u.group = {g} /\ u.scope = g.owner.tenant
    BY <1>7, <1>10
  <2>3. Taken(p, s, b, u)
    BY <1>6, <1>7 DEF Taken
  <2> QED BY <1>7, <1>9, <2>1, <2>2, <2>3 DEF StreamMoves
<1> QED BY <1>5, <1>11, <1>12, <1>13, OneStream

\* A session at another point with the same stream.
LEMMA PointSet ==
    ASSUME NEW r, SessionShape(r), NEW pc
    PROVE  MovedTo(r, [r EXCEPT !.pc = pc], pc, r.bridge)
<1> SUFFICES ASSUME NEW s, s = [r EXCEPT !.pc = pc]
             PROVE  MovedTo(r, s, pc, r.bridge)
  BY Zenon
<1>1. s = [pc |-> pc, open |-> r.open, head |-> r.head, first |-> r.first, sender |-> r.sender,
           ctx |-> r.ctx, bridge |-> r.bridge, via |-> r.via]
  BY DEF SessionShape
<1> QED BY <1>1 DEF SessionShape, Moved, MovedTo

\* Who a stream is charged to once the bridge has looked up the lease it carries.
LEMMA ChargedToTheTenant ==
    ASSUME HttpInv, NEW p \in Ports, NEW ctx \in session[p].ctx
    PROVE  {leases[lease] : lease \in ctx.lease} = ctx.group.owner.tenant
<1>1. CtxOK(p, session[p].sender, ctx)
  BY DEF HttpInv, CtxsOK
<1>2. ctx.group.owner.tenant = ctx.identity
  BY <1>1 DEF CtxOK
<1>3. CASE config.production
  <2>1. PICK lease : ctx.lease = {lease}
    BY <1>1, <1>3 DEF CtxOK
  <2>2. {leases[lease]} = ctx.identity
    BY <2>1 DEF HttpInv, LeasesOK
  <2>3. {leases[l] : l \in ctx.lease} = {leases[lease]}
    BY <2>1
  <2> QED BY <1>2, <2>2, <2>3
<1>4. CASE ~config.production
  BY <1>1, <1>2, <1>4 DEF CtxOK
<1> QED BY <1>3, <1>4

\* handle_internal_connect charges the stream to the tenant its lease stands for.
LEMMA InternalConnectStep ==
    ASSUME HttpInv, UNCHANGED <<config, process>>, NEW b \in Bridges, InternalConnect(b)
    PROVE  HttpInv'
<1> DEFINE pc == IF bridge[b].user = {} THEN "abandoned" ELSE "open"
           scope == {leases[lease] : lease \in bridge[b].lease}
           u == [bridge[b] EXCEPT !.pc = pc, !.scope = scope]
<1>1. bridge[b].pc = "connecting" /\ BridgeOK(b, bridge[b])
  BY DEF HttpInv, BridgesOK, InternalConnect
<1>2. UNCHANGED <<conn, downstream, leases, cache>> /\ CacheOK'
  BY CacheKeeps DEF InternalConnect
<1>3. bridge' = [bridge EXCEPT ![b] = u]
  BY DEF HttpInv, BridgesOK, InternalConnect
<1>4. session' = [p \in Ports |-> IF p \in bridge[b].user THEN [session[p] EXCEPT !.pc = "serving"]
                                  ELSE session[p]]
  BY DEF InternalConnect
<1>5. /\ u.pc = pc /\ u.scope = scope /\ u.user = bridge[b].user /\ u.group = bridge[b].group
      /\ BridgeShape(u)
  <2>1. PICK r, to, charged : r = bridge[b] /\ to = pc /\ charged = scope
    OBVIOUS
  <2>2. u = [r EXCEPT !.pc = to, !.scope = charged] /\ BridgeShape(r)
    BY <1>1, <2>1 DEF BridgeOK
  <2> HIDE DEF u, pc, scope
  <2>3. u = [pc |-> to, host |-> r.host, group |-> r.group, lease |-> r.lease,
             scope |-> charged, user |-> r.user, reused |-> r.reused]
    BY <2>2 DEF BridgeShape
  <2>4. u.pc = to /\ u.scope = charged /\ u.user = r.user /\ u.group = r.group /\ BridgeShape(u)
    BY <2>3 DEF BridgeShape
  <2> QED BY <2>1, <2>4
<1> HIDE DEF u, scope
<1>6. CASE bridge[b].user = {}
  <2>1. session' = session
    BY <1>4, <1>6 DEF HttpInv, SessionsOK
  <2> QED BY <1>2, <1>3, <1>5, <1>6, <2>1, UnusedStream
<1>7. CASE bridge[b].user # {}
  <2>1. PICK p \in Ports : /\ bridge[b].user = {p} /\ session[p].bridge = {b}
                           /\ session[p].pc = "connecting"
    BY <1>1, <1>7, StreamUser
  <2> DEFINE s == [session[p] EXCEPT !.pc = "serving"]
  <2>2. /\ UseOK(p, session[p], bridge[b], CtxOf(p)) /\ session[p].ctx = {CtxOf(p)}
        /\ SessionOK(session[p])
    BY <2>1, StreamInUse DEF HttpInv, SessionsOK
  <2>3. session' = [session EXCEPT ![p] = s]
    BY <1>4, <2>1 DEF HttpInv, SessionsOK
  <2>4. s.pc = "serving" /\ s.bridge = {b} /\ Moved(session[p], s)
    <3>1. SessionShape(session[p])
      BY <2>2 DEF SessionOK
    <3>2. MovedTo(session[p], s, "serving", session[p].bridge)
      BY <3>1, PointSet, Zenon
    <3> QED BY <2>1, <3>2 DEF MovedTo
  <2> HIDE DEF s
  <2>5. session[p].via = {}
    BY <2>1, <2>2 DEF SessionOK, SessionPhase
  <2>6. SessionPhase(s)
    BY <2>2, <2>4, <2>5 DEF SessionPhase, Moved
  <2>7. RequestMoves(p, s, b)
    BY <2>1, <2>3, <2>4, <2>6 DEF RequestMoves
  <2>8. u.group = {CtxOf(p).group} /\ u.scope = CtxOf(p).group.owner.tenant
    <3>1. bridge[b].lease = CtxOf(p).lease /\ bridge[b].group = {CtxOf(p).group}
      BY <2>1, <2>2 DEF UseOK
    <3>2. scope = {leases[lease] : lease \in CtxOf(p).lease}
      BY <3>1 DEF scope
    <3> QED BY <1>5, <2>2, <3>1, <3>2, ChargedToTheTenant
  <2>9. \A ctx \in session[p].ctx : UseOK(p, s, u, ctx)
    BY <1>5, <1>7, <2>1, <2>2, <2>4, <2>8 DEF UseOK
  <2>10. Taken(p, s, b, u) /\ u.pc = "open"
    BY <1>5, <1>7, <2>1, <2>4 DEF Taken
  <2>11. StreamMoves(p, s, b, u)
    BY <1>5, <2>1, <2>8, <2>9, <2>10 DEF StreamMoves
  <2> QED BY <1>2, <1>3, <2>7, <2>11, OneStream
<1> QED BY <1>6, <1>7

\* A request leaves its stream, which ends.
LEMMA StreamLost ==
    ASSUME HttpInv, UNCHANGED <<conn, downstream, leases, cache, config, process>>,
           NEW p \in Ports, NEW b \in Bridges, session[p].bridge = {b},
           NEW pc, pc \in {"retry", "ending"},
           session' = [session EXCEPT ![p] = [session[p] EXCEPT !.pc = pc, !.bridge = {}]],
           NEW u, bridge' = [bridge EXCEPT ![b] = u], BridgeShape(u), u.user = {},
           u.pc \in {"free", "connecting"}
    PROVE  HttpInv'
<1> DEFINE s == [session[p] EXCEPT !.pc = pc, !.bridge = {}]
<1>1. /\ UseOK(p, session[p], bridge[b], CtxOf(p)) /\ session[p].ctx = {CtxOf(p)}
      /\ SessionOK(session[p]) /\ session[p].pc \in {"connecting", "serving"}
  BY StreamInUse DEF HttpInv, SessionsOK
<1>2. session' = [session EXCEPT ![p] = s]
  OBVIOUS
<1>3. s.pc = pc /\ s.bridge = {} /\ Moved(session[p], s)
  <2>1. SessionShape(session[p])
    BY <1>1 DEF SessionOK
  <2>2. MovedTo(session[p], s, pc, {})
    BY <2>1, MovedFields, Zenon
  <2> QED BY <2>2 DEF MovedTo
<1> HIDE DEF s
<1>4. session[p].via = {}
  BY <1>1 DEF SessionOK, SessionPhase
<1>5. SessionPhase(s)
  BY <1>1, <1>3, <1>4 DEF SessionPhase, Moved
<1>6. RequestMoves(p, s, b)
  BY <1>1, <1>2, <1>3, <1>5 DEF RequestMoves
<1>7. Left(s, u) /\ s.bridge # {b}
  BY <1>3 DEF Left
<1>8. bridge[b].user \subseteq {p}
  BY <1>1 DEF UseOK
<1>9. StreamMoves(p, s, b, u)
  BY <1>7, <1>8 DEF StreamMoves
<1> QED BY <1>6, <1>9, OneStream, CacheKeeps

\* The bridge refuses the stream, or Tor does not connect.
LEMMA InternalConnectFailsStep ==
    ASSUME HttpInv, UNCHANGED <<config, process>>, NEW b \in Bridges, InternalConnectFails(b)
    PROVE  HttpInv'
<1>1. bridge[b].pc = "connecting" /\ bridge' = [bridge EXCEPT ![b] = NoBridge]
  BY DEF InternalConnectFails
<1>2. UNCHANGED <<conn, downstream, leases, cache>>
  BY DEF InternalConnectFails
<1>3. session' = [p \in Ports |->
        IF p \in bridge[b].user THEN [session[p] EXCEPT !.pc = "ending", !.bridge = {}]
        ELSE session[p]]
  BY DEF InternalConnectFails
<1>4. CASE bridge[b].user = {}
  <2>1. session' = session
    BY <1>3, <1>4 DEF HttpInv, SessionsOK
  <2> QED BY <1>1, <1>2, <1>4, <2>1, UnusedStream, NoBridgeFields
<1>5. CASE bridge[b].user # {}
  <2>1. PICK p \in Ports : bridge[b].user = {p} /\ session[p].bridge = {b}
    BY <1>5, StreamUser
  <2>2. session' = [session EXCEPT ![p] = [session[p] EXCEPT !.pc = "ending", !.bridge = {}]]
    BY <1>3, <2>1 DEF HttpInv, SessionsOK
  <2> QED BY <1>1, <1>2, <2>1, <2>2, StreamLost, NoBridgeFields
<1> QED BY <1>4, <1>5

\* A request that failed on a reused stream goes back to look for another.
LEMMA RetryUpstreamStep ==
    ASSUME HttpInv, UNCHANGED <<config, process>>, NEW p \in Ports, RetryUpstream(p)
    PROVE  HttpInv'
<1>1. PICK b \in session[p].bridge : bridge[b].reused
  BY DEF RetryUpstream
<1>2. b \in Bridges /\ session[p].bridge = {b}
  BY <1>1, StreamInUse
<1>3. bridge' = [bridge EXCEPT ![b] = NoBridge]
  BY <1>2 DEF HttpInv, BridgesOK, RetryUpstream
<1>4. session' = [session EXCEPT ![p] = [session[p] EXCEPT !.pc = "retry", !.bridge = {}]]
  BY DEF HttpInv, SessionsOK, RetryUpstream
<1>5. UNCHANGED <<conn, downstream, leases, cache>>
  BY DEF RetryUpstream
<1> QED BY <1>2, <1>3, <1>4, <1>5, StreamLost, NoBridgeFields

\* A stream that is being set up when its request goes keeps its lease, and nothing else.
LEMMA LeftToTheBridge ==
    ASSUME NEW r, BridgeShape(r), NEW u, u = [r EXCEPT !.user = {}, !.group = {}]
    PROVE  BridgeShape(u) /\ u.user = {} /\ u.pc = r.pc
<1>1. u = [pc |-> r.pc, host |-> r.host, group |-> {}, lease |-> r.lease,
           scope |-> r.scope, user |-> {}, reused |-> r.reused]
  BY DEF BridgeShape
<1> QED BY <1>1 DEF BridgeShape

\* A request is given up, whatever it is waiting for.
LEMMA AbandonStep ==
    ASSUME HttpInv, UNCHANGED <<config, process>>, NEW p \in Ports, Abandon(p)
    PROVE  HttpInv'
<1> DEFINE s == [session[p] EXCEPT !.pc = "ending", !.bridge = {}]
<1>1. session[p].pc \in {"filtered", "retry", "connecting", "serving"} /\ SessionOK(session[p])
  BY DEF HttpInv, SessionsOK, Abandon
<1>2. session' = [session EXCEPT ![p] = s]
  BY DEF HttpInv, SessionsOK, Abandon
<1>3. UNCHANGED <<conn, downstream, leases, cache>>
  BY DEF Abandon
<1>4. bridge' = [b \in Bridges |->
        CASE b \notin session[p].bridge -> bridge[b]
          [] b \in session[p].bridge /\ bridge[b].pc = "connecting" ->
                [bridge[b] EXCEPT !.user = {}, !.group = {}]
          [] OTHER -> NoBridge]
  BY DEF Abandon
<1>5. CASE session[p].bridge = {}
  <2>1. bridge' = bridge
    <3>1. \A b \in Bridges : bridge'[b] = bridge[b]
      BY <1>4, <1>5
    <3> QED BY <1>4, <3>1 DEF HttpInv, BridgesOK
  <2>2. s.pc = "ending" /\ s.bridge = {} /\ Moved(session[p], s)
    <3>1. SessionShape(session[p])
      BY <1>1 DEF SessionOK
    <3>2. MovedTo(session[p], s, "ending", {})
      BY <3>1, MovedFields, Zenon
    <3> QED BY <3>2 DEF MovedTo
  <2> HIDE DEF s
  <2>3. (\E ctx : session[p].ctx = {ctx}) /\ session[p].via = {}
    BY <1>1 DEF SessionOK, SessionPhase
  <2>4. SessionOK(s)
    BY <1>1, <2>2, <2>3 DEF SessionOK, SessionPhase, Moved
  <2>5. SocketKept(session[p], s) /\ RequestKept(session[p], s) /\ UseKept(session[p], s)
    BY <1>1, <1>5, <2>2 DEF SocketKept, RequestKept, UseKept, Moved, Pristine
  <2> QED BY <1>2, <1>3, <2>1, <2>4, <2>5, QuietStep
<1>6. CASE session[p].bridge # {}
  <2>1. PICK b : b \in session[p].bridge
    BY <1>6
  <2>2. b \in Bridges /\ session[p].bridge = {b}
    BY <2>1, StreamInUse
  <2> DEFINE u == [bridge[b] EXCEPT !.user = {}, !.group = {}]
  <2>3. \A e \in Bridges \ {b} : bridge'[e] = bridge[e]
    BY <1>4, <2>2
  <2>4. CASE bridge[b].pc = "connecting"
    <3>1. bridge'[b] = u
      BY <1>4, <2>2, <2>4
    <3>2. BridgeShape(bridge[b])
      BY <2>2 DEF HttpInv, BridgesOK, BridgeOK
    <3>3. BridgeShape(u) /\ u.user = {} /\ u.pc = bridge[b].pc
      BY <3>2, LeftToTheBridge
    <3> HIDE DEF u
    <3>4. bridge' = [bridge EXCEPT ![b] = u]
      BY <1>4, <2>2, <2>3, <3>1 DEF HttpInv, BridgesOK
    <3> QED BY <1>2, <1>3, <2>2, <2>4, <3>3, <3>4, StreamLost
  <2>5. CASE bridge[b].pc # "connecting"
    <3>1. bridge'[b] = NoBridge
      BY <1>4, <2>2, <2>5
    <3>2. bridge' = [bridge EXCEPT ![b] = NoBridge]
      BY <1>4, <2>2, <2>3, <3>1 DEF HttpInv, BridgesOK
    <3> QED BY <1>2, <1>3, <2>2, <3>2, StreamLost, NoBridgeFields
  <2> QED BY <2>4, <2>5
<1> QED BY <1>5, <1>6

\* How long a response is stored is bounded by the operator, not by the origin.
LEMMA StoredForAtMost ==
    ASSUME StartInv, At("serving"), NEW ctx, NEW response \in Responses
    PROVE  /\ bounded_response_cacheable(ctx, response) \in Nat
           /\ bounded_response_cacheable(ctx, response) # 0 =>
                  /\ CacheEligible(ctx)
                  /\ bounded_response_cacheable(ctx, response) <= effective_max_ttl
<1>1. response.lifetime \in Nat
  BY HttpAssumption
<1>2. config.ttl \in Nat /\ CACHE_ABSOLUTE_MAX_TTL \in Nat
  BY StartupAssumption DEF StartInv, ConfigFollowed, ConfigChecked, At
<1>3. effective_max_ttl \in Nat
  BY <1>2 DEF effective_max_ttl, Smaller
<1>4. /\ Smaller(response.lifetime, Smaller(effective_max_ttl, CACHE_ABSOLUTE_MAX_TTL)) \in Nat
      /\ Smaller(response.lifetime, Smaller(effective_max_ttl, CACHE_ABSOLUTE_MAX_TTL)) <= effective_max_ttl
  BY <1>1, <1>2, <1>3 DEF Smaller
<1>5. CASE CacheEligible(ctx) /\ conservative_response_cacheable(ctx.head, response)
  BY <1>4, <1>5 DEF bounded_response_cacheable
<1>6. CASE ~(CacheEligible(ctx) /\ conservative_response_cacheable(ctx.head, response))
  BY <1>6 DEF bounded_response_cacheable
<1> QED BY <1>5, <1>6

\* A response is filed under the tenant, the isolation and the group key of its request.
LEMMA StoredUnderItsOwner ==
    ASSUME HttpInv, NEW p \in Ports, NEW ctx \in session[p].ctx, CacheEligible(ctx), NEW ttl \in Nat,
           ttl <= effective_max_ttl
    PROVE  EntryOK(Stored(ctx, ttl))
<1>1. CtxOK(p, session[p].sender, ctx)
  BY DEF HttpInv, CtxsOK
<1>2. ~ctx.strict /\ ctx.cache_scope # {}
  BY DEF CacheEligible
<1>3. ctx.cache_scope = {cache_scope(i, ctx.isolation, ctx.group) : i \in ctx.identity}
  BY <1>1, <1>2 DEF CtxOK, Scopes
<1>4. PICK x \in Tenant : ctx.identity = {x}
  BY <1>1, <1>2, <1>3 DEF CtxOK
<1>5. ctx.cache_scope = {cache_scope(x, ctx.isolation, ctx.group)}
  BY <1>3, <1>4
<1>6. PICK scope, parts, identity, isolation, group, strict :
        /\ scope = ctx.cache_scope /\ parts = canonical_cache_key_parts(ctx.head)
        /\ identity = ctx.identity /\ isolation = ctx.isolation /\ group = ctx.group
        /\ strict = ctx.strict
  BY Zenon
<1> DEFINE key == [scope |-> scope, parts |-> parts]
           by == [identity |-> identity, isolation |-> isolation, group |-> group, strict |-> strict]
           entry == [key |-> key, left |-> ttl, age |-> 0, by |-> by]
<1>7. Stored(ctx, ttl) = entry
  BY <1>6, Zenon DEF Stored, scoped_cache_key
<1>8. key.scope = scope
  OBVIOUS
<1>9. by.identity = identity /\ by.isolation = isolation /\ by.group = group /\ by.strict = strict
  BY Zenon
<1> HIDE DEF key, by
<1>10. entry.key = key /\ entry.left = ttl /\ entry.age = 0 /\ entry.by = by
       /\ entry = [key |-> entry.key, left |-> entry.left, age |-> entry.age, by |-> entry.by]
  OBVIOUS
<1> HIDE DEF entry
<1>11. isolation.tenant = identity
  BY <1>1, <1>6 DEF CtxOK
<1>12. entry.age + entry.left <= effective_max_ttl /\ entry.left \in Nat /\ entry.age \in Nat
  BY <1>10
<1>13. /\ entry.by.identity = {x} /\ ~entry.by.strict
       /\ entry.key.scope = {cache_scope(x, entry.by.isolation, entry.by.group)}
  BY <1>2, <1>4, <1>5, <1>6, <1>8, <1>9, <1>10
<1>14. EntryOK(entry)
  BY <1>9, <1>10, <1>11, <1>12, <1>13 DEF EntryOK
<1> QED BY <1>7, <1>14

\* Whatever is evicted, the cache gains nothing but the response of the request.
LEMMA CacheAfterResponse ==
    ASSUME HttpInv, StartInv, At("serving"), UNCHANGED config, NEW p \in Ports, NEW ctx \in session[p].ctx,
           NEW response \in Responses,
           cache' \in CachesAfter(ctx, bounded_response_cacheable(ctx, response))
    PROVE  CacheOK'
<1> DEFINE ttl == bounded_response_cacheable(ctx, response)
<1>1. ttl \in Nat /\ (ttl # 0 => CacheEligible(ctx) /\ ttl <= effective_max_ttl)
  BY StoredForAtMost
<1> HIDE DEF ttl
<1>2. cache' \in CachesAfter(ctx, ttl)
  BY DEF ttl
<1>3. \A entry : EntryOK(entry)' = EntryOK(entry)
  BY DEF EntryOK, effective_max_ttl, cache_scope
<1>4. CASE ttl = 0
  <2>1. cache' = cache
    BY <1>2, <1>4 DEF CachesAfter
  <2> QED BY <1>3, <2>1 DEF HttpInv, CacheOK
<1>5. CASE ttl # 0
  <2>1. EntryOK(Stored(ctx, ttl))
    BY <1>1, <1>5, StoredUnderItsOwner
  <2>2. cache' \subseteq cache \cup {Stored(ctx, ttl)}
    BY <1>2, <1>5 DEF CachesAfter
  <2> QED BY <1>3, <2>1, <2>2 DEF HttpInv, CacheOK
<1> QED BY <1>4, <1>5

\* A stream whose request is complete goes back to the pool with its group key and tenant.
LEMMA BackInThePool ==
    ASSUME NEW r, BridgeShape(r), NEW u, u = [r EXCEPT !.user = {}, !.lease = {}, !.reused = FALSE]
    PROVE  BridgeShape(u) /\ u.user = {} /\ u.pc = r.pc /\ u.group = r.group /\ u.scope = r.scope
<1>1. PICK reused : reused = FALSE
  BY Zenon
<1>2. u = [r EXCEPT !.user = {}, !.lease = {}, !.reused = reused]
  BY <1>1, Zenon
<1>3. u = [pc |-> r.pc, host |-> r.host, group |-> r.group, lease |-> {},
           scope |-> r.scope, user |-> {}, reused |-> reused]
  BY <1>2 DEF BridgeShape
<1> QED BY <1>3 DEF BridgeShape

\* A response is complete: its stream is kept or closed, its request about to end.
LEMMA RespondStep ==
    ASSUME HttpInv, StartInv, At("serving"), UNCHANGED <<config, process>>, NEW p \in Ports, Respond(p)
    PROVE  HttpInv'
<1> DEFINE s == [session[p] EXCEPT !.pc = "ending", !.bridge = {}]
<1>1. session[p].pc = "serving" /\ SessionOK(session[p])
  BY DEF HttpInv, SessionsOK, Respond
<1>2. session' = [session EXCEPT ![p] = s]
  BY DEF HttpInv, SessionsOK, Respond
<1>3. UNCHANGED <<conn, downstream, leases>>
  BY DEF Respond
<1>4. CacheOK'
  <2>1. PICK response \in Responses :
            cache' \in CachesAfter(CtxOf(p), bounded_response_cacheable(CtxOf(p), response))
    BY DEF Respond
  <2>2. CtxOf(p) \in session[p].ctx
    BY <1>1, OneCtx
  <2> QED BY <2>1, <2>2, CacheAfterResponse
<1>5. PICK b \in session[p].bridge, kept \in BOOLEAN :
        bridge' = [bridge EXCEPT ![b] =
                      IF kept THEN [@ EXCEPT !.user = {}, !.lease = {}, !.reused = FALSE]
                      ELSE NoBridge]
  BY DEF Respond
<1>6. /\ b \in Bridges /\ session[p].bridge = {b} /\ session[p].ctx = {CtxOf(p)}
      /\ UseOK(p, session[p], bridge[b], CtxOf(p))
  BY <1>5, StreamInUse
<1>7. s.pc = "ending" /\ s.bridge = {} /\ Moved(session[p], s)
  <2>1. SessionShape(session[p])
    BY <1>1 DEF SessionOK
  <2>2. MovedTo(session[p], s, "ending", {})
    BY <2>1, MovedFields, Zenon
  <2> QED BY <2>2 DEF MovedTo
<1> HIDE DEF s
<1>8. session[p].via = {}
  BY <1>1 DEF SessionOK, SessionPhase
<1>9. SessionPhase(s)
  BY <1>6, <1>7, <1>8 DEF SessionPhase, Moved
<1>10. RequestMoves(p, s, b)
  BY <1>1, <1>2, <1>6, <1>7, <1>9 DEF RequestMoves
<1> DEFINE back == [bridge[b] EXCEPT !.user = {}, !.lease = {}, !.reused = FALSE]
           u == IF kept THEN back ELSE NoBridge
<1>11. bridge' = [bridge EXCEPT ![b] = u]
  BY <1>5, <1>6, Zenon DEF HttpInv, BridgesOK
<1>12. BridgeOK(b, bridge[b]) /\ bridge[b].pc = "open" /\ bridge[b].user = {p}
  BY <1>1, <1>6 DEF HttpInv, BridgesOK, UseOK
<1>13. BridgeShape(back) /\ back.user = {} /\ back.pc = bridge[b].pc
       /\ back.group = bridge[b].group /\ back.scope = bridge[b].scope
  <2>1. BridgeShape(bridge[b])
    BY <1>12 DEF BridgeOK
  <2> QED BY <2>1, BackInThePool
<1>14. PICK g : bridge[b].group = {g} /\ bridge[b].scope = g.owner.tenant
  BY <1>12 DEF BridgeOK
<1> HIDE DEF back
<1>15. /\ BridgeShape(u) /\ u.pc \in {"free", "open"} /\ u.user = {}
       /\ u.pc = "open" => u.group = {g} /\ u.scope = g.owner.tenant
  BY <1>12, <1>13, <1>14, NoBridgeFields
<1> HIDE DEF u
<1>16. Left(s, u) /\ s.bridge # {b}
  BY <1>7, <1>15 DEF Left
<1>17. StreamMoves(p, s, b, u)
  BY <1>12, <1>15, <1>16 DEF StreamMoves
<1> QED BY <1>3, <1>4, <1>6, <1>10, <1>11, <1>17, OneStream

-----------------------------------------------------------------------------
(***************************************************************************)
(* The end of a request.                                                   *)
(***************************************************************************)
\* A session that reads the next request.
ReadsOn(r, s, first) ==
    /\ s.pc = "reading" /\ s.head = r.head /\ s.open = r.open /\ s.first = first
    /\ s.sender = r.sender /\ s.ctx = {} /\ s.bridge = r.bridge
    /\ s.via = {} /\ SessionShape(s)

\* Keep-alive: the session reads its next request, field by field.
LEMMA ReadsOnFields ==
    ASSUME NEW r, SessionShape(r), NEW first
    PROVE  ReadsOn(r, [r EXCEPT !.pc = "reading", !.first = first, !.ctx = {}, !.via = {}], first)
<1> SUFFICES ASSUME NEW s, s = [r EXCEPT !.pc = "reading", !.first = first, !.ctx = {}, !.via = {}]
             PROVE  ReadsOn(r, s, first)
  BY Zenon
<1>1. s = [pc |-> "reading", open |-> r.open, head |-> r.head, first |-> first, sender |-> r.sender,
           ctx |-> {}, bridge |-> r.bridge, via |-> {}]
  BY DEF SessionShape
<1> QED BY <1>1 DEF SessionShape, ReadsOn

\* A session that reads no more.
ReadsNoMore(r, s, open) ==
    /\ s.pc = "closed" /\ s.head = r.head /\ s.open = open /\ s.first = r.first
    /\ s.sender = r.sender /\ s.ctx = r.ctx /\ s.bridge = r.bridge /\ s.via = r.via
    /\ SessionShape(s)

\* The session ends, field by field.
LEMMA ReadsNoMoreFields ==
    ASSUME NEW r, SessionShape(r), NEW open
    PROVE  ReadsNoMore(r, [r EXCEPT !.pc = "closed", !.open = open], open)
<1> SUFFICES ASSUME NEW s, s = [r EXCEPT !.pc = "closed", !.open = open]
             PROVE  ReadsNoMore(r, s, open)
  BY Zenon
<1>1. s = [pc |-> "closed", open |-> open, head |-> r.head, first |-> r.first, sender |-> r.sender,
           ctx |-> r.ctx, bridge |-> r.bridge, via |-> r.via]
  BY DEF SessionShape
<1> QED BY <1>1 DEF SessionShape, ReadsNoMore

\* The lease of a request goes with it, and no other.
LEMMA EndRequestStep ==
    ASSUME HttpInv, UNCHANGED <<config, process>>, NEW p \in Ports, EndRequest(p)
    PROVE  HttpInv'
<1>1. session[p].pc = "ending" /\ SessionOK(session[p]) /\ session[p].bridge = {}
      /\ session[p].head = {}
  BY DEF HttpInv, SessionsOK, SessionOK, SessionPhase, EndRequest
<1>2. PICK s : s = IF \E ctx \in session[p].ctx : ctx.keepalive
                   THEN [session[p] EXCEPT !.pc = "reading", !.first = FALSE, !.ctx = {}, !.via = {}]
                   ELSE [NoSession EXCEPT !.pc = "closed", !.open = session[p].open]
  OBVIOUS
<1>3. session' = [session EXCEPT ![p] = s]
  BY <1>2, Zenon DEF EndRequest
<1>4. UNCHANGED <<conn, downstream, bridge, cache>>
  BY DEF EndRequest
<1>5. /\ SessionShape(s) /\ s.ctx = {} /\ s.bridge = {} /\ s.via = {} /\ s.head = {}
      /\ s.open = session[p].open /\ s.first \in BOOLEAN
      /\ \/ s.pc = "reading" /\ s.sender = session[p].sender /\ \E ctx \in session[p].ctx : ctx.keepalive
         \/ s.pc = "closed" /\ s.sender = {} /\ s.first = TRUE
  <2>1. CASE \E ctx \in session[p].ctx : ctx.keepalive
    <3>1. s = [session[p] EXCEPT !.pc = "reading", !.first = FALSE, !.ctx = {}, !.via = {}]
      BY <1>2, <2>1, Zenon
    <3>2. SessionShape(session[p])
      BY <1>1 DEF SessionOK
    <3>3. ReadsOn(session[p], s, FALSE)
      <4>1. ReadsOn(session[p], [session[p] EXCEPT !.pc = "reading", !.first = FALSE,
                                                   !.ctx = {}, !.via = {}], FALSE)
        BY <3>2, ReadsOnFields, Zenon
      <4> QED BY <3>1, <4>1, Zenon
    <3> QED BY <1>1, <2>1, <3>3 DEF ReadsOn
  <2>2. CASE ~ \E ctx \in session[p].ctx : ctx.keepalive
    <3>1. s = [NoSession EXCEPT !.pc = "closed", !.open = session[p].open]
      BY <1>2, <2>2, Zenon
    <3>2. ReadsNoMore(NoSession, s, session[p].open)
      <4>1. ReadsNoMore(NoSession, [NoSession EXCEPT !.pc = "closed", !.open = session[p].open],
                        session[p].open)
        BY NoSessionFields, ReadsNoMoreFields, Zenon
      <4> QED BY <3>1, <4>1, Zenon
    <3> QED BY <3>2, NoSessionFields DEF ReadsNoMore
  <2> QED BY <2>1, <2>2
<1>6. config.production => s.first
  <2> SUFFICES ASSUME config.production
               PROVE  s.first
    OBVIOUS
  <2>1. \A ctx \in session[p].ctx : ~ctx.keepalive
    BY DEF HttpInv, CtxsOK, CtxOK
  <2> QED BY <1>5, <2>1
<1>7. SessionOK(s)
  BY <1>1, <1>5, <1>6 DEF SessionOK, SessionPhase
<1>8. SessionsOK'
  BY <1>3, <1>7, OneSession
<1>9. \A q \in Ports : session'[q] = IF q = p THEN s ELSE session[q]
  BY <1>3 DEF HttpInv, SessionsOK
<1>10. ConnsOK' /\ SocketsOK' /\ PermitsOK' /\ DownstreamOK'
  <2>1. SocketKept(session[p], s)
    BY <1>1, <1>5 DEF SocketKept, Pristine
  <2>2. \A q \in Ports : SocketKept(session[q], session'[q])
    BY <1>9, <2>1 DEF SocketKept
  <2> QED BY <1>4, <2>2, ConnectionsKeep
<1>11. session'[p].ctx = {} /\ \A q \in Ports \ {p} : session'[q] = session[q]
  BY <1>5, <1>9
<1>12. CtxsOK' /\ CacheIsolated'
  <2>1. \A q, sender, r : CtxOK(q, sender, r)' = CtxOK(q, sender, r)
    BY DEF CtxOK
  <2> QED BY <1>11, <2>1 DEF HttpInv, CtxsOK, CacheIsolated
<1>13. LeasesOK'
  <2>1. leases' = [lease \in DOMAIN leases \ UNION {ctx.lease : ctx \in session[p].ctx} |-> leases[lease]]
    BY DEF EndRequest, LeasesAfter
  <2>2. ASSUME NEW q \in Ports, NEW ctx \in session'[q].ctx, NEW lease \in ctx.lease
        PROVE  lease \in DOMAIN leases' /\ {leases'[lease]} = ctx.identity
    <3>1. q # p /\ ctx \in session[q].ctx
      BY <1>11, <2>2
    <3>2. lease \in DOMAIN leases /\ {leases[lease]} = ctx.identity
      BY <2>2, <3>1 DEF HttpInv, LeasesOK
    <3>3. CtxOK(q, session[q].sender, ctx)
      BY <3>1 DEF HttpInv, CtxsOK
    <3>4. config.production /\ lease[1] = q
      BY <2>2, <3>3 DEF CtxOK
    <3>5. \A other \in session[p].ctx : lease \notin other.lease
      <4> SUFFICES ASSUME NEW other \in session[p].ctx, lease \in other.lease
                   PROVE  FALSE
        OBVIOUS
      <4>1. CtxOK(p, session[p].sender, other)
        BY DEF HttpInv, CtxsOK
      <4>2. lease[1] = p
        BY <3>4, <4>1 DEF CtxOK
      <4> QED BY <3>1, <3>4, <4>2
    <3> QED BY <2>1, <3>2, <3>5
  <2>3. ASSUME NEW lease \in DOMAIN leases'
        PROVE  \E q \in Ports : \E ctx \in session'[q].ctx : lease \in ctx.lease
    <3>1. lease \in DOMAIN leases /\ \A ctx \in session[p].ctx : lease \notin ctx.lease
      BY <2>1, <2>3
    <3>2. PICK q \in Ports : \E ctx \in session[q].ctx : lease \in ctx.lease
      BY <3>1 DEF HttpInv, LeasesOK
    <3> QED BY <1>11, <3>1, <3>2
  <2> QED BY <2>2, <2>3 DEF LeasesOK
<1>14. BridgesOK'
  <2>1. \A q \in Ports : session'[q].bridge = session[q].bridge
    BY <1>1, <1>5, <1>9
  <2> QED BY <1>4, <2>1 DEF HttpInv, BridgesOK, BridgeOK, BridgeShape
<1>15. UsesOK'
  <2>1. \A q \in Ports : \A b \in session'[q].bridge : \A ctx \in session'[q].ctx :
            UseOK(q, session'[q], bridge[b], ctx)
    BY <1>11 DEF HttpInv, UsesOK
  <2> QED BY <1>4, <2>1 DEF UsesOK, UseOK
<1> QED
  BY <1>4, <1>8, <1>10, <1>12, <1>13, <1>14, <1>15, CacheKeeps DEF HttpInv

-----------------------------------------------------------------------------
(***************************************************************************)
(* The public handler.                                                     *)
(***************************************************************************)
\* What is left to show of a step of a connection.
LEMMA ConnectionStep ==
    ASSUME HttpInv, UNCHANGED <<leases, bridge, cache, config>>, SessionsOK',
           \A p \in Ports : RequestKept(session[p], session'[p]) /\ UseKept(session[p], session'[p]),
           ConnsOK', SocketsOK', PermitsOK', DownstreamOK'
    PROVE  HttpInv'
BY RequestsKeep, StreamsKeep, CacheKeeps DEF HttpInv

\* A set with at most one element.
LEMMA AtMostOne ==
    ASSUME NEW S, IsFiniteSet(S), Cardinality(S) <= 1, NEW i \in S, NEW j \in S
    PROVE  i = j
<1> SUFFICES ASSUME i # j
             PROVE  FALSE
  OBVIOUS
<1>1. IsFiniteSet({i}) /\ Cardinality({i}) = 1
  BY FS_Singleton
<1>2. Cardinality({i} \cup {j}) = 2
  BY <1>1, FS_AddElement
<1>3. Cardinality({i} \cup {j}) <= Cardinality(S) /\ Cardinality(S) \in Nat
  BY FS_Subset, FS_CardinalityType
<1> QED BY <1>2, <1>3

\* A request that was admitted has one context: the tenant of its one credential, and the
\* isolation it asked for.
LEMMA OneContext ==
    ASSUME config.production, NEW head \in Heads, NEW parsed \in parse_proxy_request(head),
           ContextOf(parsed) # {}
    PROVE  \E x : /\ ContextOf(parsed) = {x} /\ x.identity \in Tenant
                  /\ x.isolation.strict \in BOOLEAN
<1>1. /\ Cardinality(Positions(head.headers, "authorization")) <= 1
      /\ parsed.proxy_authorization = ValueOf(head.headers, "authorization")
      /\ parsed.isolation = IsolationOf(head.headers)
  BY DEF parse_proxy_request, ingress_headers_from_httparse, Reserved
<1>2. IsFiniteSet(Positions(head.headers, "authorization"))
  BY HttpAssumption, FS_Subset DEF Positions
<1>3. \A k, l \in parsed.proxy_authorization : k = l
  BY <1>1, <1>2, AtMostOne DEF ValueOf
<1>4. ContextOf(parsed) = {[identity |-> IdentityOf[k], isolation |-> parsed.isolation] :
                               k \in parsed.proxy_authorization \cap Credentials}
  BY DEF ContextOf
<1>5. PICK k \in parsed.proxy_authorization \cap Credentials : TRUE
  BY <1>4
<1>6. PICK x : x = [identity |-> IdentityOf[k], isolation |-> parsed.isolation]
  OBVIOUS
<1>7. ContextOf(parsed) = {x}
  BY <1>3, <1>4, <1>5, <1>6
<1>8. x.identity \in Tenant /\ x.isolation = parsed.isolation
  BY <1>5, <1>6 DEF Tenant
<1>9. parsed.isolation.strict \in BOOLEAN
  BY <1>1 DEF IsolationOf
<1> QED BY <1>7, <1>8, <1>9

\* Taking headers off leaves a head.
LEMMA StrippedIsHead ==
    ASSUME NEW head, IsHead(head), NEW headers
    PROVE  IsHead([head EXCEPT !.headers = headers])
<1> SUFFICES ASSUME NEW h, h = [head EXCEPT !.headers = headers]
             PROVE  IsHead(h)
  BY Zenon
<1>1. h = [wire |-> head.wire, method |-> head.method, host |-> head.host, target |-> head.target,
           path |-> head.path, headers |-> headers, private |-> head.private]
  BY DEF IsHead
<1> QED BY <1>1 DEF IsHead

\* A connection that changes alone and takes nobody's socket.
Unshared(c, t) == \A p \in t.port : \A d \in Conns \ {c} : p \notin conn[d].port

ConnSet(c, t) ==
    ConnsOK' /\ conn'[c] = t /\ \A d \in Conns \ {c} : conn'[d] = conn[d]

\* A connection that changes alone.
LEMMA OneConn ==
    ASSUME HttpInv, UNCHANGED config, NEW c \in Conns, NEW t, conn' = [conn EXCEPT ![c] = t],
           ConnOK(t), Unshared(c, t)
    PROVE  ConnSet(c, t)
<1>1. /\ conn' = [d \in Conns |-> conn'[d]] /\ conn'[c] = t
      /\ \A d \in Conns \ {c} : conn'[d] = conn[d]
  BY DEF HttpInv, ConnsOK
<1>2. \A d \in Conns : ConnOK(conn'[d])
  BY <1>1 DEF HttpInv, ConnsOK
<1>3. \A d \in Conns : ConnOK(conn[d])' = ConnOK(conn'[d])
  BY DEF ConnOK
<1>4. \A d, e \in Conns : \A p \in conn'[d].port : p \in conn'[e].port => d = e
  <2> SUFFICES ASSUME NEW d \in Conns, NEW e \in Conns, NEW p \in conn'[d].port, p \in conn'[e].port
               PROVE  d = e
    OBVIOUS
  <2>1. CASE d = c
    BY <1>1, <2>1 DEF Unshared
  <2>2. CASE e = c
    BY <1>1, <2>2 DEF Unshared
  <2>3. CASE d # c /\ e # c
    BY <1>1, <2>3 DEF HttpInv, ConnsOK
  <2> QED BY <2>1, <2>2, <2>3
<1> QED BY <1>1, <1>2, <1>3, <1>4 DEF ConnsOK, ConnSet

\* A connection before the handler has registered it.
Connected(t, port, context, head) ==
    /\ t.pc = "connected" /\ t.port = port /\ t.context = context /\ t.head = head
    /\ t.generation = {} /\ ConnShape(t)

\* A handler that has connected to Pingora, field by field.
LEMMA ConnectedFields ==
    ASSUME NEW port, NEW context, NEW head
    PROVE  Connected([NoConn EXCEPT !.pc = "connected", !.port = port, !.context = context,
                                    !.head = head], port, context, head)
<1>1. PICK r : r = NoConn
  OBVIOUS
<1>2. ConnShape(r) /\ r.generation = {}
  BY <1>1 DEF NoConn, ConnShape
<1>3. ASSUME NEW t, t = [r EXCEPT !.pc = "connected", !.port = port, !.context = context,
                                  !.head = head]
      PROVE  Connected(t, port, context, head)
  <2>1. t = [pc |-> "connected", head |-> head, context |-> context, port |-> port,
             generation |-> r.generation]
    BY <1>2, <1>3 DEF ConnShape
  <2> QED BY <1>2, <2>1 DEF ConnShape, Connected
<1>4. Connected([r EXCEPT !.pc = "connected", !.port = port, !.context = context,
                          !.head = head], port, context, head)
  BY <1>3, Zenon
<1> QED BY <1>1, <1>4, Zenon

\* The socket of a new connection.
Opened(s, open) ==
    /\ s.pc = "reading" /\ s.head = {} /\ s.open = open /\ s.first = NoSession.first
    /\ s.sender = {} /\ s.ctx = {} /\ s.bridge = {} /\ s.via = {} /\ SessionShape(s)

\* Pingora's new end of a socket, field by field.
LEMMA OpenedFields ==
    ASSUME NEW open
    PROVE  Opened([NoSession EXCEPT !.pc = "reading", !.open = open], open)
<1>1. PICK r : r = NoSession
  OBVIOUS
<1>2. SessionShape(r) /\ r.head = {} /\ r.sender = {} /\ r.ctx = {} /\ r.bridge = {} /\ r.via = {}
      /\ r.first = NoSession.first
  BY <1>1, NoSessionFields
<1>3. ASSUME NEW s, s = [r EXCEPT !.pc = "reading", !.open = open]
      PROVE  Opened(s, open)
  <2>1. s = [pc |-> "reading", open |-> open, head |-> r.head, first |-> r.first,
             sender |-> r.sender, ctx |-> r.ctx, bridge |-> r.bridge, via |-> r.via]
    BY <1>2, <1>3 DEF SessionShape
  <2> QED BY <1>2, <2>1 DEF SessionShape, Opened
<1>4. Opened([r EXCEPT !.pc = "reading", !.open = open], open)
  BY <1>3, Zenon
<1> QED BY <1>1, <1>4, Zenon

\* A connection is admitted with a socket that no other has.
LEMMA AdmitStep ==
    ASSUME HttpInv, StartInv, At("serving"), UNCHANGED <<config, process>>, NEW c \in Conns,
           NEW p \in Ports, Admit(c, p)
    PROVE  HttpInv'
<1>1. /\ conn[c].pc = "idle" /\ session[p].pc = "none"
      /\ Cardinality(Active) < config.connections
  BY DEF Admit, Active
<1>2. PICK head \in Heads : \E parsed \in parse_proxy_request(head) :
        /\ config.production => ContextOf(parsed) # {}
        /\ conn' = [conn EXCEPT ![c] =
            [NoConn EXCEPT !.pc = "connected", !.port = {p}, !.context = ContextOf(parsed),
                           !.head = {IF config.production
                                     THEN [head EXCEPT !.headers =
                                               strip_ingress_headers(head.headers)]
                                     ELSE head}]]
  BY DEF Admit
<1>3. PICK parsed \in parse_proxy_request(head) :
        /\ config.production => ContextOf(parsed) # {}
        /\ conn' = [conn EXCEPT ![c] =
            [NoConn EXCEPT !.pc = "connected", !.port = {p}, !.context = ContextOf(parsed),
                           !.head = {IF config.production
                                     THEN [head EXCEPT !.headers =
                                               strip_ingress_headers(head.headers)]
                                     ELSE head}]]
  BY <1>2
<1>4. PICK h : h = IF config.production
                   THEN [head EXCEPT !.headers = strip_ingress_headers(head.headers)]
                   ELSE head
  OBVIOUS
<1>5. IsHead(h)
  BY <1>4, HttpAssumption, StrippedIsHead
<1>6. PICK t : t = [NoConn EXCEPT !.pc = "connected", !.port = {p}, !.context = ContextOf(parsed),
                                  !.head = {h}]
  OBVIOUS
<1>7. conn' = [conn EXCEPT ![c] = t]
  BY <1>3, <1>4, <1>6
<1>8. /\ t.pc = "connected" /\ t.port = {p} /\ t.context = ContextOf(parsed) /\ t.head = {h}
      /\ t.generation = {} /\ ConnShape(t)
  <2>1. Connected([NoConn EXCEPT !.pc = "connected", !.port = {p}, !.context = ContextOf(parsed),
                                 !.head = {h}], {p}, ContextOf(parsed), {h})
    BY ConnectedFields, Zenon
  <2>2. Connected(t, {p}, ContextOf(parsed), {h})
    BY <1>6, <2>1, Zenon
  <2> QED BY <2>2 DEF Connected
<1>9. /\ config.production =>
             \E x : t.context = {x} /\ x.identity \in Tenant /\ x.isolation.strict \in BOOLEAN
      /\ ~config.production => t.context = {}
  BY <1>3, <1>8, OneContext DEF ContextOf
<1>10. ConnOK(t)
  BY <1>5, <1>8, <1>9 DEF ConnOK
<1>11. \A d \in Conns : p \notin conn[d].port
  BY <1>1 DEF HttpInv, SocketsOK, SocketOK
<1>12. ConnsOK' /\ conn'[c] = t /\ \A d \in Conns \ {c} : conn'[d] = conn[d]
  <2>1. Unshared(c, t)
    BY <1>8, <1>11 DEF Unshared
  <2>2. ConnSet(c, t)
    BY <1>7, <1>10, <2>1, OneConn
  <2> QED BY <2>2 DEF ConnSet
<1>13. PICK s : s = [NoSession EXCEPT !.pc = "reading", !.open = TRUE]
  BY Zenon
<1>14. session[p] = NoSession
  BY <1>1 DEF HttpInv, SessionsOK, SessionOK
<1>15. session' = [session EXCEPT ![p] = s]
  <2>1. session' = [session EXCEPT ![p] = [session[p] EXCEPT !.pc = "reading", !.open = TRUE]]
    BY Zenon DEF Admit
  <2> QED BY <1>13, <1>14, <2>1, Zenon
<1>16. Opened(s, TRUE)
  BY <1>13, OpenedFields, Zenon
<1>17. /\ s.pc = "reading" /\ s.head = {} /\ s.open = TRUE /\ s.first = TRUE
       /\ s.sender = {} /\ s.ctx = {} /\ s.bridge = {} /\ s.via = {} /\ SessionShape(s)
  BY <1>16, NoSessionFields, Zenon DEF Opened
<1>18. SessionOK(s)
  BY <1>17 DEF SessionOK, SessionPhase
<1>19. SessionsOK' /\ \A q \in Ports : session'[q] = IF q = p THEN s ELSE session[q]
  BY <1>15, <1>18, OneSession DEF HttpInv, SessionsOK
<1>20. \A q \in Ports : RequestKept(session[q], session'[q]) /\ UseKept(session[q], session'[q])
  BY <1>14, <1>17, <1>19, NoSessionFields DEF RequestKept, UseKept
<1>21. SocketsOK'
  <2>1. ASSUME NEW d \in Conns, NEW q \in conn'[d].port
        PROVE  SocketOK(conn'[d], session'[q])
    <3>1. CASE d = c
      <4>1. q = p /\ session'[q] = s /\ conn'[d] = t
        BY <1>8, <1>12, <1>19, <2>1, <3>1
      <4> QED BY <1>8, <1>17, <4>1 DEF SocketOK, Pristine
    <3>2. CASE d # c
      <4>1. conn'[d] = conn[d] /\ q \in conn[d].port /\ q \in Ports /\ q # p
        BY <1>11, <1>12, <2>1, <3>2 DEF HttpInv, ConnsOK, ConnOK
      <4> QED BY <1>19, <4>1 DEF HttpInv, SocketsOK
    <3> QED BY <3>1, <3>2
  <2> QED BY <2>1 DEF SocketsOK, SocketOK, Pristine
<1>22. PermitsOK'
  <2>1. Active' = Active \cup {c} /\ c \notin Active
    BY <1>1, <1>8, <1>12 DEF Active
  <2>2. IsFiniteSet(Active)
    BY HttpAssumption, FS_Subset DEF Active
  <2>3. Cardinality(Active \cup {c}) = Cardinality(Active) + 1 /\ Cardinality(Active) \in Nat
    BY <2>1, <2>2, FS_AddElement, FS_CardinalityType
  <2>4. config.connections \in Nat
    BY DEF StartInv, ConfigFollowed, ConfigChecked, At
  <2> QED BY <1>1, <2>1, <2>3, <2>4 DEF PermitsOK
<1>23. UNCHANGED <<downstream, leases, bridge, cache>>
  BY DEF Admit
<1>24. DownstreamOK'
  <2>1. conn[c].generation = {} /\ conn'[c].generation = {}
    BY <1>1, <1>8, <1>12 DEF HttpInv, ConnsOK, ConnOK
  <2> QED BY <1>12, <1>23, <2>1 DEF HttpInv, DownstreamOK
<1> QED BY <1>12, <1>19, <1>20, <1>21, <1>22, <1>23, <1>24, ConnectionStep

\* The permits leave room in the store for every connection that is not registered yet.
LEMMA StoreHasRoom ==
    ASSUME HttpInv, StartInv, At("serving"), NEW c \in Conns, conn[c].pc = "connected"
    PROVE  /\ Cardinality(DOMAIN downstream) < config.connections
           /\ Cardinality(DOMAIN downstream) \in Nat /\ config.connections \in Nat
<1> DEFINE Holder(p) == CHOOSE d \in Conns : p \in conn[d].port /\ conn[d].generation # {}
           guard == [p \in DOMAIN downstream |-> Holder(p)]
<1>1. \A p \in DOMAIN downstream :
        Holder(p) \in Conns /\ p \in conn[Holder(p)].port /\ conn[Holder(p)].generation # {}
  BY DEF HttpInv, DownstreamOK
<1> HIDE DEF Holder
<1>2. guard = [p \in DOMAIN downstream |-> guard[p]] /\ \A p \in DOMAIN downstream : guard[p] = Holder(p)
  OBVIOUS
<1> HIDE DEF guard
<1>3. \A p \in DOMAIN downstream : guard[p] \in Active \ {c} /\ conn[guard[p]].port = {p}
  <2> SUFFICES ASSUME NEW p \in DOMAIN downstream
               PROVE  guard[p] \in Active \ {c} /\ conn[guard[p]].port = {p}
    OBVIOUS
  <2>1. guard[p] \in Conns /\ p \in conn[guard[p]].port /\ conn[guard[p]].generation # {}
    BY <1>1, <1>2
  <2>2. ConnOK(conn[guard[p]])
    BY <2>1 DEF HttpInv, ConnsOK
  <2>3. conn[guard[p]].pc \in {"registered", "copying"}
    BY <2>1, <2>2 DEF ConnOK
  <2>4. guard[p] \in Active \ {c}
    BY <2>1, <2>3 DEF Active
  <2> QED BY <2>1, <2>2, <2>3, <2>4 DEF ConnOK
<1>4. guard \in Injection(DOMAIN downstream, Active \ {c})
  BY <1>2, <1>3 DEF Injection, IsInjective
<1>5. IsFiniteSet(Active) /\ c \in Active
  BY HttpAssumption, FS_Subset DEF Active
<1>6. IsFiniteSet(Active \ {c}) /\ Cardinality(Active \ {c}) = Cardinality(Active) - 1
  BY <1>5, FS_RemoveElement
<1>7. IsFiniteSet(DOMAIN downstream) /\ Cardinality(DOMAIN downstream) <= Cardinality(Active \ {c})
  BY <1>4, <1>6, FS_Injection
<1>8. Cardinality(DOMAIN downstream) \in Nat /\ Cardinality(Active) \in Nat
  BY <1>5, <1>7, FS_CardinalityType
<1>9. config.connections \in Nat /\ Cardinality(Active) <= config.connections
  BY DEF HttpInv, PermitsOK, StartInv, ConfigFollowed, ConfigChecked, At
<1> QED BY <1>6, <1>7, <1>8, <1>9

\* A connection at another point, with or without a guard.
Handled(r, t, pc, head, generation) ==
    /\ t.pc = pc /\ t.head = head /\ t.generation = generation
    /\ t.context = r.context /\ t.port = r.port /\ ConnShape(t)

\* A handler that has registered its context, field by field.
LEMMA RegisteredFields ==
    ASSUME NEW r, ConnShape(r), NEW generation
    PROVE  Handled(r, [r EXCEPT !.pc = "registered", !.generation = generation],
                   "registered", r.head, generation)
<1> SUFFICES ASSUME NEW t, t = [r EXCEPT !.pc = "registered", !.generation = generation]
             PROVE  Handled(r, t, "registered", r.head, generation)
  BY Zenon
<1>1. t = [pc |-> "registered", head |-> r.head, context |-> r.context, port |-> r.port,
           generation |-> generation]
  BY DEF ConnShape
<1> QED BY <1>1 DEF ConnShape, Handled

\* A connection is registered under its own socket, before anything of it is read there.
LEMMA RegisterStep ==
    ASSUME HttpInv, StartInv, At("serving"), UNCHANGED <<config, process>>, NEW c \in Conns, Register(c)
    PROVE  HttpInv'
<1>1. conn[c].pc = "connected" /\ config.production /\ ConnOK(conn[c])
  BY DEF HttpInv, ConnsOK, Register
<1>2. PICK p \in Ports : conn[c].port = {p}
  BY <1>1 DEF ConnOK
<1>3. PICK x : conn[c].context = {x}
  BY <1>1 DEF ConnOK
<1>4. conn[c].generation = {}
  BY <1>1 DEF ConnOK
<1>5. p \notin DOMAIN downstream
  <2> SUFFICES ASSUME p \in DOMAIN downstream
               PROVE  FALSE
    OBVIOUS
  <2>1. PICK d \in Conns : p \in conn[d].port /\ conn[d].generation # {}
    BY DEF HttpInv, DownstreamOK
  <2>2. d = c
    BY <1>2, <2>1 DEF HttpInv, ConnsOK
  <2> QED BY <1>4, <2>1, <2>2
<1>6. ~StoreFull(p)
  <2>1. /\ Cardinality(DOMAIN downstream) < config.connections
        /\ Cardinality(DOMAIN downstream) \in Nat /\ config.connections \in Nat
    BY <1>1, StoreHasRoom
  <2> QED BY <2>1 DEF StoreFull
<1>7. PICK g : g = FreshGeneration
  OBVIOUS
<1>8. /\ downstream' = With(downstream, p, [generation |-> g, context |-> x])
      /\ conn' = [conn EXCEPT ![c] = [conn[c] EXCEPT !.pc = "registered", !.generation = {g}]]
  BY <1>2, <1>3, <1>5, <1>6, <1>7 DEF Register
<1>9. PICK t : t = [conn[c] EXCEPT !.pc = "registered", !.generation = {g}]
  OBVIOUS
<1>10. /\ t.pc = "registered" /\ t.head = conn[c].head /\ t.generation = {g}
       /\ t.context = conn[c].context /\ t.port = conn[c].port /\ ConnShape(t)
  <2>1. ConnShape(conn[c])
    BY <1>1 DEF ConnOK
  <2>2. Handled(conn[c], [conn[c] EXCEPT !.pc = "registered", !.generation = {g}],
                "registered", conn[c].head, {g})
    BY <2>1, RegisteredFields, Zenon
  <2>3. Handled(conn[c], t, "registered", conn[c].head, {g})
    BY <1>9, <2>2, Zenon
  <2> QED BY <2>3 DEF Handled
<1>11. ConnOK(t)
  BY <1>1, <1>10 DEF ConnOK
<1>12. Unshared(c, t)
  BY <1>10 DEF Unshared, HttpInv, ConnsOK
<1>13. conn' = [conn EXCEPT ![c] = t]
  BY <1>8, <1>9
<1>14. ConnSet(c, t)
  BY <1>11, <1>12, <1>13, OneConn
<1>15. ConnsOK' /\ conn'[c] = t /\ \A d \in Conns \ {c} : conn'[d] = conn[d]
  BY <1>14 DEF ConnSet
<1>16. UNCHANGED <<session, leases, bridge, cache>>
  BY DEF Register
<1>17. SocketsOK'
  <2>1. ASSUME NEW d \in Conns, NEW q \in conn'[d].port
        PROVE  SocketOK(conn'[d], session[q])
    <3>1. CASE d = c
      <4>1. q \in conn[c].port /\ SocketOK(conn[c], session[q])
        BY <1>10, <1>15, <2>1, <3>1 DEF HttpInv, SocketsOK
      <4> QED BY <1>1, <1>10, <1>15, <3>1, <4>1 DEF SocketOK
    <3>2. CASE d # c
      BY <1>15, <2>1, <3>2 DEF HttpInv, SocketsOK
    <3> QED BY <3>1, <3>2
  <2> QED BY <1>16, <2>1 DEF SocketsOK, SocketOK, Pristine
<1>18. PermitsOK'
  <2>1. Active' = Active
    BY <1>1, <1>10, <1>15 DEF Active
  <2> QED BY <2>1 DEF HttpInv, PermitsOK, At
<1>19. DownstreamOK'
  <2>1. PICK entry : entry = [generation |-> g, context |-> x]
    OBVIOUS
  <2>2. entry.generation = g /\ entry.context = x
    BY <2>1
  <2>3. /\ DOMAIN downstream' = DOMAIN downstream \cup {p} /\ downstream'[p] = entry
        /\ \A q \in DOMAIN downstream : downstream'[q] = downstream[q]
    BY <1>5, <1>8, <2>1 DEF With
  <2>4. ASSUME NEW q \in DOMAIN downstream'
        PROVE  \E d \in Conns : q \in conn'[d].port /\ conn'[d].generation # {}
    <3>1. CASE q = p
      BY <1>2, <1>10, <1>15, <3>1
    <3>2. CASE q # p
      <4>1. PICK d \in Conns : q \in conn[d].port /\ conn[d].generation # {}
        BY <2>3, <2>4, <3>2 DEF HttpInv, DownstreamOK
      <4> QED BY <1>4, <1>15, <4>1
    <3> QED BY <3>1, <3>2
  <2>5. ASSUME NEW d \in Conns, conn'[d].generation # {}, NEW q \in conn'[d].port
        PROVE  /\ q \in DOMAIN downstream'
               /\ conn'[d].generation = {downstream'[q].generation}
               /\ conn'[d].context = {downstream'[q].context}
    <3>1. CASE d = c
      <4>1. q = p /\ conn'[d] = t
        BY <1>2, <1>10, <1>15, <2>5, <3>1
      <4> QED BY <1>3, <1>10, <2>2, <2>3, <4>1
    <3>2. CASE d # c
      BY <1>15, <2>3, <2>5, <3>2 DEF HttpInv, DownstreamOK
    <3> QED BY <3>1, <3>2
  <2> QED BY <2>4, <2>5 DEF DownstreamOK
<1>20. SessionsOK' /\ \A q \in Ports : RequestKept(session[q], session'[q]) /\ UseKept(session[q], session'[q])
  BY <1>16 DEF HttpInv, SessionsOK, SessionOK, RequestKept, UseKept
<1> QED BY <1>15, <1>16, <1>17, <1>18, <1>19, <1>20, ConnectionStep

\* A handler that has written the head, field by field.
LEMMA CopyingFields ==
    ASSUME NEW r, ConnShape(r)
    PROVE  Handled(r, [r EXCEPT !.pc = "copying", !.head = {}], "copying", {}, r.generation)
<1> SUFFICES ASSUME NEW t, t = [r EXCEPT !.pc = "copying", !.head = {}]
             PROVE  Handled(r, t, "copying", {}, r.generation)
  BY Zenon
<1>1. t = [pc |-> "copying", head |-> {}, context |-> r.context, port |-> r.port,
           generation |-> r.generation]
  BY DEF ConnShape
<1> QED BY <1>1 DEF ConnShape, Handled

\* A handler that has dropped its guard, field by field.
LEMMA ClosingFields ==
    ASSUME NEW r, ConnShape(r)
    PROVE  Handled(r, [r EXCEPT !.pc = "closing", !.head = {}, !.generation = {}], "closing", {}, {})
<1> SUFFICES ASSUME NEW t, t = [r EXCEPT !.pc = "closing", !.head = {}, !.generation = {}]
             PROVE  Handled(r, t, "closing", {}, {})
  BY Zenon
<1>1. t = [pc |-> "closing", head |-> {}, context |-> r.context, port |-> r.port,
           generation |-> {}]
  BY DEF ConnShape
<1> QED BY <1>1 DEF ConnShape, Handled

\* A session that has received a request, and one whose client is gone.
Received(r, s, head, sender) ==
    /\ s.pc = r.pc /\ s.head = head /\ s.open = r.open /\ s.first = r.first /\ s.sender = sender
    /\ s.ctx = r.ctx /\ s.bridge = r.bridge /\ s.via = r.via /\ SessionShape(s)

\* A session that has been sent a request, field by field.
LEMMA ReceivedFields ==
    ASSUME NEW r, SessionShape(r), NEW head, NEW sender
    PROVE  Received(r, [r EXCEPT !.head = head, !.sender = sender], head, sender)
<1> SUFFICES ASSUME NEW s, s = [r EXCEPT !.head = head, !.sender = sender]
             PROVE  Received(r, s, head, sender)
  BY Zenon
<1>1. s = [pc |-> r.pc, open |-> r.open, head |-> head, first |-> r.first, sender |-> sender,
           ctx |-> r.ctx, bridge |-> r.bridge, via |-> r.via]
  BY DEF SessionShape
<1> QED BY <1>1 DEF SessionShape, Received

Hung(r, s, open) ==
    /\ s.pc = r.pc /\ s.head = r.head /\ s.open = open /\ s.first = r.first /\ s.sender = r.sender
    /\ s.ctx = r.ctx /\ s.bridge = r.bridge /\ s.via = r.via /\ SessionShape(s)

\* A session whose peer has closed the socket, field by field.
LEMMA HungFields ==
    ASSUME NEW r, SessionShape(r), NEW open
    PROVE  Hung(r, [r EXCEPT !.open = open], open)
<1> SUFFICES ASSUME NEW s, s = [r EXCEPT !.open = open]
             PROVE  Hung(r, s, open)
  BY Zenon
<1>1. s = [pc |-> r.pc, open |-> open, head |-> r.head, first |-> r.first, sender |-> r.sender,
           ctx |-> r.ctx, bridge |-> r.bridge, via |-> r.via]
  BY DEF SessionShape
<1> QED BY <1>1 DEF SessionShape, Hung

\* The request is written to the socket with the context it was admitted under.
LEMMA ForwardStep ==
    ASSUME HttpInv, UNCHANGED <<config, process>>, NEW c \in Conns, Forward(c)
    PROVE  HttpInv'
<1>1. conn[c].pc \in {"connected", "registered"} /\ ConnOK(conn[c])
  BY DEF HttpInv, ConnsOK, Forward
<1>2. PICK p \in Ports : conn[c].port = {p}
  BY <1>1 DEF ConnOK
<1>3. PICK t : t = [conn[c] EXCEPT !.pc = "copying", !.head = {}]
  OBVIOUS
<1>4. conn' = [conn EXCEPT ![c] = t]
  BY <1>3 DEF HttpInv, ConnsOK, Forward
<1>5. /\ t.pc = "copying" /\ t.head = {} /\ t.generation = conn[c].generation
      /\ t.context = conn[c].context /\ t.port = conn[c].port /\ ConnShape(t)
  <2>1. ConnShape(conn[c])
    BY <1>1 DEF ConnOK
  <2>2. Handled(conn[c], [conn[c] EXCEPT !.pc = "copying", !.head = {}], "copying", {},
                conn[c].generation)
    BY <2>1, CopyingFields, Zenon
  <2>3. Handled(conn[c], t, "copying", {}, conn[c].generation)
    BY <1>3, <2>2, Zenon
  <2> QED BY <2>3 DEF Handled
<1>6. ConnOK(t)
  BY <1>1, <1>5 DEF ConnOK
<1>7. Unshared(c, t)
  BY <1>5 DEF Unshared, HttpInv, ConnsOK
<1>8. ConnSet(c, t)
  BY <1>4, <1>6, <1>7, OneConn
<1>9. ConnsOK' /\ conn'[c] = t /\ \A d \in Conns \ {c} : conn'[d] = conn[d]
  BY <1>8 DEF ConnSet
<1>10. PICK s : s = [session[p] EXCEPT !.head = conn[c].head, !.sender = conn[c].context]
  OBVIOUS
<1>11. session' = [session EXCEPT ![p] = s]
  BY <1>2, <1>10 DEF HttpInv, SessionsOK, Forward
<1>12. SessionOK(session[p]) /\ SocketOK(conn[c], session[p])
  BY <1>2 DEF HttpInv, SessionsOK, SocketsOK
<1>13. /\ s.pc = session[p].pc /\ s.head = conn[c].head /\ s.open = session[p].open
       /\ s.first = session[p].first /\ s.sender = conn[c].context /\ s.ctx = session[p].ctx
       /\ s.bridge = session[p].bridge /\ s.via = session[p].via /\ SessionShape(s)
  <2>1. SessionShape(session[p])
    BY <1>12 DEF SessionOK
  <2>2. Received(session[p], [session[p] EXCEPT !.head = conn[c].head, !.sender = conn[c].context],
                 conn[c].head, conn[c].context)
    BY <2>1, ReceivedFields, Zenon
  <2>3. Received(session[p], s, conn[c].head, conn[c].context)
    BY <1>10, <2>2, Zenon
  <2> QED BY <2>3 DEF Received
<1>14. /\ session[p].pc = "reading" /\ session[p].ctx = {} /\ session[p].bridge = {}
       /\ session[p].via = {} /\ session[p].first /\ session[p].open
  BY <1>1, <1>12 DEF SocketOK, Pristine, SessionOK, SessionPhase
<1>15. SessionOK(s)
  <2>1. \A head \in conn[c].head : IsHead(head)
    BY <1>1 DEF ConnOK
  <2>2. ~config.production => conn[c].context = {}
    BY <1>1 DEF ConnOK
  <2> QED BY <1>12, <1>13, <1>14, <2>1, <2>2 DEF SessionOK, SessionPhase
<1>16. SessionsOK' /\ \A q \in Ports : session'[q] = IF q = p THEN s ELSE session[q]
  BY <1>11, <1>15, OneSession DEF HttpInv, SessionsOK
<1>17. \A q \in Ports : RequestKept(session[q], session'[q]) /\ UseKept(session[q], session'[q])
  BY <1>13, <1>14, <1>16 DEF RequestKept, UseKept
<1>18. SocketsOK'
  <2>1. ASSUME NEW d \in Conns, NEW q \in conn'[d].port
        PROVE  SocketOK(conn'[d], session'[q])
    <3>1. CASE d = c
      <4>1. q = p /\ session'[q] = s /\ conn'[d] = t
        BY <1>2, <1>5, <1>9, <1>16, <2>1, <3>1
      <4> QED BY <1>5, <1>13, <1>14, <4>1 DEF SocketOK
    <3>2. CASE d # c
      <4>1. conn'[d] = conn[d] /\ q \in conn[d].port
        BY <1>9, <2>1, <3>2
      <4>2. q \in Ports /\ q # p
        BY <1>2, <3>2, <4>1 DEF HttpInv, ConnsOK, ConnOK
      <4> QED BY <1>16, <4>1, <4>2 DEF HttpInv, SocketsOK
    <3> QED BY <3>1, <3>2
  <2> QED BY <2>1 DEF SocketsOK, SocketOK, Pristine
<1>19. PermitsOK'
  <2>1. Active' = Active
    BY <1>1, <1>5, <1>9 DEF Active
  <2> QED BY <2>1 DEF HttpInv, PermitsOK, At
<1>20. UNCHANGED <<downstream, leases, bridge, cache>>
  BY DEF Forward
<1>21. DownstreamOK'
  <2>1. \A d \in Conns : /\ conn'[d].port = conn[d].port /\ conn'[d].context = conn[d].context
                         /\ conn'[d].generation = conn[d].generation
    BY <1>5, <1>9
  <2> QED BY <1>20, <2>1 DEF HttpInv, DownstreamOK
<1> QED BY <1>9, <1>16, <1>17, <1>18, <1>19, <1>20, <1>21, ConnectionStep

\* The guard removes the entry it registered, and no other.
LEMMA GuardRemoves ==
    ASSUME HttpInv, NEW c \in Conns, conn[c].pc # "idle",
           downstream' = IF conn[c].generation = {}
                         THEN downstream
                         ELSE RemoveEntry(CHOOSE p \in conn[c].port : TRUE,
                                          CHOOSE g \in conn[c].generation : TRUE)
    PROVE  /\ DOMAIN downstream' =
                  {p \in DOMAIN downstream : conn[c].generation # {} => p \notin conn[c].port}
           /\ \A p \in DOMAIN downstream' : downstream'[p] = downstream[p]
<1>1. CASE conn[c].generation = {}
  BY <1>1
<1>2. CASE conn[c].generation # {}
  <2>1. PICK p \in Ports : conn[c].port = {p}
    BY DEF HttpInv, ConnsOK, ConnOK
  <2>2. PICK g : conn[c].generation = {g}
    BY <1>2 DEF HttpInv, ConnsOK, ConnOK
  <2>3. p \in DOMAIN downstream /\ downstream[p].generation = g
    BY <1>2, <2>1, <2>2 DEF HttpInv, DownstreamOK
  <2>4. (CHOOSE q \in conn[c].port : TRUE) = p /\ (CHOOSE h \in conn[c].generation : TRUE) = g
    BY <2>1, <2>2
  <2>5. downstream' = RemoveEntry(p, g)
    BY <1>2, <2>4
  <2>6. downstream' = Without(downstream, p)
    BY <2>3, <2>5 DEF RemoveEntry
  <2> QED BY <1>2, <2>1, <2>6 DEF Without
<1> QED BY <1>1, <1>2

\* The handler drops its guard while the socket is still open.
LEMMA DropGuardStep ==
    ASSUME HttpInv, UNCHANGED <<config, process>>, NEW c \in Conns, DropGuard(c)
    PROVE  HttpInv'
<1>1. conn[c].pc \in {"connected", "registered", "copying"} /\ ConnOK(conn[c])
  BY DEF HttpInv, ConnsOK, ConnOK, DropGuard
<1>2. PICK p \in Ports : conn[c].port = {p}
  BY <1>1 DEF ConnOK
<1>3. PICK t : t = [conn[c] EXCEPT !.pc = "closing", !.head = {}, !.generation = {}]
  OBVIOUS
<1>4. conn' = [conn EXCEPT ![c] = t]
  BY <1>3 DEF DropGuard
<1>5. /\ t.pc = "closing" /\ t.head = {} /\ t.generation = {}
      /\ t.context = conn[c].context /\ t.port = conn[c].port /\ ConnShape(t)
  <2>1. ConnShape(conn[c])
    BY <1>1 DEF ConnOK
  <2>2. Handled(conn[c], [conn[c] EXCEPT !.pc = "closing", !.head = {}, !.generation = {}],
                "closing", {}, {})
    BY <2>1, ClosingFields, Zenon
  <2>3. Handled(conn[c], t, "closing", {}, {})
    BY <1>3, <2>2, Zenon
  <2> QED BY <2>3 DEF Handled
<1>6. ConnOK(t)
  BY <1>1, <1>5 DEF ConnOK
<1>7. Unshared(c, t)
  BY <1>5 DEF Unshared, HttpInv, ConnsOK
<1>8. ConnSet(c, t)
  BY <1>4, <1>6, <1>7, OneConn
<1>9. ConnsOK' /\ conn'[c] = t /\ \A d \in Conns \ {c} : conn'[d] = conn[d]
  BY <1>8 DEF ConnSet
<1>10. UNCHANGED <<session, leases, bridge, cache>>
  BY DEF DropGuard
<1>11. SocketsOK'
  <2>1. ASSUME NEW d \in Conns, NEW q \in conn'[d].port
        PROVE  SocketOK(conn'[d], session[q])
    <3>1. CASE d = c
      <4>1. q \in conn[c].port /\ SocketOK(conn[c], session[q])
        BY <1>5, <1>9, <2>1, <3>1 DEF HttpInv, SocketsOK
      <4> QED BY <1>5, <1>9, <3>1, <4>1 DEF SocketOK
    <3>2. CASE d # c
      BY <1>9, <2>1, <3>2 DEF HttpInv, SocketsOK
    <3> QED BY <3>1, <3>2
  <2> QED BY <1>10, <2>1 DEF SocketsOK, SocketOK, Pristine
<1>12. PermitsOK'
  <2>1. Active' = Active
    BY <1>1, <1>5, <1>9 DEF Active
  <2> QED BY <2>1 DEF HttpInv, PermitsOK, At
<1>13. DownstreamOK'
  <2>1. /\ DOMAIN downstream' =
               {q \in DOMAIN downstream : conn[c].generation # {} => q \notin conn[c].port}
        /\ \A q \in DOMAIN downstream' : downstream'[q] = downstream[q]
    BY <1>1, GuardRemoves DEF DropGuard
  <2>2. ASSUME NEW q \in DOMAIN downstream'
        PROVE  \E d \in Conns : q \in conn'[d].port /\ conn'[d].generation # {}
    <3>1. q \in DOMAIN downstream
      BY <2>1, <2>2
    <3>2. PICK d \in Conns : q \in conn[d].port /\ conn[d].generation # {}
      BY <3>1 DEF HttpInv, DownstreamOK
    <3>3. d # c
      BY <2>1, <2>2, <3>2
    <3> QED BY <1>9, <3>2, <3>3
  <2>3. ASSUME NEW d \in Conns, conn'[d].generation # {}, NEW q \in conn'[d].port
        PROVE  /\ q \in DOMAIN downstream'
               /\ conn'[d].generation = {downstream'[q].generation}
               /\ conn'[d].context = {downstream'[q].context}
    <3>1. d # c /\ conn'[d] = conn[d]
      BY <1>5, <1>9, <2>3
    <3>2. /\ q \in DOMAIN downstream
          /\ conn[d].generation = {downstream[q].generation}
          /\ conn[d].context = {downstream[q].context}
      BY <2>3, <3>1 DEF HttpInv, DownstreamOK
    <3>3. q \notin conn[c].port
      BY <2>3, <3>1 DEF HttpInv, ConnsOK
    <3> QED BY <2>1, <3>1, <3>2, <3>3
  <2> QED BY <2>2, <2>3 DEF DownstreamOK
<1>14. SessionsOK' /\ \A q \in Ports : RequestKept(session[q], session'[q]) /\ UseKept(session[q], session'[q])
  BY <1>10 DEF HttpInv, SessionsOK, SessionOK, RequestKept, UseKept
<1> QED BY <1>9, <1>10, <1>11, <1>12, <1>13, <1>14, ConnectionStep

\* The socket is closed after the guard is gone.
LEMMA CloseSocketStep ==
    ASSUME HttpInv, StartInv, At("serving"), UNCHANGED <<config, process>>, NEW c \in Conns,
           CloseSocket(c)
    PROVE  HttpInv'
<1>1. conn[c].pc = "closing" /\ ConnOK(conn[c])
  BY DEF HttpInv, ConnsOK, CloseSocket
<1>2. PICK p \in Ports : conn[c].port = {p}
  BY <1>1 DEF ConnOK
<1>3. conn[c].generation = {}
  BY <1>1 DEF ConnOK
<1>4. conn' = [conn EXCEPT ![c] = NoConn] /\ UNCHANGED <<downstream, leases, bridge, cache>>
  BY DEF CloseSocket
<1>5. /\ NoConn.pc = "idle" /\ NoConn.port = {} /\ NoConn.generation = {} /\ NoConn.head = {}
      /\ ConnShape(NoConn)
  BY DEF NoConn, ConnShape
<1>6. ConnOK(NoConn) /\ Unshared(c, NoConn)
  BY <1>5 DEF ConnOK, Unshared
<1>7. ConnSet(c, NoConn)
  BY <1>4, <1>6, OneConn
<1>8. ConnsOK' /\ conn'[c] = NoConn /\ \A d \in Conns \ {c} : conn'[d] = conn[d]
  BY <1>7 DEF ConnSet
<1>9. PICK s : s = [session[p] EXCEPT !.open = FALSE]
  BY Zenon
<1>10. session' = [session EXCEPT ![p] = s]
  <2>1. PICK open : open = FALSE
    BY Zenon
  <2>2. session' = [q \in Ports |-> IF q \in conn[c].port THEN [session[q] EXCEPT !.open = open]
                                    ELSE session[q]]
    BY <2>1, Zenon DEF CloseSocket
  <2>3. s = [session[p] EXCEPT !.open = open]
    BY <1>9, <2>1, Zenon
  <2> QED BY <1>2, <2>2, <2>3 DEF HttpInv, SessionsOK
<1>11. SessionOK(session[p]) /\ SocketOK(conn[c], session[p])
  BY <1>2 DEF HttpInv, SessionsOK, SocketsOK
<1>12. Hung(session[p], s, FALSE)
  <2>1. SessionShape(session[p])
    BY <1>11 DEF SessionOK
  <2>2. Hung(session[p], [session[p] EXCEPT !.open = FALSE], FALSE)
    BY <2>1, HungFields, Zenon
  <2> QED BY <1>9, <2>2, Zenon
<1>13. SessionOK(s)
  <2>1. session[p].pc # "none"
    BY <1>11 DEF SocketOK
  <2> QED BY <1>11, <1>12, <2>1 DEF SessionOK, SessionPhase, Hung
<1>14. SessionsOK' /\ \A q \in Ports : session'[q] = IF q = p THEN s ELSE session[q]
  BY <1>10, <1>13, OneSession DEF HttpInv, SessionsOK
<1>15. \A q \in Ports : RequestKept(session[q], session'[q]) /\ UseKept(session[q], session'[q])
  BY <1>12, <1>14 DEF RequestKept, UseKept, Hung
<1>16. SocketsOK'
  <2>1. ASSUME NEW d \in Conns, NEW q \in conn'[d].port
        PROVE  SocketOK(conn'[d], session'[q])
    <3>1. d # c /\ conn'[d] = conn[d] /\ q \in conn[d].port
      BY <1>5, <1>8, <2>1
    <3>2. q \in Ports /\ q # p
      BY <1>2, <3>1 DEF HttpInv, ConnsOK, ConnOK
    <3> QED BY <1>14, <3>1, <3>2 DEF HttpInv, SocketsOK
  <2> QED BY <2>1 DEF SocketsOK, SocketOK, Pristine
<1>17. PermitsOK'
  <2>1. Active' \subseteq Active
    BY <1>5, <1>8 DEF Active
  <2>2. IsFiniteSet(Active)
    BY HttpAssumption, FS_Subset DEF Active
  <2>3. /\ Cardinality(Active') <= Cardinality(Active)
        /\ Cardinality(Active') \in Nat /\ Cardinality(Active) \in Nat
    BY <2>1, <2>2, FS_Subset, FS_CardinalityType
  <2>4. config.connections \in Nat /\ Cardinality(Active) <= config.connections
    BY DEF HttpInv, PermitsOK, StartInv, ConfigFollowed, ConfigChecked, At
  <2>5. Cardinality(Active') <= config.connections
    BY <2>3, <2>4
  <2> QED BY <2>5 DEF PermitsOK
<1>18. DownstreamOK'
  BY <1>3, <1>4, <1>5, <1>8 DEF HttpInv, DownstreamOK
<1> QED BY <1>4, <1>8, <1>14, <1>15, <1>16, <1>17, <1>18, ConnectionStep

-----------------------------------------------------------------------------
(***************************************************************************)
(* The process.                                                            *)
(***************************************************************************)
\* Nothing the invariant speaks of changes, as when the bridge's listener opens.
LEMMA NothingMoves ==
    ASSUME HttpInv, At("serving"), UNCHANGED config, UNCHANGED httpVars
    PROVE  HttpInv'
<1>1. UNCHANGED <<conn, downstream, session, leases, bridge, cache>>
  BY DEF httpVars
<1>2. \A p \in Ports : RequestKept(session[p], session'[p]) /\ UseKept(session[p], session'[p])
  BY <1>1 DEF RequestKept, UseKept
<1>3. SessionsOK'
  BY <1>1 DEF HttpInv, SessionsOK, SessionOK, SessionPhase
<1>4. ConnsOK'
  BY <1>1 DEF HttpInv, ConnsOK, ConnOK
<1>5. SocketsOK'
  BY <1>1 DEF HttpInv, SocketsOK, SocketOK, Pristine
<1>6. PermitsOK'
  BY <1>1 DEF HttpInv, PermitsOK, Active
<1>7. DownstreamOK'
  BY <1>1 DEF HttpInv, DownstreamOK
<1> QED BY <1>1, <1>2, <1>3, <1>4, <1>5, <1>6, <1>7, ConnectionStep

\* One step of a handler, of Pingora, of the bridge or of the cache.
LEMMA ServeStep ==
    ASSUME HttpInv, StartInv, At("serving"), UNCHANGED <<config, process>>, HttpNext
    PROVE  HttpInv'
<1>1. ASSUME NEW c \in Conns, PublicNext(c)
      PROVE  HttpInv'
  BY <1>1, AdmitStep, RegisterStep, ForwardStep, DropGuardStep, CloseSocketStep DEF PublicNext
<1>2. ASSUME NEW p \in Ports, SessionNext(p)
      PROVE  HttpInv'
  <2>1. CASE FilterForbids(p) \/ FilterFails(p)
    BY <2>1, RefusedStep DEF FilterForbids, FilterFails
  <2>2. CASE LocalConnect(p) \/ NextRequest(p) \/ SessionGone(p)
    BY <2>2, LocalConnectStep, NextRequestStep, SessionGoneStep
  <2>3. CASE FilterAuthenticated(p) \/ FilterDevelopment(p)
    BY <2>3, FilterAuthenticatedStep, FilterDevelopmentStep
  <2>4. CASE CacheHit(p)
    BY <2>4, CacheHitStep
  <2>5. CASE \E b \in Bridges : ReuseUpstream(p, b) \/ ConnectUpstream(p, b)
    BY <2>5, ReuseUpstreamStep, ConnectUpstreamStep
  <2>6. CASE Respond(p) \/ RetryUpstream(p) \/ Abandon(p) \/ EndRequest(p)
    BY <2>6, RespondStep, RetryUpstreamStep, AbandonStep, EndRequestStep
  <2> QED BY <1>2, <2>1, <2>2, <2>3, <2>4, <2>5, <2>6 DEF SessionNext
<1>3. ASSUME NEW b \in Bridges, InternalConnect(b) \/ InternalConnectFails(b) \/ StreamEnds(b)
      PROVE  HttpInv'
  BY <1>3, InternalConnectStep, InternalConnectFailsStep, StreamEndsStep
<1> QED BY <1>1, <1>2, <1>3, TickStep DEF HttpNext

\* A process that serves stays as it was started.
LEMMA ServingGoesOn ==
    ASSUME At("serving"), StartNext
    PROVE  At("serving")' /\ UNCHANGED config
<1>1. CASE BridgeListens
  BY <1>1 DEF BridgeListens, At
<1>2. CASE OtherInstance
  BY <1>2 DEF OtherInstance, At
<1> QED
  BY <1>1, <1>2
  DEF StartNext, Boot, ReadIngress, InspectDatabase, CreateDatabase, ReadVersion, Migrate,
      DatabaseFails, CheckCapacities, ReadPolicies, Bootstrap, PingoraListens, At

\* Start-up serves nobody, serving keeps the invariant, and an end leaves nothing.
LEMMA ServiceInductive ==
    /\ Init => ServiceInv
    /\ ServiceInv /\ [Next]_vars => ServiceInv'
<1>1. StartInv /\ HttpInit => HttpInv
  BY NothingYet
<1>2. (StartInv /\ HttpInit => HttpInv)'
  BY <1>1, PTL
<1>3. Init => ServiceInv
  BY <1>1, StartInductive DEF Init, ServiceInv
<1>4. ASSUME ServiceInv, [Next]_vars
      PROVE  ServiceInv'
  <2>1. StartInv' /\ StartInv /\ HttpInv
    BY <1>4, StartInductive DEF ServiceInv
  <2>2. HttpInit' => ServiceInv'
    BY <1>2, <2>1 DEF ServiceInv
  <2>3. CASE Start
    <3>1. UNCHANGED httpVars
      BY <2>3 DEF Start
    <3>2. CASE At("serving")
      BY <2>1, <2>3, <3>1, <3>2, NothingMoves, ServingGoesOn DEF Start, ServiceInv
    <3>3. CASE ~At("serving")
      <4>1. HttpInit
        BY <1>4, <3>3 DEF ServiceInv
      <4> QED BY <2>2, <3>1, <4>1 DEF HttpInit, httpVars
    <3> QED BY <3>2, <3>3
  <2>4. CASE ServeHttp
    <3>1. UNCHANGED <<config, process>> /\ At("serving") /\ HttpNext
      BY <2>4 DEF ServeHttp, startVars
    <3>2. At("serving")'
      BY <3>1 DEF At
    <3> QED BY <2>1, <3>1, <3>2, ServeStep DEF ServiceInv
  <2>5. CASE Kill
    BY <2>2, <2>5 DEF Kill, HttpInit
  <2>6. CASE UNCHANGED vars
    <3>1. UNCHANGED httpVars /\ UNCHANGED startVars
      BY <2>6 DEF vars
    <3>2. UNCHANGED <<config, process>>
      BY <3>1 DEF startVars
    <3>3. CASE At("serving")
      <4>1. At("serving")'
        BY <3>2, <3>3 DEF At
      <4> QED BY <2>1, <3>1, <3>2, <3>3, <4>1, NothingMoves DEF ServiceInv
    <3>4. CASE ~At("serving")
      <4>1. HttpInit
        BY <1>4, <3>4 DEF ServiceInv
      <4> QED BY <2>2, <3>1, <4>1 DEF HttpInit, httpVars
    <3> QED BY <3>3, <3>4
  <2> QED BY <1>4, <2>3, <2>4, <2>5, <2>6 DEF Next
<1> QED BY <1>3, <1>4

\* The invariant of the whole process.
THEOREM ServiceIsKept == Spec => []ServiceInv
BY ServiceInductive, PTL DEF Spec

-----------------------------------------------------------------------------
(***************************************************************************)
(* What the invariant says of the properties.                              *)
(***************************************************************************)
\* However many connections come and go and reuse each other's addresses, the context
\* store has one entry for each live guard and none else, and never refuses one.
THEOREM ContextsAreExact == Spec => []DownstreamExact
<1>1. ServiceInv => DownstreamExact
  <2> SUFFICES ASSUME HttpInv
               PROVE  DownstreamExact
    BY DEF ServiceInv
  <2> DEFINE Entry(p) == <<p, downstream[p].generation, {downstream[p].context}>>
             Guard(c) == <<CHOOSE p \in conn[c].port : TRUE, CHOOSE g \in conn[c].generation : TRUE,
                           conn[c].context>>
             Guards == {d \in Conns : conn[d].generation # {}}
  <2>1. \A c \in Conns : conn[c].pc # "refused"
    BY DEF HttpInv, ConnsOK, ConnOK
  <2>2. ASSUME NEW c \in Guards, NEW p \in conn[c].port
        PROVE  p \in DOMAIN downstream /\ Guard(c) = Entry(p)
    <3>1. PICK q \in Ports : conn[c].port = {q}
      BY <2>2 DEF HttpInv, ConnsOK, ConnOK
    <3>2. PICK g : conn[c].generation = {g}
      BY <2>2 DEF HttpInv, ConnsOK, ConnOK
    <3>3. (CHOOSE r \in conn[c].port : TRUE) = p /\ (CHOOSE h \in conn[c].generation : TRUE) = g
      BY <2>2, <3>1, <3>2
    <3>4. /\ p \in DOMAIN downstream /\ conn[c].generation = {downstream[p].generation}
          /\ conn[c].context = {downstream[p].context}
      BY <2>2 DEF HttpInv, DownstreamOK
    <3>5. g = downstream[p].generation
      BY <3>2, <3>4
    <3> QED BY <3>3, <3>4, <3>5
  <2>3. \A p \in DOMAIN downstream : \E c \in Guards : p \in conn[c].port
    BY DEF HttpInv, DownstreamOK
  <2>4. \A c \in Guards : \E p : p \in conn[c].port
    BY DEF HttpInv, ConnsOK, ConnOK
  <2> HIDE DEF Entry, Guard, Guards
  <2>5. \A p \in DOMAIN downstream : \E c \in Guards : Entry(p) = Guard(c)
    BY <2>2, <2>3
  <2>6. \A c \in Guards : \E p \in DOMAIN downstream : Guard(c) = Entry(p)
    BY <2>2, <2>4
  <2>7. {Entry(p) : p \in DOMAIN downstream} = {Guard(c) : c \in Guards}
    BY <2>5, <2>6
  <2> QED BY <2>1, <2>7 DEF DownstreamExact, Entry, Guard, Guards
<1> QED BY <1>1, ServiceIsKept, PTL

\* Every request runs under the identity, the isolation and the strictness of the
\* connection that sent it, and is the first and only one of that connection.
THEOREM RequestsAreAttributed == Spec => []Attributed
<1>1. ServiceInv => Attributed
  <2> SUFFICES ASSUME HttpInv, config.production, NEW p \in Ports, NEW ctx \in session[p].ctx
               PROVE  /\ session[p].first
                      /\ \A sender \in session[p].sender :
                          /\ ctx.identity = {sender.identity}
                          /\ ctx.isolation.tenant = ctx.identity
                          /\ ctx.isolation.caller = sender.isolation.identity
                          /\ ctx.strict = sender.isolation.strict
                      /\ session[p].sender # {}
    BY DEF ServiceInv, Attributed
  <2>1. session[p].first
    BY DEF HttpInv, SessionsOK, SessionOK
  <2>2. CtxOK(p, session[p].sender, ctx)
    BY DEF HttpInv, CtxsOK
  <2>3. PICK x : /\ session[p].sender = {x} /\ ctx.identity = {x.identity}
                 /\ ctx.isolation.caller = x.isolation.identity
                 /\ ctx.strict = x.isolation.strict
    BY <2>2 DEF CtxOK
  <2> QED BY <2>1, <2>2, <2>3 DEF CtxOK
<1> QED BY <1>1, ServiceIsKept, PTL

\* A lease lives as long as its request, and a stream serves one request and is charged
\* to its tenant, also when the stream was opened for an earlier request.
THEOREM LeasesAreExact == Spec => []LeasesExact
<1>1. ServiceInv => LeasesExact
  <2> SUFFICES ASSUME HttpInv
               PROVE  LeasesExact
    BY DEF ServiceInv
  <2>1. DOMAIN leases = UNION {ctx.lease : ctx \in CtxsOf(session)}
    <3>1. \A ctx : ctx \in CtxsOf(session) <=> \E p \in Ports : ctx \in session[p].ctx
      BY DEF CtxsOf
    <3>2. \A ctx \in CtxsOf(session) : \A lease \in ctx.lease : lease \in DOMAIN leases
      BY <3>1 DEF HttpInv, LeasesOK
    <3>3. \A lease \in DOMAIN leases : \E ctx \in CtxsOf(session) : lease \in ctx.lease
      BY <3>1 DEF HttpInv, LeasesOK
    <3> QED BY <3>2, <3>3
  <2>2. ASSUME NEW p \in Ports, NEW ctx \in session[p].ctx, NEW b \in session[p].bridge
        PROVE  bridge[b].user = {p} /\ (session[p].pc = "serving" => bridge[b].scope = ctx.identity)
    <3>1. UseOK(p, session[p], bridge[b], ctx) /\ CtxOK(p, session[p].sender, ctx)
      BY <2>2 DEF HttpInv, UsesOK, CtxsOK
    <3>2. b \in Bridges
      BY <2>2, StreamInUse
    <3>3. session[p].pc = "serving" => \E g : bridge[b].group = {g} /\ bridge[b].scope = g.owner.tenant
      BY <3>1, <3>2 DEF UseOK, HttpInv, BridgesOK, BridgeOK
    <3> QED BY <3>1, <3>3 DEF UseOK, CtxOK
  <2>3. \A p \in Ports : \A ctx \in session[p].ctx : \A lease \in ctx.lease :
            {leases[lease]} = ctx.identity
    BY DEF HttpInv, LeasesOK
  <2> QED BY <2>1, <2>2, <2>3 DEF LeasesExact
<1> QED BY <1>1, ServiceIsKept, PTL

\* No tenant is served a response that was stored for another, for another isolation or
\* group key, or for a strict request.
THEOREM CacheIsAlwaysIsolated == Spec => []CacheIsolated
<1>1. ServiceInv => CacheIsolated
  BY DEF ServiceInv, HttpInv
<1> QED BY <1>1, ServiceIsKept, PTL

\* No response is kept beyond what the operator allows, whatever lifetime it claims.
THEOREM CacheStaysFresh == Spec => []CacheFresh
<1>1. ServiceInv => CacheFresh
  BY DEF ServiceInv, HttpInv, CacheOK, EntryOK, CacheFresh
<1> QED BY <1>1, ServiceIsKept, PTL

\* Nobody is served without authentication unless the process listens on a loopback
\* address and was given no production setting.
THEOREM OpenOnlyLocally == Spec => []OpenOnlyOnLoopback
<1>1. ServiceInv => OpenOnlyOnLoopback
  <2> SUFFICES ASSUME ServiceInv, NEW p \in Ports, NEW ctx \in session[p].ctx, ctx.identity = {}
               PROVE  config.loopback /\ ~config.secured
    BY DEF OpenOnlyOnLoopback, CtxsOf
  <2>1. CtxOK(p, session[p].sender, ctx)
    BY DEF ServiceInv, HttpInv, CtxsOK
  <2>2. ~config.production
    BY <2>1 DEF CtxOK
  <2>3. At("serving")
    <3> SUFFICES ASSUME ~At("serving")
                 PROVE  FALSE
      OBVIOUS
    <3>1. session[p] = NoSession
      BY DEF ServiceInv, HttpInit
    <3> QED BY <3>1, NoSessionFields
  <2>4. ConfigChecked(config)
    BY <2>3 DEF ServiceInv, StartInv, ConfigFollowed, At
  <2> QED BY <2>2, <2>4 DEF ConfigChecked
<1> QED BY <1>1, ServiceIsKept, PTL

-----------------------------------------------------------------------------
(***************************************************************************)
(* The refinement of TenantHttp.  By the invariant the tenant a slot       *)
(* belongs to, and the one it is served by, can be told from its session   *)
(* alone: what the sender, the stream and the cached response say agrees   *)
(* with the identity Pingora works with.                                   *)
(***************************************************************************)
OwnedBy(s) == UNION {ctx.identity : ctx \in s.ctx}
AnsweredBy(s) ==
    IF s.pc = "serving" THEN AnswerOf(OwnedBy(s), "origin")
    ELSE IF s.via # {} THEN AnswerOf(OwnedBy(s), "store") ELSE {}

Views == \A p \in Ports : /\ OwnerOf(p) = OwnedBy(session[p])
                          /\ ServedBy(p) = AnsweredBy(session[p])

\* No tenant, no answer.
LEMMA AnswersNobody ==
    ASSUME NEW tenants, NEW source
    PROVE  AnswerOf(tenants, source) = {} <=> tenants = {}
BY DEF AnswerOf

\* The refinement mapping is what the sessions show: their owners and answers.
LEMMA InvariantShowsViews == ServiceInv => Views
<1> SUFFICES ASSUME HttpInv, NEW p \in Ports
             PROVE  OwnerOf(p) = OwnedBy(session[p]) /\ ServedBy(p) = AnsweredBy(session[p])
  BY DEF ServiceInv, Views
<1>1. SessionOK(session[p])
  BY DEF HttpInv, SessionsOK
<1>2. CASE session[p].ctx = {}
  <2>1. session[p].via = {} /\ session[p].pc # "serving"
    BY <1>1, <1>2 DEF SessionOK, SessionPhase
  <2>2. UNION {by.identity : by \in session[p].via} = {}
    BY <2>1
  <2>3. ServedBy(p) = {}
    BY <2>1, <2>2, AnswersNobody DEF ServedBy
  <2> QED BY <1>2, <2>1, <2>3 DEF OwnerOf, OwnedBy, AnsweredBy
<1>3. CASE session[p].ctx # {}
  <2>1. PICK ctx : session[p].ctx = {ctx}
    BY <1>1, <1>3 DEF SessionOK, SessionPhase
  <2>2. CtxOK(p, session[p].sender, ctx)
    BY <2>1 DEF HttpInv, CtxsOK
  <2>3. OwnedBy(session[p]) = ctx.identity
    BY <2>1 DEF OwnedBy
  <2>4. OwnerOf(p) = ctx.identity
    <3>1. CASE config.production
      <4>1. PICK x : session[p].sender = {x} /\ ctx.identity = {x.identity}
        BY <2>2, <3>1 DEF CtxOK
      <4>2. TenantsOf(session[p].sender) = {x.identity}
        BY <4>1 DEF TenantsOf
      <4> QED BY <1>3, <4>1, <4>2 DEF OwnerOf
    <3>2. CASE ~config.production
      <4>1. session[p].sender = {} /\ ctx.identity = {}
        BY <1>1, <2>2, <3>2 DEF CtxOK, SessionOK
      <4>2. TenantsOf(session[p].sender) = {}
        BY <4>1 DEF TenantsOf
      <4> QED BY <1>3, <4>1, <4>2 DEF OwnerOf
    <3> QED BY <3>1, <3>2
  <2>5. ServedBy(p) = AnsweredBy(session[p])
    <3>1. CASE session[p].pc = "serving"
      <4>1. PICK b \in Bridges : session[p].bridge = {b}
        BY <1>1, <3>1 DEF SessionOK, SessionPhase
      <4>2. UseOK(p, session[p], bridge[b], ctx)
        BY <2>1, <4>1 DEF HttpInv, UsesOK
      <4>3. bridge[b].scope = ctx.identity
        <5>1. bridge[b].pc = "open" /\ bridge[b].group = {ctx.group}
          BY <3>1, <4>2 DEF UseOK
        <5>2. PICK g : bridge[b].group = {g} /\ bridge[b].scope = g.owner.tenant
          BY <4>1, <5>1 DEF HttpInv, BridgesOK, BridgeOK
        <5> QED BY <2>2, <5>1, <5>2 DEF CtxOK
      <4>4. UNION {bridge[e].scope : e \in session[p].bridge} = bridge[b].scope
        BY <4>1
      <4> QED BY <2>3, <3>1, <4>3, <4>4 DEF ServedBy, AnsweredBy
    <3>2. CASE session[p].pc # "serving" /\ session[p].via = {}
      <4>1. UNION {by.identity : by \in session[p].via} = {}
        BY <3>2
      <4> QED BY <3>2, <4>1, AnswersNobody DEF ServedBy, AnsweredBy
    <3>3. CASE session[p].pc # "serving" /\ session[p].via # {}
      <4>1. \A by \in session[p].via : by.identity = ctx.identity
        BY <2>1 DEF HttpInv, CacheIsolated
      <4>2. UNION {by.identity : by \in session[p].via} = ctx.identity
        BY <3>3, <4>1
      <4> QED BY <2>3, <3>3, <4>2 DEF ServedBy, AnsweredBy
    <3> QED BY <3>1, <3>2, <3>3
  <2> QED BY <2>3, <2>4, <2>5
<1> QED BY <1>2, <1>3

\* The tenants for whom responses are stored.
Held == UNION {entry.by.identity : entry \in cache}

\* What a step of the detailed specification does to the tenants' view of it.
SlotsKeep(P) ==
    \A q \in Ports \ P : /\ OwnedBy(session'[q]) = OwnedBy(session[q])
                         /\ AnsweredBy(session'[q]) = AnsweredBy(session[q])

Quiet == SlotsKeep({}) /\ Held' \subseteq Held

Begins(p) ==
    /\ SlotsKeep({p}) /\ Held' = Held
    /\ OwnedBy(session[p]) = {} /\ \E t \in Tenant : OwnedBy(session'[p]) = {t}
    /\ AnsweredBy(session'[p]) = AnsweredBy(session[p])

AnswersFrom(p, source) ==
    /\ SlotsKeep({p}) /\ Held' = Held
    /\ OwnedBy(session[p]) # {} /\ OwnedBy(session'[p]) = OwnedBy(session[p])
    /\ AnsweredBy(session[p]) = {}
    /\ AnsweredBy(session'[p]) = AnswerOf(OwnedBy(session[p]), source)

Answers(p) ==
    \/ AnswersFrom(p, "origin")
    \/ AnswersFrom(p, "store") /\ OwnedBy(session[p]) \subseteq Held

Finishes(p) ==
    /\ SlotsKeep({p}) /\ Held' \subseteq Held \cup OwnedBy(session[p])
    /\ OwnedBy(session'[p]) = OwnedBy(session[p])
    /\ AnsweredBy(session[p]) # {} /\ AnsweredBy(session'[p]) = {}

Ends(p) ==
    /\ SlotsKeep({p}) /\ Held' = Held
    /\ OwnedBy(session'[p]) = {} /\ AnsweredBy(session'[p]) = {}

Vanishes == /\ \A q \in Ports : OwnedBy(session'[q]) = {} /\ AnsweredBy(session'[q]) = {}
            /\ Held' = {}

ViewStep == \/ Quiet \/ Vanishes
            \/ \E p \in Ports : Begins(p) \/ Answers(p) \/ Finishes(p) \/ Ends(p)

\* Each of them is a step the promise allows.
LEMMA ViewStepIsPromised ==
    ASSUME Views, Views', ViewStep
    PROVE  [Promise!Next]_(Promise!tenantVars)
<1> DEFINE owner == [p \in Ports |-> OwnerOf(p)]
           served == [p \in Ports |-> ServedBy(p)]
<1>1. /\ \A q \in Ports : owner[q] = OwnedBy(session[q]) /\ owner'[q] = OwnedBy(session'[q])
      /\ \A q \in Ports : served[q] = AnsweredBy(session[q]) /\ served'[q] = AnsweredBy(session'[q])
  <2>1. \A q : /\ OwnedBy(session[q])' = OwnedBy(session'[q])
               /\ AnsweredBy(session[q])' = AnsweredBy(session'[q])
    BY DEF OwnedBy, AnsweredBy, AnswerOf
  <2> QED BY <2>1 DEF Views
<1>2. /\ owner = [q \in Ports |-> owner[q]] /\ served = [q \in Ports |-> served[q]]
      /\ owner' = [q \in Ports |-> owner'[q]] /\ served' = [q \in Ports |-> served'[q]]
  OBVIOUS
<1> HIDE DEF owner, served
<1>3. CASE Quiet
  <2>1. owner' = owner /\ served' = served
    BY <1>1, <1>2, <1>3 DEF Quiet, SlotsKeep
  <2>2. Promise!Forget
    BY <1>3, <2>1 DEF Promise!Forget, owner, served, Quiet, Held
  <2> QED BY <2>2 DEF Promise!Next
<1>4. CASE Vanishes
  <2>1. owner' = [q \in Ports |-> {}] /\ served' = [q \in Ports |-> {}]
    BY <1>1, <1>2, <1>4 DEF Vanishes
  <2>2. Promise!Restart
    BY <1>4, <2>1 DEF Promise!Restart, Promise!Nobody, owner, served, Vanishes, Held
  <2> QED BY <2>2 DEF Promise!Next
<1>5. ASSUME NEW p \in Ports, Begins(p)
      PROVE  Promise!Next
  <2>1. PICK t \in Tenant : OwnedBy(session'[p]) = {t}
    BY <1>5 DEF Begins
  <2>2. owner[p] = {} /\ owner' = [owner EXCEPT ![p] = {t}] /\ served' = served
    BY <1>1, <1>2, <1>5, <2>1 DEF Begins, SlotsKeep
  <2>3. Promise!Begin(p)
    BY <1>5, <2>2 DEF Promise!Begin, owner, served, Begins, Held, Tenant
  <2> QED BY <2>3 DEF Promise!Next
<1>6. ASSUME NEW p \in Ports, Answers(p)
      PROVE  Promise!Next
  <2>1. ASSUME NEW source, AnswersFrom(p, source)
        PROVE  Promise!Serve(p, source)
    <3>1. /\ owner[p] # {} /\ owner' = owner /\ served[p] = {}
          /\ served' = [served EXCEPT ![p] = AnswerOf(owner[p], source)]
      BY <1>1, <1>2, <2>1 DEF AnswersFrom, SlotsKeep
    <3> QED
      BY <2>1, <3>1 DEF Promise!Serve, Promise!Answer, AnswerOf, owner, served, AnswersFrom, Held
  <2>2. owner[p] = OwnedBy(session[p])
    BY <1>1
  <2>3. CASE AnswersFrom(p, "origin")
    BY <2>1, <2>3 DEF Promise!FromOrigin, Promise!Next
  <2>4. CASE AnswersFrom(p, "store") /\ OwnedBy(session[p]) \subseteq Held
    BY <2>1, <2>2, <2>4 DEF Promise!FromStore, Promise!Next, owner, Held
  <2> QED BY <1>6, <2>3, <2>4 DEF Answers
<1>7. ASSUME NEW p \in Ports, Finishes(p)
      PROVE  Promise!Next
  <2>1. /\ owner' = owner /\ owner[p] = OwnedBy(session[p]) /\ served[p] # {}
        /\ served' = [served EXCEPT ![p] = {}]
    BY <1>1, <1>2, <1>7 DEF Finishes, SlotsKeep
  <2>2. Promise!Finish(p)
    BY <1>7, <2>1 DEF Promise!Finish, owner, served, Finishes, Held
  <2> QED BY <2>2 DEF Promise!Next
<1>8. ASSUME NEW p \in Ports, Ends(p)
      PROVE  Promise!Next
  <2>1. owner' = [owner EXCEPT ![p] = {}] /\ served' = [served EXCEPT ![p] = {}]
    BY <1>1, <1>2, <1>8 DEF Ends, SlotsKeep
  <2>2. Promise!End(p)
    BY <1>8, <2>1 DEF Promise!End, owner, served, Ends, Held
  <2> QED BY <2>2 DEF Promise!Next
<1> QED BY <1>3, <1>4, <1>5, <1>6, <1>7, <1>8 DEF ViewStep

-----------------------------------------------------------------------------
\* A session that shows the same.
Shown(s, t) ==
    \/ s.ctx = {} /\ t.ctx = {}
    \/ t.ctx = s.ctx /\ t.via = s.via /\ (t.pc = "serving" <=> s.pc = "serving")

\* A session whose shown fields are kept is the same to tenants.
LEMMA ShownIsKept ==
    ASSUME NEW s, NEW t, Shown(s, t)
    PROVE  OwnedBy(t) = OwnedBy(s) /\ AnsweredBy(t) = AnsweredBy(s)
<1>1. CASE s.ctx = {} /\ t.ctx = {}
  BY <1>1, AnswersNobody DEF OwnedBy, AnsweredBy
<1>2. CASE t.ctx = s.ctx /\ t.via = s.via /\ (t.pc = "serving" <=> s.pc = "serving")
  BY <1>2 DEF OwnedBy, AnsweredBy
<1> QED BY <1>1, <1>2 DEF Shown

\* Only the session of p changes.
OnlySession(p, s) == session'[p] = s /\ \A q \in Ports \ {p} : session'[q] = session[q]

\* The other sessions are untouched.
LEMMA OnlyOneSession ==
    ASSUME HttpInv, NEW p \in Ports, NEW s, session' = [session EXCEPT ![p] = s]
    PROVE  OnlySession(p, s)
BY DEF HttpInv, SessionsOK, OnlySession

\* One session changes in a way that tenants do not see.
LEMMA QuietSession ==
    ASSUME HttpInv, NEW p \in Ports, NEW s, OnlySession(p, s), UNCHANGED cache, Shown(session[p], s)
    PROVE  Quiet
<1>1. Held' = Held
  BY DEF Held
<1>2. OwnedBy(s) = OwnedBy(session[p]) /\ AnsweredBy(s) = AnsweredBy(session[p])
  BY ShownIsKept
<1> QED BY <1>1, <1>2 DEF Quiet, SlotsKeep, OnlySession

\* No session changes.
LEMMA QuietSessions ==
    ASSUME UNCHANGED <<session, cache>>
    PROVE  Quiet
BY DEF Quiet, SlotsKeep, Held

\* What the public handler does is not seen by tenants.
LEMMA PublicIsQuiet ==
    ASSUME HttpInv, NEW c \in Conns, PublicNext(c)
    PROVE  Quiet
<1>1. ASSUME NEW p \in Ports, Admit(c, p)
      PROVE  Quiet
  <2>1. session[p] = NoSession /\ UNCHANGED cache
    BY <1>1 DEF Admit, HttpInv, SessionsOK, SessionOK
  <2>2. PICK s : s = [NoSession EXCEPT !.pc = "reading", !.open = TRUE]
    BY Zenon
  <2>3. session' = [session EXCEPT ![p] = s]
    <3>1. session' = [session EXCEPT ![p] = [session[p] EXCEPT !.pc = "reading", !.open = TRUE]]
      BY <1>1, Zenon DEF Admit
    <3> QED BY <2>1, <2>2, <3>1, Zenon
  <2>4. Opened(s, TRUE)
    BY <2>2, OpenedFields, Zenon
  <2>5. Shown(session[p], s)
    BY <2>1, <2>4, NoSessionFields DEF Shown, Opened
  <2>6. OnlySession(p, s)
    BY <2>3, OnlyOneSession
  <2> QED BY <2>1, <2>5, <2>6, QuietSession
<1>2. CASE Register(c) \/ DropGuard(c)
  BY <1>2, QuietSessions DEF Register, DropGuard
<1>3. ASSUME conn[c].pc # "idle" PROVE \E p \in Ports : conn[c].port = {p} /\ SessionOK(session[p])
  BY <1>3 DEF HttpInv, ConnsOK, ConnOK, SessionsOK
<1>4. CASE Forward(c)
  <2>1. PICK p \in Ports : conn[c].port = {p} /\ SessionOK(session[p])
    BY <1>3, <1>4 DEF Forward
  <2>2. PICK s : s = [session[p] EXCEPT !.head = conn[c].head, !.sender = conn[c].context]
    OBVIOUS
  <2>3. session' = [session EXCEPT ![p] = s]
    BY <1>4, <2>1, <2>2 DEF HttpInv, SessionsOK, Forward
  <2>4. Received(session[p], s, conn[c].head, conn[c].context)
    <3>1. SessionShape(session[p])
      BY <2>1 DEF SessionOK
    <3>2. Received(session[p], [session[p] EXCEPT !.head = conn[c].head, !.sender = conn[c].context],
                   conn[c].head, conn[c].context)
      BY <3>1, ReceivedFields, Zenon
    <3> QED BY <2>2, <3>2, Zenon
  <2>5. Shown(session[p], s)
    BY <2>4 DEF Shown, Received
  <2>6. OnlySession(p, s) /\ UNCHANGED cache
    BY <1>4, <2>3, OnlyOneSession DEF Forward
  <2> QED BY <2>5, <2>6, QuietSession
<1>5. CASE CloseSocket(c)
  <2>1. PICK p \in Ports : conn[c].port = {p} /\ SessionOK(session[p])
    BY <1>3, <1>5 DEF CloseSocket
  <2>2. PICK open : open = FALSE
    BY Zenon
  <2>3. session' = [q \in Ports |-> IF q \in conn[c].port THEN [session[q] EXCEPT !.open = open]
                                    ELSE session[q]]
    BY <1>5, <2>2, Zenon DEF CloseSocket
  <2>4. PICK s : s = [session[p] EXCEPT !.open = open]
    OBVIOUS
  <2>5. session' = [session EXCEPT ![p] = s]
    BY <2>1, <2>3, <2>4 DEF HttpInv, SessionsOK
  <2>6. Hung(session[p], s, open)
    <3>1. SessionShape(session[p])
      BY <2>1 DEF SessionOK
    <3>2. Hung(session[p], [session[p] EXCEPT !.open = open], open)
      BY <3>1, HungFields, Zenon
    <3> QED BY <2>4, <3>2, Zenon
  <2>7. Shown(session[p], s)
    BY <2>6 DEF Shown, Hung
  <2>8. OnlySession(p, s) /\ UNCHANGED cache
    BY <1>5, <2>5, OnlyOneSession DEF CloseSocket
  <2> QED BY <2>7, <2>8, QuietSession
<1> QED BY <1>1, <1>2, <1>4, <1>5 DEF PublicNext

\* Nor is what happens to a session without a request.
LEMMA IdleIsQuiet ==
    ASSUME HttpInv, NEW p \in Ports,
           LocalConnect(p) \/ FilterForbids(p) \/ FilterFails(p) \/ NextRequest(p) \/ SessionGone(p)
    PROVE  Quiet
<1>1. UNCHANGED cache /\ SessionOK(session[p]) /\ session[p].ctx = {}
  BY DEF HttpInv, SessionsOK, SessionOK, SessionPhase, LocalConnect, FilterForbids, FilterFails,
         NextRequest, SessionGone, Reading
<1>2. ASSUME NEW s, session' = [session EXCEPT ![p] = s], s.ctx = {}
      PROVE  Quiet
  <2>1. Shown(session[p], s) /\ OnlySession(p, s)
    BY <1>1, <1>2, OnlyOneSession DEF Shown
  <2> QED BY <1>1, <2>1, QuietSession
<1>3. SessionShape(session[p])
  BY <1>1 DEF SessionOK
<1>4. CASE FilterForbids(p) \/ FilterFails(p)
  <2>1. PICK r, s : r = session[p] /\ s = [r EXCEPT !.pc = "ending", !.head = {}]
    OBVIOUS
  <2>2. session' = [session EXCEPT ![p] = s]
    BY <1>4, <2>1 DEF HttpInv, SessionsOK, FilterForbids, FilterFails
  <2>3. s.ctx = r.ctx
    BY <1>3, <2>1 DEF SessionShape
  <2> QED BY <1>1, <1>2, <2>1, <2>2, <2>3
<1>5. CASE NextRequest(p)
  <2>1. PICK head \in LaterHeads : session' = [session EXCEPT ![p].head = {head}]
    BY <1>5 DEF NextRequest
  <2>2. PICK r, s : r = session[p] /\ s = [r EXCEPT !.head = {head}]
    OBVIOUS
  <2>3. session' = [session EXCEPT ![p] = s]
    BY <2>1, <2>2 DEF HttpInv, SessionsOK
  <2>4. s.ctx = r.ctx
    BY <1>3, <2>2 DEF SessionShape
  <2> QED BY <1>1, <1>2, <2>2, <2>3, <2>4
<1>6. CASE LocalConnect(p)
  <2>1. PICK head \in LocalHeads :
          session' = [session EXCEPT ![p] = [NoSession EXCEPT !.pc = "reading", !.head = {head}]]
    BY <1>6 DEF LocalConnect
  <2>2. PICK r, s : r = NoSession /\ s = [r EXCEPT !.pc = "reading", !.head = {head}]
    OBVIOUS
  <2>3. session' = [session EXCEPT ![p] = s]
    BY <2>1, <2>2
  <2>4. SessionShape(r) /\ r.ctx = {}
    BY <2>2, NoSessionFields
  <2>5. s.ctx = r.ctx
    BY <2>2, <2>4 DEF SessionShape
  <2> QED BY <1>2, <2>3, <2>4, <2>5
<1>7. CASE SessionGone(p)
  BY <1>2, <1>7, NoSessionFields DEF SessionGone
<1> QED BY <1>4, <1>5, <1>6, <1>7

\* A request begins for the tenant the connection was admitted for.
LEMMA FilterIsViewed ==
    ASSUME HttpInv, HttpInv', UNCHANGED config, NEW p \in Ports,
           FilterAuthenticated(p) \/ FilterDevelopment(p)
    PROVE  Quiet \/ Begins(p)
<1>1. PICK ctx : Reading(p) /\ Begin(p, ctx)
  BY DEF FilterAuthenticated, FilterDevelopment
<1>2. SessionOK(session[p]) /\ session[p].ctx = {} /\ session[p].via = {}
  BY <1>1 DEF HttpInv, SessionsOK, SessionOK, SessionPhase, Reading
<1>3. PICK r, s : r = session[p] /\ s = [r EXCEPT !.pc = "filtered", !.head = {}, !.ctx = {ctx}]
  OBVIOUS
<1>4. OnlySession(p, s)
  <2>1. session' = [session EXCEPT ![p] = s]
    BY <1>1, <1>3 DEF HttpInv, SessionsOK, Begin
  <2> QED BY <2>1, OnlyOneSession
<1>5. s.pc = "filtered" /\ s.ctx = {ctx} /\ s.via = {}
  <2>1. SessionShape(r) /\ r.via = {}
    BY <1>2, <1>3 DEF SessionOK
  <2>2. s = [pc |-> "filtered", open |-> r.open, head |-> {}, first |-> r.first,
             sender |-> r.sender, ctx |-> {ctx}, bridge |-> r.bridge, via |-> r.via]
    BY <1>3, <2>1 DEF SessionShape
  <2> QED BY <2>1, <2>2
<1>6. OwnedBy(session[p]) = {} /\ AnsweredBy(session[p]) = {}
  BY <1>2, AnswersNobody DEF OwnedBy, AnsweredBy
<1>7. OwnedBy(s) = ctx.identity /\ AnsweredBy(s) = {}
  BY <1>5 DEF OwnedBy, AnsweredBy
<1>8. Held' = Held
  BY <1>1 DEF Begin, Held
<1>9. ctx.identity = {} \/ \E t \in Tenant : ctx.identity = {t}
  <2>1. ctx \in session'[p].ctx
    BY <1>4, <1>5 DEF OnlySession
  <2>2. CtxOK(p, session[p].sender, ctx)'
    BY <2>1 DEF HttpInv, CtxsOK
  <2> QED BY <2>2 DEF CtxOK
<1>10. CASE ctx.identity = {}
  BY <1>4, <1>6, <1>7, <1>8, <1>10 DEF Quiet, SlotsKeep, OnlySession
<1>11. CASE \E t \in Tenant : ctx.identity = {t}
  BY <1>4, <1>6, <1>7, <1>8, <1>11 DEF Begins, SlotsKeep, OnlySession
<1> QED BY <1>9, <1>10, <1>11

\* A response from the cache.
LEMMA CacheHitIsViewed ==
    ASSUME HttpInv, NEW p \in Ports, CacheHit(p)
    PROVE  Answers(p)
<1>1. PICK entry \in Entries(CtxOf(p)) :
        session' = [session EXCEPT ![p].pc = "ending", ![p].via = {entry.by}]
  BY DEF CacheHit
<1>2. /\ SessionOK(session[p]) /\ session[p].pc = "filtered" /\ session[p].ctx = {CtxOf(p)}
      /\ session[p].via = {}
  BY OneCtx DEF HttpInv, SessionsOK, SessionOK, SessionPhase, CacheHit
<1>3. PICK r, s : r = session[p] /\ s = [r EXCEPT !.pc = "ending", !.via = {entry.by}]
  OBVIOUS
<1>4. OnlySession(p, s)
  <2>1. session' = [session EXCEPT ![p] = s]
    BY <1>1, <1>3 DEF HttpInv, SessionsOK
  <2> QED BY <2>1, OnlyOneSession
<1>5. s.pc = "ending" /\ s.ctx = {CtxOf(p)} /\ s.via = {entry.by}
  <2>1. SessionShape(r) /\ r.ctx = {CtxOf(p)}
    BY <1>2, <1>3 DEF SessionOK
  <2>2. s = [pc |-> "ending", open |-> r.open, head |-> r.head, first |-> r.first,
             sender |-> r.sender, ctx |-> r.ctx, bridge |-> r.bridge, via |-> {entry.by}]
    BY <1>3, <2>1 DEF SessionShape
  <2> QED BY <2>1, <2>2
<1>6. CtxOf(p).identity # {} /\ CtxOf(p).identity \subseteq Held
  BY <1>2, FoundByItsOwner DEF Held
<1>7. OwnedBy(session[p]) = CtxOf(p).identity /\ AnsweredBy(session[p]) = {}
  BY <1>2 DEF OwnedBy, AnsweredBy
<1>8. s.pc = "ending" /\ OwnedBy(s) = CtxOf(p).identity
  BY <1>5 DEF OwnedBy
<1>9. AnsweredBy(s) = AnswerOf(CtxOf(p).identity, "store")
  BY <1>5, <1>8 DEF AnsweredBy
<1>10. Held' = Held
  BY DEF CacheHit, Held
<1>11. AnswersFrom(p, "store")
  BY <1>4, <1>6, <1>7, <1>8, <1>9, <1>10 DEF AnswersFrom, SlotsKeep, OnlySession
<1> QED BY <1>6, <1>7, <1>11 DEF Answers

\* A request goes to, gets or leaves a stream.
LEMMA MoveIsViewed ==
    ASSUME HttpInv, NEW p \in Ports, NEW s, OnlySession(p, s), Moved(session[p], s),
           session[p].via = {}, UNCHANGED cache
    PROVE  Quiet \/ Answers(p) \/ Finishes(p)
<1>1. Held' = Held
  BY DEF Held
<1>2. s.ctx = session[p].ctx /\ s.via = {}
  BY DEF Moved
<1>3. OwnedBy(s) = OwnedBy(session[p])
  BY <1>2 DEF OwnedBy
<1> DEFINE answer == AnswerOf(OwnedBy(session[p]), "origin")
<1>4. /\ AnsweredBy(s) = IF s.pc = "serving" THEN answer ELSE {}
      /\ AnsweredBy(session[p]) = IF session[p].pc = "serving" THEN answer ELSE {}
      /\ answer = {} <=> OwnedBy(session[p]) = {}
  BY <1>2, <1>3, AnswersNobody DEF AnsweredBy
<1>5. CASE AnsweredBy(s) = AnsweredBy(session[p])
  BY <1>1, <1>3, <1>5 DEF Quiet, SlotsKeep, OnlySession
<1>6. CASE OwnedBy(session[p]) # {} /\ AnsweredBy(session[p]) = {} /\ AnsweredBy(s) = answer
  <2>1. AnswersFrom(p, "origin")
    BY <1>1, <1>3, <1>6 DEF AnswersFrom, SlotsKeep, OnlySession
  <2> QED BY <2>1 DEF Answers
<1>7. CASE AnsweredBy(session[p]) # {} /\ AnsweredBy(s) = {}
  BY <1>1, <1>3, <1>7 DEF Finishes, SlotsKeep, OnlySession
<1> HIDE DEF answer
<1> QED BY <1>4, <1>5, <1>6, <1>7

\* Choosing a stream answers the request or fails it, or is not seen.
LEMMA StreamIsViewed ==
    ASSUME HttpInv, NEW p \in Ports, NEW b,
           \/ ReuseUpstream(p, b) \/ ConnectUpstream(p, b)
           \/ RetryUpstream(p) \/ Abandon(p)
    PROVE  Quiet \/ Answers(p) \/ Finishes(p)
<1>1. /\ session[p].pc \in {"filtered", "retry", "connecting", "serving"} /\ UNCHANGED cache
      /\ SessionOK(session[p])
  BY DEF HttpInv, SessionsOK, ReuseUpstream, ConnectUpstream, GoesUpstream,
         RetryUpstream, Abandon
<1>2. session[p].via = {} /\ SessionShape(session[p])
  BY <1>1 DEF SessionOK, SessionPhase
<1>3. ASSUME NEW pc, NEW used,
             session' = [session EXCEPT ![p] = [session[p] EXCEPT !.pc = pc, !.bridge = used]]
      PROVE  Quiet \/ Answers(p) \/ Finishes(p)
  <2>1. PICK s : s = [session[p] EXCEPT !.pc = pc, !.bridge = used]
    OBVIOUS
  <2>2. MovedTo(session[p], s, pc, used)
    <3>1. MovedTo(session[p], [session[p] EXCEPT !.pc = pc, !.bridge = used], pc, used)
      BY <1>2, MovedFields, Zenon
    <3> QED BY <2>1, <3>1, Zenon
  <2>3. OnlySession(p, s)
    BY <1>3, <2>1, OnlyOneSession
  <2> QED BY <1>1, <1>2, <2>2, <2>3, MoveIsViewed DEF MovedTo
<1>4. CASE ReuseUpstream(p, b)
  <2>1. session' = [session EXCEPT ![p] = [session[p] EXCEPT !.pc = "serving", !.bridge = {b}]]
    BY <1>4 DEF HttpInv, SessionsOK, ReuseUpstream
  <2> QED BY <1>3, <2>1
<1>5. CASE ConnectUpstream(p, b)
  <2>1. session' = [session EXCEPT ![p] = [session[p] EXCEPT !.pc = "connecting", !.bridge = {b}]]
    BY <1>5 DEF HttpInv, SessionsOK, ConnectUpstream
  <2> QED BY <1>3, <2>1
<1>6. CASE RetryUpstream(p)
  <2>1. session' = [session EXCEPT ![p] = [session[p] EXCEPT !.pc = "retry", !.bridge = {}]]
    BY <1>6 DEF HttpInv, SessionsOK, RetryUpstream
  <2> QED BY <1>3, <2>1
<1>7. CASE Abandon(p)
  <2>1. session' = [session EXCEPT ![p] = [session[p] EXCEPT !.pc = "ending", !.bridge = {}]]
    BY <1>7 DEF HttpInv, SessionsOK, Abandon
  <2> QED BY <1>3, <2>1
<1> QED BY <1>4, <1>5, <1>6, <1>7

\* The bridge answers a CONNECT.
LEMMA BridgeIsViewed ==
    ASSUME HttpInv, NEW b \in Bridges, InternalConnect(b) \/ InternalConnectFails(b) \/ StreamEnds(b)
    PROVE  Quiet \/ \E p \in Ports : Answers(p) \/ Finishes(p)
<1>1. UNCHANGED cache
  BY DEF InternalConnect, InternalConnectFails, StreamEnds
<1>2. CASE StreamEnds(b)
  BY <1>2, QuietSessions DEF StreamEnds
<1>3. CASE bridge[b].user = {} /\ (InternalConnect(b) \/ InternalConnectFails(b))
  <2>1. session' = session
    BY <1>3 DEF InternalConnect, InternalConnectFails, HttpInv, SessionsOK
  <2> QED BY <1>1, <2>1, QuietSessions
<1>4. CASE bridge[b].user # {} /\ (InternalConnect(b) \/ InternalConnectFails(b))
  <2>1. PICK p \in Ports : bridge[b].user = {p} /\ session[p].bridge = {b}
    BY <1>4, StreamUser
  <2>2. SessionOK(session[p]) /\ session[p].pc \in {"connecting", "serving"}
    BY <2>1, StreamInUse DEF HttpInv, SessionsOK
  <2>3. session[p].via = {} /\ SessionShape(session[p])
    BY <2>2 DEF SessionOK, SessionPhase
  <2>4. CASE InternalConnect(b)
    <3>1. PICK s : s = [session[p] EXCEPT !.pc = "serving"]
      OBVIOUS
    <3>2. MovedTo(session[p], s, "serving", session[p].bridge)
      <4>1. MovedTo(session[p], [session[p] EXCEPT !.pc = "serving"], "serving", session[p].bridge)
        BY <2>3, PointSet, Zenon
      <4> QED BY <3>1, <4>1, Zenon
    <3>3. session' = [session EXCEPT ![p] = s]
      BY <2>1, <2>4, <3>1 DEF HttpInv, SessionsOK, InternalConnect
    <3>4. OnlySession(p, s)
      BY <3>3, OnlyOneSession
    <3> QED BY <1>1, <2>3, <3>2, <3>4, MoveIsViewed DEF MovedTo
  <2>5. CASE InternalConnectFails(b)
    <3>1. PICK s : s = [session[p] EXCEPT !.pc = "ending", !.bridge = {}]
      OBVIOUS
    <3>2. MovedTo(session[p], s, "ending", {})
      <4>1. MovedTo(session[p], [session[p] EXCEPT !.pc = "ending", !.bridge = {}], "ending", {})
        BY <2>3, MovedFields, Zenon
      <4> QED BY <3>1, <4>1, Zenon
    <3>3. session' = [session EXCEPT ![p] = s]
      BY <2>1, <2>5, <3>1 DEF HttpInv, SessionsOK, InternalConnectFails
    <3>4. OnlySession(p, s)
      BY <3>3, OnlyOneSession
    <3> QED BY <1>1, <2>3, <3>2, <3>4, MoveIsViewed DEF MovedTo
  <2> QED BY <1>4, <2>4, <2>5
<1> QED BY <1>2, <1>3, <1>4

\* The response of a request is stored for its own tenant only.
LEMMA StoredForTheTenant ==
    ASSUME NEW ctx, NEW ttl, cache' \in CachesAfter(ctx, ttl)
    PROVE  Held' \subseteq Held \cup ctx.identity
<1>1. cache' \subseteq cache \cup {Stored(ctx, ttl)}
  BY DEF CachesAfter
<1>2. Stored(ctx, ttl).by.identity = ctx.identity
  <2>1. PICK by : by = [identity |-> ctx.identity, isolation |-> ctx.isolation, group |-> ctx.group,
                        strict |-> ctx.strict]
    BY Zenon
  <2>2. by.identity = ctx.identity
    BY <2>1, Zenon
  <2>3. Stored(ctx, ttl) = [key |-> scoped_cache_key(ctx), left |-> ttl, age |-> 0, by |-> by]
    BY <2>1, Zenon DEF Stored
  <2>4. Stored(ctx, ttl).by = by
    BY <2>3
  <2> QED BY <2>2, <2>4
<1> HIDE DEF Stored
<1> QED BY <1>1, <1>2 DEF Held

\* A complete response finishes the answer, and may be stored for its tenant.
LEMMA RespondIsViewed ==
    ASSUME HttpInv, NEW p \in Ports, Respond(p)
    PROVE  Quiet \/ Finishes(p)
<1>1. session[p].pc = "serving" /\ SessionOK(session[p])
  BY DEF HttpInv, SessionsOK, Respond
<1>2. session[p].via = {} /\ SessionShape(session[p]) /\ session[p].ctx = {CtxOf(p)}
  BY <1>1, OneCtx DEF SessionOK, SessionPhase
<1>3. OwnedBy(session[p]) = CtxOf(p).identity
  BY <1>2 DEF OwnedBy
<1>4. Held' \subseteq Held \cup OwnedBy(session[p])
  BY <1>3, StoredForTheTenant DEF Respond
<1>5. PICK s : s = [session[p] EXCEPT !.pc = "ending", !.bridge = {}]
  OBVIOUS
<1>6. MovedTo(session[p], s, "ending", {})
  <2>1. MovedTo(session[p], [session[p] EXCEPT !.pc = "ending", !.bridge = {}], "ending", {})
    BY <1>2, MovedFields, Zenon
  <2> QED BY <1>5, <2>1, Zenon
<1>7. session' = [session EXCEPT ![p] = s]
  BY <1>5 DEF HttpInv, SessionsOK, Respond
<1>8. OnlySession(p, s)
  BY <1>7, OnlyOneSession
<1>9. OwnedBy(s) = OwnedBy(session[p]) /\ AnsweredBy(s) = {}
  BY <1>2, <1>6 DEF MovedTo, Moved, OwnedBy, AnsweredBy
<1>10. AnsweredBy(session[p]) = {} <=> OwnedBy(session[p]) = {}
  BY <1>1, AnswersNobody DEF AnsweredBy
<1>11. CASE OwnedBy(session[p]) = {}
  BY <1>4, <1>8, <1>9, <1>10, <1>11 DEF Quiet, SlotsKeep, OnlySession
<1>12. CASE OwnedBy(session[p]) # {}
  BY <1>4, <1>8, <1>9, <1>10, <1>12 DEF Finishes, SlotsKeep, OnlySession
<1> QED BY <1>11, <1>12

\* The end of a request frees its slot.
LEMMA EndIsViewed ==
    ASSUME HttpInv, NEW p \in Ports, EndRequest(p)
    PROVE  Ends(p)
<1>1. SessionShape(session[p])
  BY DEF HttpInv, SessionsOK, SessionOK
<1>2. PICK s : s = IF \E ctx \in session[p].ctx : ctx.keepalive
                   THEN [session[p] EXCEPT !.pc = "reading", !.first = FALSE, !.ctx = {}, !.via = {}]
                   ELSE [NoSession EXCEPT !.pc = "closed", !.open = session[p].open]
  OBVIOUS
<1>3. s.ctx = {}
  <2>1. ReadsOn(session[p], [session[p] EXCEPT !.pc = "reading", !.first = FALSE,
                                               !.ctx = {}, !.via = {}], FALSE)
    BY <1>1, ReadsOnFields, Zenon
  <2>2. ReadsNoMore(NoSession, [NoSession EXCEPT !.pc = "closed", !.open = session[p].open],
                    session[p].open)
    BY NoSessionFields, ReadsNoMoreFields, Zenon
  <2>3. ReadsOn(session[p], s, FALSE) \/ ReadsNoMore(NoSession, s, session[p].open)
    BY <1>2, <2>1, <2>2, Zenon
  <2> QED BY <2>3, NoSessionFields DEF ReadsOn, ReadsNoMore
<1>4. OnlySession(p, s)
  <2>1. session' = [session EXCEPT ![p] = s]
    BY <1>2, Zenon DEF EndRequest
  <2> QED BY <2>1, OnlyOneSession
<1>5. OwnedBy(s) = {} /\ AnsweredBy(s) = {}
  BY <1>3, AnswersNobody DEF OwnedBy, AnsweredBy
<1>6. Held' = Held
  BY DEF EndRequest, Held
<1> QED BY <1>4, <1>5, <1>6 DEF Ends, SlotsKeep, OnlySession

\* An entry that expires is forgotten.
LEMMA TickIsViewed ==
    ASSUME HttpInv, Tick
    PROVE  Quiet
<1>1. UNCHANGED session
  BY DEF Tick
<1>2. \A entry \in cache' : \E e \in cache : entry.by = e.by
  <2> SUFFICES ASSUME NEW entry \in cache'
               PROVE  \E e \in cache : entry.by = e.by
    OBVIOUS
  <2>1. PICK e \in cache : entry = [e EXCEPT !.left = @ - 1, !.age = @ + 1]
    BY DEF Tick
  <2>2. e = [key |-> e.key, left |-> e.left, age |-> e.age, by |-> e.by]
    BY DEF HttpInv, CacheOK, EntryOK
  <2>3. entry.by = e.by
    BY <2>1, <2>2
  <2> QED BY <2>3
<1>3. Held' \subseteq Held
  BY <1>2 DEF Held
<1> QED BY <1>1, <1>3 DEF Quiet, SlotsKeep

\* Every step of the process is a step of the tenants' view, or none.
LEMMA EveryStepIsViewed ==
    ASSUME ServiceInv, ServiceInv', [Next]_vars
    PROVE  ViewStep
<1>1. HttpInv /\ HttpInv'
  BY DEF ServiceInv
<1>2. CASE UNCHANGED httpVars
  BY <1>2, QuietSessions DEF httpVars, ViewStep
<1>3. CASE Kill
  <2>1. \A q \in Ports : session'[q] = NoSession
    BY <1>3 DEF Kill
  <2>2. OwnedBy(NoSession) = {} /\ AnsweredBy(NoSession) = {}
    BY NoSessionFields, AnswersNobody DEF OwnedBy, AnsweredBy
  <2>3. Held' = {}
    BY <1>3 DEF Kill, Held
  <2> QED BY <2>1, <2>2, <2>3 DEF Vanishes, ViewStep
<1>4. CASE ServeHttp
  <2>1. HttpNext /\ UNCHANGED config
    BY <1>4 DEF ServeHttp, startVars
  <2>2. ASSUME NEW c \in Conns, PublicNext(c)
        PROVE  ViewStep
    BY <1>1, <2>2, PublicIsQuiet DEF ViewStep
  <2>3. ASSUME NEW p \in Ports, SessionNext(p)
        PROVE  ViewStep
    <3>1. CASE LocalConnect(p) \/ FilterForbids(p) \/ FilterFails(p) \/ NextRequest(p) \/ SessionGone(p)
      BY <1>1, <3>1, IdleIsQuiet DEF ViewStep
    <3>2. CASE FilterAuthenticated(p) \/ FilterDevelopment(p)
      BY <1>1, <2>1, <3>2, FilterIsViewed DEF ViewStep
    <3>3. CASE CacheHit(p)
      BY <1>1, <3>3, CacheHitIsViewed DEF ViewStep
    <3>4. CASE \/ RetryUpstream(p) \/ Abandon(p)
               \/ \E b \in Bridges : ReuseUpstream(p, b) \/ ConnectUpstream(p, b)
      BY <1>1, <3>4, StreamIsViewed DEF ViewStep
    <3>5. CASE Respond(p)
      BY <1>1, <3>5, RespondIsViewed DEF ViewStep
    <3>6. CASE EndRequest(p)
      BY <1>1, <3>6, EndIsViewed DEF ViewStep
    <3> QED BY <2>3, <3>1, <3>2, <3>3, <3>4, <3>5, <3>6 DEF SessionNext
  <2>4. ASSUME NEW b \in Bridges, InternalConnect(b) \/ InternalConnectFails(b) \/ StreamEnds(b)
        PROVE  ViewStep
    BY <1>1, <2>4, BridgeIsViewed DEF ViewStep
  <2>5. CASE Tick
    BY <1>1, <2>5, TickIsViewed DEF ViewStep
  <2> QED BY <2>1, <2>2, <2>3, <2>4, <2>5 DEF HttpNext
<1> QED BY <1>2, <1>3, <1>4 DEF Next, Start, vars

\* The public handler, the context store, Pingora, the leases, the pool and the cache
\* together keep what TenantHttp promises: a request belongs to the tenant that sent it,
\* is answered over a stream charged to that tenant or from a response stored for it,
\* and its response is stored for that tenant only.
THEOREM TenantsAreServedApart == Spec => ImplementsTenantHttp
<1>1. Init => Promise!Init
  <2> SUFFICES ASSUME Init
               PROVE  Promise!Init
    OBVIOUS
  <2>1. cache = {} /\ \A p \in Ports : session[p] = NoSession
    BY DEF Init, HttpInit
  <2>2. \A p \in Ports : session[p].ctx = {} /\ session[p].via = {} /\ session[p].pc = "none"
    BY <2>1, NoSessionFields
  <2>3. \A p \in Ports : OwnerOf(p) = {}
    BY <2>2 DEF OwnerOf
  <2>4. \A p \in Ports : ServedBy(p) = {}
    <3>1. \A p \in Ports : UNION {by.identity : by \in session[p].via} = {}
      BY <2>2
    <3> QED BY <2>2, <3>1, AnswersNobody DEF ServedBy
  <2> QED BY <2>1, <2>3, <2>4 DEF Promise!Init, Promise!Nobody
<1>2. ServiceInv => Views
  BY InvariantShowsViews
<1>3. (ServiceInv => Views)'
  BY <1>2, PTL
<1>4. ServiceInv /\ ServiceInv' /\ [Next]_vars => [Promise!Next]_(Promise!tenantVars)
  BY <1>2, <1>3, EveryStepIsViewed, ViewStepIsPromised
<1>5. Spec => []ServiceInv
  BY ServiceIsKept
<1> QED BY <1>1, <1>4, <1>5, PTL DEF Spec, ImplementsTenantHttp, Promise!Spec

=============================================================================

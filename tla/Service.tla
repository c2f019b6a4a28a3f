------------------------------ MODULE Service ------------------------------
(***************************************************************************)
(* The process from its start to its end: Startup until it serves, then    *)
(* the HTTP path under the configuration that start-up made, and an end at *)
(* any moment, after which only the account database is left.              *)
(***************************************************************************)
EXTENDS HttpPath

vars == <<startVars, httpVars>>

Init == StartInit /\ HttpInit

Start == StartNext /\ UNCHANGED httpVars

ServeHttp == At("serving") /\ HttpNext /\ UNCHANGED startVars

\* A signal, a panic of main or a loss of power.
Kill ==
    /\ ~At("down")
    /\ Exit /\ UNCHANGED database
    /\ conn' = [c \in Conns |-> NoConn]
    /\ downstream' = <<>>
    /\ session' = [p \in Ports |-> NoSession]
    /\ leases' = <<>>
    /\ bridge' = [b \in Bridges |-> NoBridge]
    /\ cache' = {}

Next == Start \/ ServeHttp \/ Kill

Spec == Init /\ [][Next]_vars

-----------------------------------------------------------------------------
\* A request that nobody authenticated is only ever served by a process that listens
\* on a loopback address and whose operator gave no production setting, however the
\* mode was spelled and whatever else was set.
OpenOnlyOnLoopback ==
    \A ctx \in CtxsOf(session) :
        ctx.identity = {} => config.loopback /\ ~config.secured

(***************************************************************************)
(* The refinement: the owner of a request is the tenant admitted on the    *)
(* connection that sent it, not the identity Pingora works with; it is     *)
(* served by whom the bridge charges or by whom the cached response is of. *)
(***************************************************************************)
TenantsOf(contexts) == {context.identity : context \in contexts}

OwnerOf(p) == IF session[p].ctx = {} THEN {} ELSE TenantsOf(session[p].sender)

AnswerOf(tenants, source) == {[tenant |-> t, from |-> source] : t \in tenants}

ServedBy(p) ==
    IF session[p].pc = "serving"
    THEN AnswerOf(UNION {bridge[b].scope : b \in session[p].bridge}, "origin")
    ELSE AnswerOf(UNION {by.identity : by \in session[p].via}, "store")

Promise ==
    INSTANCE TenantHttp WITH
        Slots <- Ports,
        Tenants <- {IdentityOf[k] : k \in Credentials},
        owner <- [p \in Ports |-> OwnerOf(p)],
        served <- [p \in Ports |-> ServedBy(p)],
        held <- UNION {entry.by.identity : entry \in cache}

\* The path through the public handler, the context store, Pingora, the leases, the
\* pool and the cache implements the tenants' view of it.
ImplementsTenantHttp == Promise!Spec

=============================================================================

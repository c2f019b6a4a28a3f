----------------------------- MODULE TenantHttp -----------------------------
(***************************************************************************)
(* What the HTTP path promises to tenants, whatever sockets, leases, pools *)
(* and caches it is made of: a request belongs to the tenant that sent it, *)
(* is answered over a stream charged to that tenant or with a response     *)
(* stored for that tenant, and its response is stored for that tenant only.*)
(***************************************************************************)
CONSTANTS Slots, Tenants

VARIABLES
    owner,  \* the tenant whose request a slot is serving: {} or a singleton
    served, \* the tenant whose stream or stored response answers it, and which of both
    held    \* the tenants for whom responses are stored

tenantVars == <<owner, served, held>>

Nobody == [s \in Slots |-> {}]

Init == owner = Nobody /\ served = Nobody /\ held = {}

Begin(s) ==
    /\ owner[s] = {}
    /\ \E t \in Tenants : owner' = [owner EXCEPT ![s] = {t}]
    /\ UNCHANGED <<served, held>>

Answer(tenants, source) == {[tenant |-> t, from |-> source] : t \in tenants}

Serve(s, source) ==
    /\ owner[s] # {} /\ served[s] = {}
    /\ served' = [served EXCEPT ![s] = Answer(owner[s], source)]
    /\ UNCHANGED <<owner, held>>

FromOrigin(s) == Serve(s, "origin")
FromStore(s) == owner[s] \subseteq held /\ Serve(s, "store")

\* The response is complete, or the attempt is given up or tried again.
Finish(s) ==
    /\ served[s] # {}
    /\ served' = [served EXCEPT ![s] = {}]
    /\ held' \in SUBSET (held \cup owner[s])
    /\ UNCHANGED owner

End(s) ==
    /\ owner' = [owner EXCEPT ![s] = {}]
    /\ served' = [served EXCEPT ![s] = {}]
    /\ UNCHANGED held

Forget == held' \in SUBSET held /\ UNCHANGED <<owner, served>>

Restart == owner' = Nobody /\ served' = Nobody /\ held' = {}

Next ==
    \/ Forget \/ Restart
    \/ \E s \in Slots : End(s) \/ Begin(s) \/ FromOrigin(s) \/ FromStore(s) \/ Finish(s)

Spec == Init /\ [][Next]_tenantVars

=============================================================================

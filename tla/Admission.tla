----------------------------- MODULE Admission -----------------------------
(***************************************************************************)
(* Account admission of a public CONNECT request: authentication against   *)
(* the account database, the request-rate check, the period request quota  *)
(* (record_usage_if_allowed) and the account's concurrent-tunnel guard     *)
(* (AccountAdmissionController, AccountAdmissionState), while plans change *)
(* and accounts are suspended.                                             *)
(*                                                                         *)
(* An AccountAdmissionState is an Arc, named by the sequence number of the *)
(* state_for call that created it.  Its tunnel counter is an atomic: the   *)
(* load, the read of the limits and the compare-and-swap are separate      *)
(* steps.  The rate limiter (governor) is external: it passes or refuses.  *)
(***************************************************************************)
EXTENDS Integers, FiniteSets, FiniteSetsExt, Functions

CONSTANTS
    Accounts,     \* account ids
    Workspaces,   \* workspaces of each account
    Requests,     \* CONNECT requests on the public listener
    Limits,       \* the limits a plan may set: [tunnels, requests] records
    MaxCached,    \* max_cached_accounts
    MaxSequence   \* bound on the state_for calls of one process

ASSUME AdmissionAssumption ==
    /\ Accounts # {} /\ Workspaces # {}
    /\ IsFiniteSet(Requests)
    /\ Limits # {}
    /\ Limits \subseteq [tunnels : Nat \ {0}, requests : Nat \ {0}]
    /\ MaxCached \in Nat \ {0}
    /\ MaxSequence \in Nat

VARIABLES
    plan,      \* account_limits table
    status,    \* accounts.status
    usedReqs,  \* usage_periods.requests_used, per account and workspace
    states,    \* AccountAdmissionController.states: account -> Arc
    arc,       \* each AccountAdmissionState
    sequence,  \* AccountAdmissionController.sequence
    req,       \* each request with the IngressIdentity it carries
    granted,   \* history: every limits record an account's plan has had
    settled    \* history: the requests that called try_acquire_tunnel under limits
               \* that no other request on its way there could write over

vars == <<plan, status, usedReqs, states, arc, sequence, req, granted, settled>>

-----------------------------------------------------------------------------

Arcs == 1..MaxSequence
NoArc == 0

AnyLimits == CHOOSE l \in Limits : TRUE

AdmissionState == [limits : Limits, active_tunnels : Nat, last_used : 0..MaxSequence]

\* "authenticated": the identity is known; "rating": inside check_request_rate;
\* "rated": before admit_request; "admitted": before try_acquire_tunnel;
\* "guarding": has the Arc; "counted": has loaded the counter; "compared": found
\* it below the limit; "tunnel": holds an AccountTunnelGuard.
Request ==
    [pc : {"new", "authenticated", "rating", "rated", "admitted", "guarding",
           "counted", "compared", "tunnel", "done"},
     account : Accounts, workspace : Workspaces, limits : Limits,
     arc : Arcs \cup {NoArc}, current : Nat]

NewRequest ==
    [pc |-> "new", account |-> CHOOSE a \in Accounts : TRUE,
     workspace |-> CHOOSE w \in Workspaces : TRUE, limits |-> AnyLimits,
     arc |-> NoArc, current |-> 0]

DoneRequest == [NewRequest EXCEPT !.pc = "done"]

NewState == [limits |-> AnyLimits, active_tunnels |-> 0, last_used |-> 0]

TypeOK ==
    /\ plan \in [Accounts -> Limits]
    /\ status \in [Accounts -> {"active", "suspended"}]
    /\ usedReqs \in [Accounts -> [Workspaces -> Nat]]
    /\ DOMAIN states \subseteq Accounts
    /\ states \in [DOMAIN states -> Arcs]
    /\ arc \in [Arcs -> AdmissionState]
    /\ sequence \in 1..(MaxSequence + 1)
    /\ req \in [Requests -> Request]
    /\ granted \in [Accounts -> SUBSET Limits]
    /\ settled \subseteq Requests

-----------------------------------------------------------------------------
(***************************************************************************)
(* The account database, as administration changes it.                     *)
(***************************************************************************)

\* update_account_plan_and_limits
UpdatePlan(a, limits) ==
    /\ plan[a] # limits
    /\ plan' = [plan EXCEPT ![a] = limits]
    /\ granted' = [granted EXCEPT ![a] = @ \cup {limits}]
    /\ settled' = {r \in settled : req[r].account # a}
    /\ UNCHANGED <<status, usedReqs, states, arc, sequence, req>>

\* set_account_status
SetStatus(a, new) ==
    /\ status[a] # new
    /\ status' = [status EXCEPT ![a] = new]
    /\ UNCHANGED <<plan, usedReqs, states, arc, sequence, req, granted, settled>>

\* The request is answered and its task ends.
Over(r) == req' = [req EXCEPT ![r] = DoneRequest]

DatabaseUnchanged == UNCHANGED <<plan, status, granted>>

\* authenticate: one query joins the key, the account, the workspace and the
\* limits, and the identity keeps the limits it found.  An inactive account is
\* always refused; a key, a device or the storage may refuse any request.
Authenticate(r, a, w) ==
    /\ req[r].pc = "new"
    /\ \/ /\ status[a] = "active"
          /\ req' = [req EXCEPT ![r].pc = "authenticated",
                ![r].account = a, ![r].workspace = w, ![r].limits = plan[a]]
       \/ Over(r)
    /\ DatabaseUnchanged
    /\ UNCHANGED <<usedReqs, states, arc, sequence, settled>>

-----------------------------------------------------------------------------
(***************************************************************************)
(* state_for, under the mutex of the map.                                  *)
(***************************************************************************)

\* Arc::strong_count(state) > 1: a call in progress or a guard holds it too.
HoldsArc(r, x) == req[r].arc = x

EvictableMutant(a) == arc[states[a]].active_tunnels = 0    \* no strong_count

Evictable(a) ==
    /\ arc[states[a]].active_tunnels = 0
    /\ \A r \in Requests : ~HoldsArc(r, states[a])

Victims ==
    {a \in DOMAIN states : Evictable(a) /\ \A b \in DOMAIN states :
        Evictable(b) => arc[states[a]].last_used <= arc[states[b]].last_used}

\* update_limits, for a state that is found: the caller's limits are taken over.
UpdateLimitsMutant(x, limits) == arc[x].limits       \* keeps those it has

UpdateLimits(x, limits) == limits

\* state_for(a, limits) returns the Arc x.
StateFor(a, limits, x) ==
    /\ sequence <= MaxSequence
    /\ sequence' = sequence + 1
    /\ \/ /\ a \in DOMAIN states
          /\ x = states[a]
          /\ arc' = [arc EXCEPT ![x].limits = UpdateLimits(x, limits), ![x].last_used = sequence]
          /\ UNCHANGED states
       \/ /\ a \notin DOMAIN states
          /\ x = sequence
          /\ arc' = [arc EXCEPT ![x] = [limits |-> limits, active_tunnels |-> 0,
                                        last_used |-> sequence]]
          /\ \E kept \in IF Cardinality(DOMAIN states) < MaxCached THEN {DOMAIN states}
                         ELSE {DOMAIN states \ {v} : v \in Victims} :
                states' = [b \in kept \cup {a} |-> IF b = a THEN x ELSE states[b]]

\* StateCapacityReached
StateForFails(a) ==
    /\ sequence <= MaxSequence
    /\ sequence' = sequence + 1
    /\ a \notin DOMAIN states
    /\ Cardinality(DOMAIN states) >= MaxCached
    /\ Victims = {}
    /\ UNCHANGED <<states, arc>>

\* Request r calls state_for and goes on to pc with the Arc, or is answered 503.
CallStateFor(r, from, pc) ==
    /\ req[r].pc = from
    /\ \/ \E x \in Arcs :
             /\ StateFor(req[r].account, req[r].limits, x)
             /\ req' = [req EXCEPT ![r].pc = pc, ![r].arc = x]
       \/ /\ StateForFails(req[r].account)
          /\ Over(r)
    /\ DatabaseUnchanged
    /\ UNCHANGED usedReqs

-----------------------------------------------------------------------------
(***************************************************************************)
(* The request.                                                            *)
(***************************************************************************)

LocalStep == DatabaseUnchanged /\ UNCHANGED <<usedReqs, states, sequence, settled>>

\* check_request_rate, then ensure_customer_data_available: either may refuse.
CheckRate(r) == CallStateFor(r, "authenticated", "rating") /\ UNCHANGED settled

RateVerdict(r) ==
    /\ req[r].pc = "rating"
    /\ \/ req' = [req EXCEPT ![r].pc = "rated", ![r].arc = NoArc]
       \/ Over(r)
    /\ LocalStep
    /\ UNCHANGED arc

\* check_usage_allowance: the limit in the identity against the workspace row.
WithinQuotaMutant(r) ==      \* off by one
    usedReqs[req[r].account][req[r].workspace] <= req[r].limits.requests

WithinQuota(r) ==
    usedReqs[req[r].account][req[r].workspace] + 1 <= req[r].limits.requests

\* admit_request: record_usage_if_allowed, one immediate transaction.  It is
\* rolled back when the request quota, the byte quota or the storage refuses.
AdmitRequest(r) ==
    /\ req[r].pc = "rated"
    /\ \/ /\ WithinQuota(r)
          /\ usedReqs' = [usedReqs EXCEPT ![req[r].account][req[r].workspace] = @ + 1]
          /\ req' = [req EXCEPT ![r].pc = "admitted"]
       \/ /\ Over(r)
          /\ UNCHANGED usedReqs
    /\ DatabaseUnchanged
    /\ UNCHANGED <<states, arc, sequence, settled>>

\* The requests whose limits state_for may still have to take over.
Bringing == {"authenticated", "rating", "rated", "admitted"}

OnlyPlan(a) ==
    \A q \in Requests :
        (req[q].account = a /\ req[q].pc \in Bringing) => req[q].limits = plan[a]

TryAcquireTunnel(r) ==
    /\ CallStateFor(r, "admitted", "guarding")
    /\ settled' = IF OnlyPlan(req[r].account) THEN settled \cup {r} ELSE settled

\* active_tunnels.load ...
LoadCounter(r) ==
    /\ req[r].pc = "guarding"
    /\ req' = [req EXCEPT ![r].pc = "counted",
                          ![r].current = arc[req[r].arc].active_tunnels]
    /\ LocalStep
    /\ UNCHANGED arc

\* ... then current_limits: TunnelLimitReached, or go on to the swap.
CompareLimit(r) ==
    /\ req[r].pc = "counted"
    /\ LET limit == arc[req[r].arc].limits.tunnels IN
       \/ /\ req[r].current < limit
          /\ req' = [req EXCEPT ![r].pc = "compared"]
       \/ /\ req[r].current >= limit
          /\ Over(r)
    /\ LocalStep
    /\ UNCHANGED arc

\* compare_exchange_weak, which may also fail for no reason.
SwapMutant(r) == TRUE        \* stores current + 1 without comparing
Swap(r) == arc[req[r].arc].active_tunnels = req[r].current

CompareExchange(r) ==
    /\ req[r].pc = "compared"
    /\ \/ /\ Swap(r)
          /\ arc' = [arc EXCEPT ![req[r].arc].active_tunnels = req[r].current + 1]
          /\ req' = [req EXCEPT ![r].pc = "tunnel", ![r].current = 0]
       \/ /\ req' = [req EXCEPT ![r].pc = "guarding", ![r].current = 0]
          /\ UNCHANGED arc
    /\ LocalStep

\* The guard is dropped, wherever the tunnel ends.
DropGuardMutant(r) ==        \* an end that forgets the counter
    /\ req[r].pc = "tunnel"
    /\ Over(r)
    /\ LocalStep
    /\ UNCHANGED arc

DropGuard(r) ==
    /\ req[r].pc = "tunnel"
    /\ arc' = [arc EXCEPT ![req[r].arc].active_tunnels = IF @ > 0 THEN @ - 1 ELSE @]
    /\ Over(r)
    /\ LocalStep

-----------------------------------------------------------------------------

Init ==
    /\ plan \in [Accounts -> Limits]
    /\ status = [a \in Accounts |-> "active"]
    /\ usedReqs = [a \in Accounts |-> [w \in Workspaces |-> 0]]
    /\ states = [a \in {} |-> NoArc]
    /\ arc = [x \in Arcs |-> NewState]
    /\ sequence = 1
    /\ req = [r \in Requests |-> NewRequest]
    /\ granted = [a \in Accounts |-> {plan[a]}]
    /\ settled = {}

\* The process ends: the database stays, requests and admission states go.
ProcessEnd ==
    /\ states' = [a \in {} |-> NoArc]
    /\ arc' = [x \in Arcs |-> NewState]
    /\ sequence' = 1
    /\ req' = [r \in Requests |->
          IF req[r].pc = "new" THEN req[r] ELSE DoneRequest]
    /\ settled' = {}
    /\ DatabaseUnchanged
    /\ UNCHANGED usedReqs

RequestStep(r) ==
    \/ \E a \in Accounts, w \in Workspaces : Authenticate(r, a, w)
    \/ CheckRate(r)
    \/ RateVerdict(r)
    \/ AdmitRequest(r)
    \/ TryAcquireTunnel(r)
    \/ LoadCounter(r)
    \/ CompareLimit(r)
    \/ CompareExchange(r)
    \/ DropGuard(r)

Next ==
    \/ \E a \in Accounts, limits \in Limits : UpdatePlan(a, limits)
    \/ \E a \in Accounts, new \in {"active", "suspended"} : SetStatus(a, new)
    \/ \E r \in Requests : RequestStep(r)
    \/ ProcessEnd

Spec == Init /\ [][Next]_vars

-----------------------------------------------------------------------------
(***************************************************************************)
(* Properties.                                                             *)
(***************************************************************************)

\* All calls in progress and all guards of an account share the state in the
\* map: state_for never evicts one that a caller has fetched and not yet used.
OneStatePerAccount ==
    \A r \in Requests : req[r].arc # NoArc =>
        /\ req[r].account \in DOMAIN states
        /\ states[req[r].account] = req[r].arc

Tunnels(a) == {r \in Requests : req[r].pc = "tunnel" /\ req[r].account = a}

\* The counter of an account is the number of its open tunnels, and never wraps
\* below zero.
GuardsCounted ==
    /\ TypeOK
    /\ \A a \in DOMAIN states : arc[states[a]].active_tunnels = Cardinality(Tunnels(a))

\* An account never has more tunnels open than the most generous plan it has
\* had allows: races of try_acquire_tunnel calls, evictions of its state and
\* plan changes while a request is admitted included.
TunnelLimitRespected ==
    \A a \in Accounts : \E limits \in granted[a] :
        Cardinality(Tunnels(a)) <= limits.tunnels

\* A request that authenticated under an old plan writes its limits back into the
\* shared state (update_limits takes what the caller brings), and others may open
\* tunnels against them.  That ends with such requests: whoever calls
\* try_acquire_tunnel when none of them is left to call state_for opens a tunnel only
\* within the plan in force, unless the plan changes once more meanwhile.
PlanPrevails ==
    [][\A a \in Accounts : \A r \in settled :
          (req[r].account = a /\ req[r].pc = "compared" /\ req'[r].pc = "tunnel")
              => Cardinality(Tunnels(a)') <= plan[a].tunnels]_vars

\* Concurrent requests never take a workspace past the period request limit.
WorkspaceQuotaRespected ==
    \A a \in Accounts, w \in Workspaces : \E limits \in granted[a] :
        usedReqs[a][w] <= limits.requests

\* README.md:252, "429 | Per-account request, tunnel, or usage quota reached":
\* the requests an account makes in a period stay within its limit.
AccountQuotaRespected ==
    \A a \in Accounts : \E limits \in granted[a] :
        SumFunction(usedReqs[a]) <= limits.requests

=============================================================================

-------------------------- MODULE AdmissionProofs --------------------------
(***************************************************************************)
(* Tunnel and request limits hold for any number of accounts, workspaces   *)
(* and requests, any plans and any size of the state cache, while requests *)
(* race, plans change, states are evicted and the process restarts.        *)
(*                                                                         *)
(* The limits depend on the counter of an account's state being exact      *)
(* (GuardsCounted), that on every caller using the state in the map        *)
(* (OneStatePerAccount), and both on an Arc having one owner only.         *)
(***************************************************************************)
EXTENDS Admission, FiniteSetTheorems, TLAPS

\* A request holds an Arc exactly between a state_for call and what follows it.
Holding == {"rating", "guarding", "counted", "compared", "tunnel"}
ArcHeld == \A r \in Requests : req[r].arc # NoArc <=> req[r].pc \in Holding

\* An Arc in the map was created by an earlier call, for one account.
ArcOwned ==
    /\ \A a \in DOMAIN states : states[a] < sequence
    /\ \A a, b \in DOMAIN states : states[a] = states[b] => a = b

\* Limits in use, in an identity or in a state, were once in the account's plan.
LimitsGranted ==
    /\ \A a \in Accounts : plan[a] \in granted[a]
    /\ \A r \in Requests :
          req[r].pc \notin {"new", "done"} => req[r].limits \in granted[req[r].account]
    /\ \A a \in DOMAIN states : arc[states[a]].limits \in granted[a]

\* A request about to swap has compared its value with limits of its account.
Compared ==
    \A r \in Requests : req[r].pc = "compared" =>
        \E limits \in granted[req[r].account] : req[r].current < limits.tunnels

AdmissionInv ==
    /\ TypeOK /\ ArcHeld /\ ArcOwned /\ OneStatePerAccount
    /\ GuardsCounted /\ LimitsGranted /\ Compared
    /\ TunnelLimitRespected /\ WorkspaceQuotaRespected

-----------------------------------------------------------------------------

\* The records a request or a state starts with and ends in are typed.
LEMMA BlankRecords ==
    /\ AnyLimits \in Limits
    /\ NewRequest \in Request /\ DoneRequest \in Request
    /\ NewRequest.pc = "new" /\ DoneRequest.pc = "done"
    /\ NewRequest.arc = NoArc /\ DoneRequest.arc = NoArc
    /\ NewState \in AdmissionState
<1>1. AnyLimits \in Limits
  BY AdmissionAssumption DEF AnyLimits
<1>2. (CHOOSE a \in Accounts : TRUE) \in Accounts /\ (CHOOSE w \in Workspaces : TRUE) \in Workspaces
  BY AdmissionAssumption
<1>3. NewRequest \in Request /\ NewRequest.pc = "new" /\ NewRequest.arc = NoArc
  BY <1>1, <1>2 DEF NewRequest, Request
<1>4. DoneRequest \in Request /\ DoneRequest.pc = "done" /\ DoneRequest.arc = NoArc
  BY <1>3 DEF DoneRequest, NewRequest, Request
<1>5. NewState \in AdmissionState
  BY <1>1, AdmissionAssumption DEF NewState, AdmissionState
<1> QED
  BY <1>1, <1>3, <1>4, <1>5

\* The tunnels of an account can be counted.
LEMMA TunnelsFinite ==
    ASSUME NEW a \in Accounts
    PROVE  IsFiniteSet(Tunnels(a)) /\ Cardinality(Tunnels(a)) \in Nat
<1>1. Tunnels(a) \subseteq Requests
  BY DEF Tunnels
<1> QED
  BY <1>1, FS_Subset, FS_CardinalityType, AdmissionAssumption

\* A plan has positive limits.
LEMMA LimitsPositive ==
    ASSUME NEW limits \in Limits
    PROVE  limits.tunnels \in Nat \ {0} /\ limits.requests \in Nat \ {0}
  BY AdmissionAssumption

-----------------------------------------------------------------------------

\* Before the first request nothing is counted.
LEMMA AdmissionInit == Init => AdmissionInv
<1> SUFFICES ASSUME Init PROVE AdmissionInv
  OBVIOUS
<1>1. DOMAIN states = {}
  BY DEF Init
<1>2. TypeOK
  BY <1>1, BlankRecords, AdmissionAssumption DEF Init, TypeOK
<1>3. \A r \in Requests : req[r].pc = "new" /\ req[r].arc = NoArc
  BY BlankRecords DEF Init
<1>4. ArcHeld /\ ArcOwned /\ OneStatePerAccount /\ Compared
  BY <1>1, <1>3 DEF ArcHeld, ArcOwned, OneStatePerAccount, Compared, Holding
<1>5. LimitsGranted
  BY <1>1, <1>3, <1>2 DEF Init, LimitsGranted, TypeOK
<1>6. \A a \in Accounts : Tunnels(a) = {}
  BY <1>3 DEF Tunnels
<1>7. GuardsCounted
  BY <1>1, <1>2 DEF GuardsCounted
<1>8. TunnelLimitRespected /\ WorkspaceQuotaRespected
  <2> SUFFICES ASSUME NEW a \in Accounts, NEW w \in Workspaces
               PROVE  /\ plan[a] \in granted[a]
                      /\ Cardinality(Tunnels(a)) <= plan[a].tunnels
                      /\ usedReqs[a][w] <= plan[a].requests
    BY AdmissionAssumption DEF TunnelLimitRespected, WorkspaceQuotaRespected
  <2>1. plan[a] \in Limits /\ plan[a] \in granted[a]
    BY <1>2, <1>5 DEF TypeOK, LimitsGranted
  <2>2. usedReqs[a][w] = 0
    BY DEF Init
  <2>3. Cardinality(Tunnels(a)) = 0
    BY <1>6, FS_EmptySet
  <2> QED
    BY <2>1, <2>2, <2>3, LimitsPositive
<1> QED
  BY <1>2, <1>4, <1>5, <1>7, <1>8 DEF AdmissionInv

-----------------------------------------------------------------------------

\* A step of request r that leaves the admission states alone and neither opens
\* nor closes a tunnel.
RequestMoves(r) ==
    /\ req' = [req EXCEPT ![r] = req'[r]]
    /\ req'[r] \in Request
    /\ req[r].pc # "tunnel" /\ req'[r].pc # "tunnel"
    /\ UNCHANGED <<plan, status, states, arc, granted>>
    /\ req'[r].arc # NoArc <=> req'[r].pc \in Holding
    /\ req'[r].arc # NoArc => req'[r].arc = req[r].arc /\ req'[r].account = req[r].account
    /\ req'[r].pc \notin {"new", "done"} => req'[r].limits \in granted[req'[r].account]
    /\ req'[r].pc = "compared" =>
          \E limits \in granted[req'[r].account] : req'[r].current < limits.tunnels

\* Such a step keeps everything, if it keeps the quota.
LEMMA RequestMovesKeeps ==
    ASSUME AdmissionInv, NEW r \in Requests, RequestMoves(r),
           sequence' \in sequence .. (MaxSequence + 1), settled' \subseteq Requests,
           usedReqs' \in [Accounts -> [Workspaces -> Nat]], WorkspaceQuotaRespected'
    PROVE  AdmissionInv'
<1> USE DEF RequestMoves
<1>0. /\ \A q \in Requests : q # r => req'[q] = req[q]
      /\ TypeOK /\ ArcHeld /\ ArcOwned /\ OneStatePerAccount /\ GuardsCounted
      /\ LimitsGranted /\ Compared /\ TunnelLimitRespected
  BY DEF AdmissionInv, TypeOK
<1>1. TypeOK'
  <2>1. req' \in [Requests -> Request]
    BY <1>0 DEF TypeOK
  <2>2. sequence' \in 1 .. (MaxSequence + 1)
    BY <1>0, AdmissionAssumption DEF TypeOK
  <2> QED
    BY <1>0, <2>1, <2>2 DEF TypeOK
<1>2. ArcHeld'
  BY <1>0 DEF ArcHeld
<1>3. ArcOwned'
  BY <1>0, <1>1 DEF ArcOwned, TypeOK, Arcs
<1>4. OneStatePerAccount'
  BY <1>0 DEF OneStatePerAccount
<1>5. \A a : Tunnels(a)' = Tunnels(a)
  BY <1>0 DEF Tunnels
<1>6. GuardsCounted'
  BY <1>0, <1>1, <1>5 DEF GuardsCounted
<1>7. TunnelLimitRespected'
  BY <1>0, <1>5 DEF TunnelLimitRespected
<1>8. LimitsGranted'
  BY <1>0 DEF LimitsGranted
<1>9. Compared'
  BY <1>0 DEF Compared
<1> QED
  BY <1>1, <1>2, <1>3, <1>4, <1>6, <1>7, <1>8, <1>9 DEF AdmissionInv

\* Answering a request that has no tunnel is such a step.
LEMMA OverMoves ==
    ASSUME AdmissionInv, NEW r \in Requests, Over(r), req[r].pc # "tunnel",
           UNCHANGED <<plan, status, states, arc, granted>>
    PROVE  RequestMoves(r)
<1>1. req'[r] = DoneRequest
  BY DEF Over, AdmissionInv, TypeOK
<1> QED
  BY <1>1, BlankRecords DEF RequestMoves, Over, Holding

\* The quota only depends on the usage table and the history of the plan.
LEMMA QuotaFrame ==
    ASSUME WorkspaceQuotaRespected, UNCHANGED <<usedReqs, granted>>
    PROVE  WorkspaceQuotaRespected'
  BY DEF WorkspaceQuotaRespected

-----------------------------------------------------------------------------

\* authenticate hands out limits that are in the plan.
LEMMA StepAuthenticate ==
    ASSUME AdmissionInv, NEW r \in Requests, NEW a \in Accounts, NEW w \in Workspaces,
           Authenticate(r, a, w)
    PROVE  AdmissionInv'
<1> USE DEF Authenticate, DatabaseUnchanged
<1>1. TypeOK /\ ArcHeld /\ LimitsGranted /\ WorkspaceQuotaRespected
  BY DEF AdmissionInv
<1>2. RequestMoves(r)
  <2>1. CASE Over(r)
    BY <2>1, OverMoves
  <2>2. CASE req' = [req EXCEPT ![r].pc = "authenticated", ![r].account = a,
                                ![r].workspace = w, ![r].limits = plan[a]]
    <3>1. req[r] \in Request /\ plan[a] \in Limits
      BY <1>1 DEF TypeOK
    <3>2. req'[r] = [req[r] EXCEPT !.pc = "authenticated", !.account = a,
                                   !.workspace = w, !.limits = plan[a]]
      BY <2>2, <1>1 DEF TypeOK
    <3>3. req[r].arc = NoArc
      BY <1>1 DEF ArcHeld, Holding
    <3>4. req'[r] \in Request /\ req'[r].pc = "authenticated" /\ req'[r].arc = NoArc
          /\ req'[r].limits = plan[a] /\ req'[r].account = a
      BY <3>1, <3>2, <3>3 DEF Request
    <3>5. req' = [req EXCEPT ![r] = req'[r]]
      BY <2>2, <3>2, <1>1 DEF TypeOK
    <3> QED
      BY <3>4, <3>5, <1>1 DEF RequestMoves, Holding, LimitsGranted
  <2> QED
    BY <2>1, <2>2
<1> QED
  BY <1>1, <1>2, QuotaFrame, RequestMovesKeeps DEF TypeOK

\* The verdicts of check_request_rate and ensure_customer_data_available drop the Arc.
LEMMA StepRateVerdict ==
    ASSUME AdmissionInv, NEW r \in Requests, RateVerdict(r)
    PROVE  AdmissionInv'
<1> USE DEF RateVerdict, LocalStep, DatabaseUnchanged
<1>1. TypeOK /\ LimitsGranted /\ WorkspaceQuotaRespected
  BY DEF AdmissionInv
<1>2. RequestMoves(r)
  <2>1. CASE Over(r)
    BY <2>1, OverMoves
  <2>2. CASE req' = [req EXCEPT ![r].pc = "rated", ![r].arc = NoArc]
    <3>1. req[r] \in Request
      BY <1>1 DEF TypeOK
    <3>2. req'[r] = [req[r] EXCEPT !.pc = "rated", !.arc = NoArc]
      BY <2>2, <1>1 DEF TypeOK
    <3>3. /\ req'[r] \in Request /\ req'[r].pc = "rated" /\ req'[r].arc = NoArc
          /\ req'[r].limits = req[r].limits /\ req'[r].account = req[r].account
      BY <3>1, <3>2 DEF Request
    <3>4. req' = [req EXCEPT ![r] = req'[r]]
      BY <2>2, <3>2, <1>1 DEF TypeOK
    <3> QED
      BY <3>3, <3>4, <1>1 DEF RequestMoves, Holding, LimitsGranted
  <2> QED
    BY <2>1, <2>2
<1> QED
  BY <1>1, <1>2, QuotaFrame, RequestMovesKeeps DEF TypeOK

\* record_usage_if_allowed stays within the limits the identity carries.
LEMMA StepAdmitRequest ==
    ASSUME AdmissionInv, NEW r \in Requests, AdmitRequest(r)
    PROVE  AdmissionInv'
<1> USE DEF AdmitRequest, DatabaseUnchanged
<1>1. TypeOK /\ ArcHeld /\ LimitsGranted /\ WorkspaceQuotaRespected
  BY DEF AdmissionInv
<1>2. CASE Over(r) /\ UNCHANGED usedReqs
  BY <1>1, <1>2, OverMoves, QuotaFrame, RequestMovesKeeps DEF TypeOK
<1>3. CASE /\ WithinQuota(r)
           /\ usedReqs' = [usedReqs EXCEPT ![req[r].account][req[r].workspace] = @ + 1]
           /\ req' = [req EXCEPT ![r].pc = "admitted"]
  <2>1. req[r] \in Request
    BY <1>1 DEF TypeOK
  <2>2. req'[r] = [req[r] EXCEPT !.pc = "admitted"]
    BY <1>3, <1>1 DEF TypeOK
  <2>3. req[r].arc = NoArc
    BY <1>1 DEF ArcHeld, Holding
  <2>4. /\ req'[r] \in Request /\ req'[r].pc = "admitted" /\ req'[r].arc = NoArc
        /\ req'[r].limits = req[r].limits /\ req'[r].account = req[r].account
    BY <2>1, <2>2, <2>3 DEF Request
  <2>5. req' = [req EXCEPT ![r] = req'[r]]
    BY <1>3, <2>2, <1>1 DEF TypeOK
  <2>6. RequestMoves(r)
    BY <2>4, <2>5, <1>1 DEF RequestMoves, Holding, LimitsGranted
  <2>7. /\ req[r].account \in Accounts /\ req[r].workspace \in Workspaces
        /\ req[r].limits \in granted[req[r].account]
        /\ req[r].limits.requests \in Nat
    BY <2>1, <1>1, LimitsPositive DEF Request, LimitsGranted
  <2>8. usedReqs' \in [Accounts -> [Workspaces -> Nat]]
    BY <1>3, <1>1, <2>7 DEF TypeOK
  <2>9. WorkspaceQuotaRespected'
    <3> SUFFICES ASSUME NEW a \in Accounts, NEW w \in Workspaces
                 PROVE  \E limits \in granted[a] : usedReqs'[a][w] <= limits.requests
      BY DEF WorkspaceQuotaRespected
    <3>1. CASE a = req[r].account /\ w = req[r].workspace
      <4>1. usedReqs'[a][w] = usedReqs[a][w] + 1
        BY <3>1, <1>3, <1>1, <2>7 DEF TypeOK
      <4> QED
        BY <3>1, <4>1, <1>3, <2>7 DEF WithinQuota
    <3>2. CASE ~(a = req[r].account /\ w = req[r].workspace)
      <4>1. usedReqs'[a][w] = usedReqs[a][w]
        BY <3>2, <1>3, <1>1, <2>7 DEF TypeOK
      <4> QED
        BY <4>1, <1>1 DEF WorkspaceQuotaRespected
    <3> QED
      BY <3>1, <3>2
  <2> QED
    BY <1>1, <2>6, <2>8, <2>9, RequestMovesKeeps DEF TypeOK
<1> QED
  BY <1>2, <1>3

\* try_acquire_tunnel loads the counter.
LEMMA StepLoadCounter ==
    ASSUME AdmissionInv, NEW r \in Requests, LoadCounter(r)
    PROVE  AdmissionInv'
<1>1. TypeOK /\ ArcHeld /\ LimitsGranted /\ WorkspaceQuotaRespected
  BY DEF AdmissionInv
<1>2. req[r] \in Request /\ req[r].arc \in Arcs
  BY <1>1 DEF LoadCounter, TypeOK, ArcHeld, Holding, Request
<1>3. arc[req[r].arc].active_tunnels \in Nat
  BY <1>1, <1>2 DEF TypeOK, AdmissionState
<1>4. req'[r] = [req[r] EXCEPT !.pc = "counted", !.current = arc[req[r].arc].active_tunnels]
  BY <1>1 DEF LoadCounter, TypeOK
<1>5. /\ req'[r] \in Request /\ req'[r].pc = "counted" /\ req'[r].arc = req[r].arc
      /\ req'[r].limits = req[r].limits /\ req'[r].account = req[r].account
  BY <1>2, <1>3, <1>4 DEF Request
<1>6. req' = [req EXCEPT ![r] = req'[r]]
  BY <1>4, <1>1 DEF LoadCounter, TypeOK
<1>7. req'[r].arc # NoArc
  BY <1>5, <1>1 DEF LoadCounter, ArcHeld, Holding
<1>8. RequestMoves(r)
  BY <1>5, <1>6, <1>7, <1>1 DEF LoadCounter, LocalStep, DatabaseUnchanged, RequestMoves, Holding, LimitsGranted
<1> QED
  BY <1>1, <1>8, QuotaFrame, RequestMovesKeeps DEF LoadCounter, LocalStep, DatabaseUnchanged, TypeOK

\* It compares what it loaded with the limits in the state, which are the account's.
LEMMA StepCompareLimit ==
    ASSUME AdmissionInv, NEW r \in Requests, CompareLimit(r)
    PROVE  AdmissionInv'
<1> USE DEF CompareLimit, LocalStep, DatabaseUnchanged
<1>1. TypeOK /\ ArcHeld /\ LimitsGranted /\ OneStatePerAccount /\ WorkspaceQuotaRespected
  BY DEF AdmissionInv
<1>2. RequestMoves(r)
  <2>1. CASE Over(r)
    BY <2>1, OverMoves
  <2>2. CASE /\ req[r].current < arc[req[r].arc].limits.tunnels
             /\ req' = [req EXCEPT ![r].pc = "compared"]
    <3>1. req[r] \in Request /\ req[r].arc # NoArc
      BY <1>1 DEF TypeOK, ArcHeld, Holding
    <3>2. arc[req[r].arc].limits \in granted[req[r].account]
      BY <3>1, <1>1 DEF OneStatePerAccount, LimitsGranted
    <3>3. req'[r] = [req[r] EXCEPT !.pc = "compared"]
      BY <2>2, <1>1 DEF TypeOK
    <3>4. /\ req'[r] \in Request /\ req'[r].pc = "compared" /\ req'[r].arc = req[r].arc
          /\ req'[r].limits = req[r].limits /\ req'[r].account = req[r].account
          /\ req'[r].current = req[r].current
      BY <3>1, <3>3 DEF Request
    <3>5. req' = [req EXCEPT ![r] = req'[r]]
      BY <2>2, <3>3, <1>1 DEF TypeOK
    <3>6. \E limits \in granted[req'[r].account] : req'[r].current < limits.tunnels
      BY <2>2, <3>2, <3>4
    <3> QED
      BY <3>1, <3>4, <3>5, <3>6, <1>1 DEF RequestMoves, Holding, LimitsGranted
  <2> QED
    BY <2>1, <2>2
<1> QED
  BY <1>1, <1>2, QuotaFrame, RequestMovesKeeps DEF TypeOK

-----------------------------------------------------------------------------

\* A request takes the Arc x of its account: the state it found in the map or one
\* that no request knows yet.  Every other state stays, unless nobody holds it.
LEMMA StateForFacts ==
    ASSUME AdmissionInv, NEW r \in Requests, req[r].pc \in {"authenticated", "admitted"},
           NEW x \in Arcs, StateFor(req[r].account, req[r].limits, x)
    PROVE  /\ req[r].account \in DOMAIN states' /\ states'[req[r].account] = x
           /\ DOMAIN states' \subseteq DOMAIN states \cup {req[r].account}
           /\ \A b \in DOMAIN states' : b # req[r].account => states'[b] = states[b]
           /\ states' \in [DOMAIN states' -> Arcs]
           /\ \A b \in DOMAIN states' : b # req[r].account => states'[b] # x
           /\ x < sequence' /\ sequence' = sequence + 1 /\ sequence <= MaxSequence
           /\ arc' \in [Arcs -> AdmissionState]
           /\ arc'[x].limits = req[r].limits
           /\ arc'[x].active_tunnels = Cardinality(Tunnels(req[r].account))
           /\ \A y \in Arcs : y # x => arc'[y] = arc[y]
           /\ \A q \in Requests : req[q].arc # NoArc =>
                 req[q].account \in DOMAIN states' /\ states'[req[q].account] = req[q].arc
<1> DEFINE a == req[r].account
<1>a. TypeOK /\ ArcHeld /\ ArcOwned /\ OneStatePerAccount /\ GuardsCounted
  BY DEF AdmissionInv
<1>b. req[r] \in Request /\ sequence \in 1 .. (MaxSequence + 1)
  BY <1>a DEF TypeOK
<1>c. a \in Accounts /\ req[r].limits \in Limits
  BY <1>b DEF Request
<1>d. sequence \in Arcs /\ sequence' = sequence + 1 /\ sequence \in Nat
  BY <1>b, AdmissionAssumption DEF StateFor, Arcs
<1>0. /\ TypeOK /\ ArcHeld /\ ArcOwned /\ OneStatePerAccount /\ GuardsCounted
      /\ a \in Accounts /\ req[r].limits \in Limits
      /\ sequence \in Arcs /\ sequence' = sequence + 1 /\ sequence \in Nat
  BY <1>a, <1>c, <1>d
<1>1. CASE /\ a \in DOMAIN states /\ x = states[a] /\ UNCHANGED states
           /\ arc' = [arc EXCEPT ![x].limits = req[r].limits, ![x].last_used = sequence]
  <2>1. arc[x] \in AdmissionState
    BY <1>0 DEF TypeOK
  <2>2. arc'[x] = [arc[x] EXCEPT !.limits = req[r].limits, !.last_used = sequence]
    BY <1>0, <1>1 DEF TypeOK
  <2>3. /\ arc'[x] \in AdmissionState /\ arc'[x].limits = req[r].limits
        /\ arc'[x].active_tunnels = arc[x].active_tunnels
    <3>1. req[r].limits \in Limits /\ sequence \in 0 .. MaxSequence
      BY <1>0 DEF Arcs
    <3> QED
      BY <2>1, <2>2, <3>1 DEF AdmissionState
  <2>4. arc' \in [Arcs -> AdmissionState] /\ \A y \in Arcs : y # x => arc'[y] = arc[y]
    BY <1>0, <1>1, <2>3 DEF TypeOK
  <2>5. arc[x].active_tunnels = Cardinality(Tunnels(a))
    BY <1>0, <1>1 DEF GuardsCounted
  <2>6. x < sequence' /\ \A b \in DOMAIN states : b # a => states[b] # x
    BY <1>0, <1>1 DEF ArcOwned, Arcs
  <2>7. \A q \in Requests : req[q].arc # NoArc =>
           req[q].account \in DOMAIN states /\ states[req[q].account] = req[q].arc
    BY <1>0 DEF OneStatePerAccount
  <2> QED
    BY <1>0, <1>1, <2>3, <2>4, <2>5, <2>6, <2>7 DEF TypeOK, Arcs
<1>2. CASE /\ a \notin DOMAIN states /\ x = sequence
           /\ arc' = [arc EXCEPT ![x] = [limits |-> req[r].limits, active_tunnels |-> 0,
                                         last_used |-> sequence]]
           /\ \E kept \in IF Cardinality(DOMAIN states) < MaxCached THEN {DOMAIN states}
                          ELSE {DOMAIN states \ {v} : v \in Victims} :
                 states' = [b \in kept \cup {a} |-> IF b = a THEN x ELSE states[b]]
  <2>1. PICK kept : /\ kept = DOMAIN states \/ \E v \in Victims : kept = DOMAIN states \ {v}
                    /\ states' = [b \in kept \cup {a} |-> IF b = a THEN x ELSE states[b]]
    BY <1>2
  <2>2. kept \subseteq DOMAIN states
    BY <2>1
  <2>3. \A q \in Requests : req[q].arc # NoArc => req[q].account \in kept
    <3> SUFFICES ASSUME NEW q \in Requests, req[q].arc # NoArc,
                        NEW v \in Victims, kept = DOMAIN states \ {v}
                 PROVE  req[q].account \in kept
      BY <1>0, <2>1 DEF OneStatePerAccount
    <3>1. req[q].account \in DOMAIN states /\ states[req[q].account] = req[q].arc
      BY <1>0 DEF OneStatePerAccount
    <3>2. v \in DOMAIN states /\ req[q].arc # states[v]
      BY DEF Victims, Evictable, HoldsArc
    <3> QED
      BY <3>1, <3>2
  <2>4. /\ DOMAIN states' = kept \cup {a} /\ states'[a] = x
        /\ \A b \in kept : states'[b] = states[b] /\ states[b] # x /\ states[b] \in Arcs
    <3>1. \A b \in DOMAIN states : states[b] \in Arcs /\ states[b] < sequence
      BY <1>0 DEF ArcOwned, TypeOK
    <3>2. \A b \in DOMAIN states : states[b] # x
      BY <3>1, <1>0, <1>2 DEF Arcs
    <3> HIDE DEF a
    <3> QED
      BY <3>1, <3>2, <1>2, <2>1, <2>2
  <2>5. states' \in [DOMAIN states' -> Arcs]
    BY <2>1, <2>4
  <2>6. [limits |-> req[r].limits, active_tunnels |-> 0, last_used |-> sequence] \in AdmissionState
    BY <1>0 DEF AdmissionState, Arcs
  <2>7. /\ arc' \in [Arcs -> AdmissionState] /\ \A y \in Arcs : y # x => arc'[y] = arc[y]
        /\ arc'[x].limits = req[r].limits /\ arc'[x].active_tunnels = 0
    BY <1>0, <1>2, <2>6 DEF TypeOK
  <2>8. Tunnels(a) = {}
    BY <1>0, <1>2 DEF Tunnels, OneStatePerAccount, ArcHeld, Holding
  <2>9. arc'[x].active_tunnels = Cardinality(Tunnels(a))
    BY <2>7, <2>8, FS_EmptySet
  <2>10. x < sequence' /\ sequence <= MaxSequence
    BY <1>0, <1>2 DEF Arcs
  <2>11. \A q \in Requests : req[q].arc # NoArc =>
            req[q].account \in DOMAIN states' /\ states'[req[q].account] = req[q].arc
    BY <1>0, <2>3, <2>4 DEF OneStatePerAccount
  <2> HIDE DEF a
  <2>12. /\ DOMAIN states' \subseteq DOMAIN states \cup {a}
         /\ \A b \in DOMAIN states' : b # a => states'[b] = states[b] /\ states'[b] # x
    BY <2>2, <2>4
  <2> USE DEF a
  <2> QED
    BY <1>0, <2>4, <2>5, <2>7, <2>9, <2>10, <2>11, <2>12
<1> QED
  BY <1>1, <1>2 DEF StateFor, UpdateLimits

\* state_for, in check_request_rate and in try_acquire_tunnel.
LEMMA StepCallStateFor ==
    ASSUME AdmissionInv, NEW r \in Requests, NEW from \in {"authenticated", "admitted"},
           NEW pc \in {"rating", "guarding"}, CallStateFor(r, from, pc),
           settled' \subseteq Requests
    PROVE  AdmissionInv'
<1>0. /\ TypeOK /\ ArcHeld /\ ArcOwned /\ OneStatePerAccount /\ GuardsCounted
      /\ LimitsGranted /\ Compared /\ TunnelLimitRespected /\ WorkspaceQuotaRespected
  BY DEF AdmissionInv
<1>1. /\ UNCHANGED <<plan, status, granted, usedReqs>>
      /\ req[r].pc = from /\ req[r] \in Request
  BY <1>0 DEF CallStateFor, DatabaseUnchanged, TypeOK
<1>2. CASE StateForFails(req[r].account) /\ Over(r)
  <2>1. UNCHANGED <<states, arc>> /\ sequence' \in sequence .. (MaxSequence + 1)
    BY <1>0, <1>2, AdmissionAssumption DEF StateForFails, TypeOK
  <2>2. RequestMoves(r)
    BY <1>1, <1>2, <2>1, OverMoves
  <2>3. usedReqs' \in [Accounts -> [Workspaces -> Nat]] /\ WorkspaceQuotaRespected'
    BY <1>0, <1>1, QuotaFrame DEF TypeOK
  <2> QED
    BY <2>1, <2>2, <2>3, RequestMovesKeeps
<1>3. CASE \E x \in Arcs : /\ StateFor(req[r].account, req[r].limits, x)
                           /\ req' = [req EXCEPT ![r].pc = pc, ![r].arc = x]
  <2>0. PICK x \in Arcs : /\ StateFor(req[r].account, req[r].limits, x)
                        /\ req' = [req EXCEPT ![r].pc = pc, ![r].arc = x]
    BY <1>3
  <2> DEFINE a == req[r].account
  <2>1. /\ a \in DOMAIN states' /\ states'[a] = x
        /\ DOMAIN states' \subseteq DOMAIN states \cup {a}
        /\ \A b \in DOMAIN states' : b # a => states'[b] = states[b]
        /\ states' \in [DOMAIN states' -> Arcs]
        /\ \A b \in DOMAIN states' : b # a => states'[b] # x
        /\ x < sequence' /\ sequence' = sequence + 1 /\ sequence <= MaxSequence
        /\ arc' \in [Arcs -> AdmissionState]
        /\ arc'[x].limits = req[r].limits
        /\ arc'[x].active_tunnels = Cardinality(Tunnels(a))
        /\ \A y \in Arcs : y # x => arc'[y] = arc[y]
        /\ \A q \in Requests : req[q].arc # NoArc =>
              req[q].account \in DOMAIN states' /\ states'[req[q].account] = req[q].arc
    BY <1>1, <2>0, StateForFacts
  <2>2. a \in Accounts /\ x # NoArc /\ sequence \in Nat
    <3>1. sequence \in 1 .. (MaxSequence + 1)
      BY <1>0 DEF TypeOK
    <3> QED
      BY <1>1, <3>1 DEF Request, Arcs, NoArc
  <2>3. req'[r] = [req[r] EXCEPT !.pc = pc, !.arc = x]
    BY <1>0, <2>0 DEF TypeOK
  <2>4. /\ req'[r] \in Request /\ req'[r].pc = pc /\ req'[r].arc = x
        /\ req'[r].account = a /\ req'[r].limits = req[r].limits
    <3>1. req[r] \in Request
      BY <1>1
    <3> QED
      BY <3>1, <2>3 DEF Request
  <2>5. \A q \in Requests : q # r => req'[q] = req[q]
    BY <1>0, <2>0 DEF TypeOK
  <2> HIDE DEF a
  <2>6. TypeOK'
    <3>1. req' \in [Requests -> Request]
      BY <1>0, <2>0, <2>4 DEF TypeOK
    <3>2. sequence' \in 1 .. (MaxSequence + 1) /\ DOMAIN states' \subseteq Accounts
      BY <1>0, <2>1, <2>2, AdmissionAssumption DEF TypeOK
    <3> QED
      BY <1>0, <1>1, <2>1, <3>1, <3>2 DEF TypeOK
  <2>7. ArcHeld'
    BY <1>0, <2>2, <2>4, <2>5 DEF ArcHeld, Holding
  <2>8. ArcOwned'
    <3>1. \A b \in DOMAIN states' : b # a => b \in DOMAIN states /\ states'[b] < sequence
      BY <1>0, <2>1 DEF ArcOwned
    <3>2. \A b \in DOMAIN states' : states'[b] \in Nat /\ states'[b] < sequence'
      BY <3>1, <2>1, <2>2 DEF Arcs
    <3>3. \A b, c \in DOMAIN states' : states'[b] = states'[c] => b = c
      BY <3>1, <2>1, <1>0 DEF ArcOwned
    <3> QED
      BY <3>2, <3>3 DEF ArcOwned
  <2>9. OneStatePerAccount'
    BY <2>1, <2>4, <2>5 DEF OneStatePerAccount
  <2>10. \A b : Tunnels(b)' = Tunnels(b)
    BY <1>1, <2>4, <2>5 DEF Tunnels
  <2>11. GuardsCounted'
    <3> SUFFICES ASSUME NEW b \in DOMAIN states'
                 PROVE  arc'[states'[b]].active_tunnels = Cardinality(Tunnels(b))
      BY <2>6, <2>10 DEF GuardsCounted
    <3>1. CASE b = a
      BY <3>1, <2>1
    <3>2. CASE b # a
      <4>1. b \in DOMAIN states /\ states'[b] = states[b] /\ arc'[states'[b]] = arc[states[b]]
        BY <3>2, <2>1
      <4> QED
        BY <4>1, <1>0 DEF GuardsCounted
    <3> QED
      BY <3>1, <3>2
  <2>12. LimitsGranted'
    <3>1. \A b \in DOMAIN states' : b # a =>
             b \in DOMAIN states /\ arc'[states'[b]] = arc[states[b]]
      BY <2>1
    <3>2. req[r].limits \in granted[a]
      BY <1>0, <1>1 DEF LimitsGranted, a
    <3> QED
      BY <1>0, <1>1, <2>1, <2>4, <2>5, <3>1, <3>2 DEF LimitsGranted
  <2>13. Compared'
    BY <1>0, <1>1, <2>4, <2>5 DEF Compared
  <2>14. TunnelLimitRespected' /\ WorkspaceQuotaRespected'
    BY <1>0, <1>1, <2>10, QuotaFrame DEF TunnelLimitRespected
  <2> QED
    BY <2>6, <2>7, <2>8, <2>9, <2>11, <2>12, <2>13, <2>14 DEF AdmissionInv
<1> QED
  BY <1>2, <1>3 DEF CallStateFor

-----------------------------------------------------------------------------

\* A step of request r that opens or closes its tunnel and moves the counter of its
\* account's state with it.
LEMMA TunnelMovesKeeps ==
    ASSUME AdmissionInv, NEW r \in Requests, NEW a \in Accounts,
           a = req[r].account, req[r].arc \in Arcs,
           req' = [req EXCEPT ![r] = req'[r]], req'[r] \in Request,
           req'[r].arc # NoArc <=> req'[r].pc \in Holding,
           req'[r].arc # NoArc => req'[r].arc = req[r].arc /\ req'[r].account = a,
           req'[r].pc # "done" => req'[r].limits = req[r].limits,
           req'[r].pc \in {"tunnel", "done"},
           arc' = [arc EXCEPT ![req[r].arc].active_tunnels = Cardinality(Tunnels(a)')],
           Cardinality(Tunnels(a)') \in Nat,
           \A b \in Accounts : b # a => Tunnels(b)' = Tunnels(b),
           \E limits \in granted[a] : Cardinality(Tunnels(a)') <= limits.tunnels,
           settled' \subseteq Requests,
           UNCHANGED <<plan, status, granted, usedReqs, states, sequence>>
    PROVE  AdmissionInv'
<1> DEFINE y == req[r].arc
           n == Cardinality(Tunnels(a)')
<1> HIDE DEF n
<1>0. /\ TypeOK /\ ArcHeld /\ ArcOwned /\ OneStatePerAccount /\ GuardsCounted
      /\ LimitsGranted /\ Compared /\ TunnelLimitRespected /\ WorkspaceQuotaRespected
  BY DEF AdmissionInv
<1>1. y \in Arcs /\ y # NoArc /\ a \in DOMAIN states /\ states[a] = y /\ n \in Nat
  BY <1>0 DEF Arcs, NoArc, OneStatePerAccount, n
<1>2. arc'[y] = [arc[y] EXCEPT !.active_tunnels = n] /\ arc[y] \in AdmissionState
  BY <1>0, <1>1 DEF TypeOK, n
<1>3. /\ arc'[y] \in AdmissionState /\ arc'[y].active_tunnels = n
      /\ arc'[y].limits = arc[y].limits
  BY <1>1, <1>2 DEF AdmissionState
<1>4. arc' \in [Arcs -> AdmissionState] /\ \A z \in Arcs : z # y => arc'[z] = arc[z]
  BY <1>0, <1>1, <1>3 DEF TypeOK
<1>5. \A q \in Requests : q # r => req'[q] = req[q]
  BY <1>0 DEF TypeOK
<1>6. TypeOK'
  <2>1. req' \in [Requests -> Request]
    BY <1>0 DEF TypeOK
  <2> QED
    BY <1>0, <1>4, <2>1 DEF TypeOK
<1>7. ArcHeld'
  BY <1>0, <1>5 DEF ArcHeld
<1>8. ArcOwned'
  BY <1>0 DEF ArcOwned
<1>9. OneStatePerAccount'
  BY <1>0, <1>1, <1>5 DEF OneStatePerAccount
<1>10. \A b \in DOMAIN states : b # a => states[b] # y /\ arc'[states[b]] = arc[states[b]]
  BY <1>0, <1>1, <1>4 DEF ArcOwned, TypeOK
<1>11. GuardsCounted'
  <2> SUFFICES ASSUME NEW b \in DOMAIN states
               PROVE  arc'[states[b]].active_tunnels = Cardinality(Tunnels(b)')
    BY <1>6 DEF GuardsCounted
  <2>1. CASE b = a
    BY <2>1, <1>1, <1>3 DEF n
  <2>2. CASE b # a
    <3>1. b \in Accounts
      BY <1>0 DEF TypeOK
    <3> QED
      BY <2>2, <3>1, <1>10, <1>0 DEF GuardsCounted
  <2> QED
    BY <2>1, <2>2
<1>12. LimitsGranted'
  <2>1. \A b \in DOMAIN states : arc'[states[b]].limits = arc[states[b]].limits
    BY <1>1, <1>3, <1>10
  <2>2. req'[r].pc # "done" => req'[r].limits \in granted[req'[r].account]
    BY <1>0, <1>1 DEF LimitsGranted, ArcHeld, Holding
  <2> QED
    BY <1>0, <1>5, <2>1, <2>2 DEF LimitsGranted
<1>13. Compared'
  BY <1>0, <1>5 DEF Compared
<1>14. TunnelLimitRespected'
  BY <1>0 DEF TunnelLimitRespected
<1>15. WorkspaceQuotaRespected'
  BY <1>0, QuotaFrame
<1> QED
  BY <1>6, <1>7, <1>8, <1>9, <1>11, <1>12, <1>13, <1>14, <1>15 DEF AdmissionInv

\* compare_exchange: the counter still has the value that was below a limit.
LEMMA StepCompareExchange ==
    ASSUME AdmissionInv, NEW r \in Requests, CompareExchange(r)
    PROVE  AdmissionInv'
<1>0. /\ TypeOK /\ ArcHeld /\ OneStatePerAccount /\ GuardsCounted
      /\ LimitsGranted /\ Compared /\ WorkspaceQuotaRespected
  BY DEF AdmissionInv
<1>1. /\ UNCHANGED <<plan, status, granted, usedReqs, states, sequence>>
      /\ settled' \subseteq Requests
      /\ req[r].pc = "compared" /\ req[r] \in Request
  BY <1>0 DEF CompareExchange, LocalStep, DatabaseUnchanged, TypeOK
<1>a. PICK a \in Accounts : a = req[r].account
  BY <1>1 DEF Request
<1>2. /\ req[r].arc \in Arcs /\ req[r].arc # NoArc
      /\ req[r].limits \in granted[a]
  BY <1>a, <1>0, <1>1 DEF Request, ArcHeld, Holding, LimitsGranted
<1>3. CASE req' = [req EXCEPT ![r].pc = "guarding", ![r].current = 0] /\ UNCHANGED arc
  <2>0. PICK n \in Nat : n = 0
    OBVIOUS
  <2>1. req'[r] = [req[r] EXCEPT !.pc = "guarding", !.current = n]
    BY <1>a, <1>0, <1>3, <2>0 DEF TypeOK
  <2>2. /\ req'[r] \in Request /\ req'[r].pc = "guarding" /\ req'[r].arc = req[r].arc
        /\ req'[r].limits = req[r].limits /\ req'[r].account = a
    <3>1. req[r] \in Request
      BY <1>1
    <3>2. /\ req'[r] \in Request /\ req'[r].pc = "guarding" /\ req'[r].arc = req[r].arc
          /\ req'[r].limits = req[r].limits /\ req'[r].account = req[r].account
      BY <3>1, <2>1 DEF Request
    <3> QED
      BY <3>2, <1>a
  <2>3. req' = [req EXCEPT ![r] = req'[r]]
    BY <1>a, <1>0, <1>3, <2>1 DEF TypeOK
  <2>4. RequestMoves(r)
    BY <1>a, <1>1, <1>2, <1>3, <2>2, <2>3 DEF RequestMoves, Holding
  <2> QED
    BY <1>a, <1>0, <1>1, <2>4, QuotaFrame, RequestMovesKeeps DEF TypeOK
<1>4. CASE /\ Swap(r)
           /\ arc' = [arc EXCEPT ![req[r].arc].active_tunnels = req[r].current + 1]
           /\ req' = [req EXCEPT ![r].pc = "tunnel", ![r].current = 0]
  <2>0. PICK n \in Nat : n = 0
    OBVIOUS
  <2>1. req'[r] = [req[r] EXCEPT !.pc = "tunnel", !.current = n]
    BY <1>0, <1>4, <2>0 DEF TypeOK
  <2>2. /\ req'[r] \in Request /\ req'[r].pc = "tunnel" /\ req'[r].arc = req[r].arc
        /\ req'[r].limits = req[r].limits /\ req'[r].account = a
    <3>1. req[r] \in Request
      BY <1>1
    <3>2. /\ req'[r] \in Request /\ req'[r].pc = "tunnel" /\ req'[r].arc = req[r].arc
          /\ req'[r].limits = req[r].limits /\ req'[r].account = req[r].account
      BY <3>1, <2>1 DEF Request
    <3> QED
      BY <3>2, <1>a
  <2>3. req' = [req EXCEPT ![r] = req'[r]] /\ \A q \in Requests : q # r => req'[q] = req[q]
    BY <1>0, <1>4, <2>1 DEF TypeOK
  <2>4. Cardinality(Tunnels(a)) = req[r].current
    BY <1>a, <1>0, <1>2, <1>4 DEF Swap, OneStatePerAccount, GuardsCounted
  <2>5. Tunnels(a)' = Tunnels(a) \cup {r} /\ r \notin Tunnels(a)
    BY <1>a, <1>1, <2>2, <2>3 DEF Tunnels
  <2>6. Cardinality(Tunnels(a)') = req[r].current + 1
    <3>1. IsFiniteSet(Tunnels(a))
      BY TunnelsFinite
    <3> QED
      BY <3>1, <2>4, <2>5, FS_AddElement
  <2>7. \A b \in Accounts : b # a => Tunnels(b)' = Tunnels(b)
    BY <1>a, <1>1, <2>2, <2>3 DEF Tunnels
  <2>8. req[r].current \in Nat /\ \A limits \in granted[a] : limits.tunnels \in Nat
    BY <1>a, <1>0, <1>1, <1>2, LimitsPositive DEF Request, TypeOK
  <2>9. \E limits \in granted[a] : req[r].current < limits.tunnels
    BY <1>a, <1>0, <1>1 DEF Compared
  <2>10. \E limits \in granted[a] : Cardinality(Tunnels(a)') <= limits.tunnels
    BY <2>6, <2>8, <2>9
  <2>11. req'[r].arc # NoArc <=> req'[r].pc \in Holding
    BY <1>a, <1>2, <2>2 DEF Holding
  <2>12. Cardinality(Tunnels(a)') \in Nat
    BY <2>6, <2>8
  <2>13. arc' = [arc EXCEPT ![req[r].arc].active_tunnels = Cardinality(Tunnels(a)')]
    BY <1>4, <2>6
  <2> QED
    BY <1>a, <1>1, <1>2, <2>2, <2>3, <2>7, <2>10, <2>11, <2>12, <2>13, TunnelMovesKeeps
<1> QED
  BY <1>a, <1>3, <1>4 DEF CompareExchange

\* AccountTunnelGuard::drop takes its tunnel out of the count.
LEMMA StepDropGuard ==
    ASSUME AdmissionInv, NEW r \in Requests, DropGuard(r)
    PROVE  AdmissionInv'
<1>0. /\ TypeOK /\ ArcHeld /\ OneStatePerAccount /\ GuardsCounted
      /\ LimitsGranted /\ TunnelLimitRespected
  BY DEF AdmissionInv
<1>1. /\ UNCHANGED <<plan, status, granted, usedReqs, states, sequence>>
      /\ settled' \subseteq Requests
      /\ req[r].pc = "tunnel" /\ req[r] \in Request /\ req' = [req EXCEPT ![r] = DoneRequest]
  BY <1>0 DEF DropGuard, LocalStep, DatabaseUnchanged, TypeOK, Over
<1>a. PICK a \in Accounts : a = req[r].account
  BY <1>1 DEF Request
<1>2. req[r].arc \in Arcs /\ req[r].arc # NoArc
  BY <1>a, <1>0, <1>1 DEF Request, ArcHeld, Holding
<1>3. req'[r] = DoneRequest /\ \A q \in Requests : q # r => req'[q] = req[q]
  BY <1>a, <1>0, <1>1 DEF TypeOK
<1>4. Tunnels(a)' = Tunnels(a) \ {r} /\ r \in Tunnels(a)
  BY <1>a, <1>1, <1>3, BlankRecords DEF Tunnels
<1>5. \A b \in Accounts : b # a => Tunnels(b)' = Tunnels(b)
  BY <1>a, <1>3, BlankRecords DEF Tunnels
<1> DEFINE n == Cardinality(Tunnels(a))
<1>6. n \in Nat /\ n # 0 /\ Cardinality(Tunnels(a)') = n - 1
  <2>1. IsFiniteSet(Tunnels(a)) /\ n \in Nat
    BY <1>a, <1>2, TunnelsFinite
  <2>2. n # 0
    BY <2>1, <1>4, FS_EmptySet
  <2> QED
    BY <2>1, <2>2, <1>4, FS_RemoveElement
<1>7. arc[req[r].arc].active_tunnels = n
  BY <1>a, <1>0, <1>2 DEF OneStatePerAccount, GuardsCounted
<1>8. arc' = [arc EXCEPT ![req[r].arc].active_tunnels = Cardinality(Tunnels(a)')]
  <2> DEFINE y == req[r].arc
             m == Cardinality(Tunnels(a)')
             k == arc[y].active_tunnels
  <2>1. (IF k > 0 THEN k - 1 ELSE k) = m
    BY <1>6, <1>7
  <2>2. arc' = [arc EXCEPT ![y].active_tunnels = IF k > 0 THEN k - 1 ELSE k]
    BY DEF DropGuard
  <2> HIDE DEF k, m
  <2> QED
    BY <2>1, <2>2 DEF m
<1>9. \E limits \in granted[a] : Cardinality(Tunnels(a)') <= limits.tunnels
  <2>1. PICK limits \in granted[a] : n <= limits.tunnels
    BY <1>a, <1>0, <1>2 DEF TunnelLimitRespected
  <2>2. limits.tunnels \in Nat
    BY <1>a, <1>0, <1>2, LimitsPositive DEF TypeOK
  <2> QED
    BY <1>6, <2>1, <2>2
<1>10. Cardinality(Tunnels(a)') \in Nat
  BY <1>6
<1> HIDE DEF n
<1> QED
  BY <1>a, <1>1, <1>2, <1>3, <1>5, <1>8, <1>9, <1>10, BlankRecords, TunnelMovesKeeps DEF Holding

-----------------------------------------------------------------------------

\* Administration adds to what an account has been granted and touches no request.
LEMMA StepUpdatePlan ==
    ASSUME AdmissionInv, NEW a \in Accounts, NEW limits \in Limits, UpdatePlan(a, limits)
    PROVE  AdmissionInv'
<1>0. /\ TypeOK /\ ArcHeld /\ ArcOwned /\ OneStatePerAccount /\ GuardsCounted
      /\ LimitsGranted /\ Compared /\ TunnelLimitRespected /\ WorkspaceQuotaRespected
  BY DEF AdmissionInv
<1>1. /\ UNCHANGED <<status, usedReqs, states, arc, sequence, req>>
      /\ settled' \subseteq Requests
      /\ plan' \in [Accounts -> Limits] /\ granted' \in [Accounts -> SUBSET Limits]
      /\ \A b \in Accounts : granted[b] \subseteq granted'[b] /\ plan'[b] \in granted'[b]
  BY <1>0 DEF UpdatePlan, TypeOK, LimitsGranted
<1>2. TypeOK'
  BY <1>0, <1>1 DEF TypeOK
<1>3. ArcHeld' /\ ArcOwned' /\ OneStatePerAccount'
  BY <1>0, <1>1 DEF ArcHeld, ArcOwned, OneStatePerAccount
<1>4. \A b : Tunnels(b)' = Tunnels(b)
  BY <1>1 DEF Tunnels
<1>5. GuardsCounted'
  BY <1>0, <1>1, <1>2, <1>4 DEF GuardsCounted
<1>6. (\A r \in Requests : req[r].account \in Accounts) /\ DOMAIN states \subseteq Accounts
  BY <1>0 DEF TypeOK, Request
<1>7. LimitsGranted' /\ Compared'
  BY <1>0, <1>1, <1>6 DEF LimitsGranted, Compared
<1>8. TunnelLimitRespected'
  BY <1>0, <1>1, <1>4 DEF TunnelLimitRespected
<1>9. WorkspaceQuotaRespected'
  BY <1>0, <1>1 DEF WorkspaceQuotaRespected
<1> QED
  BY <1>2, <1>3, <1>5, <1>7, <1>8, <1>9 DEF AdmissionInv

\* The state of a run is independent of who may authenticate next.
LEMMA StepSetStatus ==
    ASSUME AdmissionInv, NEW a \in Accounts, NEW new \in {"active", "suspended"},
           SetStatus(a, new)
    PROVE  AdmissionInv'
<1>1. /\ UNCHANGED <<plan, usedReqs, states, arc, sequence, req, granted, settled>>
      /\ status' \in [Accounts -> {"active", "suspended"}]
  BY DEF SetStatus, AdmissionInv, TypeOK
<1>2. TypeOK'
  BY <1>1 DEF AdmissionInv, TypeOK
<1>3. \A b : Tunnels(b)' = Tunnels(b)
  BY <1>1 DEF Tunnels
<1>4. GuardsCounted'
  BY <1>1, <1>2, <1>3 DEF AdmissionInv, GuardsCounted
<1>5. TunnelLimitRespected'
  BY <1>1, <1>3 DEF AdmissionInv, TunnelLimitRespected
<1>6. ArcHeld' /\ ArcOwned' /\ OneStatePerAccount' /\ WorkspaceQuotaRespected'
  BY <1>1 DEF AdmissionInv, ArcHeld, ArcOwned, OneStatePerAccount, WorkspaceQuotaRespected
<1>7. LimitsGranted' /\ Compared'
  BY <1>1 DEF AdmissionInv, LimitsGranted, Compared
<1> QED
  BY <1>2, <1>4, <1>5, <1>6, <1>7 DEF AdmissionInv

\* A restart keeps the database and forgets every state and tunnel together.
LEMMA StepProcessEnd ==
    ASSUME AdmissionInv, ProcessEnd
    PROVE  AdmissionInv'
<1>0. TypeOK /\ ArcHeld /\ LimitsGranted /\ WorkspaceQuotaRespected
  BY DEF AdmissionInv
<1>1. /\ UNCHANGED <<plan, status, granted, usedReqs>> /\ settled' = {}
      /\ sequence' = 1 /\ DOMAIN states' = {}
  BY DEF ProcessEnd, DatabaseUnchanged
<1>2. \A r \in Requests : req'[r] \in Request /\ req'[r].pc \in {"new", "done"} /\ req'[r].arc = NoArc
  <2> SUFFICES ASSUME NEW r \in Requests
               PROVE  req'[r] \in Request /\ req'[r].pc \in {"new", "done"} /\ req'[r].arc = NoArc
    OBVIOUS
  <2>1. CASE req[r].pc = "new"
    BY <2>1, <1>0 DEF ProcessEnd, TypeOK, ArcHeld, Holding
  <2>2. CASE req[r].pc # "new"
    BY <2>2, BlankRecords DEF ProcessEnd
  <2> QED
    BY <2>1, <2>2
<1>3. TypeOK'
  <2>1. req' \in [Requests -> Request] /\ arc' \in [Arcs -> AdmissionState]
    BY <1>2, BlankRecords DEF ProcessEnd
  <2>2. states' \in [DOMAIN states' -> Arcs] /\ sequence' \in 1 .. (MaxSequence + 1)
    BY <1>1, AdmissionAssumption DEF ProcessEnd
  <2> QED
    BY <1>0, <1>1, <2>1, <2>2 DEF TypeOK
<1>4. ArcHeld' /\ ArcOwned' /\ OneStatePerAccount' /\ Compared'
  BY <1>1, <1>2 DEF ArcHeld, ArcOwned, OneStatePerAccount, Compared, Holding
<1>5. GuardsCounted'
  BY <1>1, <1>3 DEF GuardsCounted
<1>6. LimitsGranted'
  BY <1>0, <1>1, <1>2 DEF LimitsGranted
<1>7. \A a \in Accounts : Tunnels(a)' = {}
  BY <1>2 DEF Tunnels
<1>8. TunnelLimitRespected'
  <2> SUFFICES ASSUME NEW a \in Accounts
               PROVE  plan[a] \in granted[a] /\ Cardinality(Tunnels(a)') <= plan[a].tunnels
    BY <1>1 DEF TunnelLimitRespected
  <2>1. plan[a] \in granted[a] /\ plan[a].tunnels \in Nat
    BY <1>0, LimitsPositive DEF LimitsGranted, TypeOK
  <2>2. Cardinality(Tunnels(a)') = 0
    BY <1>7, FS_EmptySet
  <2> QED
    BY <2>1, <2>2
<1>9. WorkspaceQuotaRespected'
  BY <1>0, <1>1, QuotaFrame
<1> QED
  BY <1>3, <1>4, <1>5, <1>6, <1>8, <1>9 DEF AdmissionInv

\* Every step of the requests and of the administration keeps the invariant.
LEMMA AdmissionStep == AdmissionInv /\ [Next]_vars => AdmissionInv'
<1> SUFFICES ASSUME AdmissionInv, [Next]_vars PROVE AdmissionInv'
  OBVIOUS
<1>1. CASE \E r \in Requests : RequestStep(r)
  <2> PICK r \in Requests : RequestStep(r)
    BY <1>1
  <2>1. CASE \E a \in Accounts, w \in Workspaces : Authenticate(r, a, w)
    BY <2>1, StepAuthenticate
  <2>2. CASE CheckRate(r)
    BY <2>2, StepCallStateFor DEF CheckRate, AdmissionInv, TypeOK
  <2>3. CASE TryAcquireTunnel(r)
    BY <2>3, StepCallStateFor DEF TryAcquireTunnel, AdmissionInv, TypeOK
  <2> QED
    BY <2>1, <2>2, <2>3, StepRateVerdict, StepAdmitRequest, StepLoadCounter,
       StepCompareLimit, StepCompareExchange, StepDropGuard DEF RequestStep
<1>2. CASE \E a \in Accounts, limits \in Limits : UpdatePlan(a, limits)
  BY <1>2, StepUpdatePlan
<1>3. CASE \E a \in Accounts, new \in {"active", "suspended"} : SetStatus(a, new)
  BY <1>3, StepSetStatus
<1>4. CASE ProcessEnd
  BY <1>4, StepProcessEnd
<1>5. CASE UNCHANGED vars
  <2>1. \A b : Tunnels(b)' = Tunnels(b)
    BY <1>5 DEF vars, Tunnels
  <2>2. TypeOK'
    BY <1>5 DEF vars, AdmissionInv, TypeOK
  <2>3. GuardsCounted' /\ TunnelLimitRespected'
    BY <1>5, <2>1, <2>2 DEF vars, AdmissionInv, GuardsCounted, TunnelLimitRespected
  <2>4. ArcHeld' /\ ArcOwned' /\ OneStatePerAccount' /\ WorkspaceQuotaRespected'
    BY <1>5 DEF vars, AdmissionInv, ArcHeld, ArcOwned, OneStatePerAccount,
       WorkspaceQuotaRespected
  <2>5. LimitsGranted' /\ Compared'
    BY <1>5 DEF vars, AdmissionInv, LimitsGranted, Compared
  <2> QED
    BY <2>2, <2>3, <2>4, <2>5 DEF AdmissionInv
<1> QED
  BY <1>1, <1>2, <1>3, <1>4, <1>5 DEF Next

\* Every behaviour keeps the invariant of the admission controller.
LEMMA AdmissionInductive == Spec => []AdmissionInv
  BY AdmissionInit, AdmissionStep, PTL DEF Spec

-----------------------------------------------------------------------------
(***************************************************************************)
(* PlanPrevails needs one more invariant: a settled request goes on from   *)
(* limits that are its account's plan, and no request still to call        *)
(* state_for for that account brings others.                               *)
(***************************************************************************)

Acquiring == {"guarding", "counted", "compared"}

PlanHeld ==
    \A r \in settled :
        /\ req[r].pc \notin Bringing \cup {"new"}
        /\ req[r].pc \in Acquiring =>
              /\ OnlyPlan(req[r].account)
              /\ arc[req[r].arc].limits = plan[req[r].account]
        /\ req[r].pc = "compared" => req[r].current < plan[req[r].account].tunnels

\* A step of request r alone keeps it if r brings no other limits than before, and
\* neither r nor a state it writes to loses the plan.
LEMMA PlanHeldMoves ==
    ASSUME AdmissionInv, PlanHeld, NEW r \in Requests,
           \A q \in Requests : q # r => req'[q] = req[q],
           UNCHANGED plan, settled' \subseteq settled \cup {r},
           req'[r].pc \in Bringing =>
              \/ req'[r].limits = plan[req'[r].account]
              \/ /\ req[r].pc \in Bringing
                 /\ req'[r].limits = req[r].limits /\ req'[r].account = req[r].account,
           \A q \in settled : q # r /\ req[q].pc \in Acquiring =>
              arc'[req[q].arc].limits = plan[req[q].account],
           r \in settled' =>
              /\ req'[r].pc \notin Bringing \cup {"new"}
              /\ req'[r].pc \in Acquiring =>
                    /\ OnlyPlan(req'[r].account)
                    /\ arc'[req'[r].arc].limits = plan[req'[r].account]
              /\ req'[r].pc = "compared" => req'[r].current < plan[req'[r].account].tunnels
    PROVE  PlanHeld'
<1>1. \A a : OnlyPlan(a) => OnlyPlan(a)'
  BY DEF OnlyPlan
<1>2. settled \subseteq Requests
  BY DEF AdmissionInv, TypeOK
<1> SUFFICES ASSUME NEW q \in settled', NEW b, b = req'[q].account
             PROVE  /\ req'[q].pc \notin Bringing \cup {"new"}
                    /\ req'[q].pc \in Acquiring =>
                          OnlyPlan(b)' /\ arc'[req'[q].arc].limits = plan'[b]
                    /\ req'[q].pc = "compared" => req'[q].current < plan'[b].tunnels
  BY DEF PlanHeld, OnlyPlan
<1>3. CASE q = r
  <2>1. req'[r].pc \in Acquiring => OnlyPlan(b)
    BY <1>3
  <2> QED
    BY <1>1, <1>3, <2>1
<1>4. CASE q # r
  <2>1. q \in settled /\ q \in Requests /\ req'[q] = req[q]
    BY <1>2, <1>4
  <2>2. req[q].pc \in Acquiring => OnlyPlan(b)
    BY <2>1 DEF PlanHeld
  <2> QED
    BY <1>1, <1>4, <2>1, <2>2 DEF PlanHeld
<1> QED
  BY <1>3, <1>4

\* A request that only moves on, with the states as they are, keeps it.
LEMMA PlanHeldFrame ==
    ASSUME AdmissionInv, PlanHeld, NEW r \in Requests,
           \A q \in Requests : q # r => req'[q] = req[q],
           UNCHANGED <<plan, settled>>,
           \A x \in Arcs : arc'[x].limits = arc[x].limits,
           \/ req'[r].pc \in {"tunnel", "done"}
           \/ /\ req[r].pc \in Bringing /\ req'[r].pc \in Bringing
              /\ req'[r].limits = req[r].limits /\ req'[r].account = req[r].account
           \/ /\ req[r].pc = "new" /\ req'[r].pc \in Bringing
              /\ req'[r].limits = plan[req'[r].account]
           \/ /\ req[r].pc \in Acquiring /\ req'[r].pc \in Acquiring
              /\ req'[r].arc = req[r].arc /\ req'[r].account = req[r].account
              /\ req'[r].pc = "compared" => req'[r].current < arc[req[r].arc].limits.tunnels
    PROVE  PlanHeld'
<1>1. TypeOK /\ ArcHeld
  BY DEF AdmissionInv
<1>2. \A q \in Requests : req[q].pc \in Acquiring => req[q].arc \in Arcs
  BY <1>1 DEF TypeOK, Request, ArcHeld, Holding, Acquiring
<1>3. settled \subseteq Requests
  BY <1>1 DEF TypeOK
<1>4. \A q \in settled : req[q].pc \in Acquiring =>
         arc'[req[q].arc].limits = plan[req[q].account]
  BY <1>2, <1>3 DEF PlanHeld
<1>5. r \in settled => req[r].pc \notin Bringing \cup {"new"}
  BY DEF PlanHeld
<1>6. r \in settled /\ req[r].pc \in Acquiring =>
         OnlyPlan(req[r].account) /\ arc[req[r].arc].limits = plan[req[r].account]
  BY DEF PlanHeld
<1>7. req'[r].pc \in Bringing =>
         \/ req'[r].limits = plan[req'[r].account]
         \/ /\ req[r].pc \in Bringing
            /\ req'[r].limits = req[r].limits /\ req'[r].account = req[r].account
  BY DEF Bringing, Acquiring
<1>8. ASSUME r \in settled'
      PROVE  /\ req'[r].pc \notin Bringing \cup {"new"}
             /\ req'[r].pc \in Acquiring =>
                   /\ OnlyPlan(req'[r].account)
                   /\ arc'[req'[r].arc].limits = plan[req'[r].account]
             /\ req'[r].pc = "compared" => req'[r].current < plan[req'[r].account].tunnels
  BY <1>8, <1>2, <1>4, <1>5, <1>6 DEF Bringing, Acquiring
<1> QED
  BY <1>4, <1>7, <1>8, PlanHeldMoves

\* state_for writes the caller's limits into the state of the caller's account only.
LEMMA PlanHeldStateFor ==
    ASSUME AdmissionInv, PlanHeld, NEW r \in Requests, NEW from \in {"authenticated", "admitted"},
           NEW pc \in {"rating", "guarding"}, CallStateFor(r, from, pc),
           \/ pc = "rating" /\ UNCHANGED settled
           \/ /\ pc = "guarding"
              /\ settled' = IF OnlyPlan(req[r].account) THEN settled \cup {r} ELSE settled
    PROVE  PlanHeld'
<1>1. TypeOK /\ ArcHeld /\ OneStatePerAccount
  BY DEF AdmissionInv
<1>2. /\ UNCHANGED plan /\ req[r].pc = from /\ from \in Bringing /\ req[r] \in Request
      /\ r \notin settled
  BY <1>1 DEF CallStateFor, DatabaseUnchanged, TypeOK, PlanHeld, Bringing
<1>3. CASE StateForFails(req[r].account) /\ Over(r)
  <2>1. UNCHANGED arc /\ req'[r].pc = "done" /\ \A q \in Requests : q # r => req'[q] = req[q]
    BY <1>1, <1>3, BlankRecords DEF StateForFails, Over, TypeOK
  <2>2. settled' \subseteq settled \cup {r}
    OBVIOUS
  <2>3. \A q \in settled : req[q].pc \in Acquiring =>
           arc'[req[q].arc].limits = plan[req[q].account]
    BY <2>1 DEF PlanHeld
  <2> QED
    BY <1>2, <2>1, <2>2, <2>3, PlanHeldMoves DEF Bringing, Acquiring
<1>4. CASE \E x \in Arcs : /\ StateFor(req[r].account, req[r].limits, x)
                           /\ req' = [req EXCEPT ![r].pc = pc, ![r].arc = x]
  <2>0. PICK x \in Arcs : /\ StateFor(req[r].account, req[r].limits, x)
                          /\ req' = [req EXCEPT ![r].pc = pc, ![r].arc = x]
    BY <1>4
  <2>1. /\ states'[req[r].account] = x
        /\ \A b \in DOMAIN states' : b # req[r].account => states'[b] # x
        /\ arc'[x].limits = req[r].limits
        /\ \A y \in Arcs : y # x => arc'[y] = arc[y]
        /\ \A q \in Requests : req[q].arc # NoArc =>
              req[q].account \in DOMAIN states' /\ states'[req[q].account] = req[q].arc
    BY <1>2, <2>0, StateForFacts
  <2>2. /\ req'[r].pc = pc /\ req'[r].arc = x /\ req'[r].account = req[r].account
        /\ \A q \in Requests : q # r => req'[q] = req[q]
    <3>1. req'[r] = [req[r] EXCEPT !.pc = pc, !.arc = x] /\ req[r] \in Request
      BY <1>1, <1>2, <2>0 DEF TypeOK
    <3>2. \A q \in Requests : q # r => req'[q] = req[q]
      BY <1>1, <2>0 DEF TypeOK
    <3> QED
      BY <3>1, <3>2 DEF Request
  <2>3. OnlyPlan(req[r].account) => req[r].limits = plan[req[r].account]
    BY <1>2 DEF OnlyPlan
  <2>4. ASSUME NEW q \in settled, req[q].pc \in Acquiring
        PROVE  arc'[req[q].arc].limits = plan[req[q].account]
    <3>1. q \in Requests /\ req[q].arc \in Arcs /\ req[q].arc # NoArc
      BY <1>1, <2>4 DEF TypeOK, Request, ArcHeld, Holding, Acquiring
    <3>2. /\ OnlyPlan(req[q].account) /\ arc[req[q].arc].limits = plan[req[q].account]
      BY <2>4 DEF PlanHeld
    <3>3. CASE req[q].account = req[r].account
      BY <3>1, <3>2, <3>3, <2>1, <2>3
    <3>4. CASE req[q].account # req[r].account
      BY <3>1, <3>2, <3>4, <2>1
    <3> QED
      BY <3>3, <3>4
  <2>5. req'[r].pc \in Bringing =>
           req'[r].limits = req[r].limits /\ req'[r].account = req[r].account
    <3>1. req'[r] = [req[r] EXCEPT !.pc = pc, !.arc = x] /\ req[r] \in Request
      BY <1>1, <1>2, <2>0 DEF TypeOK
    <3> QED
      BY <3>1 DEF Request
  <2>6. ASSUME r \in settled'
        PROVE  pc = "guarding" /\ OnlyPlan(req[r].account)
    BY <1>2, <2>6
  <2>7. settled' \subseteq settled \cup {r}
    OBVIOUS
  <2> QED
    BY <1>2, <2>1, <2>2, <2>3, <2>4, <2>5, <2>6, <2>7, PlanHeldMoves DEF Bringing, Acquiring
<1> QED
  BY <1>3, <1>4 DEF CallStateFor

\* Every step keeps it; a plan that changes unsettles the requests of its account.
LEMMA PlanHeldStep ==
    ASSUME AdmissionInv, PlanHeld, [Next]_vars
    PROVE  PlanHeld'
<1>0. TypeOK /\ ArcHeld
  BY DEF AdmissionInv
<1>1. ASSUME NEW r \in Requests, RequestStep(r)
      PROVE  PlanHeld'
  <2>0. req[r] \in Request
    BY <1>0, <1>1 DEF TypeOK
  <2>1. CASE \E a \in Accounts, w \in Workspaces : Authenticate(r, a, w)
    <3>1. PICK a \in Accounts, w \in Workspaces : Authenticate(r, a, w)
      BY <2>1
    <3>2. UNCHANGED <<plan, settled, arc>> /\ \A q \in Requests : q # r => req'[q] = req[q]
      BY <3>1, <1>0 DEF Authenticate, DatabaseUnchanged, Over, TypeOK
    <3>3. CASE Over(r)
      BY <3>2, <3>3, <1>0, <1>1, BlankRecords, PlanHeldFrame DEF Over, TypeOK
    <3>4. CASE req' = [req EXCEPT ![r].pc = "authenticated", ![r].account = a,
                                  ![r].workspace = w, ![r].limits = plan[a]]
      <4>1. req'[r] = [req[r] EXCEPT !.pc = "authenticated", !.account = a,
                                     !.workspace = w, !.limits = plan[a]]
        BY <3>4, <1>0, <1>1 DEF TypeOK
      <4>2. req'[r].pc = "authenticated" /\ req'[r].account = a /\ req'[r].limits = plan[a]
        BY <4>1, <2>0 DEF Request
      <4>3. req[r].pc = "new" /\ req'[r].pc \in Bringing
        BY <3>1, <4>2 DEF Authenticate, Bringing
      <4> QED
        BY <3>2, <4>2, <4>3, <1>1, PlanHeldFrame
    <3> QED
      BY <3>1, <3>3, <3>4 DEF Authenticate
  <2>2. CASE CheckRate(r)
    BY <1>1, <2>2, PlanHeldStateFor DEF CheckRate
  <2>3. CASE TryAcquireTunnel(r)
    BY <1>1, <2>3, PlanHeldStateFor DEF TryAcquireTunnel
  <2>4. CASE RateVerdict(r)
    <3>1. UNCHANGED <<plan, settled, arc>> /\ \A q \in Requests : q # r => req'[q] = req[q]
      BY <2>4, <1>0 DEF RateVerdict, LocalStep, DatabaseUnchanged, Over, TypeOK
    <3>2. CASE Over(r)
      BY <3>1, <3>2, <1>0, <1>1, BlankRecords, PlanHeldFrame DEF Over, TypeOK
    <3>3. CASE req' = [req EXCEPT ![r].pc = "rated", ![r].arc = NoArc]
      <4>1. req'[r] = [req[r] EXCEPT !.pc = "rated", !.arc = NoArc]
        BY <3>3, <1>0, <1>1 DEF TypeOK
      <4>2. /\ req'[r].pc = "rated" /\ req'[r].account = req[r].account
            /\ req'[r].limits = req[r].limits
        BY <4>1, <2>0 DEF Request
      <4> QED
        BY <2>4, <3>1, <4>2, <1>1, PlanHeldFrame DEF RateVerdict, Bringing
    <3> QED
      BY <2>4, <3>2, <3>3 DEF RateVerdict
  <2>5. CASE AdmitRequest(r)
    <3>1. UNCHANGED <<plan, settled, arc>> /\ \A q \in Requests : q # r => req'[q] = req[q]
      BY <2>5, <1>0 DEF AdmitRequest, DatabaseUnchanged, Over, TypeOK
    <3>2. CASE Over(r)
      BY <3>1, <3>2, <1>0, <1>1, BlankRecords, PlanHeldFrame DEF Over, TypeOK
    <3>3. CASE req' = [req EXCEPT ![r].pc = "admitted"]
      <4>1. req'[r] = [req[r] EXCEPT !.pc = "admitted"]
        BY <3>3, <1>0, <1>1 DEF TypeOK
      <4>2. /\ req'[r].pc = "admitted" /\ req'[r].account = req[r].account
            /\ req'[r].limits = req[r].limits
        BY <4>1, <2>0 DEF Request
      <4> QED
        BY <2>5, <3>1, <4>2, <1>1, PlanHeldFrame DEF AdmitRequest, Bringing
    <3> QED
      BY <2>5, <3>2, <3>3 DEF AdmitRequest
  <2>6. CASE LoadCounter(r)
    <3>1. UNCHANGED <<plan, settled, arc>> /\ \A q \in Requests : q # r => req'[q] = req[q]
      BY <2>6, <1>0 DEF LoadCounter, LocalStep, DatabaseUnchanged, TypeOK
    <3>2. req'[r] = [req[r] EXCEPT !.pc = "counted",
                                   !.current = arc[req[r].arc].active_tunnels]
      BY <2>6, <1>0, <1>1 DEF LoadCounter, TypeOK
    <3>3. /\ req'[r].pc = "counted" /\ req'[r].account = req[r].account
          /\ req'[r].arc = req[r].arc
      BY <3>2, <2>0 DEF Request
    <3> QED
      BY <2>6, <3>1, <3>3, <1>1, PlanHeldFrame DEF LoadCounter, Acquiring
  <2>7. CASE CompareLimit(r)
    <3>1. UNCHANGED <<plan, settled, arc>> /\ \A q \in Requests : q # r => req'[q] = req[q]
      BY <2>7, <1>0 DEF CompareLimit, LocalStep, DatabaseUnchanged, Over, TypeOK
    <3>2. CASE Over(r)
      BY <3>1, <3>2, <1>0, <1>1, BlankRecords, PlanHeldFrame DEF Over, TypeOK
    <3>3. CASE /\ req[r].current < arc[req[r].arc].limits.tunnels
               /\ req' = [req EXCEPT ![r].pc = "compared"]
      <4>1. req'[r] = [req[r] EXCEPT !.pc = "compared"]
        BY <3>3, <1>0, <1>1 DEF TypeOK
      <4>2. /\ req'[r].pc = "compared" /\ req'[r].account = req[r].account
            /\ req'[r].arc = req[r].arc /\ req'[r].current = req[r].current
        BY <4>1, <2>0 DEF Request
      <4> QED
        BY <2>7, <3>1, <3>3, <4>2, <1>1, PlanHeldFrame DEF CompareLimit, Acquiring
    <3> QED
      BY <2>7, <3>2, <3>3 DEF CompareLimit
  <2>8. CASE CompareExchange(r)
    <3>1. UNCHANGED <<plan, settled>> /\ \A q \in Requests : q # r => req'[q] = req[q]
      BY <2>8, <1>0 DEF CompareExchange, LocalStep, DatabaseUnchanged, TypeOK
    <3>2. req[r].pc = "compared" /\ req[r].arc \in Arcs
      BY <2>8, <1>0, <2>0, <1>1 DEF CompareExchange, ArcHeld, Holding, Request
    <3>3. CASE req' = [req EXCEPT ![r].pc = "guarding", ![r].current = 0] /\ UNCHANGED arc
      <4>0. PICK n \in Nat : n = 0
        OBVIOUS
      <4>1. req'[r] = [req[r] EXCEPT !.pc = "guarding", !.current = n]
        BY <3>3, <4>0, <1>0, <1>1 DEF TypeOK
      <4>2. /\ req'[r].pc = "guarding" /\ req'[r].account = req[r].account
            /\ req'[r].arc = req[r].arc
        BY <4>1, <2>0 DEF Request
      <4> QED
        BY <3>1, <3>2, <3>3, <4>2, <1>1, PlanHeldFrame DEF Acquiring
    <3>4. CASE /\ arc' = [arc EXCEPT ![req[r].arc].active_tunnels = req[r].current + 1]
               /\ req' = [req EXCEPT ![r].pc = "tunnel", ![r].current = 0]
      <4>1. req'[r].pc = "tunnel"
        BY <3>4, <1>0, <1>1, <2>0 DEF TypeOK, Request
      <4>2. \A x \in Arcs : arc'[x].limits = arc[x].limits
        BY <3>2, <3>4, <1>0 DEF TypeOK, AdmissionState
      <4> QED
        BY <3>1, <4>1, <4>2, <1>1, PlanHeldFrame
    <3> QED
      BY <2>8, <3>3, <3>4 DEF CompareExchange
  <2>9. CASE DropGuard(r)
    <3>1. UNCHANGED <<plan, settled>> /\ \A q \in Requests : q # r => req'[q] = req[q]
      BY <2>9, <1>0 DEF DropGuard, LocalStep, DatabaseUnchanged, Over, TypeOK
    <3>2. req'[r].pc = "done"
      BY <2>9, <1>0, <1>1, BlankRecords DEF DropGuard, Over, TypeOK
    <3>3. \A x \in Arcs : arc'[x].limits = arc[x].limits
      BY <2>9, <1>0 DEF DropGuard, TypeOK, AdmissionState
    <3> QED
      BY <3>1, <3>2, <3>3, <1>1, PlanHeldFrame
  <2> QED
    BY <1>1, <2>1, <2>2, <2>3, <2>4, <2>5, <2>6, <2>7, <2>8, <2>9 DEF RequestStep
<1>2. ASSUME NEW a \in Accounts, NEW limits \in Limits, UpdatePlan(a, limits)
      PROVE  PlanHeld'
  <2>1. /\ UNCHANGED <<arc, req>> /\ settled' = {r \in settled : req[r].account # a}
        /\ \A b \in Accounts : b # a => plan'[b] = plan[b]
    BY <1>2, <1>0 DEF UpdatePlan, TypeOK
  <2>2. \A b \in Accounts : b # a /\ OnlyPlan(b) => OnlyPlan(b)'
    BY <2>1 DEF OnlyPlan
  <2>3. \A r \in settled : req[r].account \in Accounts
    BY <1>0 DEF TypeOK, Request
  <2> SUFFICES ASSUME NEW r \in settled', NEW b, b = req'[r].account
               PROVE  /\ req'[r].pc \notin Bringing \cup {"new"}
                      /\ req'[r].pc \in Acquiring =>
                            OnlyPlan(b)' /\ arc'[req'[r].arc].limits = plan'[b]
                      /\ req'[r].pc = "compared" => req'[r].current < plan'[b].tunnels
    BY DEF PlanHeld, OnlyPlan
  <2>4. r \in settled /\ b = req[r].account /\ b # a /\ b \in Accounts /\ plan'[b] = plan[b]
    BY <2>1, <2>3
  <2> QED
    BY <2>1, <2>2, <2>4 DEF PlanHeld
<1>3. CASE ProcessEnd
  BY <1>3 DEF ProcessEnd, PlanHeld
<1>4. CASE UNCHANGED <<plan, arc, req, settled>>
  BY <1>4 DEF PlanHeld, OnlyPlan
<1>5. ASSUME NEW a \in Accounts, NEW new \in {"active", "suspended"}, SetStatus(a, new)
      PROVE  UNCHANGED <<plan, arc, req, settled>>
  BY <1>5 DEF SetStatus
<1>6. CASE UNCHANGED vars
  BY <1>4, <1>6 DEF vars
<1> QED
  BY <1>1, <1>2, <1>3, <1>4, <1>5, <1>6 DEF Next

\* Only a swap opens a tunnel, and the count it leaves is one more than it compared.
LEMMA SwapOpens ==
    ASSUME AdmissionInv, [Next]_vars, NEW r \in Requests, NEW a \in Accounts,
           a = req[r].account, req[r].pc = "compared", req'[r].pc = "tunnel"
    PROVE  req[r].current \in Nat /\ Cardinality(Tunnels(a)') = req[r].current + 1
<1>0. TypeOK /\ ArcHeld /\ OneStatePerAccount /\ GuardsCounted
  BY DEF AdmissionInv
<1>1. req[r] \in Request /\ req[r].current \in Nat
  BY <1>0 DEF TypeOK, Request
<1>2. ASSUME NEW q \in Requests, RequestStep(q)
      PROVE  q = r /\ CompareExchange(r)
  <2>1. \A p \in Requests : p # q => req'[p] = req[p]
    BY <1>0, <1>2 DEF RequestStep, Authenticate, CheckRate, RateVerdict, AdmitRequest,
       TryAcquireTunnel, CallStateFor, LoadCounter, CompareLimit, CompareExchange,
       DropGuard, Over, TypeOK
  <2>2. q = r
    BY <2>1
  <2> QED
    BY <1>2, <2>2 DEF RequestStep, Authenticate, CheckRate, RateVerdict, AdmitRequest,
       TryAcquireTunnel, CallStateFor, LoadCounter, CompareLimit, DropGuard
<1>3. CompareExchange(r)
  <2>1. ASSUME NEW b \in Accounts, NEW limits \in Limits, UpdatePlan(b, limits) PROVE FALSE
    BY <2>1 DEF UpdatePlan
  <2>2. ASSUME NEW b \in Accounts, NEW new \in {"active", "suspended"}, SetStatus(b, new)
        PROVE  FALSE
    BY <2>2 DEF SetStatus
  <2>3. CASE ProcessEnd
    BY <2>3, BlankRecords DEF ProcessEnd
  <2>4. CASE UNCHANGED vars
    BY <2>4 DEF vars
  <2> QED
    BY <1>2, <2>1, <2>2, <2>3, <2>4 DEF Next
<1>4. /\ Swap(r) /\ \A q \in Requests : q # r => req'[q] = req[q]
      /\ req' = [req EXCEPT ![r].pc = "tunnel", ![r].current = 0]
  <2>1. req'[r].pc # "guarding"
    OBVIOUS
  <2>2. CASE req' = [req EXCEPT ![r].pc = "guarding", ![r].current = 0]
    <3>0. PICK n \in Nat : n = 0
      OBVIOUS
    <3>1. req'[r] = [req[r] EXCEPT !.pc = "guarding", !.current = n]
      BY <2>2, <3>0, <1>0 DEF TypeOK
    <3>2. req'[r].pc = "guarding"
      BY <3>1, <1>1 DEF Request
    <3> QED
      BY <2>1, <3>2
  <2> QED
    BY <1>0, <1>3, <2>2 DEF CompareExchange, TypeOK
<1>5. req'[r].account = a
  <2>0. PICK n \in Nat : n = 0
    OBVIOUS
  <2>1. req'[r] = [req[r] EXCEPT !.pc = "tunnel", !.current = n]
    BY <1>0, <1>4, <2>0 DEF TypeOK
  <2> QED
    BY <2>1, <1>1 DEF Request
<1>6. Cardinality(Tunnels(a)) = req[r].current
  <2>1. req[r].arc # NoArc
    BY <1>0 DEF ArcHeld, Holding
  <2> QED
    BY <1>0, <1>4, <2>1 DEF Swap, OneStatePerAccount, GuardsCounted
<1>7. Tunnels(a)' = Tunnels(a) \cup {r} /\ r \notin Tunnels(a)
  BY <1>4, <1>5 DEF Tunnels
<1>8. IsFiniteSet(Tunnels(a))
  BY TunnelsFinite
<1> QED
  BY <1>1, <1>6, <1>7, <1>8, FS_AddElement

\* Every behaviour keeps what settled requests rely on.
LEMMA PlanHeldInductive == Spec => []PlanHeld
<1>1. Init => PlanHeld
  BY DEF Init, PlanHeld
<1>2. AdmissionInv /\ PlanHeld /\ [Next]_vars => PlanHeld'
  BY PlanHeldStep
<1> QED
  BY <1>1, <1>2, AdmissionInductive, PTL DEF Spec

-----------------------------------------------------------------------------

\* state_for never evicts a state a caller has fetched: between the call and the
\* last use, every caller's Arc is the one in the map for its account, whatever the
\* size of the cache and the order of the calls.
THEOREM AccountsShareOneState == Spec => []OneStatePerAccount
<1>1. AdmissionInv => OneStatePerAccount
  BY DEF AdmissionInv
<1> QED
  BY <1>1, AdmissionInductive, PTL

\* active_tunnels of a cached account is the number of AccountTunnelGuards alive,
\* so the counter neither leaks a tunnel nor wraps when a guard is dropped.
THEOREM CountersExact == Spec => []GuardsCounted
<1>1. AdmissionInv => GuardsCounted
  BY DEF AdmissionInv
<1> QED
  BY <1>1, AdmissionInductive, PTL

\* However try_acquire_tunnel calls race with each other, with evictions and with plan
\* changes, an account has at most as many tunnels as some plan it has had allows.
THEOREM TunnelLimitHolds == Spec => []TunnelLimitRespected
<1>1. AdmissionInv => TunnelLimitRespected
  BY DEF AdmissionInv
<1> QED
  BY <1>1, AdmissionInductive, PTL

\* record_usage_if_allowed never takes a workspace past a request limit its account
\* has had, across restarts and with identities that carry old limits.
THEOREM WorkspaceQuotaHolds == Spec => []WorkspaceQuotaRespected
<1>1. AdmissionInv => WorkspaceQuotaRespected
  BY DEF AdmissionInv
<1> QED
  BY <1>1, AdmissionInductive, PTL

\* A changed plan wins over the limits that older requests wrote into the shared state:
\* once no request that carries others is still to call state_for, whoever calls
\* try_acquire_tunnel opens a tunnel only within the plan in force, however these
\* calls race and whatever is evicted meanwhile.
THEOREM PlansPrevail == Spec => PlanPrevails
<1>1. ASSUME AdmissionInv, PlanHeld, [Next]_vars
      PROVE  \A a \in Accounts : \A r \in settled :
                (req[r].account = a /\ req[r].pc = "compared" /\ req'[r].pc = "tunnel")
                    => Cardinality(Tunnels(a)') <= plan[a].tunnels
  <2> SUFFICES ASSUME NEW a \in Accounts, NEW r \in settled, req[r].account = a,
                      req[r].pc = "compared", req'[r].pc = "tunnel"
               PROVE  Cardinality(Tunnels(a)') <= plan[a].tunnels
    OBVIOUS
  <2>1. r \in Requests /\ plan[a].tunnels \in Nat
    BY <1>1, LimitsPositive DEF AdmissionInv, TypeOK
  <2>2. req[r].current < plan[a].tunnels
    BY <1>1 DEF PlanHeld
  <2>3. req[r].current \in Nat /\ Cardinality(Tunnels(a)') = req[r].current + 1
    BY <1>1, <2>1, SwapOpens
  <2> QED
    BY <2>1, <2>2, <2>3
<1> QED
  BY <1>1, AdmissionInductive, PlanHeldInductive, PTL DEF Spec, PlanPrevails

=============================================================================

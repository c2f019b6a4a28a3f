--------------------------- MODULE AccountsProofs ---------------------------
(***************************************************************************)
(* The account database for any number of accounts, workspaces, keys,      *)
(* devices and concurrent callers: rows and grants stay consistent, a      *)
(* credential never changes hands and a revocation is final.               *)
(***************************************************************************)
EXTENDS Accounts, FiniteSetTheorems, TLAPS

\* UNIQUE, over the rows that exist.
Unique ==
    /\ \A j, k \in DOMAIN keys : keys[j].public = keys[k].public => j = k
    /\ \A d, e \in DOMAIN devices : devices[d].fingerprint = devices[e].fingerprint => d = e

\* Every credential was provisioned for a workspace of its account.
Scoped ==
    /\ \A k \in DOMAIN keys : RequireWorkspaceScope(keys[k].account, keys[k].workspace)
    /\ \A d \in DOMAIN devices :
          RequireWorkspaceScope(devices[d].account, devices[d].workspace)

\* An identity names the rows that what was presented matched.
GrantsNamed ==
    \A g \in grants : /\ keys[g.key].public = g.public
                      /\ devices[g.device].fingerprint = g.fingerprint

OneActive ==
    \A j, k \in DOMAIN keys :
        keys[j].root = keys[k].root /\ keys[j].status = "active" /\ keys[k].status = "active"
            => j = k

\* A call in progress has an attempt left.
CallsLive == \A c \in Callers : calls[c].op # "idle" => calls[c].left # 0

AccountsInv ==
    /\ RowsTyped /\ CallsLive /\ DOMAIN limits = DOMAIN accounts
    /\ Unique /\ Scoped /\ PlanIntact
    /\ GrantsScoped /\ GrantsNamed /\ OneActive

-----------------------------------------------------------------------------
(***************************************************************************)
(* Tables are sequences of rows.                                           *)
(***************************************************************************)

\* INSERT adds one row at the end.
LEMMA RowInsert ==
    ASSUME NEW S, NEW s \in Seq(S), NEW T, S \subseteq T, NEW x \in T
    PROVE  /\ Append(s, x) \in Seq(T)
           /\ DOMAIN Append(s, x) = DOMAIN s \cup {Len(s) + 1}
           /\ Len(s) + 1 \notin DOMAIN s
           /\ Append(s, x)[Len(s) + 1] = x
           /\ \A i \in DOMAIN s : Append(s, x)[i] = s[i]
<1>1. Len(s) \in Nat /\ DOMAIN s = 1..Len(s)
  OBVIOUS
<1>2. s \in Seq(T)
  OBVIOUS
<1>3. Append(s, x) \in Seq(T) /\ Len(Append(s, x)) = Len(s) + 1
  BY <1>2
<1>4. DOMAIN Append(s, x) = 1..(Len(s) + 1)
  BY <1>3
<1> QED
  BY <1>1, <1>2, <1>3, <1>4

\* UPDATE replaces one row.
LEMMA RowUpdate ==
    ASSUME NEW S, NEW s \in Seq(S), NEW i \in DOMAIN s, NEW y \in S
    PROVE  /\ [s EXCEPT ![i] = y] \in Seq(S)
           /\ DOMAIN [s EXCEPT ![i] = y] = DOMAIN s
           /\ Len([s EXCEPT ![i] = y]) = Len(s)
           /\ [s EXCEPT ![i] = y][i] = y
           /\ \A j \in DOMAIN s : j # i => [s EXCEPT ![i] = y][j] = s[j]
  OBVIOUS

\* A row keeps its type when the tables it refers to grow.
LEMMA RowsWiden ==
    ASSUME NEW S, NEW T, S \subseteq T, NEW s \in Seq(S)
    PROVE  s \in Seq(T)
  OBVIOUS

\* Rows are only added, so a row that was well typed stays so.
LEMMA TypesGrow ==
    ASSUME DOMAIN accounts \subseteq DOMAIN accounts', DOMAIN workspaces \subseteq DOMAIN workspaces',
           DOMAIN keys \subseteq DOMAIN keys', DOMAIN devices \subseteq DOMAIN devices'
    PROVE  Workspace \subseteq Workspace' /\ ApiKey \subseteq ApiKey' /\ Device \subseteq Device'
           /\ Grant \subseteq Grant'
  BY DEF Workspace, ApiKey, Device, Grant

\* The rows of a typed database.
LEMMA RowFacts ==
    ASSUME RowsTyped
    PROVE  /\ \A a \in DOMAIN accounts : accounts[a] \in Account
           /\ \A w \in DOMAIN workspaces : workspaces[w] \in Workspace
           /\ \A k \in DOMAIN keys : keys[k] \in ApiKey
           /\ \A d \in DOMAIN devices : devices[d] \in Device
  BY DEF RowsTyped

\* Empty tables are consistent.
LEMMA AccountsInit == Init => AccountsInv
<1> SUFFICES ASSUME Init PROVE AccountsInv
  OBVIOUS
<1>1. /\ DOMAIN accounts = {} /\ DOMAIN limits = {} /\ DOMAIN workspaces = {}
      /\ DOMAIN keys = {} /\ DOMAIN devices = {} /\ grants = {}
  BY DEF Init
<1>2. Idle \in Call
  <2>1. 0 \in 0..Attempts
    BY AccountsAssumption
  <2> QED
    BY <2>1 DEF Idle, Call
<1>3. RowsTyped
  <2>1. calls \in [Callers -> Call] /\ updates \in 0..MaxUpdates
    BY <1>2, AccountsAssumption DEF Init
  <2>2. limits \in [DOMAIN limits -> Limit]
    BY DEF Init
  <2>3. accounts \in Seq(Account) /\ workspaces \in Seq(Workspace) /\ keys \in Seq(ApiKey)
        /\ devices \in Seq(Device)
    BY DEF Init
  <2> QED
    BY <1>1, <2>1, <2>2, <2>3 DEF RowsTyped
<1>4. CallsLive
  BY DEF Init, CallsLive, Idle
<1> QED
  BY <1>1, <1>3, <1>4 DEF AccountsInv, Unique, Scoped, PlanIntact, GrantsScoped, GrantsNamed, OneActive

-----------------------------------------------------------------------------
(***************************************************************************)
(* What a statement may do to one table and leave the others consistent.   *)
(***************************************************************************)

\* The tables that grants and credentials refer to never lose a row or its owner.
Kept ==
    /\ DOMAIN accounts \subseteq DOMAIN accounts'
    /\ DOMAIN workspaces \subseteq DOMAIN workspaces'
    /\ DOMAIN keys \subseteq DOMAIN keys'
    /\ DOMAIN devices \subseteq DOMAIN devices'
    /\ \A w \in DOMAIN workspaces : workspaces'[w].account = workspaces[w].account
    /\ \A k \in DOMAIN keys : /\ keys'[k].account = keys[k].account
                              /\ keys'[k].workspace = keys[k].workspace
                              /\ keys'[k].public = keys[k].public
    /\ \A d \in DOMAIN devices : /\ devices'[d].account = devices[d].account
                                 /\ devices'[d].workspace = devices[d].workspace
                                 /\ devices'[d].fingerprint = devices[d].fingerprint

\* What was granted stays true while rows are kept.
LEMMA GrantsKept ==
    ASSUME AccountsInv, Kept, grants' = grants
    PROVE  grants' \subseteq Grant' /\ GrantsScoped' /\ GrantsNamed'
<1>1. grants \subseteq Grant /\ GrantsScoped /\ GrantsNamed
  BY DEF AccountsInv, RowsTyped
<1>2. Grant \subseteq Grant'
  BY TypesGrow DEF Kept
<1>3. \A g \in grants : g.key \in DOMAIN keys /\ g.device \in DOMAIN devices /\ g.workspace \in DOMAIN workspaces
  BY <1>1 DEF Grant
<1>4. GrantsScoped'
  BY <1>1, <1>3 DEF GrantsScoped, Kept
<1>5. GrantsNamed'
  BY <1>1, <1>3 DEF GrantsNamed, Kept
<1> QED
  BY <1>1, <1>2, <1>4, <1>5

\* A statement on accounts and limits.
LEMMA AccountRows ==
    ASSUME AccountsInv, UNCHANGED <<workspaces, keys, devices, calls, grants>>,
           accounts' \in Seq(Account), DOMAIN accounts \subseteq DOMAIN accounts',
           limits' \in [DOMAIN accounts' -> Limit], PlanIntact', updates' \in 0..MaxUpdates
    PROVE  AccountsInv'
<1>0. RowsTyped /\ CallsLive /\ Unique /\ Scoped /\ OneActive
  BY DEF AccountsInv
<1>1. Kept
  BY DEF Kept
<1>2. grants' \subseteq Grant' /\ GrantsScoped' /\ GrantsNamed'
  BY <1>1, GrantsKept
<1>3. Workspace \subseteq Workspace' /\ ApiKey \subseteq ApiKey' /\ Device \subseteq Device'
  BY <1>1, TypesGrow DEF Kept
<1>4. workspaces' \in Seq(Workspace') /\ keys' \in Seq(ApiKey') /\ devices' \in Seq(Device')
  BY <1>0, <1>3, RowsWiden DEF RowsTyped
<1>5. DOMAIN limits' = DOMAIN accounts'
  OBVIOUS
<1>6. RowsTyped'
  BY <1>0, <1>2, <1>4, <1>5 DEF RowsTyped
<1>7. Unique' /\ Scoped' /\ OneActive' /\ CallsLive'
  BY <1>0 DEF CallsLive, Unique, Scoped, OneActive, RequireWorkspaceScope
<1> QED
  BY <1>2, <1>5, <1>6, <1>7 DEF AccountsInv

\* A statement on workspaces.
LEMMA WorkspaceRows ==
    ASSUME AccountsInv, UNCHANGED <<accounts, limits, keys, devices, calls, grants>>,
           workspaces' \in Seq(Workspace), DOMAIN workspaces \subseteq DOMAIN workspaces',
           \A w \in DOMAIN workspaces : workspaces'[w].account = workspaces[w].account,
           updates' \in 0..MaxUpdates
    PROVE  AccountsInv'
<1>0. RowsTyped /\ CallsLive /\ Unique /\ Scoped /\ OneActive /\ PlanIntact /\ DOMAIN limits = DOMAIN accounts
  BY DEF AccountsInv
<1>1. Kept
  BY DEF Kept
<1>2. grants' \subseteq Grant' /\ GrantsScoped' /\ GrantsNamed'
  BY <1>1, GrantsKept
<1>3. ApiKey \subseteq ApiKey' /\ Device \subseteq Device'
  BY <1>1, TypesGrow DEF Kept
<1>4. keys' \in Seq(ApiKey') /\ devices' \in Seq(Device')
  BY <1>0, <1>3, RowsWiden DEF RowsTyped
<1>5. Workspace' = Workspace
  BY DEF Workspace
<1>6. RowsTyped'
  BY <1>0, <1>2, <1>4, <1>5 DEF RowsTyped
<1>7. Unique' /\ Scoped' /\ OneActive' /\ PlanIntact' /\ CallsLive'
  BY <1>0 DEF CallsLive, Unique, Scoped, OneActive, PlanIntact, RequireWorkspaceScope
<1> QED
  BY <1>0, <1>2, <1>6, <1>7 DEF AccountsInv

\* A statement on API keys.
LEMMA KeyRows ==
    ASSUME AccountsInv, UNCHANGED <<accounts, limits, workspaces, devices, grants, updates>>,
           keys' \in Seq(ApiKey'), Kept, calls' \in [Callers -> Call], CallsLive',
           \A j, k \in DOMAIN keys' : keys'[j].public = keys'[k].public => j = k,
           \A k \in DOMAIN keys' : RequireWorkspaceScope(keys'[k].account, keys'[k].workspace),
           OneActive'
    PROVE  AccountsInv'
<1>0. RowsTyped /\ CallsLive /\ Unique /\ Scoped /\ PlanIntact /\ DOMAIN limits = DOMAIN accounts
  BY DEF AccountsInv
<1>1. grants' \subseteq Grant' /\ GrantsScoped' /\ GrantsNamed'
  BY GrantsKept
<1>2. Workspace' = Workspace /\ Device' = Device
  BY DEF Workspace, Device
<1>3. RowsTyped'
  BY <1>0, <1>1, <1>2 DEF RowsTyped
<1>4. Unique' /\ Scoped' /\ PlanIntact'
  BY <1>0 DEF Unique, Scoped, PlanIntact, RequireWorkspaceScope
<1> QED
  BY <1>0, <1>1, <1>3, <1>4 DEF AccountsInv

\* A statement on device credentials.
LEMMA DeviceRows ==
    ASSUME AccountsInv, UNCHANGED <<accounts, limits, workspaces, keys, calls, grants, updates>>,
           devices' \in Seq(Device), Kept,
           \A d, e \in DOMAIN devices' : devices'[d].fingerprint = devices'[e].fingerprint => d = e,
           \A d \in DOMAIN devices' : RequireWorkspaceScope(devices'[d].account, devices'[d].workspace)
    PROVE  AccountsInv'
<1>0. RowsTyped /\ CallsLive /\ Unique /\ Scoped /\ PlanIntact /\ OneActive /\ DOMAIN limits = DOMAIN accounts
  BY DEF AccountsInv
<1>1. grants' \subseteq Grant' /\ GrantsScoped' /\ GrantsNamed'
  BY GrantsKept
<1>2. Workspace' = Workspace /\ ApiKey' = ApiKey /\ Device' = Device
  BY DEF Workspace, ApiKey, Device
<1>3. RowsTyped'
  BY <1>0, <1>1, <1>2 DEF RowsTyped
<1>4. Unique' /\ Scoped' /\ PlanIntact' /\ OneActive' /\ CallsLive'
  BY <1>0 DEF CallsLive, Unique, Scoped, PlanIntact, OneActive, RequireWorkspaceScope
<1> QED
  BY <1>0, <1>1, <1>3, <1>4 DEF AccountsInv

\* A step that stores nothing.
LEMMA NoRows ==
    ASSUME AccountsInv, UNCHANGED <<tables, grants, updates>>, calls' \in [Callers -> Call], CallsLive'
    PROVE  AccountsInv'
<1>0. RowsTyped /\ CallsLive /\ Unique /\ Scoped /\ PlanIntact /\ OneActive /\ DOMAIN limits = DOMAIN accounts
  BY DEF AccountsInv
<1>1. UNCHANGED <<accounts, limits, workspaces, keys, devices>>
  BY DEF tables
<1>2. grants' \subseteq Grant' /\ GrantsScoped' /\ GrantsNamed'
  BY <1>1, GrantsKept DEF Kept
<1>3. Workspace' = Workspace /\ ApiKey' = ApiKey /\ Device' = Device
  BY <1>1 DEF Workspace, ApiKey, Device
<1>4. RowsTyped'
  BY <1>0, <1>1, <1>2, <1>3 DEF RowsTyped
<1>5. Unique' /\ Scoped' /\ PlanIntact' /\ OneActive'
  BY <1>0, <1>1 DEF Unique, Scoped, PlanIntact, OneActive, RequireWorkspaceScope
<1> QED
  BY <1>0, <1>1, <1>2, <1>4, <1>5 DEF AccountsInv

-----------------------------------------------------------------------------
(***************************************************************************)
(* The operations.                                                         *)
(***************************************************************************)

\* What an administrator may offer is a plan with its limits.
LEMMA OfferTyped ==
    ASSUME NEW o \in Offers
    PROVE  o.plan \in Plan /\ o.limits \in Limit /\ [plan |-> o.plan, limits |-> o.limits] \in Offers
  BY AccountsAssumption DEF Plan, Limit

\* An update that is counted stays within the bound.
LEMMA Counted == ASSUME RowsTyped, CountUpdate PROVE updates' \in 0..MaxUpdates
  BY AccountsAssumption DEF RowsTyped, CountUpdate

\* create_account stores both rows of one offer, or neither.
LEMMA StepCreateAccount ==
    ASSUME AccountsInv, NEW email \in Emails, NEW stripe \in StripeIds \cup {NoStripe},
           NEW o \in Offers, NEW stored \in BOOLEAN, CreateAccount(email, stripe, o, stored)
    PROVE  AccountsInv'
<1>0. RowsTyped /\ PlanIntact /\ DOMAIN limits = DOMAIN accounts
  BY DEF AccountsInv
<1>1. UNCHANGED <<workspaces, keys, devices, calls, grants, updates>> /\ updates \in 0..MaxUpdates
  BY <1>0 DEF CreateAccount, RowsTyped
<1>2. accounts \in Seq(Account) /\ limits \in [DOMAIN accounts -> Limit]
  BY <1>0 DEF RowsTyped
<1>3. CASE UNCHANGED <<accounts, limits>>
  <2>1. PlanIntact'
    BY <1>0, <1>3 DEF PlanIntact
  <2> QED
    BY <1>1, <1>2, <1>3, <2>1, AccountRows
<1>4. CASE ~UNCHANGED <<accounts, limits>>
  <2> DEFINE n == Len(accounts) + 1
             row == [email |-> email, stripe |-> stripe, plan |-> o.plan, status |-> "active"]
  <2>1. /\ accounts' = Append(accounts, row)
        /\ limits' = [a \in DOMAIN limits \cup {n} |-> IF a = n THEN o.limits ELSE limits[a]]
    BY <1>4 DEF CreateAccount
  <2>2. row \in Account /\ row.plan = o.plan
    BY OfferTyped DEF Account, Status
  <2> HIDE DEF row
  <2>3. /\ accounts' \in Seq(Account) /\ DOMAIN accounts' = DOMAIN accounts \cup {n}
        /\ n \notin DOMAIN accounts /\ accounts'[n] = row
        /\ \A a \in DOMAIN accounts : accounts'[a] = accounts[a]
    BY <1>2, <2>1, <2>2, RowInsert
  <2> HIDE DEF n
  <2>4. limits' \in [DOMAIN accounts' -> Limit]
    BY <1>0, <1>2, <2>1, <2>3, OfferTyped
  <2>5. PlanIntact'
    <3> SUFFICES ASSUME NEW a \in DOMAIN accounts'
                 PROVE  [plan |-> accounts'[a].plan, limits |-> limits'[a]] \in Offers
      BY DEF PlanIntact
    <3>1. CASE a = n
      BY <2>1, <2>2, <2>3, <3>1, OfferTyped
    <3>2. CASE a # n
      <4>1. a \in DOMAIN accounts /\ accounts'[a] = accounts[a] /\ limits'[a] = limits[a]
        BY <1>0, <2>1, <2>3, <3>2
      <4> QED
        BY <1>0, <4>1 DEF PlanIntact
    <3> QED
      BY <3>1, <3>2
  <2> QED
    BY <1>1, <2>3, <2>4, <2>5, AccountRows
<1> QED
  BY <1>3, <1>4

\* set_account_status, set_stripe_customer_id and update_account_plan_and_limits.
LEMMA StepAccountUpdate ==
    ASSUME AccountsInv, NEW a \in DOMAIN accounts,
           \/ \E status \in Status : SetAccountStatus(a, status)
           \/ \E o \in Offers, stored \in BOOLEAN : UpdatePlan(a, o, stored)
           \/ \E stripe \in StripeIds \cup {NoStripe} : SetStripe(a, stripe)
    PROVE  AccountsInv'
<1>0. RowsTyped /\ PlanIntact /\ DOMAIN limits = DOMAIN accounts
  BY DEF AccountsInv
<1>1. UNCHANGED <<workspaces, keys, devices, calls, grants>> /\ updates' \in 0..MaxUpdates
  BY <1>0, Counted DEF SetAccountStatus, UpdatePlan, SetStripe
<1>2. accounts \in Seq(Account) /\ limits \in [DOMAIN accounts -> Limit] /\ accounts[a] \in Account
  BY <1>0 DEF RowsTyped
<1>3. ASSUME NEW row \in Account, accounts' = [accounts EXCEPT ![a] = row], limits' \in [DOMAIN accounts -> Limit],
             \A b \in DOMAIN accounts : b # a => limits'[b] = limits[b],
             [plan |-> row.plan, limits |-> limits'[a]] \in Offers
      PROVE  AccountsInv'
  <2>1. /\ accounts' \in Seq(Account) /\ DOMAIN accounts' = DOMAIN accounts /\ accounts'[a] = row
        /\ \A b \in DOMAIN accounts : b # a => accounts'[b] = accounts[b]
    BY <1>2, <1>3, RowUpdate
  <2>2. PlanIntact'
    BY <1>0, <1>3, <2>1 DEF PlanIntact
  <2> QED
    BY <1>1, <1>3, <2>1, <2>2, AccountRows
<1>4. [plan |-> accounts[a].plan, limits |-> limits[a]] \in Offers
  BY <1>0 DEF PlanIntact
<1>5. CASE UNCHANGED <<accounts, limits>>
  <2>1. PlanIntact'
    BY <1>0, <1>5 DEF PlanIntact
  <2> QED
    BY <1>1, <1>2, <1>5, <2>1, AccountRows
<1>6. CASE \E status \in Status : SetAccountStatus(a, status)
  <2> PICK status \in Status : SetAccountStatus(a, status)
    BY <1>6
  <2> DEFINE row == [accounts[a] EXCEPT !.status = status]
  <2>1. row \in Account /\ row.plan = accounts[a].plan
    BY <1>2 DEF Account
  <2>2. accounts' = [accounts EXCEPT ![a] = row] /\ limits' = limits
    BY DEF SetAccountStatus
  <2> HIDE DEF row
  <2> QED
    BY <1>2, <1>3, <1>4, <2>1, <2>2
<1>7. CASE \E stripe \in StripeIds \cup {NoStripe} : SetStripe(a, stripe)
  <2> PICK stripe \in StripeIds \cup {NoStripe} : SetStripe(a, stripe)
    BY <1>7
  <2> DEFINE row == [accounts[a] EXCEPT !.stripe = stripe]
  <2>1. row \in Account /\ row.plan = accounts[a].plan
    BY <1>2 DEF Account
  <2>2. accounts' = [accounts EXCEPT ![a] = row] /\ limits' = limits
    BY DEF SetStripe
  <2> HIDE DEF row
  <2> QED
    BY <1>2, <1>3, <1>4, <2>1, <2>2
<1>8. CASE \E o \in Offers, stored \in BOOLEAN : UpdatePlan(a, o, stored)
  <2> PICK o \in Offers, stored \in BOOLEAN : UpdatePlan(a, o, stored)
    BY <1>8
  <2>1. CASE accounts' = [accounts EXCEPT ![a].plan = o.plan] /\ limits' = [limits EXCEPT ![a] = o.limits]
    <3> DEFINE row == [accounts[a] EXCEPT !.plan = o.plan]
    <3>1. row \in Account /\ row.plan = o.plan
      BY <1>2, OfferTyped DEF Account
    <3>2. accounts' = [accounts EXCEPT ![a] = row]
      BY <2>1
    <3> HIDE DEF row
    <3>3. /\ limits' \in [DOMAIN accounts -> Limit] /\ limits'[a] = o.limits
          /\ \A b \in DOMAIN accounts : b # a => limits'[b] = limits[b]
      BY <1>2, <2>1, OfferTyped
    <3> QED
      BY <1>3, <3>1, <3>2, <3>3, OfferTyped
  <2> QED
    BY <1>5, <2>1 DEF UpdatePlan
<1> QED
  BY <1>6, <1>7, <1>8

\* create_workspace and set_workspace_status.
LEMMA StepWorkspace ==
    ASSUME AccountsInv,
           \/ \E a \in DOMAIN accounts, name \in Names : CreateWorkspace(a, name)
           \/ \E w \in DOMAIN workspaces, status \in Status : SetWorkspaceStatus(w, status)
    PROVE  AccountsInv'
<1>0. RowsTyped
  BY DEF AccountsInv
<1>1. workspaces \in Seq(Workspace) /\ updates \in 0..MaxUpdates
  BY <1>0 DEF RowsTyped
<1>2. CASE \E a \in DOMAIN accounts, name \in Names : CreateWorkspace(a, name)
  <2> PICK a \in DOMAIN accounts, name \in Names : CreateWorkspace(a, name)
    BY <1>2
  <2> DEFINE row == [account |-> a, name |-> name, status |-> "active"]
  <2>1. row \in Workspace
    BY DEF Workspace, Status
  <2>2. workspaces' = Append(workspaces, row)
    BY DEF CreateWorkspace
  <2> HIDE DEF row
  <2>3. /\ workspaces' \in Seq(Workspace) /\ DOMAIN workspaces \subseteq DOMAIN workspaces'
        /\ \A w \in DOMAIN workspaces : workspaces'[w] = workspaces[w]
    BY <1>1, <2>1, <2>2, RowInsert
  <2> QED
    BY <1>1, <2>3, WorkspaceRows DEF CreateWorkspace
<1>3. CASE \E w \in DOMAIN workspaces, status \in Status : SetWorkspaceStatus(w, status)
  <2> PICK w \in DOMAIN workspaces, status \in Status : SetWorkspaceStatus(w, status)
    BY <1>3
  <2> DEFINE row == [workspaces[w] EXCEPT !.status = status]
  <2>1. workspaces[w] \in Workspace
    BY <1>1
  <2>2. row \in Workspace /\ row.account = workspaces[w].account
    BY <2>1 DEF Workspace
  <2>3. workspaces' = [workspaces EXCEPT ![w] = row]
    BY DEF SetWorkspaceStatus
  <2> HIDE DEF row
  <2>4. /\ workspaces' \in Seq(Workspace) /\ DOMAIN workspaces' = DOMAIN workspaces
        /\ \A v \in DOMAIN workspaces : workspaces'[v].account = workspaces[v].account
    BY <1>1, <2>2, <2>3, RowUpdate
  <2>5. updates' \in 0..MaxUpdates
    BY <1>0, Counted DEF SetWorkspaceStatus
  <2> QED
    BY <2>4, <2>5, WorkspaceRows DEF SetWorkspaceStatus
<1> QED
  BY <1>2, <1>3

\* register_device_credential and revoke_device_credential.
LEMMA StepDevice ==
    ASSUME AccountsInv,
           \/ \E a \in DOMAIN accounts, w \in DOMAIN workspaces, f \in Fingerprints : RegisterDevice(a, w, f)
           \/ \E d \in DOMAIN devices : RevokeDevice(d)
    PROVE  AccountsInv'
<1>0. RowsTyped /\ Unique /\ Scoped
  BY DEF AccountsInv
<1>1. devices \in Seq(Device)
  BY <1>0 DEF RowsTyped
<1>2. CASE \E a \in DOMAIN accounts, w \in DOMAIN workspaces, f \in Fingerprints : RegisterDevice(a, w, f)
  <2> PICK a \in DOMAIN accounts, w \in DOMAIN workspaces, f \in Fingerprints : RegisterDevice(a, w, f)
    BY <1>2
  <2> DEFINE n == Len(devices) + 1
             row == [account |-> a, workspace |-> w, fingerprint |-> f, status |-> "active"]
  <2>1. /\ row \in Device /\ row.account = a /\ row.workspace = w /\ row.fingerprint = f
    BY DEF Device, CredentialStatus
  <2>2. /\ devices' = Append(devices, row) /\ RequireWorkspaceScope(a, w) /\ FingerprintFree(f)
        /\ UNCHANGED <<accounts, limits, workspaces, keys, calls, grants, updates>>
    BY DEF RegisterDevice
  <2> HIDE DEF row
  <2>3. /\ devices' \in Seq(Device) /\ DOMAIN devices' = DOMAIN devices \cup {n}
        /\ n \notin DOMAIN devices /\ devices'[n] = row
        /\ \A d \in DOMAIN devices : devices'[d] = devices[d]
    BY <1>1, <2>1, <2>2, RowInsert
  <2> HIDE DEF n
  <2>4. Kept
    BY <2>2, <2>3 DEF Kept
  <2>5. \A d, e \in DOMAIN devices' : devices'[d].fingerprint = devices'[e].fingerprint => d = e
    BY <1>0, <2>1, <2>2, <2>3 DEF Unique, FingerprintFree
  <2>6. \A d \in DOMAIN devices' : RequireWorkspaceScope(devices'[d].account, devices'[d].workspace)
    BY <1>0, <2>1, <2>2, <2>3 DEF Scoped
  <2> QED
    BY <2>2, <2>3, <2>4, <2>5, <2>6, DeviceRows
<1>3. CASE \E d \in DOMAIN devices : RevokeDevice(d)
  <2> PICK d \in DOMAIN devices : RevokeDevice(d)
    BY <1>3
  <2> DEFINE row == [devices[d] EXCEPT !.status = "revoked"]
  <2>1. devices[d] \in Device
    BY <1>1
  <2>2. /\ row \in Device /\ row.account = devices[d].account
        /\ row.workspace = devices[d].workspace /\ row.fingerprint = devices[d].fingerprint
    BY <2>1 DEF Device, CredentialStatus
  <2>3. /\ devices' = [devices EXCEPT ![d] = row]
        /\ UNCHANGED <<accounts, limits, workspaces, keys, calls, grants, updates>>
    BY DEF RevokeDevice
  <2> HIDE DEF row
  <2>4. /\ devices' \in Seq(Device) /\ DOMAIN devices' = DOMAIN devices /\ devices'[d] = row
        /\ \A e \in DOMAIN devices : e # d => devices'[e] = devices[e]
    BY <1>1, <2>2, <2>3, RowUpdate
  <2>5. \A e \in DOMAIN devices : /\ devices'[e].account = devices[e].account
                                  /\ devices'[e].workspace = devices[e].workspace
                                  /\ devices'[e].fingerprint = devices[e].fingerprint
    BY <2>2, <2>4
  <2>6. Kept
    BY <2>3, <2>4, <2>5 DEF Kept
  <2> QED
    BY <1>0, <2>3, <2>4, <2>5, <2>6, DeviceRows DEF Unique, Scoped
<1> QED
  BY <1>2, <1>3

\* A new key after rows that kept their scope and ids, in a scope that exists.
LEMMA KeyInserted ==
    ASSUME AccountsInv, NEW base \in Seq(ApiKey), DOMAIN base = DOMAIN keys, Len(base) = Len(keys),
           \A k \in DOMAIN keys : /\ base[k].account = keys[k].account
                                  /\ base[k].workspace = keys[k].workspace
                                  /\ base[k].public = keys[k].public,
           NEW public \in PublicIds, PublicIdFree(public), NEW a, NEW w, RequireWorkspaceScope(a, w),
           NEW root \in DOMAIN keys \cup {Len(keys) + 1},
           keys' = Append(base, NewKey(public, a, w, root)),
           UNCHANGED <<accounts, workspaces, devices>>
    PROVE  /\ keys' \in Seq(ApiKey') /\ Kept
           /\ DOMAIN keys' = DOMAIN keys \cup {Len(keys) + 1} /\ Len(keys) + 1 \notin DOMAIN keys
           /\ keys'[Len(keys) + 1] = NewKey(public, a, w, root)
           /\ \A k \in DOMAIN keys : keys'[k] = base[k]
           /\ \A j, k \in DOMAIN keys' : keys'[j].public = keys'[k].public => j = k
           /\ \A k \in DOMAIN keys' : RequireWorkspaceScope(keys'[k].account, keys'[k].workspace)
<1>0. RowsTyped /\ Unique /\ Scoped
  BY DEF AccountsInv
<1> DEFINE n == Len(keys) + 1
           row == NewKey(public, a, w, root)
<1>1. /\ DOMAIN keys' = DOMAIN keys \cup {n} /\ n \notin DOMAIN keys /\ keys'[n] = row
      /\ \A k \in DOMAIN keys : keys'[k] = base[k]
  <2> DEFINE T == ApiKey \cup {row}
  <2>1. ApiKey \subseteq T /\ row \in T
    OBVIOUS
  <2> HIDE DEF T, row
  <2>2. /\ DOMAIN Append(base, row) = DOMAIN base \cup {Len(base) + 1}
        /\ Len(base) + 1 \notin DOMAIN base /\ Append(base, row)[Len(base) + 1] = row
        /\ \A k \in DOMAIN base : Append(base, row)[k] = base[k]
    BY <2>1, RowInsert
  <2> QED
    BY <2>2 DEF row
<1>2. a \in DOMAIN accounts /\ w \in DOMAIN workspaces
  BY <1>0, RowFacts DEF RequireWorkspaceScope, Workspace
<1>3. /\ row.public = public /\ row.account = a /\ row.workspace = w /\ row.root = root
      /\ row = [public |-> public, account |-> a, workspace |-> w, status |-> "active", root |-> root]
  BY DEF NewKey
<1>4. row \in ApiKey'
  BY <1>1, <1>2, <1>3 DEF ApiKey, CredentialStatus
<1> HIDE DEF n, row
<1>5. Kept
  BY <1>1 DEF Kept
<1>6. keys' \in Seq(ApiKey')
  <2>1. ApiKey \subseteq ApiKey'
    BY <1>5, TypesGrow DEF Kept
  <2>2. keys' = Append(base, row)
    BY DEF row
  <2> QED
    BY <1>4, <2>1, <2>2, RowInsert
<1>7. \A j, k \in DOMAIN keys' : keys'[j].public = keys'[k].public => j = k
  BY <1>0, <1>1, <1>3 DEF Unique, PublicIdFree
<1>8. \A k \in DOMAIN keys' : RequireWorkspaceScope(keys'[k].account, keys'[k].workspace)
  BY <1>0, <1>1, <1>3 DEF Scoped
<1> QED
  BY <1>1, <1>5, <1>6, <1>7, <1>8 DEF n, row

\* A revoked row differs from what it was in its status only.
LEMMA RevokedRow ==
    ASSUME RowsTyped, NEW old \in DOMAIN keys
    PROVE  LET base == [keys EXCEPT ![old].status = "revoked"]
           IN  /\ base \in Seq(ApiKey) /\ DOMAIN base = DOMAIN keys /\ Len(base) = Len(keys)
               /\ \A k \in DOMAIN keys : k # old => base[k] = keys[k]
               /\ base[old] = [keys[old] EXCEPT !.status = "revoked"]
               /\ base[old].status = "revoked"
               /\ \A k \in DOMAIN keys : /\ base[k].account = keys[k].account
                                         /\ base[k].workspace = keys[k].workspace
                                         /\ base[k].public = keys[k].public
                                         /\ base[k].root = keys[k].root
<1> DEFINE row == [keys[old] EXCEPT !.status = "revoked"]
           base == [keys EXCEPT ![old] = row]
<1>1. keys \in Seq(ApiKey) /\ keys[old] \in ApiKey
  BY DEF RowsTyped
<1>2. keys[old] \in ApiKey
  BY <1>1
<1>3. /\ row \in ApiKey /\ row.status = "revoked" /\ row.account = keys[old].account
      /\ row.workspace = keys[old].workspace /\ row.public = keys[old].public
      /\ row.root = keys[old].root
  BY <1>2 DEF ApiKey, CredentialStatus
<1>4. base = [keys EXCEPT ![old].status = "revoked"]
  OBVIOUS
<1> HIDE DEF row
<1>5. /\ base \in Seq(ApiKey) /\ DOMAIN base = DOMAIN keys /\ Len(base) = Len(keys)
      /\ base[old] = row /\ \A k \in DOMAIN keys : k # old => base[k] = keys[k]
  BY <1>1, <1>3, RowUpdate
<1> HIDE DEF base
<1>6. \A k \in DOMAIN keys : /\ base[k].account = keys[k].account
                             /\ base[k].workspace = keys[k].workspace
                             /\ base[k].public = keys[k].public
                             /\ base[k].root = keys[k].root
  BY <1>3, <1>5
<1>7. base[old] = [keys[old] EXCEPT !.status = "revoked"] /\ base[old].status = "revoked"
  BY <1>3, <1>5 DEF row
<1> QED
  BY <1>4, <1>5, <1>6, <1>7

\* The call of a caller ends.
LEMMA CallEnds ==
    ASSUME RowsTyped, CallsLive, NEW c \in Callers, calls' = [calls EXCEPT ![c] = Idle]
    PROVE  calls' \in [Callers -> Call] /\ CallsLive'
<1>1. Idle \in Call
  <2>1. 0 \in 0..Attempts
    BY AccountsAssumption
  <2> QED
    BY <2>1 DEF Idle, Call
<1>2. Idle.op = "idle"
  BY DEF Idle
<1> QED
  BY <1>1, <1>2 DEF RowsTyped, CallsLive

\* insert_api_key starts a line of its own.
LEMMA StepInsert ==
    ASSUME AccountsInv, NEW c \in Callers, NEW public \in PublicIds, Insert(c, public)
    PROVE  AccountsInv'
<1>0. RowsTyped /\ CallsLive /\ OneActive /\ keys \in Seq(ApiKey)
  BY DEF AccountsInv, RowsTyped
<1> DEFINE a == calls[c].account
           w == calls[c].workspace
           n == Len(keys) + 1
<1>1. /\ RequireWorkspaceScope(a, w) /\ PublicIdFree(public)
      /\ keys' = Append(keys, NewKey(public, a, w, n))
      /\ calls' = [calls EXCEPT ![c] = Idle]
      /\ UNCHANGED <<accounts, limits, workspaces, devices, grants, updates>>
  BY DEF Insert, Issuable
<1> HIDE DEF a, w
<1>2. /\ keys' \in Seq(ApiKey') /\ Kept
      /\ DOMAIN keys' = DOMAIN keys \cup {n} /\ n \notin DOMAIN keys
      /\ keys'[n] = NewKey(public, a, w, n)
      /\ \A k \in DOMAIN keys : keys'[k] = keys[k]
      /\ \A j, k \in DOMAIN keys' : keys'[j].public = keys'[k].public => j = k
      /\ \A k \in DOMAIN keys' : RequireWorkspaceScope(keys'[k].account, keys'[k].workspace)
  BY <1>0, <1>1, KeyInserted
<1>3. keys'[n].root = n
  BY <1>2 DEF NewKey
<1>4. \A k \in DOMAIN keys : keys[k].root \in DOMAIN keys
  BY <1>0, RowFacts DEF ApiKey
<1> HIDE DEF n
<1>5. OneActive'
  BY <1>0, <1>2, <1>3, <1>4 DEF OneActive
<1>6. calls' \in [Callers -> Call] /\ CallsLive'
  BY <1>0, <1>1, CallEnds
<1> QED
  BY <1>1, <1>2, <1>5, <1>6, KeyRows

\* What a rotation, by any administrator, does to the keys.
LEMMA RotatedRows ==
    ASSUME AccountsInv, NEW old \in DOMAIN keys, NEW public \in PublicIds, PublicIdFree(public),
           keys' = Rotated(old, public), keys[old].status = "active",
           UNCHANGED <<accounts, workspaces, devices>>
    PROVE  LET n == Len(keys) + 1
           IN  /\ keys' \in Seq(ApiKey') /\ Kept
               /\ DOMAIN keys' = DOMAIN keys \cup {n} /\ n \notin DOMAIN keys
               /\ keys'[n].root = keys[old].root /\ keys'[n].status = "active"
               /\ \A k \in DOMAIN keys : k # old => keys'[k] = keys[k]
               /\ keys'[old].status = "revoked" /\ keys'[old].root = keys[old].root
               /\ \A j, k \in DOMAIN keys' : keys'[j].public = keys'[k].public => j = k
               /\ \A k \in DOMAIN keys' : RequireWorkspaceScope(keys'[k].account, keys'[k].workspace)
               /\ OneActive'
<1>0. RowsTyped /\ Scoped /\ OneActive
  BY DEF AccountsInv
<1> DEFINE n == Len(keys) + 1
           base == [keys EXCEPT ![old].status = "revoked"]
           a == keys[old].account
           w == keys[old].workspace
           root == keys[old].root
<1>1. keys' = Append(base, NewKey(public, a, w, root))
  BY DEF Rotated
<1>2. RequireWorkspaceScope(a, w) /\ root \in DOMAIN keys
  BY <1>0, RowFacts DEF Scoped, ApiKey
<1>3. /\ base \in Seq(ApiKey) /\ DOMAIN base = DOMAIN keys /\ Len(base) = Len(keys)
      /\ \A k \in DOMAIN keys : k # old => base[k] = keys[k]
      /\ base[old].status = "revoked"
      /\ \A k \in DOMAIN keys : /\ base[k].account = keys[k].account
                                /\ base[k].workspace = keys[k].workspace
                                /\ base[k].public = keys[k].public
                                /\ base[k].root = keys[k].root
  BY <1>0, RevokedRow
<1> HIDE DEF base, a, w, root
<1>4. /\ keys' \in Seq(ApiKey') /\ Kept
      /\ DOMAIN keys' = DOMAIN keys \cup {n} /\ n \notin DOMAIN keys
      /\ keys'[n] = NewKey(public, a, w, root)
      /\ \A k \in DOMAIN keys : keys'[k] = base[k]
      /\ \A j, k \in DOMAIN keys' : keys'[j].public = keys'[k].public => j = k
      /\ \A k \in DOMAIN keys' : RequireWorkspaceScope(keys'[k].account, keys'[k].workspace)
  BY <1>1, <1>2, <1>3, KeyInserted
<1>5. keys'[n].root = root /\ keys'[n].status = "active"
  BY <1>4 DEF NewKey
<1> HIDE DEF n
<1>6. OneActive'
  <2>1. \A k \in DOMAIN keys : keys'[k].root = keys[k].root /\ (keys'[k].status = "active" => k # old /\ keys[k].status = "active")
    BY <1>3, <1>4
  <2>2. \A k \in DOMAIN keys : keys[k].root = root /\ keys[k].status = "active" => k = old
    BY <1>0 DEF OneActive, root
  <2> QED
    BY <1>0, <1>4, <1>5, <2>1, <2>2 DEF OneActive
<1> QED
  BY <1>3, <1>4, <1>5, <1>6 DEF n, root

\* rotate_api_key hands the active place of a line to the successor.
LEMMA StepRotate ==
    ASSUME AccountsInv, NEW public \in PublicIds,
           (\E c \in Callers : Rotate(c, public)) \/ (\E k \in DOMAIN keys : OtherRotates(k, public))
    PROVE  AccountsInv'
<1>0. RowsTyped /\ CallsLive
  BY DEF AccountsInv
<1>1. PICK old \in DOMAIN keys :
         /\ keys[old].status = "active" /\ PublicIdFree(public) /\ keys' = Rotated(old, public)
         /\ UNCHANGED <<accounts, limits, workspaces, devices, grants, updates>>
  BY DEF Rotate, OtherRotates, Rotatable
<1>2. /\ keys' \in Seq(ApiKey') /\ Kept
      /\ \A j, k \in DOMAIN keys' : keys'[j].public = keys'[k].public => j = k
      /\ \A k \in DOMAIN keys' : RequireWorkspaceScope(keys'[k].account, keys'[k].workspace)
      /\ OneActive'
  BY <1>1, RotatedRows
<1>3. calls' \in [Callers -> Call] /\ CallsLive'
  BY <1>0, CallEnds DEF Rotate, OtherRotates, RowsTyped, CallsLive
<1> QED
  BY <1>1, <1>2, <1>3, KeyRows

\* revoke_api_key
LEMMA StepRevokeApiKey ==
    ASSUME AccountsInv, NEW k \in DOMAIN keys, RevokeApiKey(k)
    PROVE  AccountsInv'
<1>0. RowsTyped /\ CallsLive /\ Unique /\ Scoped /\ OneActive
  BY DEF AccountsInv
<1>1. /\ keys' = [keys EXCEPT ![k].status = "revoked"]
      /\ UNCHANGED <<accounts, limits, workspaces, devices, calls, grants, updates>>
  BY DEF RevokeApiKey
<1>2. /\ keys' \in Seq(ApiKey) /\ DOMAIN keys' = DOMAIN keys
      /\ \A j \in DOMAIN keys : j # k => keys'[j] = keys[j]
      /\ keys'[k].status = "revoked"
      /\ \A j \in DOMAIN keys : /\ keys'[j].account = keys[j].account
                                /\ keys'[j].workspace = keys[j].workspace
                                /\ keys'[j].public = keys[j].public
                                /\ keys'[j].root = keys[j].root
  BY <1>0, <1>1, RevokedRow
<1>3. Kept
  BY <1>1, <1>2 DEF Kept
<1>4. keys' \in Seq(ApiKey')
  <2>1. ApiKey \subseteq ApiKey'
    BY <1>3, TypesGrow DEF Kept
  <2> QED
    BY <1>2, <2>1, RowsWiden
<1>5. OneActive'
  BY <1>0, <1>2 DEF OneActive
<1>6. calls' \in [Callers -> Call] /\ CallsLive'
  BY <1>0, <1>1 DEF RowsTyped, CallsLive
<1> QED
  BY <1>0, <1>1, <1>2, <1>3, <1>4, <1>5, <1>6, KeyRows DEF Unique, Scoped

\* Entering a call, a collision of public ids and a call that ends with nothing stored.
LEMMA StepCall ==
    ASSUME AccountsInv, NEW c \in Callers,
           \/ \E a \in DOMAIN accounts, w \in DOMAIN workspaces : BeginIssue(c, a, w)
           \/ \E k \in DOMAIN keys : BeginRotate(c, k)
           \/ \E public \in PublicIds : Collide(c, public)
           \/ EndCall(c)
    PROVE  AccountsInv'
<1>0. RowsTyped /\ CallsLive /\ calls \in [Callers -> Call] /\ calls[c] \in Call
  BY DEF AccountsInv, RowsTyped
<1>1. UNCHANGED <<tables, grants, updates>>
  BY DEF BeginIssue, BeginRotate, Collide, EndCall
<1>2. ASSUME NEW call \in Call, call.op # "idle" => call.left # 0, calls' = [calls EXCEPT ![c] = call]
      PROVE  AccountsInv'
  <2>1. calls' \in [Callers -> Call] /\ CallsLive'
    BY <1>0, <1>2 DEF CallsLive
  <2> QED
    BY <1>1, <2>1, NoRows
<1>3. DOMAIN accounts \subseteq Nat /\ DOMAIN workspaces \subseteq Nat /\ DOMAIN keys \subseteq Nat
  <2>1. accounts \in Seq(Account) /\ workspaces \in Seq(Workspace) /\ keys \in Seq(ApiKey)
    BY <1>0 DEF RowsTyped
  <2> QED
    BY <2>1
<1>4. Idle \in Call /\ Idle.op = "idle" /\ Attempts \in 0..Attempts /\ Attempts # 0
  <2>1. 0 \in 0..Attempts /\ Attempts \in 0..Attempts /\ Attempts # 0
    BY AccountsAssumption
  <2> QED
    BY <2>1 DEF Idle, Call
<1>5. CASE \E a \in DOMAIN accounts, w \in DOMAIN workspaces : BeginIssue(c, a, w)
  <2> PICK a \in DOMAIN accounts, w \in DOMAIN workspaces : BeginIssue(c, a, w)
    BY <1>5
  <2> DEFINE call == [Idle EXCEPT !.op = "issue", !.account = a, !.workspace = w, !.left = Attempts]
  <2>1. a \in Nat /\ w \in Nat /\ Idle \in Call /\ Attempts \in 0..Attempts
    BY <1>3, <1>4
  <2>2. call \in Call /\ call.left = Attempts
    BY <2>1 DEF Call
  <2>3. calls' = [calls EXCEPT ![c] = call]
    BY DEF BeginIssue
  <2> HIDE DEF call
  <2> QED
    BY <1>2, <1>4, <2>2, <2>3
<1>6. CASE \E k \in DOMAIN keys : BeginRotate(c, k)
  <2> PICK k \in DOMAIN keys : BeginRotate(c, k)
    BY <1>6
  <2> DEFINE call == [Idle EXCEPT !.op = "rotate", !.old = k, !.left = Attempts]
  <2>1. k \in Nat /\ Idle \in Call /\ Attempts \in 0..Attempts
    BY <1>3, <1>4
  <2>2. call \in Call /\ call.left = Attempts
    BY <2>1 DEF Call
  <2>3. calls' = [calls EXCEPT ![c] = call]
    BY DEF BeginRotate
  <2> HIDE DEF call
  <2> QED
    BY <1>2, <1>4, <2>2, <2>3
<1>7. CASE \E public \in PublicIds : Collide(c, public)
  <2>1. calls[c].op # "idle" /\ calls[c].left \in 0..Attempts
    BY <1>0, <1>7 DEF Collide, Issuable, Rotatable, Call
  <2>2. CASE calls[c].left = 1
    BY <1>2, <1>4, <1>7, <2>2 DEF Collide
  <2>3. CASE calls[c].left # 1
    <3>1. calls[c].left # 0
      BY <1>0, <2>1 DEF CallsLive
    <3>2. PICK m \in 0..Attempts : m = calls[c].left - 1 /\ m # 0
      BY <2>1, <2>3, <3>1, AccountsAssumption
    <3> DEFINE call == [calls[c] EXCEPT !.left = m]
    <3>3. call \in Call /\ call.left = m
      BY <1>0 DEF Call
    <3>4. calls' = [calls EXCEPT ![c] = call]
      BY <1>7, <2>3, <3>2 DEF Collide
    <3> HIDE DEF call
    <3> QED
      BY <1>2, <3>2, <3>3, <3>4
  <2> QED
    BY <2>2, <2>3
<1>8. CASE EndCall(c)
  BY <1>2, <1>4, <1>8 DEF EndCall
<1> QED
  BY <1>5, <1>6, <1>7, <1>8

\* authenticate grants an identity only of rows that belong together.
LEMMA StepAuthenticate ==
    ASSUME AccountsInv, NEW public \in PublicIds, NEW secret \in DOMAIN keys,
           NEW fingerprint \in Fingerprints, Authenticate(public, secret, fingerprint)
    PROVE  AccountsInv'
<1>0. /\ RowsTyped /\ CallsLive /\ Unique /\ Scoped /\ PlanIntact /\ OneActive
      /\ DOMAIN limits = DOMAIN accounts /\ GrantsScoped /\ GrantsNamed
  BY DEF AccountsInv
<1>1. UNCHANGED <<accounts, limits, workspaces, keys, devices, calls, updates>>
  BY DEF Authenticate, tables
<1>2. PICK k \in Found(public), d \in DOMAIN devices :
         /\ devices[d].fingerprint = fingerprint /\ DeviceUsable(k, d)
         /\ grants' = grants \cup
                {[account |-> keys[k].account, workspace |-> keys[k].workspace,
                  key |-> k, device |-> d, limits |-> limits[keys[k].account],
                  public |-> public, fingerprint |-> fingerprint]}
  BY DEF Authenticate
<1> DEFINE g == [account |-> keys[k].account, workspace |-> keys[k].workspace,
                  key |-> k, device |-> d, limits |-> limits[keys[k].account],
                  public |-> public, fingerprint |-> fingerprint]
<1>3. /\ k \in DOMAIN keys /\ keys[k].public = public /\ keys[k].account \in DOMAIN accounts
      /\ keys[k].workspace \in DOMAIN workspaces
      /\ workspaces[keys[k].workspace].account = keys[k].account
  BY <1>2 DEF Found, RequireWorkspaceScope
<1>4. limits[keys[k].account] \in Limit
  BY <1>0, <1>3 DEF RowsTyped
<1>5. /\ g \in Grant /\ g.key = k /\ g.device = d /\ g.account = keys[k].account
      /\ g.workspace = keys[k].workspace /\ g.public = public /\ g.fingerprint = fingerprint
  BY <1>3, <1>4 DEF Grant
<1>6. grants' = grants \cup {g}
  BY <1>2
<1> HIDE DEF g
<1>7. Workspace' = Workspace /\ ApiKey' = ApiKey /\ Device' = Device /\ Grant' = Grant
  BY <1>1 DEF Workspace, ApiKey, Device, Grant
<1>8. RowsTyped'
  BY <1>0, <1>1, <1>5, <1>6, <1>7 DEF RowsTyped
<1>9. GrantsScoped' /\ GrantsNamed'
  BY <1>0, <1>1, <1>2, <1>3, <1>5, <1>6 DEF GrantsScoped, GrantsNamed, DeviceUsable
<1>10. Unique' /\ Scoped' /\ PlanIntact' /\ OneActive' /\ CallsLive'
  BY <1>0, <1>1 DEF Unique, Scoped, PlanIntact, OneActive, RequireWorkspaceScope, CallsLive
<1> QED
  BY <1>0, <1>1, <1>8, <1>9, <1>10 DEF AccountsInv

\* Every operation keeps the database consistent.
LEMMA AccountsStep == AccountsInv /\ [Next]_vars => AccountsInv'
<1> SUFFICES ASSUME AccountsInv, [Next]_vars PROVE AccountsInv'
  OBVIOUS
<1>1. CASE Administer
  BY <1>1, StepCreateAccount, StepAccountUpdate, StepWorkspace, StepDevice, StepRevokeApiKey,
     StepRotate DEF Administer
<1>2. CASE \E c \in Callers : KeyCall(c)
  BY <1>2, StepCall, StepInsert, StepRotate DEF KeyCall
<1>3. CASE \E public \in PublicIds, secret \in DOMAIN keys, fingerprint \in Fingerprints :
              Authenticate(public, secret, fingerprint)
  BY <1>3, StepAuthenticate
<1>4. CASE UNCHANGED vars
  <2>1. calls' \in [Callers -> Call] /\ CallsLive' /\ UNCHANGED <<tables, grants, updates>>
    BY <1>4 DEF AccountsInv, RowsTyped, CallsLive, vars, tables
  <2> QED
    BY <2>1, NoRows
<1> QED
  BY <1>1, <1>2, <1>3, <1>4 DEF Next

\* Every behaviour keeps the invariant of the account database.
LEMMA AccountsInductive == Spec => []AccountsInv
  BY AccountsInit, AccountsStep, PTL DEF Spec

-----------------------------------------------------------------------------
(***************************************************************************)
(* The theorems.                                                           *)
(***************************************************************************)

\* The joins of authenticate find every key, once: creations are never half done, ids
\* are unique over revoked rows too and every foreign key leads to the right account.
THEOREM LookupsAreTotal == Spec => []LookupTotal
<1>1. ASSUME AccountsInv PROVE LookupTotal
  <2>0. RowsTyped /\ Unique /\ Scoped /\ DOMAIN limits = DOMAIN accounts
    BY <1>1 DEF AccountsInv
  <2>1. ASSUME NEW k \in DOMAIN keys PROVE Found(keys[k].public) = {k}
    <3>1. keys[k].account \in DOMAIN accounts
      BY <2>0, RowFacts DEF ApiKey
    <3>2. k \in Found(keys[k].public)
      BY <2>0, <3>1 DEF Found, Scoped
    <3>3. \A j \in Found(keys[k].public) : j = k
      BY <2>0 DEF Found, Unique
    <3> QED
      BY <3>2, <3>3
  <2> QED
    BY <2>0, <2>1 DEF LookupTotal, Scoped
<1> QED
  BY <1>1, AccountsInductive, PTL

\* create_account and update_account_plan_and_limits store the plan and the limits of one
\* offer or of none, so an account is never billed for one plan and held to another.
THEOREM PlansAreIntact == Spec => []PlanIntact
<1>1. AccountsInv => PlanIntact
  BY DEF AccountsInv
<1> QED
  BY <1>1, AccountsInductive, PTL

\* The key, the device and the workspace of every identity authenticate ever granted
\* belong together, and still do after whatever administration did since.
THEOREM GrantsAreScoped == Spec => []GrantsScoped
<1>1. AccountsInv => GrantsScoped
  BY DEF AccountsInv
<1> QED
  BY <1>1, AccountsInductive, PTL

\* A fingerprint or a public id always stands for the device or the key, and for the
\* account and the workspace, that it was first accepted for.
THEOREM CredentialsArePinned == Spec => []CredentialsPinned
<1>1. ASSUME AccountsInv PROVE CredentialsPinned
  <2>0. RowsTyped /\ Unique /\ GrantsScoped /\ GrantsNamed
    BY <1>1 DEF AccountsInv
  <2> SUFFICES ASSUME NEW g \in grants, NEW h \in grants
               PROVE  /\ g.fingerprint = h.fingerprint =>
                           <<g.device, g.account, g.workspace>> = <<h.device, h.account, h.workspace>>
                      /\ g.public = h.public => g.key = h.key
    BY DEF CredentialsPinned
  <2>1. /\ g.key \in DOMAIN keys /\ h.key \in DOMAIN keys
        /\ g.device \in DOMAIN devices /\ h.device \in DOMAIN devices
    BY <2>0 DEF RowsTyped, Grant
  <2>2. g.public = h.public => g.key = h.key
    BY <2>0, <2>1 DEF Unique, GrantsNamed
  <2>3. g.fingerprint = h.fingerprint => g.device = h.device
    BY <2>0, <2>1 DEF Unique, GrantsNamed
  <2> QED
    BY <2>0, <2>2, <2>3 DEF GrantsScoped
<1> QED
  BY <1>1, AccountsInductive, PTL

\* A set whose elements are equal is empty or a singleton.
LEMMA AtMostOne ==
    ASSUME NEW S, \A j, k \in S : j = k
    PROVE  /\ S = {} => Cardinality(S) = 0
           /\ S # {} => Cardinality(S) = 1
<1>1. CASE S = {}
  BY <1>1, FS_EmptySet
<1>2. CASE S # {}
  <2>1. PICK k : S = {k}
    BY <1>2
  <2> QED
    BY <1>2, <2>1, FS_Singleton
<1> QED
  BY <1>1, <1>2

\* Whatever rotations of one key run at once, retry and collide, at most one key of the
\* line it belongs to is active.
THEOREM LinesHaveOneActive == Spec => []OneActivePerLine
<1>1. ASSUME AccountsInv PROVE OneActivePerLine
  <2> SUFFICES ASSUME NEW root \in DOMAIN keys PROVE Cardinality(ActiveKeys(root)) <= 1
    BY DEF OneActivePerLine
  <2>1. \A j, k \in ActiveKeys(root) : j = k
    BY <1>1 DEF AccountsInv, OneActive, ActiveKeys
  <2>2. Cardinality(ActiveKeys(root)) \in {0, 1}
    BY <2>1, AtMostOne
  <2> QED
    BY <2>2
<1> QED
  BY <1>1, AccountsInductive, PTL

\* What one step does to the lines of keys.
LEMMA LinesStep ==
    ASSUME AccountsInv, AccountsInv', [Next]_vars, NEW root \in DOMAIN keys
    PROVE  \/ ActiveKeys(root)' = ActiveKeys(root)
           \/ ActiveKeys(root) # {} /\ ActiveKeys(root)' # {}
           \/ ActiveKeys(root)' = {} /\ \E k \in DOMAIN keys : RevokeApiKey(k)
<1>0. RowsTyped /\ OneActive
  BY DEF AccountsInv
<1>1. CASE keys' = keys
  BY <1>1 DEF ActiveKeys
<1>2. CASE \E c \in Callers, public \in PublicIds : Insert(c, public)
  <2> PICK c \in Callers, public \in PublicIds : Insert(c, public)
    BY <1>2
  <2> DEFINE n == Len(keys) + 1
             row == NewKey(public, calls[c].account, calls[c].workspace, n)
             T == ApiKey \cup {row}
  <2>1. keys \in Seq(ApiKey) /\ keys' = Append(keys, row) /\ row.root = n
    BY <1>0 DEF RowsTyped, Insert, NewKey
  <2>2. ApiKey \subseteq T /\ row \in T
    OBVIOUS
  <2> HIDE DEF T, row
  <2>3. /\ DOMAIN keys' = DOMAIN keys \cup {n} /\ n \notin DOMAIN keys /\ keys'[n] = row
        /\ \A k \in DOMAIN keys : keys'[k] = keys[k]
    BY <2>1, <2>2, RowInsert
  <2> HIDE DEF n
  <2> QED
    BY <2>1, <2>3 DEF ActiveKeys
<1>3. CASE \E old \in DOMAIN keys, public \in PublicIds :
              /\ keys[old].status = "active" /\ PublicIdFree(public) /\ keys' = Rotated(old, public)
              /\ UNCHANGED <<accounts, workspaces, devices>>
  <2> PICK old \in DOMAIN keys, public \in PublicIds :
              /\ keys[old].status = "active" /\ PublicIdFree(public) /\ keys' = Rotated(old, public)
              /\ UNCHANGED <<accounts, workspaces, devices>>
    BY <1>3
  <2> DEFINE n == Len(keys) + 1
  <2>1. /\ DOMAIN keys' = DOMAIN keys \cup {n} /\ n \notin DOMAIN keys
        /\ keys'[n].root = keys[old].root /\ keys'[n].status = "active"
        /\ \A k \in DOMAIN keys : k # old => keys'[k] = keys[k]
        /\ keys'[old].root = keys[old].root
    BY RotatedRows
  <2> HIDE DEF n
  <2>2. CASE root = keys[old].root
    BY <2>1, <2>2 DEF ActiveKeys
  <2>3. CASE root # keys[old].root
    BY <2>1, <2>3 DEF ActiveKeys
  <2> QED
    BY <2>2, <2>3
<1>4. CASE \E k \in DOMAIN keys : RevokeApiKey(k)
  <2> PICK k \in DOMAIN keys : RevokeApiKey(k)
    BY <1>4
  <2>1. /\ DOMAIN keys' = DOMAIN keys /\ keys'[k].status = "revoked" /\ keys[k].status = "active"
        /\ \A j \in DOMAIN keys : j # k => keys'[j] = keys[j]
        /\ keys'[k].root = keys[k].root
    BY <1>0, RevokedRow DEF RevokeApiKey
  <2>2. CASE root = keys[k].root
    <3>1. ActiveKeys(root) = {k}
      BY <1>0, <2>1, <2>2 DEF ActiveKeys, OneActive
    <3>2. ActiveKeys(root)' = {}
      BY <2>1, <3>1 DEF ActiveKeys
    <3> QED
      BY <3>2
  <2>3. CASE root # keys[k].root
    BY <2>1, <2>3 DEF ActiveKeys
  <2> QED
    BY <2>2, <2>3
<1>5. CASE Administer
  BY <1>1, <1>3, <1>4, <1>5 DEF Administer, CreateAccount, SetAccountStatus, UpdatePlan, SetStripe,
     CreateWorkspace, RegisterDevice, SetWorkspaceStatus, OtherRotates, RevokeDevice
<1>6. CASE \E c \in Callers : KeyCall(c)
  BY <1>1, <1>2, <1>3, <1>6 DEF KeyCall, BeginIssue, BeginRotate, Rotate, Rotatable, Collide,
     EndCall, tables
<1> QED
  BY <1>1, <1>5, <1>6 DEF Next, Authenticate, tables, vars

\* rotate_api_key and issue_api_key take access from nobody, whoever else is administering:
\* only revoke_api_key leaves a line without an active key, and no step brings one back.
THEOREM RotationsKeepAccess == Spec => RotationKeepsAccess
<1> DEFINE KeepsAccess ==
              \A root \in DOMAIN keys :
                  LET before == Cardinality(ActiveKeys(root))
                      after == Cardinality(ActiveKeys(root)')
                  IN  /\ after <= before
                      /\ after < before =>
                            \E k \in DOMAIN keys :
                                /\ \A j \in DOMAIN keys \ {k} : keys'[j] = keys[j]
                                /\ RevokeApiKey(k)
<1>1. ASSUME AccountsInv, AccountsInv', [Next]_vars PROVE KeepsAccess
  <2> SUFFICES ASSUME NEW root \in DOMAIN keys
               PROVE  /\ Cardinality(ActiveKeys(root)') <= Cardinality(ActiveKeys(root))
                      /\ Cardinality(ActiveKeys(root)') < Cardinality(ActiveKeys(root)) =>
                            \E k \in DOMAIN keys :
                                /\ \A j \in DOMAIN keys \ {k} : keys'[j] = keys[j]
                                /\ RevokeApiKey(k)
    OBVIOUS
  <2> DEFINE S == ActiveKeys(root)
             T == ActiveKeys(root)'
  <2>1. (\A j, k \in S : j = k) /\ (\A j, k \in T : j = k)
    BY <1>1 DEF AccountsInv, OneActive, ActiveKeys
  <2>2. \A k \in DOMAIN keys : RevokeApiKey(k) => \A j \in DOMAIN keys \ {k} : keys'[j] = keys[j]
    BY <1>1, RevokedRow DEF AccountsInv, RevokeApiKey
  <2>3. T = S \/ (S # {} /\ T # {}) \/ (T = {} /\ \E k \in DOMAIN keys : RevokeApiKey(k))
    BY <1>1, LinesStep
  <2> HIDE DEF S, T
  <2>4. /\ (S = {} => Cardinality(S) = 0) /\ (S # {} => Cardinality(S) = 1)
        /\ (T = {} => Cardinality(T) = 0) /\ (T # {} => Cardinality(T) = 1)
    BY <2>1, AtMostOne
  <2>5. /\ Cardinality(T) <= Cardinality(S)
        /\ Cardinality(T) < Cardinality(S) => \E k \in DOMAIN keys : RevokeApiKey(k)
    BY <2>3, <2>4
  <2> QED
    BY <2>2, <2>5 DEF S, T
<1> QED
  BY <1>1, AccountsInductive, PTL DEF Spec, RotationKeepsAccess

\* A row that is revoked is not written again.
LEMMA RevokedRowsStay ==
    ASSUME AccountsInv, [Next]_vars
    PROVE  /\ \A k \in DOMAIN keys : keys[k].status = "revoked" => keys'[k] = keys[k]
           /\ \A d \in DOMAIN devices : devices[d].status = "revoked" => devices'[d] = devices[d]
<1>0. /\ RowsTyped /\ keys \in Seq(ApiKey) /\ devices \in Seq(Device)
  BY DEF AccountsInv, RowsTyped
<1>1. \A row : \A k \in DOMAIN keys : Append(keys, row)[k] = keys[k]
  BY <1>0
<1>2. \A row : \A d \in DOMAIN devices : Append(devices, row)[d] = devices[d]
  BY <1>0
<1>3. \A old \in DOMAIN keys : \A public : keys' = Rotated(old, public) =>
         \A k \in DOMAIN keys : k # old => keys'[k] = keys[k]
  <2> SUFFICES ASSUME NEW old \in DOMAIN keys, NEW public, keys' = Rotated(old, public),
                      NEW k \in DOMAIN keys, k # old
               PROVE  keys'[k] = keys[k]
    OBVIOUS
  <2> DEFINE base == [keys EXCEPT ![old].status = "revoked"]
             row == NewKey(public, keys[old].account, keys[old].workspace, keys[old].root)
  <2>1. base \in Seq(ApiKey) /\ DOMAIN base = DOMAIN keys /\ base[k] = keys[k]
    BY <1>0, RevokedRow
  <2>2. keys' = Append(base, row)
    BY DEF Rotated
  <2> HIDE DEF base, row
  <2> QED
    BY <2>1, <2>2
<1>4. \A k \in DOMAIN keys : RevokeApiKey(k) =>
         keys[k].status = "active" /\ \A j \in DOMAIN keys : j # k => keys'[j] = keys[j]
  BY <1>0, RevokedRow DEF RevokeApiKey
<1>5. \A d \in DOMAIN devices : RevokeDevice(d) =>
         devices[d].status = "active" /\ \A e \in DOMAIN devices : e # d => devices'[e] = devices[e]
  BY <1>0 DEF RevokeDevice
<1>6. CASE Administer
  <2>1. CASE UNCHANGED <<keys, devices>>
    BY <2>1
  <2>2. CASE \E a \in DOMAIN accounts, w \in DOMAIN workspaces, f \in Fingerprints : RegisterDevice(a, w, f)
    BY <1>2, <2>2 DEF RegisterDevice
  <2>3. CASE \E k \in DOMAIN keys : RevokeApiKey(k)
    <3>1. UNCHANGED devices
      BY <2>3 DEF RevokeApiKey
    <3> QED
      BY <1>4, <2>3, <3>1
  <2>4. CASE \E k \in DOMAIN keys, public \in PublicIds : OtherRotates(k, public)
    BY <1>3, <2>4 DEF OtherRotates
  <2>5. CASE \E d \in DOMAIN devices : RevokeDevice(d)
    <3>1. UNCHANGED keys
      BY <2>5 DEF RevokeDevice
    <3> QED
      BY <1>5, <2>5, <3>1
  <2> QED
    BY <1>6, <2>1, <2>2, <2>3, <2>4, <2>5 DEF Administer, CreateAccount, SetAccountStatus,
       UpdatePlan, SetStripe, CreateWorkspace, SetWorkspaceStatus
<1>7. CASE \E c \in Callers : KeyCall(c)
  <2> PICK c \in Callers : KeyCall(c)
    BY <1>7
  <2>1. CASE UNCHANGED <<keys, devices>>
    BY <2>1
  <2>2. CASE \E public \in PublicIds : Insert(c, public)
    BY <1>1, <2>2 DEF Insert
  <2>3. CASE \E public \in PublicIds : Rotate(c, public)
    BY <1>3, <2>3 DEF Rotate, Rotatable
  <2> QED
    BY <2>1, <2>2, <2>3 DEF KeyCall, BeginIssue, BeginRotate, Collide, EndCall, tables
<1> QED
  BY <1>6, <1>7 DEF Next, Authenticate, tables, vars

\* revoke_api_key and revoke_device_credential cannot be undone by any later issue,
\* rotation or registration, and authenticate refuses what any revoked row carries.
THEOREM RevocationsAreFinal == Spec => RevocationFinal
<1> DEFINE Final ==
       /\ \A k \in DOMAIN keys : keys[k].status = "revoked" => keys'[k] = keys[k]
       /\ \A d \in DOMAIN devices : devices[d].status = "revoked" => devices'[d] = devices[d]
       /\ \A g \in grants' \ grants :
             /\ \A k \in DOMAIN keys :
                   keys[k].public = g.public => keys[k].status = "active"
             /\ \A d \in DOMAIN devices :
                   devices[d].fingerprint = g.fingerprint => devices[d].status = "active"
<1>1. ASSUME AccountsInv, [Next]_vars PROVE Final
  <2> SUFFICES ASSUME NEW g \in grants' \ grants
               PROVE  /\ \A k \in DOMAIN keys : keys[k].public = g.public => keys[k].status = "active"
                      /\ \A d \in DOMAIN devices :
                            devices[d].fingerprint = g.fingerprint => devices[d].status = "active"
    BY <1>1, RevokedRowsStay
  <2>1. PICK public \in PublicIds, secret \in DOMAIN keys, fingerprint \in Fingerprints :
           Authenticate(public, secret, fingerprint)
    BY <1>1 DEF Next, vars, Administer, KeyCall, CreateAccount, SetAccountStatus, UpdatePlan,
       SetStripe, CreateWorkspace, RegisterDevice, SetWorkspaceStatus, RevokeApiKey,
       OtherRotates, RevokeDevice, BeginIssue, BeginRotate, Insert, Rotate, Collide, EndCall
  <2>2. PICK k \in Found(public), d \in DOMAIN devices :
         /\ KeyUsable(k) /\ devices[d].fingerprint = fingerprint /\ DeviceUsable(k, d)
         /\ g.public = public /\ g.fingerprint = fingerprint
    BY <2>1 DEF Authenticate
  <2>3. k \in DOMAIN keys /\ keys[k].public = g.public /\ keys[k].status = "active"
    BY <2>2 DEF Found, KeyUsable
  <2>4. devices[d].fingerprint = g.fingerprint /\ devices[d].status = "active"
    BY <2>2 DEF DeviceUsable
  <2> QED
    BY <1>1, <2>2, <2>3, <2>4 DEF AccountsInv, Unique
<1> QED
  BY <1>1, AccountsInductive, PTL DEF Spec, RevocationFinal

=============================================================================

------------------------------ MODULE Accounts ------------------------------
(***************************************************************************)
(* The account database: accounts with their limits, workspaces, API keys  *)
(* and device credentials, the administration that changes them, and the   *)
(* authentication of a CONNECT request against them.                       *)
(*                                                                         *)
(* Every AccountDatabase method holds the connection mutex, so a method is *)
(* one step.  AccountManager::issue_api_key and rotate_api_key call such a *)
(* method up to four times and let the mutex go in between: each attempt   *)
(* is a step of its own.  Nothing is ever deleted, so an AUTOINCREMENT row *)
(* id is a position in its table.  The random secret of a key is fresh: it *)
(* is named by the row it was inserted with, and its keyed digest matches  *)
(* that row only.                                                          *)
(***************************************************************************)
EXTENDS Integers, Sequences, FiniteSets

CONSTANTS
    Emails,         \* normalised e-mail addresses
    StripeIds,      \* Stripe customer identifiers
    Offers,         \* [plan, limits] pairs that administration passes
    Names,          \* workspace names
    Inactive,       \* the statuses other than Active: suspended and closed
    PublicIds,      \* public ids GeneratedApiKey::generate may draw
    Fingerprints,   \* certificate fingerprints
    Callers,        \* threads that issue and rotate keys
    NoStripe,       \* stripe_customer_id IS NULL
    Attempts,       \* API_KEY_GENERATION_ATTEMPTS
    MaxWorkspaces,  \* bound on the workspace rows
    MaxKeys,        \* bound on the API key rows
    MaxDevices,     \* bound on the device rows
    MaxRows,        \* bound on the rows of these tables and of accounts together
    MaxUpdates,     \* bound on the updates of account and workspace rows
    MaxGrants       \* bound on the distinct identities granted

ASSUME AccountsAssumption ==
    /\ NoStripe \notin StripeIds /\ "active" \notin Inactive
    /\ Offers # {} /\ \A o \in Offers : o = [plan |-> o.plan, limits |-> o.limits]
    /\ Attempts \in Nat \ {0}
    /\ {MaxWorkspaces, MaxKeys, MaxDevices, MaxRows, MaxUpdates, MaxGrants} \subseteq Nat

VARIABLES
    accounts,    \* accounts table
    limits,      \* account_limits table: account -> limits
    workspaces,  \* workspaces table
    keys,        \* api_keys table
    devices,     \* device_credentials table
    calls,       \* the issue or rotate call each caller is in
    grants,      \* history: every IngressIdentity granted, with what was presented
    updates      \* updates made, for the bound MaxUpdates

tables == <<accounts, limits, workspaces, keys, devices>>
vars == <<accounts, limits, workspaces, keys, devices, calls, grants, updates>>

-----------------------------------------------------------------------------

Status == {"active"} \cup Inactive
CredentialStatus == {"active", "revoked"}

Plan == {o.plan : o \in Offers}
Limit == {o.limits : o \in Offers}

Account ==
    [email : Emails, stripe : StripeIds \cup {NoStripe}, plan : Plan, status : Status]
Workspace == [account : DOMAIN accounts, name : Names, status : Status]

\* root is a history field: the key whose rotations led to this one.
ApiKey ==
    [public : PublicIds, account : DOMAIN accounts, workspace : DOMAIN workspaces,
     status : CredentialStatus, root : DOMAIN keys]
Device ==
    [account : DOMAIN accounts, workspace : DOMAIN workspaces,
     fingerprint : Fingerprints, status : CredentialStatus]

\* An IngressIdentity, with the public id and the fingerprint it was granted for.
Grant ==
    [account : DOMAIN accounts, workspace : DOMAIN workspaces, key : DOMAIN keys,
     device : DOMAIN devices, limits : Limit,
     public : PublicIds, fingerprint : Fingerprints]

\* left is the number of generation attempts that remain.
Call ==
    [op : {"idle", "issue", "rotate"}, account : Nat, workspace : Nat, old : Nat,
     left : 0..Attempts]
Idle == [op |-> "idle", account |-> 0, workspace |-> 0, old |-> 0, left |-> 0]

\* The column types and the FOREIGN KEYs of the schema.
RowsTyped ==
    /\ accounts \in Seq(Account)
    /\ limits \in [DOMAIN limits -> Limit]
    /\ workspaces \in Seq(Workspace)
    /\ keys \in Seq(ApiKey)
    /\ devices \in Seq(Device)
    /\ calls \in [Callers -> Call]
    /\ grants \subseteq Grant
    /\ updates \in 0..MaxUpdates

-----------------------------------------------------------------------------
(***************************************************************************)
(* The UNIQUE constraints of the schema.  They range over every row,       *)
(* suspended, closed and revoked ones included.                            *)
(***************************************************************************)

\* The bounds of the model: a table and the whole database have room for a row.
Room(table, bound) ==
    /\ Len(table) < bound
    /\ Len(accounts) + Len(workspaces) + Len(keys) + Len(devices) < MaxRows

EmailFree(email) == \A a \in DOMAIN accounts : accounts[a].email # email

\* UNIQUE lets any number of accounts have no Stripe customer.
StripeFree(stripe, self) ==
    stripe # NoStripe =>
        \A a \in DOMAIN accounts \ {self} : accounts[a].stripe # stripe

NameFree(a, name) ==
    \A w \in DOMAIN workspaces : <<workspaces[w].account, workspaces[w].name>> # <<a, name>>

PublicIdFreeMutant(public) ==
    \A k \in DOMAIN keys : keys[k].status = "active" => keys[k].public # public

PublicIdFree(public) == \A k \in DOMAIN keys : keys[k].public # public

FingerprintFreeMutant(fingerprint) ==
    \A d \in DOMAIN devices :
        devices[d].status = "active" => devices[d].fingerprint # fingerprint

FingerprintFree(fingerprint) ==
    \A d \in DOMAIN devices : devices[d].fingerprint # fingerprint

\* require_workspace_scope
RequireWorkspaceScope(a, w) == w \in DOMAIN workspaces /\ workspaces[w].account = a

-----------------------------------------------------------------------------
(***************************************************************************)
(* Accounts and workspaces.  stored says whether the last statement and    *)
(* the commit of a transaction succeed; if not, the transaction rolls back.*)
(* A call that is refused changes nothing and is not a step.               *)
(***************************************************************************)

CreateAccountMutant(email, stripe, o, stored) ==
    /\ Room(accounts, MaxRows)
    /\ EmailFree(email) /\ StripeFree(stripe, 0)
    /\ accounts' = Append(accounts, [email |-> email, stripe |-> stripe,
                                     plan |-> o.plan, status |-> "active"])
    /\ limits' = IF stored
                 THEN [a \in DOMAIN limits \cup {Len(accounts) + 1} |->
                          IF a = Len(accounts) + 1 THEN o.limits ELSE limits[a]]
                 ELSE limits
    /\ UNCHANGED <<workspaces, keys, devices, calls, grants, updates>>

\* create_account: both rows, or neither.
CreateAccount(email, stripe, o, stored) ==
    /\ Room(accounts, MaxRows)
    /\ EmailFree(email) /\ StripeFree(stripe, 0)
    /\ \/ /\ stored
          /\ accounts' = Append(accounts, [email |-> email, stripe |-> stripe,
                                           plan |-> o.plan, status |-> "active"])
          /\ limits' = [a \in DOMAIN limits \cup {Len(accounts) + 1} |->
                           IF a = Len(accounts) + 1 THEN o.limits ELSE limits[a]]
       \/ /\ ~stored
          /\ UNCHANGED <<accounts, limits>>
    /\ UNCHANGED <<workspaces, keys, devices, calls, grants, updates>>

CountUpdate == updates < MaxUpdates /\ updates' = updates + 1

\* set_account_status: any status may follow any other.
SetAccountStatus(a, status) ==
    /\ accounts[a].status # status
    /\ CountUpdate
    /\ accounts' = [accounts EXCEPT ![a].status = status]
    /\ UNCHANGED <<limits, workspaces, keys, devices, calls, grants>>

UpdatePlanMutant(a, o, stored) ==
    /\ CountUpdate
    /\ accounts' = [accounts EXCEPT ![a].plan = o.plan]
    /\ limits' = IF stored THEN [limits EXCEPT ![a] = o.limits] ELSE limits
    /\ UNCHANGED <<workspaces, keys, devices, calls, grants>>

\* update_account_plan_and_limits: it fails, and rolls back, when the account
\* has no limits row.
UpdatePlan(a, o, stored) ==
    /\ CountUpdate
    /\ \/ /\ stored /\ a \in DOMAIN limits
          /\ accounts' = [accounts EXCEPT ![a].plan = o.plan]
          /\ limits' = [limits EXCEPT ![a] = o.limits]
       \/ /\ ~(stored /\ a \in DOMAIN limits)
          /\ UNCHANGED <<accounts, limits>>
    /\ UNCHANGED <<workspaces, keys, devices, calls, grants>>

\* set_stripe_customer_id
SetStripe(a, stripe) ==
    /\ StripeFree(stripe, a)
    /\ CountUpdate
    /\ accounts' = [accounts EXCEPT ![a].stripe = stripe]
    /\ UNCHANGED <<limits, workspaces, keys, devices, calls, grants>>

\* create_workspace
CreateWorkspace(a, name) ==
    /\ Room(workspaces, MaxWorkspaces)
    /\ NameFree(a, name)
    /\ workspaces' = Append(workspaces, [account |-> a, name |-> name, status |-> "active"])
    /\ UNCHANGED <<accounts, limits, keys, devices, calls, grants, updates>>

\* set_workspace_status
SetWorkspaceStatus(w, status) ==
    /\ workspaces[w].status # status
    /\ CountUpdate
    /\ workspaces' = [workspaces EXCEPT ![w].status = status]
    /\ UNCHANGED <<accounts, limits, keys, devices, calls, grants>>

-----------------------------------------------------------------------------
(***************************************************************************)
(* API keys.                                                               *)
(***************************************************************************)

NewKey(public, a, w, root) ==
    [public |-> public, account |-> a, workspace |-> w, status |-> "active", root |-> root]

\* A caller enters issue_api_key with ids that may not belong together.
BeginIssue(c, a, w) ==
    /\ calls[c] = Idle
    /\ calls' = [calls EXCEPT ![c] = [Idle EXCEPT !.op = "issue", !.account = a,
                                                  !.workspace = w, !.left = Attempts]]
    /\ UNCHANGED <<tables, grants, updates>>

\* A caller enters rotate_api_key.
BeginRotate(c, old) ==
    /\ calls[c] = Idle
    /\ calls' = [calls EXCEPT ![c] = [Idle EXCEPT !.op = "rotate", !.old = old,
                                                  !.left = Attempts]]
    /\ UNCHANGED <<tables, grants, updates>>

Issuable(c) ==
    calls[c].op = "issue" /\ RequireWorkspaceScope(calls[c].account, calls[c].workspace)

RotatableMutant(c) == calls[c].op = "rotate" /\ calls[c].old \in DOMAIN keys

\* Only an active key can be rotated; the row is read in the transaction.
Rotatable(c) ==
    /\ calls[c].op = "rotate"
    /\ calls[c].old \in DOMAIN keys
    /\ keys[calls[c].old].status = "active"

\* insert_api_key
Insert(c, public) ==
    /\ Issuable(c) /\ PublicIdFree(public)
    /\ Room(keys, MaxKeys)
    /\ keys' = Append(keys, NewKey(public, calls[c].account, calls[c].workspace, Len(keys) + 1))
    /\ calls' = [calls EXCEPT ![c] = Idle]
    /\ UNCHANGED <<accounts, limits, workspaces, devices, grants, updates>>

RotateKeepsOldMutant(c, public) ==
    /\ Rotatable(c) /\ PublicIdFree(public)
    /\ Room(keys, MaxKeys)
    /\ LET old == keys[calls[c].old]
       IN  keys' = Append(keys, NewKey(public, old.account, old.workspace, old.root))
    /\ calls' = [calls EXCEPT ![c] = Idle]
    /\ UNCHANGED <<accounts, limits, workspaces, devices, grants, updates>>

\* AccountDatabase::rotate_api_key: the successor takes the scope of the old
\* key, which is revoked in the same transaction.
Rotated(old, public) ==
    Append([keys EXCEPT ![old].status = "revoked"],
           NewKey(public, keys[old].account, keys[old].workspace, keys[old].root))

Rotate(c, public) ==
    /\ Rotatable(c) /\ PublicIdFree(public)
    /\ Room(keys, MaxKeys)
    /\ keys' = Rotated(calls[c].old, public)
    /\ calls' = [calls EXCEPT ![c] = Idle]
    /\ UNCHANGED <<accounts, limits, workspaces, devices, grants, updates>>

\* Another administrator's whole rotate_api_key: its attempts that collide
\* change nothing, the one that commits is this step, between any two attempts
\* of the callers.
OtherRotates(old, public) ==
    /\ keys[old].status = "active" /\ PublicIdFree(public)
    /\ Room(keys, MaxKeys)
    /\ keys' = Rotated(old, public)
    /\ UNCHANGED <<accounts, limits, workspaces, devices, calls, grants, updates>>

\* The public id is taken: the attempt is undone and the next one follows,
\* or the call ends with CredentialGenerationExhausted.
Collide(c, public) ==
    /\ Issuable(c) \/ Rotatable(c)
    /\ ~PublicIdFree(public)
    /\ calls' = [calls EXCEPT ![c] = IF calls[c].left = 1 THEN Idle
                                     ELSE [calls[c] EXCEPT !.left = @ - 1]]
    /\ UNCHANGED <<tables, grants, updates>>

\* The scope or the old key does not exist, the old key is not active, or the
\* random source or the database fails: the call ends and nothing is stored.
EndCall(c) ==
    /\ calls[c] # Idle
    /\ calls' = [calls EXCEPT ![c] = Idle]
    /\ UNCHANGED <<tables, grants, updates>>

\* revoke_api_key
RevokeApiKey(k) ==
    /\ keys[k].status = "active"
    /\ keys' = [keys EXCEPT ![k].status = "revoked"]
    /\ UNCHANGED <<accounts, limits, workspaces, devices, calls, grants, updates>>

-----------------------------------------------------------------------------
(***************************************************************************)
(* Device credentials.                                                     *)
(***************************************************************************)

\* register_device_credential
RegisterDevice(a, w, fingerprint) ==
    /\ Room(devices, MaxDevices)
    /\ RequireWorkspaceScope(a, w)
    /\ FingerprintFree(fingerprint)
    /\ devices' = Append(devices, [account |-> a, workspace |-> w,
                                   fingerprint |-> fingerprint, status |-> "active"])
    /\ UNCHANGED <<accounts, limits, workspaces, keys, calls, grants, updates>>

\* revoke_device_credential
RevokeDevice(d) ==
    /\ devices[d].status = "active"
    /\ devices' = [devices EXCEPT ![d].status = "revoked"]
    /\ UNCHANGED <<accounts, limits, workspaces, keys, calls, grants, updates>>

-----------------------------------------------------------------------------
(***************************************************************************)
(* Authentication.                                                         *)
(***************************************************************************)

\* The joined query of authenticate: a key is found with its account, its
\* workspace in that account and its limits, or not at all.
Found(public) ==
    {k \in DOMAIN keys :
        /\ keys[k].public = public
        /\ keys[k].account \in DOMAIN accounts
        /\ RequireWorkspaceScope(keys[k].account, keys[k].workspace)
        /\ keys[k].account \in DOMAIN limits}

\* The key is active, and so are its account and its workspace.
KeyUsable(k) ==
    /\ keys[k].status = "active"
    /\ accounts[keys[k].account].status = "active"
    /\ workspaces[keys[k].workspace].status = "active"

DeviceUsableMutant(k, d) ==
    /\ devices[d].status = "active"
    /\ devices[d].account = keys[k].account

\* The device is active and registered for the scope of the key.
DeviceUsable(k, d) ==
    /\ devices[d].status = "active"
    /\ devices[d].account = keys[k].account
    /\ devices[d].workspace = keys[k].workspace

\* authenticate_ingress with a key (its public id and its secret) and the
\* fingerprint of the client certificate.  A refusal changes nothing.
Authenticate(public, secret, fingerprint) ==
    /\ Cardinality(grants) < MaxGrants
    /\ \E k \in Found(public), d \in DOMAIN devices :
          /\ secret = k
          /\ KeyUsable(k)
          /\ devices[d].fingerprint = fingerprint
          /\ DeviceUsable(k, d)
          /\ grants' = grants \cup
                {[account |-> keys[k].account, workspace |-> keys[k].workspace,
                  key |-> k, device |-> d, limits |-> limits[keys[k].account],
                  public |-> public, fingerprint |-> fingerprint]}
    /\ UNCHANGED <<tables, calls, updates>>

-----------------------------------------------------------------------------

\* migrate_schema on a new file: empty tables.
Init ==
    /\ accounts = <<>> /\ limits = <<>> /\ workspaces = <<>>
    /\ keys = <<>> /\ devices = <<>>
    /\ calls = [c \in Callers |-> Idle]
    /\ grants = {}
    /\ updates = 0

Administer ==
    \/ \E email \in Emails, stripe \in StripeIds \cup {NoStripe}, o \in Offers,
          stored \in BOOLEAN : CreateAccount(email, stripe, o, stored)
    \/ \E a \in DOMAIN accounts :
          \/ \E status \in Status : SetAccountStatus(a, status)
          \/ \E o \in Offers, stored \in BOOLEAN : UpdatePlan(a, o, stored)
          \/ \E stripe \in StripeIds \cup {NoStripe} : SetStripe(a, stripe)
          \/ \E name \in Names : CreateWorkspace(a, name)
          \/ \E w \in DOMAIN workspaces, f \in Fingerprints : RegisterDevice(a, w, f)
    \/ \E w \in DOMAIN workspaces, status \in Status : SetWorkspaceStatus(w, status)
    \/ \E k \in DOMAIN keys :
          RevokeApiKey(k) \/ \E public \in PublicIds : OtherRotates(k, public)
    \/ \E d \in DOMAIN devices : RevokeDevice(d)

KeyCall(c) ==
    \/ \E a \in DOMAIN accounts, w \in DOMAIN workspaces : BeginIssue(c, a, w)
    \/ \E k \in DOMAIN keys : BeginRotate(c, k)
    \/ \E public \in PublicIds :
          Insert(c, public) \/ Rotate(c, public) \/ Collide(c, public)
    \/ EndCall(c)

Next ==
    \/ Administer
    \/ \E c \in Callers : KeyCall(c)
    \/ \E public \in PublicIds, secret \in DOMAIN keys, fingerprint \in Fingerprints :
          Authenticate(public, secret, fingerprint)

Spec == Init /\ [][Next]_vars

-----------------------------------------------------------------------------
(***************************************************************************)
(* Properties                                                              *)
(***************************************************************************)

ActiveKeys(root) == {k \in DOMAIN keys : keys[k].root = root /\ keys[k].status = "active"}

\* The joins of authenticate lose no credential: rows refer to rows that exist,
\* every account has its limits row, and the workspace of every key and device belongs to its account, so
\* that InvalidApiKey means the key is wrong and never that a creation was
\* half done (create_account, insert_api_key, register_device_credential).
LookupTotal ==
    /\ RowsTyped
    /\ DOMAIN limits = DOMAIN accounts
    /\ \A k \in DOMAIN keys : Found(keys[k].public) = {k}
    /\ \A d \in DOMAIN devices :
          RequireWorkspaceScope(devices[d].account, devices[d].workspace)

\* The plan an account is billed for and the limits it is held to always come
\* from one call: a plan change that fails half way leaves neither half behind
\* (update_account_plan_and_limits).
PlanIntact ==
    \A a \in DOMAIN accounts \cap DOMAIN limits :
        [plan |-> accounts[a].plan, limits |-> limits[a]] \in Offers

\* Whatever administration does before or after, the key and the device of an
\* identity that was granted were provisioned for the same account and
\* workspace, and the workspace is that account's own (authenticate).
GrantsScoped ==
    \A g \in grants :
        /\ <<keys[g.key].account, keys[g.key].workspace>> = <<g.account, g.workspace>>
        /\ <<devices[g.device].account, devices[g.device].workspace>>
              = <<g.account, g.workspace>>
        /\ workspaces[g.workspace].account = g.account

\* A certificate or a key id never changes hands: all identities ever granted
\* for one fingerprint lie in one workspace of one account and name one device,
\* and those granted for one public id name one key, across revocations,
\* registrations and rotations (UNIQUE over revoked rows too).
CredentialsPinned ==
    \A g, h \in grants :
        /\ g.fingerprint = h.fingerprint =>
              <<g.device, g.account, g.workspace>> = <<h.device, h.account, h.workspace>>
        /\ g.public = h.public => g.key = h.key

\* However callers interleave and retry rotations, the line of keys that grew
\* from one issued key has at most one active member (rotate_api_key reads the
\* status of the old key and revokes it in one transaction).
OneActivePerLine == \A root \in DOMAIN keys : Cardinality(ActiveKeys(root)) <= 1

\* A rotation, or an issue next to it, takes access from nobody: a line of keys
\* loses its active key only when that key is revoked in a step that stores
\* nothing else (revoke_api_key), and gets none back afterwards.
RotationKeepsAccess ==
    [][\A root \in DOMAIN keys :
          LET before == Cardinality(ActiveKeys(root))
              after == Cardinality(ActiveKeys(root)')
          IN  /\ after <= before
              /\ after < before =>
                    \E k \in DOMAIN keys :
                        /\ \A j \in DOMAIN keys \ {k} : keys'[j] = keys[j]
                        /\ RevokeApiKey(k)]_vars

\* Revocation is final: no step makes a revoked row active again or moves it,
\* and no identity is granted for a public id or a fingerprint that any revoked
\* row carries, under any sequence of issues, rotations and registrations.
RevocationFinal ==
    [][/\ \A k \in DOMAIN keys : keys[k].status = "revoked" => keys'[k] = keys[k]
       /\ \A d \in DOMAIN devices : devices[d].status = "revoked" => devices'[d] = devices[d]
       /\ \A g \in grants' \ grants :
             /\ \A k \in DOMAIN keys :
                   keys[k].public = g.public => keys[k].status = "active"
             /\ \A d \in DOMAIN devices :
                   devices[d].fingerprint = g.fingerprint => devices[d].status = "active"]_vars

=============================================================================

-------------------------- MODULE IsolationProofs --------------------------
(***************************************************************************)
(* TLAPS proofs about Isolation, for every number of identities, requests  *)
(* and tasks, every capacity and every lifetime.                           *)
(***************************************************************************)
EXTENDS Isolation, TLAPS

\* Everything the other components rely on in one call of material_for or
\* rotate: identity now maps to m, every other surviving entry is untouched,
\* and m is either the material identity had or a newly issued one.
StoreStep(identity, m) ==
    /\ identity \in DOMAIN entries'
    /\ DOMAIN entries' \subseteq DOMAIN entries \cup {identity}
    /\ entries'[identity].material = m
    /\ \A j \in DOMAIN entries' : j # identity =>
          j \in DOMAIN entries /\ entries'[j] = entries[j]
    /\ entries' \in [DOMAIN entries' -> IsolationEntry]
    /\ \/ /\ identity \in DOMAIN entries
          /\ m = entries[identity].material
          /\ nextToken' = nextToken /\ nextGroup' = nextGroup
       \/ /\ m = FreshMaterial
          /\ nextToken' = nextToken + 1 /\ nextGroup' = nextGroup + 1
          /\ nextToken <= MaxFresh /\ nextGroup <= MaxFresh

\* Insert replaces one entry and keeps those it is told to keep.
LEMMA InsertFacts ==
    ASSUME TypeOK, NEW kept \in SUBSET DOMAIN entries, NEW identity \in Identities,
           NEW m \in IsolationMaterial, Insert(kept, identity, m)
    PROVE  /\ identity \in DOMAIN entries'
           /\ DOMAIN entries' = kept \cup {identity}
           /\ entries'[identity].material = m
           /\ \A j \in DOMAIN entries' : j # identity =>
                 j \in DOMAIN entries /\ entries'[j] = entries[j]
           /\ entries' \in [DOMAIN entries' -> IsolationEntry]
<1> USE IsolationAssumption
<1>1. EntryWith(m) \in IsolationEntry
  BY DEF TypeOK, EntryWith, IsolationEntry
<1>2. EntryWith(m).material = m
  BY DEF EntryWith
<1>3. entries' = [j \in kept \cup {identity} |->
                    IF j = identity THEN EntryWith(m) ELSE entries[j]]
  BY DEF Insert
<1>4. \A j \in kept : entries[j] \in IsolationEntry
  BY DEF TypeOK
<1> QED
  BY <1>1, <1>2, <1>3, <1>4

\* material_for is a StoreStep.
LEMMA MaterialForFacts ==
    ASSUME TypeOK, NEW identity \in Identities,
           MaterialFor(identity, Served(identity))
    PROVE  StoreStep(identity, Served(identity)) /\ Served(identity) \in IsolationMaterial
<1> USE IsolationAssumption
<1>0. Unexpired \subseteq DOMAIN entries
  BY DEF Unexpired
<1>1. CASE identity \in Unexpired
  <2>1. Served(identity) = entries[identity].material /\ identity \in DOMAIN entries
    BY <1>0, <1>1 DEF Served
  <2>2. Served(identity) \in IsolationMaterial
    BY <2>1 DEF TypeOK, IsolationEntry
  <2>3. Insert(Unexpired, identity, Served(identity)) /\ UNCHANGED <<nextToken, nextGroup>>
    BY <1>1 DEF MaterialFor
  <2> QED
    BY <1>0, <2>1, <2>2, <2>3, InsertFacts DEF StoreStep
<1>2. CASE identity \notin Unexpired
  <2>1. Served(identity) = FreshMaterial /\ Allocate
    BY <1>2 DEF Served, MaterialFor
  <2>2. FreshMaterial \in IsolationMaterial
    BY <2>1 DEF TypeOK, Allocate, CanAllocate, FreshMaterial, IsolationMaterial, Tokens, Groups
  <2>3. PICK kept \in SUBSET DOMAIN entries : Insert(kept, identity, Served(identity))
    <3>1. CASE Insert(Unexpired, identity, Served(identity))
      BY <3>1, <1>0
    <3>2. CASE \E victim \in Oldest(Unexpired) :
                  Insert(Unexpired \ {victim}, identity, Served(identity))
      BY <3>2, <1>0
    <3> QED
      BY <1>2, <3>1, <3>2 DEF MaterialFor
  <2>4. /\ identity \in DOMAIN entries'
        /\ DOMAIN entries' = kept \cup {identity}
        /\ entries'[identity].material = Served(identity)
        /\ \A j \in DOMAIN entries' : j # identity =>
              j \in DOMAIN entries /\ entries'[j] = entries[j]
        /\ entries' \in [DOMAIN entries' -> IsolationEntry]
    BY <2>1, <2>2, <2>3, InsertFacts
  <2>5. /\ nextToken' = nextToken + 1 /\ nextGroup' = nextGroup + 1
        /\ nextToken <= MaxFresh /\ nextGroup <= MaxFresh
    BY <2>1 DEF Allocate, CanAllocate
  <2> QED
    BY <2>1, <2>2, <2>4, <2>5 DEF StoreStep
<1> QED
  BY <1>1, <1>2

\* rotate is a StoreStep that always issues.
LEMMA RotateFacts ==
    ASSUME TypeOK, NEW identity \in Identities, Rotate(identity)
    PROVE  /\ StoreStep(identity, FreshMaterial)
           /\ nextToken' = nextToken + 1 /\ nextGroup' = nextGroup + 1
           /\ FreshMaterial \in IsolationMaterial
<1> USE IsolationAssumption
<1>0. Unexpired \subseteq DOMAIN entries
  BY DEF Unexpired
<1>1. FreshMaterial \in IsolationMaterial
  BY DEF TypeOK, Rotate, Allocate, CanAllocate, FreshMaterial, IsolationMaterial, Tokens, Groups
<1> QED
  BY <1>0, <1>1, InsertFacts DEF Rotate, StoreStep, Allocate, CanAllocate

-----------------------------------------------------------------------------

\* The initial state satisfies the invariant; Restart reaches it again.
LEMMA IsolationInit == Init => IsolationInv
<1> SUFFICES ASSUME Init PROVE IsolationInv
  OBVIOUS
<1> USE IsolationAssumption
<1>0. AnyIdentity \in Identities
  BY DEF AnyIdentity
<1>1. TypeOK
  BY <1>0 DEF Init, TypeOK, Request, FreeTask, RequestCtx, BridgeTask, Modes, NoToken, NoGroup
<1> QED
  BY <1>1 DEF Init, IsolationInv, Issued, TokenOwner, GroupOwner, ServingLink,
              FailedTokenGone, SessionHasToken, PoolIsolation, RetryUsesFreshToken,
              Request, FreeTask, NoToken, NoGroup, OnTor

\* A new process starts with an empty store and fresh counters.
LEMMA IsolationRestart == Restart => IsolationInv'
<1> SUFFICES ASSUME Restart PROVE IsolationInv'
  OBVIOUS
<1> USE IsolationAssumption
<1>0. AnyIdentity \in Identities
  BY DEF AnyIdentity
<1>1. TypeOK'
  BY <1>0 DEF Restart, TypeOK, Request, FreeTask, RequestCtx, BridgeTask, Modes, NoToken, NoGroup
<1> QED
  BY <1>1 DEF Restart, IsolationInv, Issued, TokenOwner, GroupOwner, ServingLink,
              FailedTokenGone, SessionHasToken, PoolIsolation, RetryUsesFreshToken,
              Request, FreeTask, NoToken, NoGroup, OnTor

\* The arithmetic content of TypeOK.
Numbers ==
    /\ nextToken \in Nat \ {0} /\ nextGroup \in Nat \ {0}
    /\ \A i \in DOMAIN entries :
          /\ entries[i].material.token \in Nat \ {0}
          /\ entries[i].material.group_key \in Nat \ {0}
    /\ \A c \in Conns :
          conn[c].token \in Nat /\ conn[c].failed \in Nat /\ conn[c].group \in Nat
    /\ \A r \in Requests : req[r].group \in Nat

\* The numbers the arguments compare are naturals.
LEMMA NumbersFact == TypeOK => Numbers
  BY IsolationAssumption
  DEF TypeOK, Numbers, IsolationEntry, IsolationMaterial, RequestCtx, BridgeTask,
      Tokens, Groups, NoToken, NoGroup

\* One lemma per action.  request_filter: the group key a request takes belongs to its identity.
LEMMA IsolationFilter ==
    ASSUME IsolationInv, NEW r \in Requests, NEW i \in Identities, NEW mode \in Modes,
           RequestFilter(r, i, mode)
    PROVE  IsolationInv'
<1> USE IsolationAssumption DEF IsolationInv
<1>0. Numbers
  BY NumbersFact
<1>1. CASE mode = "session"
  <2>1. /\ StoreStep(i, Served(i)) /\ Served(i) \in IsolationMaterial
        /\ req' = [req EXCEPT ![r] =
                [pc |-> "filtered", identity |-> i, mode |-> "session",
                 group |-> Served(i).group_key]]
        /\ UNCHANGED <<now, conn>>
        /\ req[r].pc = "new"
    BY <1>1, MaterialForFacts DEF RequestFilter
  <2>2. TypeOK'
    BY <2>1 DEF TypeOK, StoreStep, RequestCtx, Modes, IsolationMaterial, FreshMaterial, Groups, Tokens
  <2>3. Issued'
    BY <1>0, <2>1 DEF TypeOK, Numbers, Issued, StoreStep, IsolationMaterial, FreshMaterial, Tokens, Groups
  <2>4. TokenOwner'
    BY <2>1 DEF TypeOK, Issued, TokenOwner, StoreStep, FreshMaterial
  <2>5. GroupOwner'
    BY <1>0, <2>1 DEF TypeOK, Numbers, Issued, GroupOwner, StoreStep, FreshMaterial, NoGroup
  <2>6. ServingLink'
    BY <2>1 DEF TypeOK, ServingLink, IsolationMaterial, Groups, NoGroup
  <2>7. FailedTokenGone' /\ SessionHasToken' /\ RetryUsesFreshToken'
    BY <2>1 DEF TypeOK, Issued, StoreStep, FreshMaterial, FailedTokenGone,
                SessionHasToken, RetryUsesFreshToken, OnTor
  <2>8. PoolIsolation'
    BY <2>1 DEF TypeOK, PoolIsolation, ServingLink
  <2> QED
    BY <2>2, <2>3, <2>4, <2>5, <2>6, <2>7, <2>8
<1>2. CASE mode = "strict"
  <2>1. /\ req' = [req EXCEPT ![r] =
                [pc |-> "filtered", identity |-> i, mode |-> "strict",
                 group |-> nextGroup]]
        /\ UNCHANGED <<now, conn, entries>>
        /\ nextToken <= MaxFresh /\ nextGroup <= MaxFresh
        /\ nextToken' = nextToken + 1 /\ nextGroup' = nextGroup + 1
        /\ req[r].pc = "new"
    BY <1>2 DEF RequestFilter, Allocate, CanAllocate, FreshMaterial
  <2>2. TypeOK'
    BY <2>1 DEF TypeOK, RequestCtx, Modes, Groups
  <2>3. Issued'
    BY <2>1 DEF TypeOK, Issued, IsolationEntry, IsolationMaterial, Tokens, Groups,
                RequestCtx, BridgeTask, NoToken, NoGroup
  <2>4. TokenOwner' /\ FailedTokenGone' /\ SessionHasToken' /\ RetryUsesFreshToken'
    BY <2>1 DEF TokenOwner, FailedTokenGone, SessionHasToken, RetryUsesFreshToken, OnTor
  <2>5. GroupOwner'
    BY <1>0, <2>1 DEF TypeOK, Numbers, Issued, GroupOwner, NoGroup
  <2>6. ServingLink' /\ PoolIsolation'
    BY <1>0, <2>1 DEF TypeOK, Numbers, ServingLink, PoolIsolation, NoGroup
  <2> QED
    BY <2>2, <2>3, <2>4, <2>5, <2>6
<1> QED
  BY <1>1, <1>2 DEF Modes

\* The updates of a task record stay in its type.
LEMMA ServesRequest ==
    ASSUME NEW task \in BridgeTask, NEW r \in Requests
    PROVE  [task EXCEPT !.pc = "open", !.user = r] \in BridgeTask
  BY DEF BridgeTask

\* So does the record of a task that starts a connect attempt ...
LEMMA StartsBuilding ==
    ASSUME NEW task \in BridgeTask, NEW t \in Tokens \cup {NoToken}
    PROVE  [task EXCEPT !.pc = "building", !.token = t] \in BridgeTask
  BY DEF BridgeTask

\* ... and that of a task that backs off before its second attempt.
LEMMA BacksOff ==
    ASSUME NEW task \in BridgeTask
    PROVE  [task EXCEPT !.pc = "backoff", !.attempt = 1, !.failed = task.token]
              \in BridgeTask
  BY DEF BridgeTask

\* A task enters or leaves the pool, is started or ends: the store is not
\* touched.
LEMMA IsolationUpstream ==
    ASSUME IsolationInv, NEW r \in Requests, NEW c \in Conns,
           UpstreamReuse(r, c) \/ UpstreamConnect(r, c) \/ RequestDone(r, c)
    PROVE  IsolationInv'
<1> USE IsolationAssumption DEF IsolationInv
<1>0. Numbers
  BY NumbersFact
<1>a. AnyIdentity \in Identities
  BY DEF AnyIdentity
<1>b. UNCHANGED <<now, entries, nextToken, nextGroup>>
  BY DEF UpstreamReuse, UpstreamConnect, RequestDone
<1>1. CASE UpstreamReuse(r, c)
  <2>1. /\ req[r].pc = "filtered" /\ conn[c].pc = "pooled"
        /\ conn[c].group = req[r].group
        /\ req' = [req EXCEPT ![r].pc = "serving"]
        /\ conn' = [conn EXCEPT ![c].pc = "open", ![c].user = r]
    BY <1>1 DEF UpstreamReuse, PoolMatch
  <2>2. TypeOK'
    <3>1. req' \in [Requests -> RequestCtx]
      BY <2>1 DEF TypeOK, RequestCtx
    <3>a. [conn[c] EXCEPT !.pc = "open", !.user = r] \in BridgeTask
      <4>1. conn[c] \in BridgeTask
        BY DEF TypeOK
      <4> QED
        BY <4>1, ServesRequest
    <3>2. conn' \in [Conns -> BridgeTask]
      BY <2>1, <3>a DEF TypeOK
    <3> QED
      BY <1>b, <3>1, <3>2 DEF TypeOK
  <2>3. Issued' /\ TokenOwner'
    BY <1>b, <2>1 DEF TypeOK, Issued, TokenOwner, RequestCtx, BridgeTask
  <2>4. GroupOwner'
    BY <1>b, <2>1 DEF TypeOK, GroupOwner, RequestCtx, BridgeTask
  <2>5. ServingLink'
    BY <1>b, <2>1 DEF TypeOK, ServingLink, RequestCtx, BridgeTask
  <2>6. FailedTokenGone' /\ SessionHasToken' /\ RetryUsesFreshToken'
    BY <1>b, <2>1 DEF TypeOK, FailedTokenGone, SessionHasToken, RetryUsesFreshToken,
                      OnTor, BridgeTask
  <2>7. PoolIsolation'
    BY <1>b, <2>1 DEF TypeOK, PoolIsolation, GroupOwner, ServingLink, RequestCtx, BridgeTask
  <2> QED
    BY <2>2, <2>3, <2>4, <2>5, <2>6, <2>7
<1>2. CASE UpstreamConnect(r, c)
  <2>1. /\ req[r].pc = "filtered" /\ conn[c].pc = "free"
        /\ req' = [req EXCEPT ![r].pc = "serving"]
        /\ conn' = [conn EXCEPT ![c] =
              [pc |-> "attempt", identity |-> req[r].identity, mode |-> req[r].mode,
               attempt |-> 0, token |-> NoToken, failed |-> NoToken,
               group |-> req[r].group, user |-> r]]
    BY <1>2 DEF UpstreamConnect, StartTask
  <2>2. TypeOK'
    BY <1>b, <2>1 DEF TypeOK, RequestCtx, BridgeTask, NoToken
  <2>3. Issued' /\ TokenOwner'
    BY <1>0, <1>b, <2>1 DEF TypeOK, Numbers, Issued, TokenOwner, RequestCtx, NoToken
  <2>4. GroupOwner'
    BY <1>0, <1>b, <2>1 DEF TypeOK, Numbers, GroupOwner, RequestCtx
  <2>5. ServingLink'
    BY <1>b, <2>1 DEF TypeOK, ServingLink, RequestCtx
  <2>6. FailedTokenGone' /\ SessionHasToken' /\ RetryUsesFreshToken'
    BY <1>b, <2>1 DEF TypeOK, FailedTokenGone, SessionHasToken, RetryUsesFreshToken, OnTor
  <2>7. PoolIsolation'
    BY <1>b, <2>1 DEF TypeOK, PoolIsolation, ServingLink, RequestCtx
  <2> QED
    BY <2>2, <2>3, <2>4, <2>5, <2>6, <2>7
<1>3. CASE RequestDone(r, c)
  <2>1. /\ conn[c].user = r /\ conn[c].pc = "open"
        /\ req' = [req EXCEPT ![r] = Request("done")]
    BY <1>3 DEF RequestDone
  <2>2. \/ conn' = [conn EXCEPT ![c] = FreeTask]
        \/ req[r].mode # "strict" /\ conn' = [conn EXCEPT ![c].pc = "pooled", ![c].user = "none"]
    BY <1>3 DEF RequestDone
  <2>3. TypeOK'
    BY <1>a, <1>b, <2>1, <2>2
    DEF TypeOK, Request, FreeTask, RequestCtx, BridgeTask, Modes, NoToken, NoGroup
  <2>a. TokenOwner'
    BY <1>0, <1>b, <2>1, <2>2 DEF TypeOK, Numbers, TokenOwner, FreeTask, BridgeTask, NoToken
  <2>4. Issued'
    BY <1>0, <1>b, <2>1, <2>2
    DEF TypeOK, Numbers, Issued, Request, FreeTask, RequestCtx, BridgeTask, NoToken, NoGroup
  <2>5. GroupOwner'
    BY <1>0, <1>b, <2>1, <2>2
    DEF TypeOK, Numbers, GroupOwner, Request, FreeTask, RequestCtx, BridgeTask, NoGroup
  <2>6. ServingLink'
    BY <1>b, <2>1, <2>2
    DEF TypeOK, ServingLink, Request, FreeTask, RequestCtx, BridgeTask
  <2>7. FailedTokenGone' /\ SessionHasToken' /\ RetryUsesFreshToken'
    BY <1>b, <2>1, <2>2
    DEF TypeOK, FailedTokenGone, SessionHasToken, RetryUsesFreshToken, FreeTask, OnTor,
        BridgeTask
  <2>8. PoolIsolation'
    BY <1>b, <2>1, <2>2
    DEF TypeOK, PoolIsolation, ServingLink, Request, FreeTask, RequestCtx, BridgeTask, Modes
  <2> QED
    BY <2>3, <2>4, <2>a, <2>5, <2>6, <2>7, <2>8
<1> QED
  BY <1>1, <1>2, <1>3

\* A task ends, its last step having called the store for its identity or not.
LEMMA IsolationFail ==
    ASSUME IsolationInv, NEW c \in Conns, FailTask(c), now' = now,
           \/ UNCHANGED <<entries, nextToken, nextGroup>>
           \/ \E m \in IsolationMaterial : StoreStep(conn[c].identity, m)
    PROVE  IsolationInv'
<1> USE IsolationAssumption DEF IsolationInv
<1>0. Numbers
  BY NumbersFact
<1>a. AnyIdentity \in Identities /\ conn[c].identity \in Identities
  BY DEF AnyIdentity, TypeOK, BridgeTask
<1>1. /\ conn' = [conn EXCEPT ![c] = FreeTask]
      /\ req' = [r \in Requests |-> IF conn[c].user = r THEN Request("done") ELSE req[r]]
  BY DEF FailTask
<1>b. req' \in [Requests -> RequestCtx] /\ conn' \in [Conns -> BridgeTask]
  BY <1>a, <1>1
  DEF TypeOK, Request, FreeTask, RequestCtx, BridgeTask, Modes, NoToken, NoGroup
<1>2. TypeOK'
  BY <1>a, <1>b DEF TypeOK, StoreStep
<1>3. TokenOwner'
  BY <1>0, <1>1 DEF TypeOK, Numbers, Issued, TokenOwner, FreeTask, StoreStep, FreshMaterial, NoToken
<1>4. Issued'
  BY <1>0, <1>1
  DEF TypeOK, Numbers, Issued, Request, FreeTask, StoreStep, FreshMaterial, NoToken, NoGroup
<1>5. GroupOwner'
  BY <1>0, <1>1
  DEF TypeOK, Numbers, Issued, GroupOwner, Request, FreeTask, StoreStep, FreshMaterial, NoGroup
<1>6. ServingLink' /\ PoolIsolation'
  BY <1>1 DEF TypeOK, ServingLink, PoolIsolation, Request, FreeTask
<1>7. FailedTokenGone'
  BY <1>0, <1>1
  DEF TypeOK, Numbers, Issued, FailedTokenGone, FreeTask, StoreStep, FreshMaterial
<1>8. SessionHasToken' /\ RetryUsesFreshToken'
  BY <1>1 DEF TypeOK, SessionHasToken, RetryUsesFreshToken, FreeTask, OnTor
<1> QED
  BY <1>2, <1>3, <1>4, <1>5, <1>6, <1>7, <1>8

\* A bridge task starts, connects, fails for good or closes: no store call.
LEMMA IsolationStartOrEnd ==
    ASSUME IsolationInv, NEW c \in Conns,
           \/ \E i \in Identities, mode \in Modes : HandleConnect(c, i, mode)
           \/ ConnectOk(c) \/ ConnectFailed(c) \/ CloseConn(c)
    PROVE  IsolationInv'
<1> USE IsolationAssumption DEF IsolationInv
<1>0. Numbers
  BY NumbersFact
<1>a. AnyIdentity \in Identities
  BY DEF AnyIdentity
<1>b. UNCHANGED <<now, entries, nextToken, nextGroup>>
  BY DEF HandleConnect, ConnectOk, ConnectFailed, CloseConn
<1>1. CASE \E i \in Identities, mode \in Modes : HandleConnect(c, i, mode)
  <2>1. PICK i \in Identities, mode \in Modes :
          /\ conn' = [conn EXCEPT ![c] =
                [pc |-> "attempt", identity |-> i, mode |-> mode,
                 attempt |-> 0, token |-> NoToken, failed |-> NoToken,
                 group |-> NoGroup, user |-> "none"]]
          /\ req' = req
    BY <1>1 DEF HandleConnect, StartTask
  <2>2. TypeOK'
    BY <1>b, <2>1 DEF TypeOK, BridgeTask, NoToken, NoGroup
  <2>3. TokenOwner'
    BY <1>0, <1>b, <2>1 DEF TypeOK, Numbers, TokenOwner, NoToken
  <2>4. Issued' /\ ServingLink' /\ PoolIsolation'
    BY <1>0, <1>b, <2>1 DEF TypeOK, Numbers, Issued, ServingLink, PoolIsolation, NoToken, NoGroup
  <2>5. GroupOwner'
    BY <1>0, <1>b, <2>1 DEF TypeOK, Numbers, GroupOwner, NoGroup
  <2>6. FailedTokenGone' /\ SessionHasToken' /\ RetryUsesFreshToken'
    BY <1>b, <2>1 DEF TypeOK, FailedTokenGone, SessionHasToken, RetryUsesFreshToken, OnTor
  <2> QED
    BY <2>2, <2>3, <2>4, <2>5, <2>6
<1>2. CASE ConnectOk(c)
  <2>1. /\ conn[c].pc = "building" /\ req' = req
        /\ conn' = [conn EXCEPT ![c].pc = "open"]
    BY <1>2 DEF ConnectOk
  <2>2. TypeOK'
    BY <1>b, <2>1 DEF TypeOK, BridgeTask
  <2>3. Issued' /\ TokenOwner'
    BY <1>b, <2>1 DEF TypeOK, Issued, TokenOwner, BridgeTask
  <2>4. GroupOwner' /\ ServingLink' /\ PoolIsolation'
    BY <1>b, <2>1 DEF TypeOK, GroupOwner, ServingLink, PoolIsolation, BridgeTask
  <2>5. FailedTokenGone' /\ SessionHasToken' /\ RetryUsesFreshToken'
    BY <1>b, <2>1 DEF TypeOK, FailedTokenGone, SessionHasToken, RetryUsesFreshToken,
                      OnTor, BridgeTask
  <2> QED
    BY <2>2, <2>3, <2>4, <2>5
<1>3. CASE ConnectFailed(c)
  BY <1>3, <1>b, IsolationFail DEF ConnectFailed
<1>4. CASE CloseConn(c)
  <2>1. FailTask(c)
    BY <1>4 DEF CloseConn, FailTask, TypeOK
  <2> QED
    BY <2>1, <1>b, IsolationFail
<1> QED
  BY <1>1, <1>2, <1>3, <1>4

\* connect_with_retry takes the token of the identity from material_for.
LEMMA IsolationAttempt ==
    ASSUME IsolationInv, NEW c \in Conns, Attempt(c)
    PROVE  IsolationInv'
<1> USE IsolationAssumption DEF IsolationInv
<1>0. Numbers
  BY NumbersFact
<1>a. conn[c].identity \in Identities
  BY DEF TypeOK, BridgeTask
<1>b. now' = now /\ req' = req
  BY DEF Attempt
<1>1. CASE conn[c].mode = "strict"
  <2>1. /\ conn' = [conn EXCEPT ![c].pc = "building", ![c].token = NoToken]
        /\ UNCHANGED <<entries, nextToken, nextGroup>>
    BY <1>1 DEF Attempt
  <2>2. TypeOK'
    <3>1. [conn[c] EXCEPT !.pc = "building", !.token = NoToken] \in BridgeTask
      BY StartsBuilding DEF TypeOK
    <3> QED
      BY <1>b, <2>1, <3>1 DEF TypeOK
  <2>3. Issued' /\ TokenOwner'
    BY <1>0, <1>b, <2>1 DEF TypeOK, Numbers, Issued, TokenOwner, BridgeTask, NoToken
  <2>4. GroupOwner' /\ ServingLink' /\ PoolIsolation'
    BY <1>b, <2>1 DEF TypeOK, GroupOwner, ServingLink, PoolIsolation, BridgeTask
  <2>5. FailedTokenGone' /\ SessionHasToken' /\ RetryUsesFreshToken'
    BY <1>1, <1>b, <2>1 DEF TypeOK, FailedTokenGone, SessionHasToken, RetryUsesFreshToken,
                      OnTor, BridgeTask
  <2> QED
    BY <2>2, <2>3, <2>4, <2>5
<1>2. CASE conn[c].mode = "session"
  <2> DEFINE i == conn[c].identity
             m == Served(i)
  <2>1. /\ conn' = [conn EXCEPT ![c].pc = "building", ![c].token = m.token]
        /\ MaterialFor(i, m)
    BY <1>2 DEF Attempt
  <2>2. StoreStep(i, m) /\ m \in IsolationMaterial
    BY <1>a, <2>1, MaterialForFacts
  <2> HIDE DEF m
  <2>3. TypeOK'
    <3>1. m.token \in Tokens \cup {NoToken} /\ conn[c] \in BridgeTask
      BY <2>2 DEF IsolationMaterial, TypeOK
    <3>2. [conn[c] EXCEPT !.pc = "building", !.token = m.token] \in BridgeTask
      BY <3>1, StartsBuilding
    <3>3. conn' \in [Conns -> BridgeTask]
      BY <2>1, <3>2 DEF TypeOK
    <3> QED
      BY <1>a, <1>b, <2>2, <3>3 DEF TypeOK, StoreStep
  <2>4. Issued'
    BY <1>0, <1>b, <2>1, <2>2
    DEF TypeOK, Numbers, Issued, BridgeTask, StoreStep, FreshMaterial
  <2>5. TokenOwner'
    BY <1>0, <1>b, <2>1, <2>2
    DEF TypeOK, Numbers, Issued, TokenOwner, BridgeTask, StoreStep, FreshMaterial
  <2>6. GroupOwner'
    <3>1. \A d \in Conns : /\ conn'[d].group = conn[d].group
                           /\ conn'[d].identity = conn[d].identity
                           /\ conn'[d].mode = conn[d].mode
      BY <2>1 DEF TypeOK, BridgeTask
    <3> QED
      BY <1>0, <1>b, <2>2, <3>1
      DEF Numbers, Issued, GroupOwner, StoreStep, FreshMaterial, NoGroup
  <2>7. ServingLink' /\ PoolIsolation'
    BY <1>b, <2>1 DEF TypeOK, ServingLink, PoolIsolation, BridgeTask
  <2>8. FailedTokenGone' /\ RetryUsesFreshToken'
    BY <1>0, <1>b, <2>1, <2>2
    DEF TypeOK, Numbers, Issued, FailedTokenGone, RetryUsesFreshToken, OnTor,
        BridgeTask, StoreStep, FreshMaterial
  <2>9. SessionHasToken'
    BY <1>b, <2>1, <2>2
    DEF TypeOK, SessionHasToken, BridgeTask, IsolationMaterial, Tokens, NoToken
  <2> QED
    BY <2>3, <2>4, <2>5, <2>6, <2>7, <2>8, <2>9
<1> QED
  BY <1>1, <1>2 DEF TypeOK, BridgeTask, Modes

\* The deadline has passed when the second attempt begins.
LEMMA IsolationPastDeadline ==
    ASSUME IsolationInv, NEW c \in Conns, AttemptPastDeadline(c)
    PROVE  IsolationInv'
<1>1. conn[c].identity \in Identities
  BY DEF IsolationInv, TypeOK, BridgeTask
<1>2. \/ UNCHANGED <<entries, nextToken, nextGroup>>
      \/ \E m \in IsolationMaterial : StoreStep(conn[c].identity, m)
  BY <1>1, MaterialForFacts DEF AttemptPastDeadline, IsolationInv
<1> QED
  BY <1>2, IsolationFail DEF AttemptPastDeadline

\* rotate after a retryable failure takes the failed token out of the store.
LEMMA IsolationRetry ==
    ASSUME IsolationInv, NEW c \in Conns, ConnectRetry(c)
    PROVE  IsolationInv'
<1> USE IsolationAssumption DEF IsolationInv
<1>0. Numbers
  BY NumbersFact
<1>a. conn[c].identity \in Identities
  BY DEF TypeOK, BridgeTask
<1>b. now' = now /\ conn[c].pc = "building" /\ conn[c].attempt = 0
  BY DEF ConnectRetry
<1>1. CASE FailTask(c)
  <2>1. \/ UNCHANGED <<entries, nextToken, nextGroup>>
        \/ \E m \in IsolationMaterial : StoreStep(conn[c].identity, m)
    BY <1>a, RotateFacts DEF ConnectRetry, RotateForRetry
  <2> QED
    BY <1>1, <1>b, <2>1, IsolationFail
<1>2. CASE ~FailTask(c)
  <2>1. /\ conn' = [conn EXCEPT ![c].pc = "backoff", ![c].attempt = 1,
                                ![c].failed = conn[c].token]
        /\ req' = req
    BY <1>2 DEF ConnectRetry
  <2>2. \/ conn[c].mode = "strict" /\ UNCHANGED <<entries, nextToken, nextGroup>>
        \/ /\ conn[c].mode = "session"
           /\ StoreStep(conn[c].identity, FreshMaterial)
           /\ nextToken' = nextToken + 1 /\ nextGroup' = nextGroup + 1
    BY <1>a, RotateFacts DEF ConnectRetry, RotateForRetry
  <2>3. TypeOK'
    BY <1>a, <1>b, <2>1, <2>2 DEF TypeOK, BridgeTask, StoreStep
  <2>4. Issued'
    BY <1>0, <1>b, <2>1, <2>2
    DEF TypeOK, Numbers, Issued, BridgeTask, StoreStep, FreshMaterial
  <2>5. TokenOwner'
    BY <1>0, <1>b, <2>1, <2>2
    DEF TypeOK, Numbers, Issued, TokenOwner, BridgeTask, StoreStep, FreshMaterial
  <2>6. GroupOwner'
    <3>1. \A d \in Conns : /\ conn'[d].group = conn[d].group
                           /\ conn'[d].identity = conn[d].identity
                           /\ conn'[d].mode = conn[d].mode
      BY <2>1 DEF TypeOK, BridgeTask
    <3>2. req' = req
      BY <2>1
    <3> QED
      BY <1>0, <2>2, <3>1, <3>2
      DEF Numbers, Issued, GroupOwner, StoreStep, FreshMaterial, NoGroup
  <2>7. ServingLink' /\ PoolIsolation'
    BY <1>b, <2>1 DEF TypeOK, ServingLink, PoolIsolation, BridgeTask
  <2>8. FailedTokenGone'
    BY <1>0, <1>a, <1>b, <2>1, <2>2
    DEF TypeOK, Numbers, Issued, TokenOwner, FailedTokenGone, SessionHasToken,
        BridgeTask, StoreStep, FreshMaterial
  <2>9. SessionHasToken' /\ RetryUsesFreshToken'
    BY <1>b, <2>1 DEF TypeOK, SessionHasToken, RetryUsesFreshToken, OnTor, BridgeTask
  <2> QED
    BY <2>3, <2>4, <2>5, <2>6, <2>7, <2>8, <2>9
<1> QED
  BY <1>1, <1>2

-----------------------------------------------------------------------------

\* Every step of the specification preserves the invariant.
LEMMA IsolationNext == IsolationInv /\ [Next]_vars => IsolationInv'
<1> SUFFICES ASSUME IsolationInv, [Next]_vars PROVE IsolationInv'
  OBVIOUS
<1>1. CASE \E r \in Requests : RequestStep(r)
  BY <1>1, IsolationFilter, IsolationUpstream DEF RequestStep
<1>2. CASE \E c \in Conns : ConnStep(c)
  BY <1>2, IsolationStartOrEnd, IsolationAttempt, IsolationPastDeadline, IsolationRetry
  DEF ConnStep
<1>3. CASE Tick
  <2>1. TypeOK'
    BY <1>3, IsolationAssumption DEF Tick, IsolationInv, TypeOK
  <2> QED
    BY <1>3, <2>1
    DEF Tick, IsolationInv, Issued, TokenOwner, GroupOwner, ServingLink,
        FailedTokenGone, SessionHasToken, PoolIsolation, RetryUsesFreshToken, OnTor
<1>4. CASE Restart
  BY <1>4, IsolationRestart
<1>5. CASE UNCHANGED vars
  BY <1>5
  DEF vars, IsolationInv, TypeOK, Issued, TokenOwner, GroupOwner, ServingLink,
      FailedTokenGone, SessionHasToken, PoolIsolation, RetryUsesFreshToken, OnTor
<1> QED
  BY <1>1, <1>2, <1>3, <1>4, <1>5 DEF Next

\* The store, the requests and the tasks keep their types: no token, group key
\* or time leaves its range (material_for, rotate, connect_with_retry).
THEOREM IsolationTypeCorrect == Spec => []TypeOK
<1>1. IsolationInv => TypeOK
  BY DEF IsolationInv
<1> QED
  BY <1>1, IsolationInit, IsolationNext, PTL DEF Spec

\* Streams of different identities never share a circuit, whatever the
\* interleaving of lookups, evictions, expiries and rotations of the store.
THEOREM StreamsIsolated == Spec => []CircuitIsolation
<1>1. IsolationInv => CircuitIsolation
  BY DEF IsolationInv, TokenOwner, CircuitIsolation
<1> QED
  BY <1>1, IsolationInit, IsolationNext, PTL DEF Spec

\* Pingora's pool, partitioned by group key, never serves a request over a
\* connection of another identity or mode, and never keeps a strict one.
THEOREM PoolIsolated == Spec => []PoolIsolation
<1>1. IsolationInv => PoolIsolation
  BY DEF IsolationInv
<1> QED
  BY <1>1, IsolationInit, IsolationNext, PTL DEF Spec

\* The second attempt of connect_with_retry never reuses the failed token.
THEOREM RetryIsFresh == Spec => []RetryUsesFreshToken
<1>1. IsolationInv => RetryUsesFreshToken
  BY DEF IsolationInv
<1> QED
  BY <1>1, IsolationInit, IsolationNext, PTL DEF Spec

-----------------------------------------------------------------------------
(***************************************************************************)
(* What a step may do to the store's entries.                              *)
(***************************************************************************)

\* Bridge task c leaves its connect attempt for identity i in this step.
LeavesAttempt(c, i) ==
    conn[c].pc = "building" /\ conn'[c].pc # "building" /\ conn[c].identity = i

\* One identity is written, to what it had if that was live unless one of its
\* own connect attempts has just failed; the others are kept or dropped.
OneIdentityWritten(i, kept, m) ==
    /\ Insert(kept, i, m)
    /\ (i \in Unexpired /\ m # entries[i].material) => \E c \in Conns : LeavesAttempt(c, i)

\* material_for writes one identity.
LEMMA MaterialForWrites ==
    ASSUME TypeOK, NEW i \in Identities, MaterialFor(i, Served(i))
    PROVE  \E kept \in SUBSET Unexpired, m \in IsolationMaterial : OneIdentityWritten(i, kept, m)
<1>1. Served(i) \in IsolationMaterial
  BY MaterialForFacts
<1>2. i \in Unexpired => Served(i) = entries[i].material
  BY DEF Served
<1>3. \E kept \in SUBSET Unexpired : Insert(kept, i, Served(i))
  <2>1. CASE Insert(Unexpired, i, Served(i))
    BY <2>1
  <2>2. CASE \E victim \in Oldest(Unexpired) : Insert(Unexpired \ {victim}, i, Served(i))
    BY <2>2
  <2> QED
    BY <2>1, <2>2 DEF MaterialFor
<1> QED
  BY <1>1, <1>2, <1>3 DEF OneIdentityWritten

\* Every step leaves the store alone, empties it (a restart) or writes one
\* identity of it.
LEMMA StoreMoves ==
    ASSUME IsolationInv, [Next]_vars
    PROVE  \/ entries' = entries
           \/ entries' = [i \in {} |-> 0]
           \/ \E i \in Identities : \E kept \in SUBSET Unexpired, m \in IsolationMaterial :
                 OneIdentityWritten(i, kept, m)
<1> USE IsolationAssumption
<1>a. TypeOK
  BY DEF IsolationInv
<1>b. \A c \in Conns : conn[c] \in BridgeTask /\ conn[c].identity \in Identities
  BY <1>a DEF TypeOK, BridgeTask
<1>1. ASSUME NEW r \in Requests, RequestStep(r)
      PROVE  \/ entries' = entries
             \/ \E i \in Identities : MaterialFor(i, Served(i))
  BY <1>1 DEF RequestStep, RequestFilter, UpstreamReuse, UpstreamConnect, RequestDone
<1>2. ASSUME NEW c \in Conns, ConnStep(c), ~ConnectRetry(c)
      PROVE  \/ entries' = entries
             \/ \E i \in Identities : MaterialFor(i, Served(i))
  BY <1>2, <1>b DEF ConnStep, HandleConnect, Attempt, AttemptPastDeadline, ConnectOk,
                    ConnectFailed, CloseConn
<1>3. ASSUME NEW c \in Conns, ConnectRetry(c), entries' # entries
      PROVE  \E i \in Identities : \E kept \in SUBSET Unexpired, m \in IsolationMaterial :
                OneIdentityWritten(i, kept, m)
  <2>1. Rotate(conn[c].identity) /\ conn[c].pc = "building"
    BY <1>3 DEF ConnectRetry, RotateForRetry
  <2>2. conn'[c].pc # "building"
    <3>1. \/ conn' = [conn EXCEPT ![c].pc = "backoff", ![c].attempt = 1,
                                  ![c].failed = conn[c].token]
          \/ conn' = [conn EXCEPT ![c] = FreeTask]
      BY <1>3 DEF ConnectRetry, FailTask
    <3> QED
      BY <3>1, <1>b, <1>a DEF TypeOK, FreeTask, BridgeTask
  <2>3. LeavesAttempt(c, conn[c].identity)
    BY <2>1, <2>2 DEF LeavesAttempt
  <2>4. FreshMaterial \in IsolationMaterial
    BY <1>a, <1>b, <2>1, RotateFacts
  <2>5. OneIdentityWritten(conn[c].identity, Unexpired, FreshMaterial)
    BY <2>1, <2>3 DEF OneIdentityWritten, Rotate
  <2> QED
    BY <1>b, <2>4, <2>5
<1>4. CASE Tick \/ Restart \/ UNCHANGED vars
  BY <1>4 DEF Tick, Restart, vars
<1> QED
  BY <1>a, <1>1, <1>2, <1>3, <1>4, MaterialForWrites DEF Next

\* Live material is replaced only by the retry of a failed connect of the same
\* identity (rotate in connect_with_retry): lookups, evictions and expiries
\* caused by other identities never swap it.
THEOREM MaterialIsStable == Spec => MaterialStable
<1>1. ASSUME IsolationInv, [Next]_vars,
             NEW j \in DOMAIN entries \cap DOMAIN entries',
             entries'[j].material # entries[j].material, entries[j].expires_at > now
      PROVE  \E c \in Conns : LeavesAttempt(c, j)
  <2>1. j \in Unexpired
    BY <1>1 DEF Unexpired
  <2>2. PICK i \in Identities : \E kept \in SUBSET Unexpired, m \in IsolationMaterial :
            OneIdentityWritten(i, kept, m)
    <3>1. entries' # entries /\ entries' # [i \in {} |-> 0]
      BY <1>1
    <3> QED
      BY <1>1, <3>1, StoreMoves
  <2>3. PICK kept \in SUBSET Unexpired, m \in IsolationMaterial : OneIdentityWritten(i, kept, m)
    BY <2>2
  <2>4. TypeOK /\ kept \in SUBSET DOMAIN entries /\ Insert(kept, i, m)
    BY <1>1, <2>3 DEF IsolationInv, Unexpired, OneIdentityWritten
  <2>5. /\ entries'[i].material = m
        /\ \A k \in DOMAIN entries' : k # i => entries'[k] = entries[k]
    BY <2>4, InsertFacts
  <2>6. j = i /\ m # entries[i].material
    BY <1>1, <2>5
  <2> QED
    BY <2>1, <2>3, <2>6 DEF OneIdentityWritten
<1>2. IsolationInv /\ [Next]_vars =>
        [\A i \in DOMAIN entries \cap DOMAIN entries' :
          (/\ entries'[i].material # entries[i].material
           /\ entries[i].expires_at > now)
              => \E c \in Conns :
                    /\ conn[c].pc = "building" /\ conn'[c].pc # "building"
                    /\ conn[c].identity = i]_vars
  BY <1>1 DEF LeavesAttempt
<1> QED
  BY <1>2, IsolationInit, IsolationNext, PTL DEF Spec, MaterialStable

\* The expiry of an entry is exactly one lifetime after its last use, so the
\* sweep of expired entries is a test on last_used.
ExpiryExact ==
    \A i \in DOMAIN entries : entries[i].expires_at = entries[i].last_used + Ttl

\* Every write of the store keeps the two times of an entry together.
LEMMA ExpiryNext == IsolationInv /\ ExpiryExact /\ [Next]_vars => ExpiryExact'
<1> SUFFICES ASSUME IsolationInv, ExpiryExact, [Next]_vars PROVE ExpiryExact'
  OBVIOUS
<1>1. CASE entries' = entries \/ entries' = [i \in {} |-> 0]
  BY <1>1 DEF ExpiryExact
<1>2. ASSUME NEW i \in Identities, NEW kept \in SUBSET Unexpired, NEW m \in IsolationMaterial,
             OneIdentityWritten(i, kept, m)
      PROVE  ExpiryExact'
  <2>1. entries' = [j \in kept \cup {i} |-> IF j = i THEN EntryWith(m) ELSE entries[j]]
    BY <1>2 DEF OneIdentityWritten, Insert
  <2>2. EntryWith(m).expires_at = EntryWith(m).last_used + Ttl
    BY DEF EntryWith
  <2>3. kept \subseteq DOMAIN entries
    BY DEF Unexpired
  <2> QED
    BY <2>1, <2>2, <2>3 DEF ExpiryExact
<1> QED
  BY <1>1, <1>2, StoreMoves

\* A step that starts a connect attempt is Attempt, and the token it takes is
\* no stored one unless that one is live.
LEMMA AttemptIsLive ==
    ASSUME IsolationInv, Next, NEW c \in Conns, NEW i \in DOMAIN entries,
           conn[c].pc # "building", conn'[c].pc = "building",
           conn'[c].token = entries[i].material.token
    PROVE  i \in Unexpired
<1> USE IsolationAssumption
<1>a. TypeOK /\ Numbers
  BY NumbersFact DEF IsolationInv
<1>b. conn \in [Conns -> BridgeTask] /\ \A d \in Conns : conn[d].identity \in Identities
  BY <1>a DEF TypeOK, BridgeTask
<1>1. ASSUME NEW r \in Requests, RequestStep(r)
      PROVE  FALSE
  <2>1. conn' # conn
    OBVIOUS
  <2>2. PICK d \in Conns : UpstreamReuse(r, d) \/ UpstreamConnect(r, d) \/ RequestDone(r, d)
    BY <1>1, <2>1 DEF RequestStep, RequestFilter
  <2>3. CASE UpstreamReuse(r, d)
    BY <2>3, <1>b DEF UpstreamReuse, BridgeTask
  <2>4. CASE UpstreamConnect(r, d)
    BY <2>4, <1>b DEF UpstreamConnect, StartTask
  <2>5. CASE RequestDone(r, d)
    BY <2>5, <1>b DEF RequestDone, FreeTask, BridgeTask
  <2> QED
    BY <2>2, <2>3, <2>4, <2>5
<1>2. ASSUME NEW d \in Conns, ConnStep(d), ~Attempt(d)
      PROVE  FALSE
  <2>1. CASE FailTask(d) \/ CloseConn(d)
    BY <2>1, <1>b DEF FailTask, CloseConn, FreeTask
  <2>2. CASE \E j \in Identities, mode \in Modes : HandleConnect(d, j, mode)
    BY <2>2, <1>b DEF HandleConnect, StartTask
  <2>3. CASE ConnectOk(d)
    BY <2>3, <1>b DEF ConnectOk, BridgeTask
  <2>4. CASE ConnectRetry(d) /\ ~FailTask(d)
    <3>1. conn' = [conn EXCEPT ![d].pc = "backoff", ![d].attempt = 1,
                               ![d].failed = conn[d].token]
      BY <2>4 DEF ConnectRetry
    <3> QED
      BY <3>1, <1>b DEF BridgeTask
  <2> QED
    BY <1>2, <2>1, <2>2, <2>3, <2>4
    DEF ConnStep, AttemptPastDeadline, ConnectFailed
<1>3. ~Tick /\ ~Restart
  BY DEF Tick, Restart, FreeTask
<1>4. PICK d \in Conns : Attempt(d)
  BY <1>1, <1>2, <1>3 DEF Next
<1>5. CASE conn[d].mode = "strict"
  <2>1. conn' = [conn EXCEPT ![d].pc = "building", ![d].token = NoToken]
    BY <1>4, <1>5 DEF Attempt
  <2>2. d = c /\ conn'[c].token = 0
    BY <2>1, <1>b DEF BridgeTask, NoToken
  <2> QED
    BY <2>2, <1>a DEF Numbers
<1>6. CASE conn[d].mode = "session"
  <2>1. /\ conn' = [conn EXCEPT ![d].pc = "building",
                                ![d].token = Served(conn[d].identity).token]
        /\ MaterialFor(conn[d].identity, Served(conn[d].identity))
    BY <1>4, <1>6 DEF Attempt
  <2>2. d = c /\ conn'[c].token = Served(conn[d].identity).token
    BY <2>1, <1>b DEF BridgeTask
  <2>3. CASE conn[d].identity \in Unexpired
    BY <2>2, <2>3 DEF Served, Unexpired, IsolationInv, TokenOwner
  <2>4. CASE conn[d].identity \notin Unexpired
    <3>1. conn'[c].token = nextToken
      BY <2>2, <2>4 DEF Served, FreshMaterial
    <3>2. entries[i].material.token < nextToken
      BY DEF IsolationInv, Issued
    <3>3. entries[i].material.token \in Nat /\ nextToken \in Nat
      BY <1>a DEF Numbers
    <3> QED
      BY <3>1, <3>2, <3>3
  <2> QED
    BY <2>3, <2>4
<1> QED
  BY <1>4, <1>5, <1>6 DEF Attempt

\* A stored token is handed to a connect attempt only within one lifetime of
\* its last use (the retain at the top of material_for).
THEOREM MaterialIsNeverStale == Spec => NoStaleMaterial
<1>1. Init => ExpiryExact
  BY DEF Init, ExpiryExact
<1>2. IsolationInv /\ ExpiryExact /\ [Next]_vars =>
        [\A c \in Conns : \A i \in DOMAIN entries :
          (/\ conn[c].pc # "building" /\ conn'[c].pc = "building"
           /\ conn'[c].token = entries[i].material.token)
              => now < entries[i].last_used + Ttl]_vars
  <2> SUFFICES ASSUME IsolationInv, ExpiryExact, Next, NEW c \in Conns, NEW i \in DOMAIN entries,
                      conn[c].pc # "building", conn'[c].pc = "building",
                      conn'[c].token = entries[i].material.token
               PROVE  now < entries[i].last_used + Ttl
    OBVIOUS
  <2>1. entries[i].expires_at > now
    BY AttemptIsLive DEF Unexpired
  <2>2. entries[i].expires_at = entries[i].last_used + Ttl
    BY DEF ExpiryExact
  <2>3. entries[i].expires_at \in Int /\ now \in Int
    BY IsolationAssumption DEF IsolationInv, TypeOK, IsolationEntry
  <2> QED
    BY <2>1, <2>2, <2>3
<1> QED
  BY <1>1, <1>2, IsolationInit, IsolationNext, ExpiryNext, PTL DEF Spec, NoStaleMaterial

=============================================================================

----------------------------- MODULE Isolation -----------------------------
(***************************************************************************)
(* Circuit isolation: the in-memory isolation store (IsolationStore), the  *)
(* ordinary-HTTP path that partitions Pingora's upstream pool by group key *)
(* (request_filter, upstream_peer) and the bridge tasks that open Tor      *)
(* streams under an isolation token (connect_with_retry).                  *)
(*                                                                         *)
(* An identity is the resolved isolation identity: in production the keyed *)
(* hash of account, workspace, destination and caller sub-identity.  The   *)
(* store is one mutex-protected map, so each of its methods is one step;   *)
(* everything between two calls of it interleaves.                         *)
(***************************************************************************)
EXTENDS Integers, FiniteSets

CONSTANTS
    Identities,   \* resolved session isolation identities
    Requests,     \* ordinary HTTP requests inside Pingora
    Conns,        \* bridge connection tasks, each at most one Tor stream
    Capacity,     \* MAX_ISOLATION_TOKENS
    Ttl,          \* ISOLATION_TOKEN_TTL
    MaxTime,      \* bound on the clock
    MaxFresh      \* bound on the tokens and group keys handed out

ASSUME IsolationAssumption ==
    /\ Capacity \in Nat \ {0}      \* asserted by IsolationStore::new
    /\ Ttl \in Nat \ {0}
    /\ Identities # {}
    /\ "none" \notin Requests
    /\ MaxTime \in Nat
    /\ MaxFresh \in Nat

VARIABLES
    now,       \* the monotonic clock
    entries,   \* the store: identity -> IsolationEntry
    nextToken, \* arti's counter behind IsolationToken::new()
    nextGroup, \* ISOLATION_GROUP_COUNTER
    req,       \* RequestCtx of each ordinary HTTP request
    conn       \* each bridge task with the upstream connection it serves

vars == <<now, entries, nextToken, nextGroup, req, conn>>

-----------------------------------------------------------------------------

Tokens == 1..MaxFresh
Groups == 1..MaxFresh
NoToken == 0      \* isolate_every_stream: shares a circuit with no stream
NoGroup == 0      \* a CONNECT tunnel, which Pingora never pools

Modes == {"session", "strict"}

IsolationMaterial == [token : Tokens, group_key : Groups]

IsolationEntry ==
    [material : IsolationMaterial, last_used : 0..MaxTime,
     expires_at : 0..(MaxTime + Ttl)]

RequestCtx ==
    [pc : {"new", "filtered", "serving", "done"},
     identity : Identities, mode : Modes, group : Groups \cup {NoGroup}]

\* "attempt": about to call material_for; "building": inside
\* connect_with_prefs; "backoff": between the two attempts; "open": the Tor
\* stream carries traffic; "pooled": idle in Pingora's upstream pool.
BridgeTask ==
    [pc : {"free", "attempt", "building", "backoff", "open", "pooled"},
     identity : Identities, mode : Modes, attempt : {0, 1},
     token : Tokens \cup {NoToken}, failed : Tokens \cup {NoToken},
     group : Groups \cup {NoGroup}, user : Requests \cup {"none"}]

AnyIdentity == CHOOSE i \in Identities : TRUE

\* A request that has not reached request_filter, or is over.
Request(pc) ==
    [pc |-> pc, identity |-> AnyIdentity, mode |-> "session", group |-> NoGroup]

FreeTask ==
    [pc |-> "free", identity |-> AnyIdentity, mode |-> "session", attempt |-> 0,
     token |-> NoToken, failed |-> NoToken, group |-> NoGroup, user |-> "none"]

TypeOK ==
    /\ now \in 0..MaxTime
    /\ DOMAIN entries \subseteq Identities
    /\ entries \in [DOMAIN entries -> IsolationEntry]
    /\ nextToken \in 1..(MaxFresh + 1)
    /\ nextGroup \in 1..(MaxFresh + 1)
    /\ req \in [Requests -> RequestCtx]
    /\ conn \in [Conns -> BridgeTask]

-----------------------------------------------------------------------------
(***************************************************************************)
(* The store.  Every method first drops the expired entries, then works on *)
(* what is left.                                                           *)
(***************************************************************************)

UnexpiredMutant1 ==          \* keeps an entry at the instant it expires
    {i \in DOMAIN entries : entries[i].expires_at >= now}
UnexpiredMutant2 ==          \* the comparison the wrong way round
    {i \in DOMAIN entries : entries[i].expires_at <= now}

\* entries.retain(|_, entry| entry.expires_at > now)
Unexpired == {i \in DOMAIN entries : entries[i].expires_at > now}

FreshMaterialMutant ==       \* hands out the token of the previous call
    [token |-> IF nextToken > 1 THEN nextToken - 1 ELSE 1, group_key |-> nextGroup]

\* IsolationToken::new() and the next group key, taken together.
FreshMaterial == [token |-> nextToken, group_key |-> nextGroup]

CanAllocate == nextToken <= MaxFresh /\ nextGroup <= MaxFresh

Allocate ==
    /\ CanAllocate
    /\ nextToken' = nextToken + 1
    /\ nextGroup' = nextGroup + 1

EntryWithMutant(material) == \* extends the expiry instead of restarting it
    [material |-> material, last_used |-> now, expires_at |-> now + Ttl + Ttl]

EntryWith(material) ==
    [material |-> material, last_used |-> now, expires_at |-> now + Ttl]

\* entries := the entries of the identities in kept, plus identity |-> material
Insert(kept, identity, material) ==
    entries' = [j \in kept \cup {identity} |->
                    IF j = identity THEN EntryWith(material) ELSE entries[j]]

\* The identities min_by_key may pick: a HashMap breaks ties arbitrarily.
Oldest(ids) ==
    {i \in ids : \A j \in ids : entries[i].last_used <= entries[j].last_used}

\* material_for(identity) returns material.
MaterialFor(identity, material) ==
    \/ /\ identity \in Unexpired
       /\ material = entries[identity].material
       /\ Insert(Unexpired, identity, material)
       /\ UNCHANGED <<nextToken, nextGroup>>
    \/ /\ identity \notin Unexpired
       /\ material = FreshMaterial
       /\ Allocate
       /\ \/ /\ Cardinality(Unexpired) < Capacity
             /\ Insert(Unexpired, identity, material)
          \/ /\ Cardinality(Unexpired) >= Capacity
             /\ \E victim \in Oldest(Unexpired) :
                    Insert(Unexpired \ {victim}, identity, material)

\* rotate(identity): fresh material, inserted whatever the size of the store.
Rotate(identity) ==
    /\ Allocate
    /\ Insert(Unexpired, identity, FreshMaterial)

\* What a caller of material_for can be given.
Served(identity) ==
    IF identity \in Unexpired THEN entries[identity].material ELSE FreshMaterial

-----------------------------------------------------------------------------
(***************************************************************************)
(* Ordinary HTTP requests.                                                 *)
(***************************************************************************)

\* request_filter: session requests take the identity's group key from the
\* store, strict ones a group key of their own that no store entry holds.
RequestFilter(r, identity, mode) ==
    /\ req[r].pc = "new"
    /\ \/ /\ mode = "session"
          /\ MaterialFor(identity, Served(identity))
          /\ req' = [req EXCEPT ![r] =
                [pc |-> "filtered", identity |-> identity, mode |-> "session",
                 group |-> Served(identity).group_key]]
       \/ /\ mode = "strict"
          /\ Allocate
          /\ req' = [req EXCEPT ![r] =
                [pc |-> "filtered", identity |-> identity, mode |-> "strict",
                 group |-> FreshMaterial.group_key]]
          /\ UNCHANGED entries
    /\ UNCHANGED <<now, conn>>

\* upstream_peer: Pingora may reuse a pooled connection whose peer has the
\* same group key ...
PoolMatchMutant(r, c) == conn[c].pc = "pooled"     \* no group key on the peer
PoolMatch(r, c) == conn[c].pc = "pooled" /\ conn[c].group = req[r].group

UpstreamReuse(r, c) ==
    /\ req[r].pc = "filtered"
    /\ PoolMatch(r, c)
    /\ req' = [req EXCEPT ![r].pc = "serving"]
    /\ conn' = [conn EXCEPT ![c].pc = "open", ![c].user = r]
    /\ UNCHANGED <<now, entries, nextToken, nextGroup>>

\* ... or asks the bridge for a new one, passing identity and mode.
StartTask(c, identity, mode, group, user) ==
    /\ conn[c].pc = "free"
    /\ conn' = [conn EXCEPT ![c] =
          [pc |-> "attempt", identity |-> identity, mode |-> mode,
           attempt |-> 0, token |-> NoToken, failed |-> NoToken,
           group |-> group, user |-> user]]

UpstreamConnect(r, c) ==
    /\ req[r].pc = "filtered"
    /\ StartTask(c, req[r].identity, req[r].mode, req[r].group, r)
    /\ req' = [req EXCEPT ![r].pc = "serving"]
    /\ UNCHANGED <<now, entries, nextToken, nextGroup>>

\* The response is complete.  A strict request sent Connection: close, so its
\* upstream is closed; a session one goes back to the pool, unless the origin
\* closes it.
RequestDone(r, c) ==
    /\ req[r].pc = "serving"
    /\ conn[c].user = r
    /\ conn[c].pc = "open"
    /\ req' = [req EXCEPT ![r] = Request("done")]
    /\ \/ conn' = [conn EXCEPT ![c] = FreeTask]
       \/ /\ req[r].mode = "session"
          /\ conn' = [conn EXCEPT ![c].pc = "pooled", ![c].user = "none"]
    /\ UNCHANGED <<now, entries, nextToken, nextGroup>>

-----------------------------------------------------------------------------
(***************************************************************************)
(* Bridge tasks: connect_with_retry, for a tunnel of the public listener   *)
(* (group NoGroup) or for a Pingora request.                               *)
(***************************************************************************)

HandleConnect(c, identity, mode) ==
    /\ StartTask(c, identity, mode, NoGroup, "none")
    /\ UNCHANGED <<now, entries, nextToken, nextGroup, req>>

\* The end of a task whose connect failed: the request it served fails too.
FailTask(c) ==
    /\ conn' = [conn EXCEPT ![c] = FreeTask]
    /\ req' = [r \in Requests |-> IF conn[c].user = r THEN Request("done") ELSE req[r]]

\* The top of the retry loop: choose the stream preferences, then connect, or
\* give up when the deadline has passed by then.
Attempt(c) ==
    /\ conn[c].pc \in {"attempt", "backoff"}
    /\ \/ /\ conn[c].mode = "strict"
          /\ UNCHANGED <<entries, nextToken, nextGroup>>
          /\ conn' = [conn EXCEPT ![c].pc = "building", ![c].token = NoToken]
       \/ /\ conn[c].mode = "session"
          /\ MaterialFor(conn[c].identity, Served(conn[c].identity))
          /\ conn' = [conn EXCEPT ![c].pc = "building",
                                  ![c].token = Served(conn[c].identity).token]
    /\ UNCHANGED <<now, req>>

AttemptPastDeadline(c) ==
    /\ conn[c].pc = "backoff"
    /\ \/ conn[c].mode = "strict" /\ UNCHANGED <<entries, nextToken, nextGroup>>
       \/ conn[c].mode = "session" /\ MaterialFor(conn[c].identity, Served(conn[c].identity))
    /\ FailTask(c)
    /\ UNCHANGED now

ConnectOk(c) ==
    /\ conn[c].pc = "building"
    /\ conn' = [conn EXCEPT ![c].pc = "open"]
    /\ UNCHANGED <<now, entries, nextToken, nextGroup, req>>

\* A final failure: the second attempt, or an error that is not retryable.
ConnectFailed(c) ==
    /\ conn[c].pc = "building"
    /\ FailTask(c)
    /\ UNCHANGED <<now, entries, nextToken, nextGroup>>

\* A retryable failure of the first attempt: a session task rotates its
\* identity, then backs off or, too close to the deadline, gives up.
RotateForRetryMutant(c) == UNCHANGED <<entries, nextToken, nextGroup>>

RotateForRetry(c) ==
    \/ conn[c].mode = "strict" /\ UNCHANGED <<entries, nextToken, nextGroup>>
    \/ conn[c].mode = "session" /\ Rotate(conn[c].identity)

ConnectRetry(c) ==
    /\ conn[c].pc = "building"
    /\ conn[c].attempt = 0
    /\ RotateForRetry(c)
    /\ \/ /\ conn' = [conn EXCEPT ![c].pc = "backoff", ![c].attempt = 1,
                                  ![c].failed = conn[c].token]
          /\ UNCHANGED req
       \/ FailTask(c)
    /\ UNCHANGED now

\* A tunnel ends, or the pool drops an idle connection.
CloseConn(c) ==
    /\ conn[c].user = "none"
    /\ conn[c].pc \in {"open", "pooled"}
    /\ conn' = [conn EXCEPT ![c] = FreeTask]
    /\ UNCHANGED <<now, entries, nextToken, nextGroup, req>>

Tick ==
    /\ now < MaxTime
    /\ now' = now + 1
    /\ UNCHANGED <<entries, nextToken, nextGroup, req, conn>>

-----------------------------------------------------------------------------

Init ==
    /\ now = 0
    /\ entries = [i \in {} |-> 0]
    /\ nextToken = 1
    /\ nextGroup = 1
    /\ req = [r \in Requests |-> Request("new")]
    /\ conn = [c \in Conns |-> FreeTask]

\* The process ends and a new one starts: nothing of this state is on disk.
Restart ==
    /\ now' = 0
    /\ entries' = [i \in {} |-> 0]
    /\ nextToken' = 1
    /\ nextGroup' = 1
    /\ req' = [r \in Requests |-> Request("new")]
    /\ conn' = [c \in Conns |-> FreeTask]

RequestStep(r) ==
    \/ \E i \in Identities, mode \in Modes : RequestFilter(r, i, mode)
    \/ \E c \in Conns :
          UpstreamReuse(r, c) \/ UpstreamConnect(r, c) \/ RequestDone(r, c)

ConnStep(c) ==
    \/ \E i \in Identities, mode \in Modes : HandleConnect(c, i, mode)
    \/ Attempt(c)
    \/ AttemptPastDeadline(c)
    \/ ConnectOk(c)
    \/ ConnectFailed(c)
    \/ ConnectRetry(c)
    \/ CloseConn(c)

Next ==
    \/ \E r \in Requests : RequestStep(r)
    \/ \E c \in Conns : ConnStep(c)
    \/ Tick
    \/ Restart

Spec == Init /\ [][Next]_vars

-----------------------------------------------------------------------------
(***************************************************************************)
(* Properties.                                                             *)
(***************************************************************************)

OnTor(c) == conn[c].pc \in {"building", "open", "pooled"}

\* Two streams share a circuit only when they were opened for the same
\* identity: no expiry, eviction, re-creation or rotation of store entries
\* (material_for, rotate), in any interleaving with connects in progress,
\* gives the token of one identity to another.
CircuitIsolation ==
    \A c, d \in Conns :
        (/\ OnTor(c) /\ OnTor(d)
         /\ conn[c].token = conn[d].token /\ conn[c].token # NoToken)
            => conn[c].identity = conn[d].identity

\* A Pingora request is only ever served over an upstream connection that was
\* opened for its own identity and mode, and a strict connection is never kept
\* for another request (peer.group_key in upstream_peer).
PoolIsolation ==
    \A c \in Conns :
        /\ conn[c].pc = "pooled" => conn[c].mode = "session"
        /\ \A r \in Requests : conn[c].user = r =>
              /\ conn[c].identity = req[r].identity
              /\ conn[c].mode = req[r].mode

\* The retry of a session connect never runs under the token whose attempt
\* failed, even when other tasks of the identity fetch, rotate or evict its
\* entry during the backoff (connect_with_retry).
RetryUsesFreshToken ==
    \A c \in Conns :
        (OnTor(c) /\ conn[c].attempt = 1 /\ conn[c].mode = "session")
            => conn[c].token # conn[c].failed

\* A stored token is handed out only within Ttl of its last use: material_for
\* never revives an entry whose inactivity period is over.
NoStaleMaterial ==
    [][\A c \in Conns : \A i \in DOMAIN entries :
          (/\ conn[c].pc # "building" /\ conn'[c].pc = "building"
           /\ conn'[c].token = entries[i].material.token)
              => now < entries[i].last_used + Ttl]_vars

\* An identity's live material is replaced only by the retry of one of its own
\* failed connects: traffic of other identities can evict it, but never swap
\* the token or the group key under it.
MaterialStable ==
    [][\A i \in DOMAIN entries \cap DOMAIN entries' :
          (/\ entries'[i].material # entries[i].material
           /\ entries[i].expires_at > now)
              => \E c \in Conns :
                    /\ conn[c].pc = "building" /\ conn'[c].pc # "building"
                    /\ conn[c].identity = i]_vars

-----------------------------------------------------------------------------
(***************************************************************************)
(* The inductive invariant behind CircuitIsolation, PoolIsolation and      *)
(* RetryUsesFreshToken: who owns every token and group key still in use.   *)
(***************************************************************************)

\* Whatever is in use was issued by the counters.
Issued ==
    /\ \A i \in DOMAIN entries :
          /\ entries[i].material.token < nextToken
          /\ entries[i].material.group_key < nextGroup
    /\ \A c \in Conns :
          /\ conn[c].token < nextToken /\ conn[c].failed < nextToken
          /\ conn[c].group < nextGroup
    /\ \A r \in Requests : req[r].group < nextGroup

\* A token belongs to one identity, wherever it is kept.
TokenOwner ==
    /\ \A i, j \in DOMAIN entries :
          entries[i].material.token = entries[j].material.token => i = j
    /\ \A c \in Conns : \A i \in DOMAIN entries :
          conn[c].token = entries[i].material.token => conn[c].identity = i
    /\ \A c, d \in Conns :
          (conn[c].token = conn[d].token /\ conn[c].token # NoToken)
              => conn[c].identity = conn[d].identity

\* A group key belongs to one identity and mode, wherever it is kept.
GroupOwner ==
    /\ \A i, j \in DOMAIN entries :
          entries[i].material.group_key = entries[j].material.group_key => i = j
    /\ \A c \in Conns : \A i \in DOMAIN entries :
          conn[c].group = entries[i].material.group_key
              => conn[c].identity = i /\ conn[c].mode = "session"
    /\ \A r \in Requests : \A i \in DOMAIN entries :
          req[r].group = entries[i].material.group_key
              => req[r].identity = i /\ req[r].mode = "session"
    /\ \A c \in Conns, r \in Requests :
          (conn[c].group = req[r].group /\ req[r].group # NoGroup)
              => conn[c].identity = req[r].identity /\ conn[c].mode = req[r].mode
    /\ \A r, s \in Requests :
          (req[r].group = req[s].group /\ req[r].group # NoGroup)
              => req[r].identity = req[s].identity /\ req[r].mode = req[s].mode

\* A request is tied to the one connection that serves it.
ServingLink ==
    /\ \A r \in Requests : req[r].pc = "filtered" => req[r].group # NoGroup
    /\ \A c \in Conns, r \in Requests : conn[c].user = r => req[r].pc = "serving"
    /\ \A c, d \in Conns :
          (conn[c].user = conn[d].user /\ conn[c].user # "none") => c = d

\* The token of a failed attempt is out of the store for good.
FailedTokenGone ==
    \A c \in Conns : (conn[c].attempt = 1 /\ conn[c].mode = "session") =>
        /\ conn[c].failed # NoToken
        /\ \A i \in DOMAIN entries : entries[i].material.token # conn[c].failed

\* A session stream in progress has a token.
SessionHasToken ==
    \A c \in Conns :
        (conn[c].pc = "building" /\ conn[c].mode = "session") => conn[c].token # NoToken

IsolationInv ==
    /\ TypeOK /\ Issued /\ TokenOwner /\ GroupOwner /\ ServingLink
    /\ FailedTokenGone /\ SessionHasToken
    /\ PoolIsolation /\ RetryUsesFreshToken

-----------------------------------------------------------------------------

\* README.md:208, "the store has a fixed maximum size".
StoreBounded == Cardinality(DOMAIN entries) <= Capacity

=============================================================================

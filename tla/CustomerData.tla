---------------------------- MODULE CustomerData ----------------------------
(***************************************************************************)
(* The per-account data allowance: the live budget of each account and     *)
(* usage period (CustomerDataLimiter, CustomerPeriodUsage), the tunnels    *)
(* that reserve bytes from it before they write them                       *)
(* (copy_one_direction_with_customer_data) and the checkpoints that add    *)
(* what was written to the account database (CustomerDataSession,          *)
(* record_usage).                                                          *)
(*                                                                         *)
(* A budget is an (account, period start) pair.  Byte counts are totals of *)
(* both directions.  A live budget is an Arc: it is named by the sequence  *)
(* number of the call that created it, so that a second Arc for the same   *)
(* budget would be a different object, as in the program.                  *)
(***************************************************************************)
EXTENDS Integers, FiniteSets, Functions

CONSTANTS
    Budgets,      \* (account, period start) pairs
    Workspaces,   \* workspaces of each account
    Sessions,     \* tunnels, each opened at most once
    Limit,        \* PROXY_SINGLE_TIER_PERIOD_BYTE_LIMIT
    MaxCached,    \* max_cached_periods
    MaxRead,      \* bound on the bytes of one read (16 KiB in the code)
    MaxSequence   \* bound on the limiter calls of one process

ASSUME CustomerDataAssumption ==
    /\ Budgets # {} /\ Workspaces # {}
    /\ IsFiniteSet(Workspaces) /\ IsFiniteSet(Sessions)
    /\ Limit \in Nat \ {0}
    /\ MaxCached \in Nat \ {0}     \* checked by CustomerDataLimiter::new
    /\ MaxRead \in Nat \ {0}
    /\ MaxSequence \in Nat \ {0}

VARIABLES
    usage,     \* the usage_periods table, bytes per budget and workspace
    states,    \* CustomerDataLimiter.states: budget -> Arc
    used,      \* used_bytes of each Arc
    lastUsed,  \* last_used of each Arc
    sequence,  \* CustomerDataLimiter.sequence
    session,   \* each tunnel with its CustomerDataSession
    sent,      \* history: bytes on the wire per budget, in this process
    base       \* history: bytes the table held when this process started

vars == <<usage, states, used, lastUsed, sequence, session, sent, base>>

-----------------------------------------------------------------------------

Dirs == {"ToTor", "FromTor"}
Arcs == 1..MaxSequence
NoArc == 0

\* "opened": the session exists, the tunnel waits for permits and for Tor and
\* answers the CONNECT;
\* "buffered": writing the bytes read along with the CONNECT header;
\* "copying": inside the select loop; "checkpoint": awaiting record_usage;
\* "committed": record_usage returned, the persisted counters are not stored.
SessionState ==
    [pc : {"new", "opened", "buffered", "copying", "checkpoint", "committed", "closed"},
     budget : Budgets, workspace : Workspaces, arc : Arcs \cup {NoArc},
     chunk : [Dirs -> 0..MaxRead],      \* reserved and being written
     last : Dirs \cup {"none"},         \* the chunk that exhausted the budget
     eof : SUBSET Dirs,                 \* directions that ended cleanly
     recorded : 0..Limit,               \* bytes_to_tor + bytes_from_tor
     persisted : 0..Limit, delta : 0..Limit,
     after : {"copying", "closed"},     \* where the checkpoint returns to
     \* why it is closed: "ended" by itself (refused, end of stream, limit,
     \* error, idle), by a failed checkpoint, or with the process
     reason : {"none", "ended", "storage", "abort", "crash"}]

TypeOK ==
    /\ usage \in [Budgets -> [Workspaces -> Nat]]
    /\ DOMAIN states \subseteq Budgets
    /\ states \in [DOMAIN states -> Arcs]
    /\ used \in [Arcs -> 0..Limit]
    /\ lastUsed \in [Arcs -> 0..MaxSequence]
    /\ sequence \in 1..(MaxSequence + 1)
    /\ session \in [Sessions -> SessionState]
    /\ sent \in [Budgets -> Nat]
    /\ base \in [Budgets -> Nat]

Live(s) == session[s].pc \notin {"new", "closed"}

InFlight(s) == session[s].chunk["ToTor"] + session[s].chunk["FromTor"]

-----------------------------------------------------------------------------
(***************************************************************************)
(* state_for: find or load the live budget, under the mutex.               *)
(***************************************************************************)

IdleMutant(b) == TRUE       \* evicts without looking at strong_count

\* Arc::strong_count(state) == 1: only the map holds it.
Idle(b) == \A s \in Sessions : Live(s) => session[s].arc # states[b]

Victims ==
    {b \in DOMAIN states : Idle(b)
        /\ \A c \in DOMAIN states : Idle(c) => lastUsed[states[b]] <= lastUsed[states[c]]}

\* The budgets that stay cached when one more is to be loaded.
AfterEviction ==
    IF Cardinality(DOMAIN states) < MaxCached \/ Victims = {}
    THEN {DOMAIN states}
    ELSE {DOMAIN states \ {v} : v \in Victims}

\* used_bytes of a budget that is loaded: the rows of all the workspaces.
SeedMutant(b) == usage[b][CHOOSE w \in Workspaces : TRUE]    \* one row only
Seed(b) == SumFunction(usage[b])

CallLimiter == sequence <= MaxSequence /\ sequence' = sequence + 1

\* state_for(b) returns the Arc a.
StateFor(b, a) ==
    /\ CallLimiter
    /\ lastUsed' = [lastUsed EXCEPT ![a] = sequence]
    /\ \/ /\ b \in DOMAIN states
          /\ a = states[b]
          /\ UNCHANGED <<states, used>>
       \/ /\ b \notin DOMAIN states
          /\ a = sequence
          /\ \E kept \in AfterEviction, persisted \in 0..(Limit - 1) :
                /\ Cardinality(kept) < MaxCached
                /\ persisted = Seed(b)
                /\ states' = [c \in kept \cup {b} |-> IF c = b THEN a ELSE states[c]]
                /\ used' = [used EXCEPT ![a] = persisted]

\* state_for(b) fails: no room, storage error or allowance used up.  An entry
\* may have been evicted by then.
StateForFails(b) ==
    /\ CallLimiter
    /\ b \notin DOMAIN states
    /\ \E kept \in AfterEviction : states' = [c \in kept |-> states[c]]
    /\ UNCHANGED <<usage, used, lastUsed, session, sent, base>>

\* ensure_available, before a request is admitted: touches or loads the budget.
EnsureAvailable(b) ==
    /\ \E a \in Arcs : StateFor(b, a)
    /\ UNCHANGED <<usage, session, sent, base>>

\* open_session
OpenSession(s, b, w) ==
    /\ session[s].pc = "new"
    /\ \E a \in Arcs :
          /\ StateFor(b, a)
          /\ used'[a] < Limit
          /\ session' = [session EXCEPT
                ![s].pc = "opened", ![s].budget = b, ![s].workspace = w, ![s].arc = a]
    /\ UNCHANGED <<usage, sent, base>>

-----------------------------------------------------------------------------
(***************************************************************************)
(* Reserving and writing.  allow() is a compare-and-swap loop: it takes    *)
(* effect at the swap that succeeds.                                       *)
(***************************************************************************)

GrantedMutant(s, n) == n     \* does not cap the read at the remaining bytes

Granted(s, n) ==
    LET remaining == Limit - used[session[s].arc]
    IN  IF n < remaining THEN n ELSE remaining

\* allow(n) for direction d of tunnel s succeeds; the tunnel goes to pc.
Allow(s, d, n, pc) ==
    LET a == session[s].arc IN
    /\ used[a] < Limit
    /\ used' = [used EXCEPT ![a] = @ + Granted(s, n)]
    /\ session' = [session EXCEPT
          ![s].pc = pc, ![s].chunk[d] = Granted(s, n),
          ![s].last = IF used'[a] = Limit THEN d ELSE @]
    /\ UNCHANGED <<usage, states, lastUsed, sequence, sent, base>>

\* The tunnel ends with recorded bytes counted: the copy future and any chunk
\* in it are dropped, and what is not persisted yet is checkpointed once more.
FinishMutant(s, recorded) ==     \* no checkpoint on the way out
    session' = [session EXCEPT
        ![s].pc = "closed", ![s].arc = NoArc, ![s].chunk = [d \in Dirs |-> 0], ![s].last = "none",
        ![s].eof = {}, ![s].recorded = recorded, ![s].reason = "ended"]

Finish(s, recorded) ==
    session' = [session EXCEPT
        ![s].pc = IF recorded = session[s].persisted THEN "closed" ELSE "checkpoint",
        ![s].arc = IF recorded = session[s].persisted THEN NoArc ELSE @,
        ![s].chunk = [d \in Dirs |-> 0], ![s].last = "none", ![s].eof = {},
        ![s].recorded = recorded, ![s].delta = recorded - session[s].persisted,
        ![s].after = "closed", ![s].reason = "ended"]

OnWire(s, bytes) == sent' = [sent EXCEPT ![session[s].budget] = @ + bytes]

LimiterUnchanged == UNCHANGED <<usage, states, used, lastUsed, sequence, base>>

\* `more` of the bytes reserved but not recorded did reach the wire.
EndTunnel(s) ==
    /\ Finish(s, session[s].recorded)
    /\ \E more \in 0..InFlight(s) : OnWire(s, more)
    /\ LimiterUnchanged

\* A permit wait timed out, Tor refused or the client does not take the answer:
\* nothing was transferred.
ConnectFails(s) == session[s].pc = "opened" /\ EndTunnel(s)

StartCopy(s) ==
    /\ session[s].pc = "opened"
    /\ session' = [session EXCEPT ![s].pc = "copying"]
    /\ UNCHANGED <<usage, states, used, lastUsed, sequence, sent, base>>

\* Bytes that arrived with the CONNECT header.
AllowBuffered(s, n) == session[s].pc = "opened" /\ Allow(s, "ToTor", n, "buffered")

\* Direction d is in reader.read: it has not ended, writes nothing and is not
\* shutting down its writer after the last bytes of the budget.
Reading(s, d) ==
    d \notin session[s].eof /\ session[s].chunk[d] = 0 /\ session[s].last # d

\* One read of the copy loop.
Read(s, d, n) ==
    /\ session[s].pc = "copying"
    /\ Reading(s, d)
    /\ Allow(s, d, n, "copying")

\* allow() finds the budget used up by other tunnels.
LimitReached(s) ==
    /\ \/ session[s].pc = "opened"
       \/ session[s].pc = "copying" /\ \E d \in Dirs : Reading(s, d)
    /\ used[session[s].arc] >= Limit
    /\ EndTunnel(s)

\* write_all and flush are done: record_transferred.  Buffered bytes that used
\* up the budget end the tunnel at once.
Written(s, d) ==
    LET n == session[s].chunk[d]
        recorded == session[s].recorded + n
    IN
    /\ session[s].pc \in {"buffered", "copying"}
    /\ n > 0
    /\ \/ /\ ~(session[s].pc = "buffered" /\ session[s].last = d)
          /\ session' = [session EXCEPT
                ![s].pc = "copying", ![s].chunk[d] = 0, ![s].recorded = recorded]
       \/ /\ session[s].pc = "buffered" /\ session[s].last = d
          /\ Finish(s, recorded)
    /\ OnWire(s, n)
    /\ LimiterUnchanged

\* In the copy loop the direction first shuts down its writer, while the other
\* one goes on.
LimitClose(s) ==
    /\ session[s].pc = "copying"
    /\ session[s].last # "none"
    /\ session[s].chunk[session[s].last] = 0
    /\ EndTunnel(s)

\* A read or a write fails in either direction, which cancels the other one.
\* A failed write of buffered bytes returns without a checkpoint: nothing has
\* been recorded yet.
CopyFails(s) == session[s].pc \in {"buffered", "copying"} /\ EndTunnel(s)

\* One direction reads end of stream; the tunnel ends with the second one.
Eof(s, d) ==
    /\ session[s].pc = "copying"
    /\ Reading(s, d)
    /\ \/ /\ session[s].eof = {}
          /\ session' = [session EXCEPT ![s].eof = {d}]
          /\ UNCHANGED <<usage, states, used, lastUsed, sequence, sent, base>>
       \/ /\ session[s].eof # {}
          /\ EndTunnel(s)

IdleTimeoutMutant(s) ==      \* a timer that a stuck write keeps from firing
    session[s].pc = "copying" /\ InFlight(s) = 0 /\ EndTunnel(s)

\* No activity for TUNNEL_IDLE_TIMEOUT, a stuck write or shutdown included.
IdleTimeout(s) == session[s].pc = "copying" /\ EndTunnel(s)

-----------------------------------------------------------------------------
(***************************************************************************)
(* Checkpoints.  The copy future is not polled while one is awaited.       *)
(***************************************************************************)

\* The five-second tick, or a mebibyte of pending bytes.
Checkpoint(s) ==
    /\ session[s].pc = "copying"
    /\ session[s].recorded > session[s].persisted
    /\ session' = [session EXCEPT
          ![s].pc = "checkpoint", ![s].after = "copying",
          ![s].delta = session[s].recorded - session[s].persisted]
    /\ UNCHANGED <<usage, states, used, lastUsed, sequence, sent, base>>

\* record_usage commits its transaction ...
Commit(s) ==
    /\ session[s].pc = "checkpoint"
    /\ usage' = [usage EXCEPT ![session[s].budget][session[s].workspace] = @ + session[s].delta]
    /\ session' = [session EXCEPT ![s].pc = "committed"]
    /\ UNCHANGED <<states, used, lastUsed, sequence, sent, base>>

\* ... and the counters follow.
StorePersistedMutant(s) ==   \* keeps the old persisted counters
    /\ session[s].pc = "committed"
    /\ session' = [session EXCEPT
          ![s].pc = session[s].after, ![s].delta = 0,
          ![s].arc = IF session[s].after = "closed" THEN NoArc ELSE @]
    /\ UNCHANGED <<usage, states, used, lastUsed, sequence, sent, base>>

StorePersisted(s) ==
    /\ session[s].pc = "committed"
    /\ session' = [session EXCEPT
          ![s].pc = session[s].after, ![s].delta = 0,
          ![s].arc = IF session[s].after = "closed" THEN NoArc ELSE @,
          ![s].persisted = session[s].persisted + session[s].delta]
    /\ UNCHANGED <<usage, states, used, lastUsed, sequence, sent, base>>

\* The transaction fails: the tunnel is closed, and a chunk still in the copy
\* future is dropped with it.
CommitFails(s) ==
    /\ session[s].pc = "checkpoint"
    /\ session' = [session EXCEPT
          ![s].pc = "closed", ![s].arc = NoArc, ![s].chunk = [d \in Dirs |-> 0], ![s].last = "none",
          ![s].eof = {}, ![s].delta = 0, ![s].reason = "storage"]
    /\ \E more \in 0..InFlight(s) : OnWire(s, more)
    /\ LimiterUnchanged

-----------------------------------------------------------------------------
(***************************************************************************)
(* The end of the process: a crash, or the drain deadline that aborts the  *)
(* tasks still running.  A database write that was under way may or may    *)
(* not have been committed.  Only the database survives.                   *)
(***************************************************************************)

ProcessEnd(reason) ==
    /\ \E done \in SUBSET {s \in Sessions : session[s].pc = "checkpoint"} :
          usage' = [b \in Budgets |-> [w \in Workspaces |->
              usage[b][w] + SumFunctionOnSet([s \in Sessions |-> session[s].delta],
                  {s \in done : session[s].budget = b /\ session[s].workspace = w})]]
    /\ session' = [s \in Sessions |->
          IF Live(s)
          THEN [session[s] EXCEPT !.pc = "closed", !.arc = NoArc, !.chunk = [d \in Dirs |-> 0],
                    !.last = "none", !.eof = {}, !.delta = 0, !.reason = reason]
          ELSE session[s]]
    /\ states' = [b \in {} |-> NoArc]
    /\ used' = [a \in Arcs |-> 0]
    /\ lastUsed' = [a \in Arcs |-> 0]
    /\ sequence' = 1
    /\ sent' = [b \in Budgets |-> 0]
    /\ base' = [b \in Budgets |-> SumFunction(usage'[b])]

-----------------------------------------------------------------------------

NewSession ==
    [pc |-> "new", budget |-> CHOOSE b \in Budgets : TRUE,
     workspace |-> CHOOSE w \in Workspaces : TRUE, arc |-> NoArc,
     chunk |-> [d \in Dirs |-> 0], last |-> "none", eof |-> {},
     recorded |-> 0, persisted |-> 0, delta |-> 0, after |-> "copying",
     reason |-> "none"]

Init ==
    /\ usage = [b \in Budgets |-> [w \in Workspaces |-> 0]]
    /\ states = [b \in {} |-> NoArc]
    /\ used = [a \in Arcs |-> 0]
    /\ lastUsed = [a \in Arcs |-> 0]
    /\ sequence = 1
    /\ session = [s \in Sessions |-> NewSession]
    /\ sent = [b \in Budgets |-> 0]
    /\ base = [b \in Budgets |-> 0]

Reads == 1..MaxRead

\* What a tunnel task does whatever its peers do: the idle timer covers the whole
\* copy loop and database calls return.
Progress(s) ==
    \/ IdleTimeout(s)
    \/ Commit(s)
    \/ StorePersisted(s)
    \/ CommitFails(s)

SessionStep(s) ==
    \/ \E b \in Budgets, w \in Workspaces : OpenSession(s, b, w)
    \/ ConnectFails(s)
    \/ StartCopy(s)
    \/ \E n \in Reads : AllowBuffered(s, n)
    \/ \E d \in Dirs, n \in Reads : Read(s, d, n)
    \/ \E d \in Dirs : Written(s, d) \/ Eof(s, d)
    \/ LimitReached(s)
    \/ LimitClose(s)
    \/ CopyFails(s)
    \/ Checkpoint(s)
    \/ Progress(s)

Next ==
    \/ \E b \in Budgets : EnsureAvailable(b) \/ StateForFails(b)
    \/ \E s \in Sessions : SessionStep(s)
    \/ \E reason \in {"abort", "crash"} : ProcessEnd(reason)

Spec == Init /\ [][Next]_vars

\* tokio schedules a tunnel task until it ends.  Nothing is assumed of the two
\* peers: neither the response to the CONNECT nor the write of the bytes that came
\* with it is under a timeout, so a tunnel may stay "opened" or "buffered".
FairSpec == Spec /\ \A s \in Sessions : WF_vars(Progress(s))

-----------------------------------------------------------------------------
(***************************************************************************)
(* Properties.                                                             *)
(***************************************************************************)

\* All open tunnels of an account and period draw from the one live budget in
\* the map: eviction never leaves a tunnel with a budget of its own while a
\* second one is loaded (the strong_count filter in state_for).
SharedBudget ==
    \A s \in Sessions : Live(s) =>
        /\ session[s].budget \in DOMAIN states
        /\ states[session[s].budget] = session[s].arc

\* What the table holds for a budget.
Persisted(b) == SumFunction(usage[b])

\* Bytes charged to a tunnel and not yet in the table, or reserved by it.
Outstanding(s) ==
    IF Live(s)
    THEN session[s].recorded - session[s].persisted + InFlight(s)
         - (IF session[s].pc = "committed" THEN session[s].delta ELSE 0)
    ELSE 0

TunnelsOf(b) == {s \in Sessions : session[s].budget = b}

Charged(b) ==
    Persisted(b) + SumFunctionOnSet([s \in Sessions |-> Outstanding(s)], TunnelsOf(b))

\* What the table holds for an account and period, together with everything
\* its open tunnels have reserved or still have to checkpoint, never exceeds
\* the allowance, across workspaces, evictions, failed writes and restarts; and
\* every counter stays in its range, so that no subtraction wraps.
AllowanceRespected == TypeOK /\ \A b \in Budgets : Charged(b) <= Limit

\* No byte is charged twice: the table never holds more than its tunnels
\* transferred, whatever checkpoint fails or is cut short by a crash.
NoDoubleCharge ==
    \A b \in Budgets :
        Persisted(b) <= SumFunctionOnSet([s \in Sessions |-> session[s].recorded], TunnelsOf(b))

\* A tunnel that ends by itself while the database works leaves nothing
\* unpersisted.
ClosedTunnelPersisted ==
    \A s \in Sessions :
        (session[s].pc = "closed" /\ session[s].reason = "ended")
            => session[s].persisted = session[s].recorded

\* README.md:320, "The account-wide data cap is exact within one running
\* service process": the bytes sent in this process on top of those it found in
\* the table never exceed the allowance.
CapExact == \A b \in Budgets : base[b] + sent[b] <= Limit

\* README.md:171, "Active usage is persisted after each MiB, every five
\* seconds, and when the tunnel closes": also when shutdown closes it.
PersistedOnClose ==
    \A s \in Sessions :
        (session[s].pc = "closed" /\ session[s].reason \notin {"storage", "crash"})
            => session[s].persisted = session[s].recorded

Copying(s) == session[s].pc \in {"copying", "checkpoint", "committed"}

\* A tunnel that has reached the copy loop ends, whatever its two peers do: the
\* budget bounds the time it is active, and the idle timer covers a stuck read, a
\* stuck write and a stuck shutdown alike, the last checkpoint included.
CopiesEnd == \A s \in Sessions : Copying(s) ~> session[s].pc = "closed"

\* README.md:240, "Once established, a tunnel remains open while traffic is active.
\* A rolling idle timeout closes abandoned tunnels": also one that is abandoned
\* while the bytes that came with the CONNECT are written.
TunnelsEnd ==
    \A s \in Sessions : (session[s].pc = "buffered" \/ Copying(s)) ~> session[s].pc = "closed"

=============================================================================

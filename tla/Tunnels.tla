------------------------------ MODULE Tunnels ------------------------------
(***************************************************************************)
(* The bridge: the connection tasks it owns (run_bridge,                   *)
(* BridgeTaskRegistry), the gates a CONNECT passes one after the other     *)
(* (handle_connect_request: destination circuit breaker, active-tunnel     *)
(* permit, circuit-build permit), and the bounded drain of the tasks at    *)
(* shutdown (BridgeTaskRegistry::drain).                                   *)
(*                                                                         *)
(* One step is what a task does between two awaits.  Account admission and *)
(* the data session only succeed or fail here: modules Admission and       *)
(* CustomerData model them.  A connect attempt is one await: module        *)
(* Isolation models its retry.                                             *)
(***************************************************************************)
EXTENDS Integers, FiniteSets

CONSTANTS
    Tasks,            \* slots for connection tasks, reused once joined
    Dests,            \* canonical destination keys
    MaxPermits,       \* size of each semaphore, by name
    BreakerCapacity,  \* MAX_BREAKER_ENTRIES
    Threshold,        \* BREAKER_FAILURE_THRESHOLD
    Cooldown,         \* BREAKER_COOLDOWN
    MaxTime           \* bound on the clock

Semaphores == {"public", "internal", "tls", "tunnel", "circuit"}

ASSUME TunnelsAssumption ==
    /\ IsFiniteSet(Tasks)
    /\ Dests # {}
    /\ MaxPermits \in [Semaphores -> Nat \ {0}]
    /\ BreakerCapacity \in Nat \ {0}     \* both asserted by CircuitBreaker::new
    /\ Threshold \in Nat \ {0}
    /\ Cooldown \in Nat \ {0}
    /\ MaxTime \in Nat

VARIABLES
    now,      \* the monotonic clock
    breaker,  \* CircuitBreaker.entries: destination -> BreakerEntry
    task,     \* the tasks in the registry's JoinSet
    free,     \* available permits of each semaphore
    active,   \* metrics.bridge_tasks_active
    phase,    \* run_bridge: "running", then the stages of drain
    summary,  \* BridgeDrainSummary
    owned,    \* history: the tasks in the JoinSet when the drain began
    streak    \* history: failures of each destination since its last success

vars == <<now, breaker, task, free, active, phase, summary, owned, streak>>

-----------------------------------------------------------------------------

NeverOpened == 0     \* open_until: None

\* Failures above the threshold are not told apart.
BreakerEntry ==
    [failures : 0..Threshold, open_until : 0..(MaxTime + Cooldown), last_used : 0..MaxTime]

Kinds == {"public", "internal", "metrics"}

\* "started": accepted; "handshake": in TLS; "reading": reading and admitting
\* the request; "serving": answering a scrape or forwarding to Pingora;
\* "session": opening the data session; then one wait or copy after the other.
\* "refusing" and "failing": writing an error response to the client, without
\* and with a tunnel permit; no timeout bounds that write.
\* A "completed" or "failed" task has returned and waits to be joined.
Setup == {"session", "tunnelWait", "circuitWait", "connecting"}
Answering == {"refusing", "failing"}
Running == {"started", "handshake", "reading", "serving", "copying"} \cup Setup \cup Answering
Finished == {"completed", "failed"}

Task == [pc : {"none"} \cup Running \cup Finished, kind : Kinds, dest : Dests]

AnyDest == CHOOSE d \in Dests : TRUE
NoTask == [pc |-> "none", kind |-> "metrics", dest |-> AnyDest]

Phases == {"running", "draining", "stopping", "stopped", "forced"}

DrainSummary ==
    [completed : Nat, failed : Nat, deadline_cancelled : Nat, force_aborted : Nat]

NoSummary == [completed |-> 0, failed |-> 0, deadline_cancelled |-> 0, force_aborted |-> 0]

\* The types; and record_failure never grows the breaker past its capacity.
TypeOK ==
    /\ now \in 0..MaxTime
    /\ DOMAIN breaker \subseteq Dests /\ Cardinality(DOMAIN breaker) <= BreakerCapacity
    /\ breaker \in [DOMAIN breaker -> BreakerEntry]
    /\ task \in [Tasks -> Task]
    /\ free \in [Semaphores -> Nat]
    /\ active \in Nat
    /\ phase \in Phases
    /\ summary \in DrainSummary
    /\ owned \subseteq Tasks
    /\ streak \in [Dests -> [n : 0..Threshold, at : 0..MaxTime]]

InSet(t) == task[t].pc # "none"
Alive(t) == task[t].pc \in Running

-----------------------------------------------------------------------------
(***************************************************************************)
(* The circuit breaker: one mutex-protected map.                           *)
(***************************************************************************)

BreakerUnchanged == UNCHANGED <<breaker, streak>>

AtMost(n, bound) == IF n < bound THEN n ELSE bound

\* allow_at returns false ...
Refuses(d) == d \in DOMAIN breaker /\ breaker[d].open_until > now

\* ... and what it leaves behind: after the cooldown one more failure reopens.
AllowMutant(d) ==            \* forgets the failures once the cooldown is over
    breaker' = [e \in DOMAIN breaker |->
        IF e # d THEN breaker[e]
        ELSE IF breaker[d].open_until \in 1..now
        THEN [failures |-> 0, open_until |-> NeverOpened, last_used |-> now]
        ELSE [breaker[d] EXCEPT !.last_used = now]]

Allow(d) ==
    breaker' = [e \in DOMAIN breaker |->
        IF e # d THEN breaker[e]
        ELSE IF breaker[d].open_until \in 1..now
        THEN [failures |-> Threshold - 1, open_until |-> NeverOpened, last_used |-> now]
        ELSE [breaker[d] EXCEPT !.last_used = now]]

\* The destinations kept when the failure of d is recorded.
KeptMutant(d) == {DOMAIN breaker}      \* inserts without eviction

Kept(d) ==
    IF d \in DOMAIN breaker \/ Cardinality(DOMAIN breaker) < BreakerCapacity
    THEN {DOMAIN breaker}
    ELSE {DOMAIN breaker \ {e} : e \in {e \in DOMAIN breaker :
             \A f \in DOMAIN breaker : breaker[e].last_used <= breaker[f].last_used}}

FailuresAfter(d) ==
    AtMost((IF d \in DOMAIN breaker THEN breaker[d].failures ELSE 0) + 1, Threshold)

OpenUntilAfter(d) ==
    IF FailuresAfter(d) >= Threshold THEN now + Cooldown
    ELSE IF d \in DOMAIN breaker THEN breaker[d].open_until ELSE NeverOpened

\* An evicted destination starts over, in the history too.
RecordFailure(d) ==
    \E kept \in Kept(d) :
        /\ breaker' = [e \in kept \cup {d} |->
              IF e = d THEN [failures |-> FailuresAfter(d), open_until |-> OpenUntilAfter(d),
                             last_used |-> now]
              ELSE breaker[e]]
        /\ streak' = [e \in Dests |->
              IF e = d THEN [n |-> AtMost(streak[d].n + 1, Threshold), at |-> now]
              ELSE IF e \in DOMAIN breaker \ kept THEN [n |-> 0, at |-> 0]
              ELSE streak[e]]

RecordSuccess(d) ==
    /\ breaker' = [e \in DOMAIN breaker \ {d} |-> breaker[e]]
    /\ streak' = [streak EXCEPT ![d] = [n |-> 0, at |-> 0]]

-----------------------------------------------------------------------------
(***************************************************************************)
(* Tasks and their permits.                                                *)
(***************************************************************************)

\* The permits a task holds: guards in its future, dropped wherever it ends.
Holds(t, sem) ==
    \/ sem \in {"public", "internal"} /\ Alive(t) /\ task[t].kind = sem
    \/ sem = "tls" /\ task[t].pc = "handshake"
    \/ sem = "tunnel" /\ task[t].pc \in {"circuitWait", "connecting", "copying", "failing"}
    \/ sem = "circuit" /\ task[t].pc = "connecting"

DropAllMutant(t) ==          \* an end of the task that leaks its tunnel permit
    free' = [sem \in Semaphores |->
        IF Holds(t, sem) /\ sem # "tunnel" THEN free[sem] + 1 ELSE free[sem]]

DropAll(t) ==
    free' = [sem \in Semaphores |-> IF Holds(t, sem) THEN free[sem] + 1 ELSE free[sem]]

DrainUnchanged == UNCHANGED <<phase, summary, owned>>

\* The task's future is over: every guard in it is dropped.
EndTask(t, outcome) ==
    /\ task' = [task EXCEPT ![t] = [NoTask EXCEPT !.pc = outcome]]
    /\ DropAll(t)
    /\ active' = active - 1
    /\ DrainUnchanged

Goto(t, pc) ==
    /\ task' = [task EXCEPT ![t].pc = pc]
    /\ UNCHANGED active
    /\ DrainUnchanged

Acquire(sem) == free[sem] > 0 /\ free' = [free EXCEPT ![sem] = @ - 1]
Release(sem) == free' = [free EXCEPT ![sem] = @ + 1]

\* The accept loop: a connection without a permit is refused and leaves no task.
Accept(t, kind) ==
    /\ phase = "running"
    /\ task[t].pc = "none"
    /\ \/ kind = "metrics" /\ UNCHANGED free
       \/ kind # "metrics" /\ Acquire(kind)
    /\ task' = [task EXCEPT ![t] = [NoTask EXCEPT !.kind = kind,
          !.pc = [public |-> "started", internal |-> "reading", metrics |-> "serving"][kind]]]
    /\ active' = active + 1
    /\ BreakerUnchanged
    /\ DrainUnchanged
    /\ UNCHANGED now

\* accept_bounded_tls: no permit fails the task at once.
TlsStart(t) ==
    /\ task[t].pc = "started"
    /\ \/ Acquire("tls") /\ Goto(t, "handshake")
       \/ free["tls"] = 0 /\ EndTask(t, "failed")
    /\ BreakerUnchanged
    /\ UNCHANGED now

TlsDone(t) ==
    /\ task[t].pc = "handshake"
    /\ \/ Release("tls") /\ Goto(t, "reading")
       \/ EndTask(t, "failed")
    /\ BreakerUnchanged
    /\ UNCHANGED now

\* Anything that refuses the request before the breaker is asked: a malformed
\* or late request, authentication, rate, quota, identity lease, policy.
Refuse(t) ==
    /\ task[t].pc = "reading"
    /\ Goto(t, "refusing")
    /\ BreakerUnchanged
    /\ UNCHANGED <<now, free>>

\* An ordinary HTTP request is forwarded to Pingora.
Forward(t) ==
    /\ task[t].pc = "reading"
    /\ task[t].kind = "public"
    /\ Goto(t, "serving")
    /\ BreakerUnchanged
    /\ UNCHANGED <<now, free>>

\* A CONNECT to d: the breaker, then the account's tunnel guard.
AdmitConnect(t, d) ==
    /\ task[t].pc = "reading"
    /\ Allow(d)
    /\ \/ Goto(t, "refusing")      \* by the breaker or by the account's guard
       \/ /\ ~Refuses(d)
          /\ task' = [task EXCEPT ![t].pc = "session", ![t].dest = d]
          /\ UNCHANGED active
          /\ DrainUnchanged
    /\ UNCHANGED <<now, streak, free>>

\* open_customer_data_session
OpenDataSession(t) ==
    /\ task[t].pc = "session"
    /\ Goto(t, "tunnelWait") \/ Goto(t, "refusing")
    /\ BreakerUnchanged
    /\ UNCHANGED <<now, free>>

\* acquire_active_tunnel_permit and acquire_circuit_permit: wait with a timeout.
WaitFor(t, pc, sem, next) ==
    /\ task[t].pc = pc
    /\ Acquire(sem)
    /\ Goto(t, next)
    /\ BreakerUnchanged
    /\ UNCHANGED now

WaitTimeoutMutant(t) == FALSE     \* waits for a permit without a timeout

WaitTimeout(t) ==
    /\ \/ task[t].pc = "tunnelWait" /\ Goto(t, "refusing")
       \/ task[t].pc = "circuitWait" /\ Goto(t, "failing")
    /\ BreakerUnchanged
    /\ UNCHANGED <<now, free>>

\* connect_with_retry returned: the circuit permit is dropped first.
ConnectOk(t) ==
    /\ task[t].pc = "connecting"
    /\ RecordSuccess(task[t].dest)
    /\ Release("circuit")
    /\ Goto(t, "copying")
    /\ UNCHANGED now

ConnectFailed(t) ==
    /\ task[t].pc = "connecting"
    /\ RecordFailure(task[t].dest)
    /\ Release("circuit")
    /\ Goto(t, "failing")
    /\ UNCHANGED now

\* A scrape is answered, one of the copy loops returns, or the error response is
\* written, or could not be.
Finish(t, outcome) ==
    /\ task[t].pc \in {"serving", "copying"} \cup Answering
    /\ task[t].pc \in Answering => outcome = "failed"
    /\ EndTask(t, outcome)
    /\ BreakerUnchanged
    /\ UNCHANGED now

-----------------------------------------------------------------------------
(***************************************************************************)
(* The registry and its drain.                                             *)
(***************************************************************************)

Remove(ts) == task' = [t \in Tasks |-> IF t \in ts THEN NoTask ELSE task[t]]

LoopUnchanged == UNCHANGED <<now, breaker, streak, free, active, owned>>

\* join_next in the accept loop.
Join(t) ==
    /\ phase = "running"
    /\ task[t].pc \in Finished
    /\ Remove({t})
    /\ LoopUnchanged
    /\ UNCHANGED <<phase, summary>>

\* The loop sees the shutdown signal, breaks, and drops the listeners.
Shutdown ==
    /\ phase = "running"
    /\ phase' = "draining"
    /\ owned' = {t \in Tasks : InSet(t)}
    /\ UNCHANGED <<now, breaker, streak, task, free, active, summary>>

Observed(ts) ==
    [summary EXCEPT
        !.completed = @ + Cardinality({t \in ts : task[t].pc = "completed"}),
        !.failed = @ + Cardinality({t \in ts : task[t].pc = "failed"})]

\* The task joins before the deadline.
DrainJoin(t) ==
    /\ phase = "draining"
    /\ task[t].pc \in Finished
    /\ summary' = Observed({t})
    /\ Remove({t})
    /\ LoopUnchanged
    /\ UNCHANGED phase

DrainDone ==
    /\ phase = "draining"
    /\ \A t \in Tasks : ~InSet(t)
    /\ phase' = "stopped"
    /\ LoopUnchanged
    /\ UNCHANGED <<task, summary>>

\* The deadline: join what has finished meanwhile, count and abort the rest.
CancelledMutant(ts) == Cardinality({t \in Tasks : InSet(t)})   \* counts before the last joins
Cancelled(ts) == Cardinality({t \in Tasks : InSet(t)} \ ts)

DrainDeadline ==
    LET finished == {t \in Tasks : task[t].pc \in Finished} IN
    /\ phase = "draining"
    /\ \E t \in Tasks : InSet(t)
    /\ summary' = [Observed(finished) EXCEPT !.deadline_cancelled = Cancelled(finished)]
    /\ Remove(finished)
    /\ phase' = IF \E t \in Tasks : Alive(t) THEN "stopping" ELSE "stopped"
    /\ LoopUnchanged

\* An aborted task is dropped where it awaits.  One that is being polled may
\* finish that step, and even return, first.
Abort(t) ==
    /\ phase = "stopping"
    /\ Alive(t)
    /\ EndTask(t, "failed")
    /\ BreakerUnchanged
    /\ UNCHANGED now

StopJoin(t) ==
    /\ phase = "stopping"
    /\ task[t].pc \in Finished
    /\ Remove({t})
    /\ LoopUnchanged
    /\ UNCHANGED <<phase, summary>>

StopDoneMutant ==            \* reports success without joining what it aborted
    /\ phase = "stopping"
    /\ phase' = "stopped"
    /\ LoopUnchanged
    /\ UNCHANGED <<task, summary>>

StopDone ==
    /\ phase = "stopping"
    /\ \A t \in Tasks : ~InSet(t)
    /\ phase' = "stopped"
    /\ LoopUnchanged
    /\ UNCHANGED <<task, summary>>

ForceStopMutant == FALSE     \* waits for aborted tasks without a timeout

ForceStop ==
    /\ phase = "stopping"
    /\ \E t \in Tasks : InSet(t)
    /\ summary' = [summary EXCEPT !.force_aborted = Cardinality({t \in Tasks : InSet(t)})]
    /\ phase' = "forced"
    /\ LoopUnchanged
    /\ UNCHANGED task

Tick ==
    /\ now < MaxTime
    /\ now' = now + 1
    /\ UNCHANGED <<breaker, task, free, active, phase, summary, owned, streak>>

-----------------------------------------------------------------------------

Init ==
    /\ now = 0
    /\ breaker = [d \in {} |-> 0]
    /\ task = [t \in Tasks |-> NoTask]
    /\ free = MaxPermits
    /\ active = 0
    /\ phase = "running"
    /\ summary = NoSummary
    /\ owned = {}
    /\ streak = [d \in Dests |-> [n |-> 0, at |-> 0]]

\* The process ends after the drain and a new one starts.
Restart ==
    /\ phase \in {"stopped", "forced"}
    /\ now' = 0
    /\ breaker' = [d \in {} |-> 0]
    /\ task' = [t \in Tasks |-> NoTask]
    /\ free' = MaxPermits
    /\ active' = 0
    /\ phase' = "running"
    /\ summary' = NoSummary
    /\ owned' = {}
    /\ streak' = [d \in Dests |-> [n |-> 0, at |-> 0]]

\* The steps of a task that timers and local calls bring to an end.
SetupStep(t) ==
    \/ OpenDataSession(t)
    \/ WaitFor(t, "tunnelWait", "tunnel", "circuitWait")
    \/ WaitFor(t, "circuitWait", "circuit", "connecting")
    \/ WaitTimeout(t)
    \/ ConnectOk(t)
    \/ ConnectFailed(t)

TaskStep(t) ==
    \/ TlsStart(t)
    \/ TlsDone(t)
    \/ Refuse(t)
    \/ Forward(t)
    \/ \E d \in Dests : AdmitConnect(t, d)
    \/ SetupStep(t)
    \/ \E outcome \in Finished : Finish(t, outcome)

DrainStep ==
    \/ \E t \in Tasks : DrainJoin(t) \/ StopJoin(t)
    \/ DrainDone
    \/ DrainDeadline
    \/ StopDone
    \/ ForceStop

Next ==
    \/ \E t \in Tasks, kind \in Kinds : Accept(t, kind)
    \/ phase \notin {"stopped", "forced"} /\ \E t \in Tasks : TaskStep(t)
    \/ \E t \in Tasks : Join(t) \/ Abort(t)
    \/ Shutdown
    \/ DrainStep
    \/ Tick
    \/ Restart

Spec == Init /\ [][Next]_vars

\* The drain loop is driven by its own timers, and setup by the timeouts of
\* its waits; nothing is assumed of clients, of copies or of aborted tasks.
FairSpec ==
    /\ Spec
    /\ WF_vars(DrainStep)
    /\ \A t \in Tasks : WF_vars(phase \notin {"stopped", "forced"} /\ SetupStep(t))

-----------------------------------------------------------------------------
(***************************************************************************)
(* Properties.                                                             *)
(***************************************************************************)

Holders(sem) == {t \in Tasks : Holds(t, sem)}

\* No path out of a task, the abort at any await included, leaks a permit or
\* returns one twice, and the active-task gauge follows the tasks: what is free
\* and what live tasks hold always add up.
PermitsConserved ==
    /\ \A sem \in Semaphores :
          free[sem] + Cardinality(Holders(sem)) = MaxPermits[sem]
    /\ active = Cardinality({t \in Tasks : Alive(t)})

\* The breaker does its work across concurrent attempts, late results of old
\* ones and recovery probes: once Threshold failures of a destination were
\* recorded without a success between them (and its entry was not evicted),
\* nothing is let through to it within Cooldown of the latest.
BreakerProtects ==
    [][\A t \in Tasks : LET d == task'[t].dest IN
          (task[t].pc = "reading" /\ task'[t].pc = "session")
              => ~(streak[d].n >= Threshold /\ now < streak[d].at + Cooldown)]_vars

\* When the drain reports its result, every task it owned was counted once as
\* completed, failed or cancelled, whatever finished while the deadline passed.
DrainExact ==
    phase \in {"stopped", "forced"} =>
        /\ summary.completed + summary.failed + summary.deadline_cancelled = Cardinality(owned)
        /\ summary.force_aborted <= summary.deadline_cancelled

\* A confirmed termination is one: no task is left and every permit is back.
DrainConfirmed ==
    phase = "stopped" => active = 0 /\ free = MaxPermits /\ \A t \in Tasks : ~InSet(t)

\* A drain ends, however many tasks never return.
DrainEnds == phase = "draining" ~> phase \in {"stopped", "forced"}

\* A CONNECT that was let through is decided: it waits for permits and for
\* Tor only as long as the timeouts allow, even when no permit is ever freed,
\* unless the force-stop timeout ends the process first.
SetupEnds ==
    \A t \in Tasks : task[t].pc \in Setup ~> (task[t].pc \notin Setup \/ phase = "forced")

=============================================================================

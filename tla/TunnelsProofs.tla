--------------------------- MODULE TunnelsProofs ---------------------------
(***************************************************************************)
(* The bridge for any number of tasks, destinations and permits: no permit *)
(* is lost, the drain's summary is exact, and the circuit breaker keeps    *)
(* what its cooldown promises.                                             *)
(*                                                                         *)
(* The three parts of the state (breaker, tasks with their permits, drain) *)
(* have an invariant each, and a step is seen by each of them as one of a  *)
(* few kinds of change.                                                    *)
(***************************************************************************)
EXTENDS Tunnels, FiniteSetTheorems, TLAPS

BreakerTyped ==
    /\ now \in 0..MaxTime
    /\ DOMAIN breaker \subseteq Dests
    /\ breaker \in [DOMAIN breaker -> BreakerEntry]
    /\ streak \in [Dests -> [n : 0..Threshold, at : 0..MaxTime]]

BreakerBounded ==
    IsFiniteSet(DOMAIN breaker) /\ Cardinality(DOMAIN breaker) <= BreakerCapacity

\* An entry knows of every failure in the streak, except that a probe after the
\* cooldown lowers it to one below the threshold.
StreakKnown(d) ==
    /\ d \notin DOMAIN breaker => streak[d].n = 0
    /\ d \in DOMAIN breaker =>
          /\ streak[d].n < Threshold => streak[d].n <= breaker[d].failures
          /\ streak[d].n = Threshold =>
                /\ breaker[d].failures >= Threshold - 1
                /\ \/ breaker[d].open_until >= streak[d].at + Cooldown
                   \/ now >= streak[d].at + Cooldown

BreakerInv == BreakerTyped /\ BreakerBounded /\ \A d \in Dests : StreakKnown(d)

TaskTyped == task \in [Tasks -> Task] /\ free \in [Semaphores -> Nat] /\ active \in Nat

TaskInv == TaskTyped /\ PermitsConserved

Members == {t \in Tasks : InSet(t)}

DrainTyped == phase \in Phases /\ summary \in DrainSummary /\ owned \subseteq Tasks

\* What the drain has counted and what it has still to join make up what it owned.
DrainCounts ==
    LET joined == summary.completed + summary.failed
        all == joined + summary.deadline_cancelled = Cardinality(owned)
    IN
    /\ phase = "running" => summary = NoSummary
    /\ phase = "draining" => /\ joined + Cardinality(Members) = Cardinality(owned)
                             /\ summary.deadline_cancelled = 0
                             /\ summary.force_aborted = 0
    /\ phase = "stopping" => /\ all
                             /\ Cardinality(Members) <= summary.deadline_cancelled
                             /\ summary.force_aborted = 0
    /\ phase = "stopped" => all /\ summary.force_aborted = 0 /\ Members = {}
    /\ phase = "forced" => all /\ summary.force_aborted <= summary.deadline_cancelled

DrainInv == DrainTyped /\ DrainCounts

TunnelsInv == BreakerInv /\ TaskInv /\ DrainInv

\* The type invariant is the types of the parts and the bound of the breaker.
LEMMA TypeParts ==
    TypeOK <=> /\ BreakerTyped /\ Cardinality(DOMAIN breaker) <= BreakerCapacity
               /\ TaskTyped /\ DrainTyped
  BY DEF TypeOK, BreakerTyped, TaskTyped, DrainTyped

-----------------------------------------------------------------------------
(***************************************************************************)
(* The circuit breaker.                                                    *)
(***************************************************************************)

\* The breaker of a new process is empty, and no destination has failed yet.
LEMMA BreakerInit ==
    ASSUME Init
    PROVE  BreakerInv
<1> USE DEF Init
<1>1. DOMAIN breaker = {}
  OBVIOUS
<1>2. 0 \in 0..MaxTime /\ 0 \in 0..Threshold
  BY TunnelsAssumption
<1>3. streak \in [Dests -> [n : 0..Threshold, at : 0..MaxTime]]
  BY <1>2
<1>4. BreakerTyped
  BY <1>1, <1>2, <1>3 DEF BreakerTyped
<1>5. BreakerBounded
  BY <1>1, FS_EmptySet, TunnelsAssumption DEF BreakerBounded
<1>6. \A d \in Dests : StreakKnown(d)
  BY <1>1 DEF StreakKnown
<1> QED
  BY <1>4, <1>5, <1>6 DEF BreakerInv

\* What an entry and a streak of a typed breaker hold.
LEMMA BreakerNumbers ==
    ASSUME BreakerTyped
    PROVE  /\ now \in Nat /\ now <= MaxTime
           /\ Threshold \in Nat \ {0} /\ Cooldown \in Nat \ {0} /\ MaxTime \in Nat
           /\ \A d \in Dests : /\ streak[d].n \in Nat /\ streak[d].n <= Threshold
                               /\ streak[d].at \in Nat /\ streak[d].at <= MaxTime
           /\ \A d \in DOMAIN breaker :
                 /\ breaker[d].failures \in Nat /\ breaker[d].failures <= Threshold
                 /\ breaker[d].open_until \in Nat
<1>1. \A d \in Dests : streak[d] \in [n : 0..Threshold, at : 0..MaxTime]
  BY DEF BreakerTyped
<1>2. \A d \in DOMAIN breaker : breaker[d] \in BreakerEntry
  BY DEF BreakerTyped
<1>3. \A d \in Dests : streak[d].n \in 0..Threshold /\ streak[d].at \in 0..MaxTime
  BY <1>1
<1>4. \A d \in DOMAIN breaker :
         breaker[d].failures \in 0..Threshold /\ breaker[d].open_until \in 0..(MaxTime + Cooldown)
  BY <1>2 DEF BreakerEntry
<1>5. now \in 0..MaxTime
  BY DEF BreakerTyped
<1> QED
  BY <1>3, <1>4, <1>5, TunnelsAssumption

\* allow_at: the recovery probe forgets one failure only, and only after the cooldown.
LEMMA AllowKeeps ==
    ASSUME BreakerInv, NEW d \in Dests, Allow(d), UNCHANGED <<now, streak>>
    PROVE  BreakerInv'
<1>0. BreakerTyped /\ BreakerBounded /\ \A e \in Dests : StreakKnown(e)
  BY DEF BreakerInv
<1>1. DOMAIN breaker' = DOMAIN breaker /\ \A e \in DOMAIN breaker : e # d => breaker'[e] = breaker[e]
  BY DEF Allow
<1>2. BreakerBounded'
  BY <1>0, <1>1 DEF BreakerBounded
<1>3. CASE d \notin DOMAIN breaker
  <2>1. breaker' = breaker
    BY <1>0, <1>3 DEF BreakerTyped, Allow
  <2> QED
    BY <1>0, <2>1 DEF BreakerInv, BreakerTyped, BreakerBounded, StreakKnown
<1>4. CASE d \in DOMAIN breaker
  <2>0. breaker[d] \in BreakerEntry /\ now \in 0..MaxTime
    BY <1>0, <1>4 DEF BreakerTyped
  <2>1. CASE breaker[d].open_until \in 1..now
    <3>1. breaker'[d] = [failures |-> Threshold - 1, open_until |-> NeverOpened, last_used |-> now]
      BY <1>4, <2>1 DEF Allow
    <3>2. /\ Threshold - 1 \in 0..Threshold /\ NeverOpened \in 0..(MaxTime + Cooldown)
          /\ now \in 0..MaxTime
      BY <1>0, TunnelsAssumption DEF NeverOpened, BreakerTyped
    <3>3. breaker'[d] \in BreakerEntry /\ breaker'[d].failures = Threshold - 1
      BY <3>1, <3>2 DEF BreakerEntry
    <3>4. BreakerTyped'
      <4>1. breaker' \in [DOMAIN breaker' -> BreakerEntry]
        BY <1>0, <1>1, <3>3 DEF BreakerTyped, Allow
      <4> QED
        BY <1>0, <1>1, <4>1 DEF BreakerTyped
    <3>5. StreakKnown(d)'
      BY <1>0, <1>1, <1>4, <2>1, <3>3, BreakerNumbers DEF StreakKnown
    <3>6. \A e \in Dests : e # d => StreakKnown(e)'
      BY <1>0, <1>1 DEF StreakKnown
    <3> QED
      BY <1>2, <3>4, <3>5, <3>6 DEF BreakerInv
  <2>2. CASE breaker[d].open_until \notin 1..now
    <3>1. breaker'[d] = [breaker[d] EXCEPT !.last_used = now]
      BY <1>4, <2>2 DEF Allow
    <3>2. /\ breaker'[d] \in BreakerEntry /\ breaker'[d].failures = breaker[d].failures
          /\ breaker'[d].open_until = breaker[d].open_until
      BY <2>0, <3>1 DEF BreakerEntry
    <3>3. BreakerTyped'
      <4>1. breaker' \in [DOMAIN breaker' -> BreakerEntry]
        BY <1>0, <1>1, <3>2 DEF BreakerTyped, Allow
      <4> QED
        BY <1>0, <1>1, <4>1 DEF BreakerTyped
    <3>4. \A e \in Dests : StreakKnown(e)'
      BY <1>0, <1>1, <3>2 DEF StreakKnown
    <3> QED
      BY <1>2, <3>3, <3>4 DEF BreakerInv
  <2> QED
    BY <2>1, <2>2
<1> QED
  BY <1>3, <1>4

\* The entries kept by a failure leave room for the one it adds.
LEMMA KeptFits ==
    ASSUME BreakerInv, NEW d \in Dests, NEW kept \in Kept(d)
    PROVE  /\ kept \subseteq DOMAIN breaker
           /\ d \in DOMAIN breaker => d \in kept
           /\ IsFiniteSet(kept \cup {d}) /\ Cardinality(kept \cup {d}) <= BreakerCapacity
<1>0. IsFiniteSet(DOMAIN breaker) /\ Cardinality(DOMAIN breaker) <= BreakerCapacity
  BY DEF BreakerInv, BreakerBounded
<1>1. Cardinality(DOMAIN breaker) \in Nat /\ BreakerCapacity \in Nat
  BY <1>0, FS_CardinalityType, TunnelsAssumption
<1>2. CASE d \in DOMAIN breaker
  <2>1. kept = DOMAIN breaker /\ kept \cup {d} = DOMAIN breaker
    BY <1>2 DEF Kept
  <2> QED
    BY <1>0, <1>2, <2>1
<1>3. CASE d \notin DOMAIN breaker /\ Cardinality(DOMAIN breaker) < BreakerCapacity
  <2>1. kept = DOMAIN breaker
    BY <1>3 DEF Kept
  <2>2. IsFiniteSet(kept \cup {d}) /\ Cardinality(kept \cup {d}) = Cardinality(DOMAIN breaker) + 1
    BY <1>0, <1>3, <2>1, FS_AddElement
  <2> QED
    BY <1>1, <1>3, <2>1, <2>2
<1>4. CASE d \notin DOMAIN breaker /\ ~(Cardinality(DOMAIN breaker) < BreakerCapacity)
  <2>1. PICK e \in DOMAIN breaker : kept = DOMAIN breaker \ {e}
    BY <1>4 DEF Kept
  <2>2. IsFiniteSet(kept) /\ Cardinality(kept) = Cardinality(DOMAIN breaker) - 1
    BY <1>0, <2>1, FS_RemoveElement
  <2>3. IsFiniteSet(kept \cup {d}) /\ Cardinality(kept \cup {d}) = Cardinality(kept) + 1
    BY <1>4, <2>1, <2>2, FS_AddElement
  <2> QED
    BY <1>0, <1>1, <1>4, <2>1, <2>2, <2>3
<1> QED
  BY <1>2, <1>3, <1>4

\* record_failure: the entry counts what the streak counts.
LEMMA RecordFailureKeeps ==
    ASSUME BreakerInv, NEW d \in Dests, RecordFailure(d), UNCHANGED now
    PROVE  BreakerInv'
<1>0. BreakerTyped /\ BreakerBounded /\ \A e \in Dests : StreakKnown(e)
  BY DEF BreakerInv
<1> DEFINE f == FailuresAfter(d)
           o == OpenUntilAfter(d)
           m == AtMost(streak[d].n + 1, Threshold)
<1>1. PICK kept \in Kept(d) :
        /\ breaker' = [e \in kept \cup {d} |->
              IF e = d THEN [failures |-> f, open_until |-> o, last_used |-> now]
              ELSE breaker[e]]
        /\ streak' = [e \in Dests |->
              IF e = d THEN [n |-> m, at |-> now]
              ELSE IF e \in DOMAIN breaker \ kept THEN [n |-> 0, at |-> 0]
              ELSE streak[e]]
  BY DEF RecordFailure
<1>2. /\ kept \subseteq DOMAIN breaker /\ (d \in DOMAIN breaker => d \in kept)
      /\ IsFiniteSet(kept \cup {d}) /\ Cardinality(kept \cup {d}) <= BreakerCapacity
  BY KeptFits
<1>3. DOMAIN breaker' = kept \cup {d} /\ DOMAIN breaker' \subseteq Dests
  BY <1>0, <1>1, <1>2 DEF BreakerTyped
<1>4. BreakerBounded'
  BY <1>2, <1>3 DEF BreakerBounded
<1>5. /\ f \in 0..Threshold /\ o \in 0..(MaxTime + Cooldown) /\ m \in 0..Threshold
      /\ now \in 0..MaxTime /\ 0 \in 0..Threshold /\ 0 \in 0..MaxTime
  <2>1. f \in 0..Threshold /\ m \in 0..Threshold
    BY <1>0, BreakerNumbers DEF FailuresAfter, AtMost
  <2>2. d \in DOMAIN breaker => breaker[d].open_until \in 0..(MaxTime + Cooldown)
    BY <1>0 DEF BreakerTyped, BreakerEntry
  <2>3. o \in 0..(MaxTime + Cooldown)
    BY <1>0, <2>2, BreakerNumbers DEF OpenUntilAfter, NeverOpened
  <2> QED
    BY <1>0, <2>1, <2>3, TunnelsAssumption DEF BreakerTyped
<1>6. m = Threshold => f = Threshold /\ o = now + Cooldown
  BY <1>0, BreakerNumbers DEF FailuresAfter, OpenUntilAfter, AtMost, StreakKnown
<1>7. m < Threshold => m <= f
  BY <1>0, BreakerNumbers DEF FailuresAfter, AtMost, StreakKnown
<1> HIDE DEF f, o, m
<1>8. breaker'[d] = [failures |-> f, open_until |-> o, last_used |-> now]
  BY <1>1
<1>9. /\ breaker'[d] \in BreakerEntry /\ breaker'[d].failures = f /\ breaker'[d].open_until = o
  BY <1>5, <1>8 DEF BreakerEntry
<1>10. streak'[d] = [n |-> m, at |-> now]
  BY <1>1
<1>11. \A e \in Dests : streak'[e] \in [n : 0..Threshold, at : 0..MaxTime]
  <2> SUFFICES ASSUME NEW e \in Dests PROVE streak'[e] \in [n : 0..Threshold, at : 0..MaxTime]
    OBVIOUS
  <2>1. CASE e = d
    BY <1>5, <1>10, <2>1
  <2>2. CASE e # d /\ e \in DOMAIN breaker \ kept
    BY <1>1, <1>5, <2>2
  <2>3. CASE e # d /\ e \notin DOMAIN breaker \ kept
    BY <1>0, <1>1, <2>3 DEF BreakerTyped
  <2> QED
    BY <2>1, <2>2, <2>3
<1>12. BreakerTyped'
  <2>1. breaker' \in [DOMAIN breaker' -> BreakerEntry]
    BY <1>0, <1>1, <1>2, <1>3, <1>9 DEF BreakerTyped
  <2>2. streak' \in [Dests -> [n : 0..Threshold, at : 0..MaxTime]]
    BY <1>1, <1>11
  <2> QED
    BY <1>0, <1>3, <2>1, <2>2 DEF BreakerTyped
<1>13. StreakKnown(d)'
  <2>1. d \in DOMAIN breaker' /\ streak'[d].n = m /\ streak'[d].at = now
    BY <1>3, <1>10
  <2> QED
    BY <1>0, <1>5, <1>6, <1>7, <1>9, <2>1, BreakerNumbers DEF StreakKnown
<1>14. \A e \in Dests : e # d => StreakKnown(e)'
  <2> SUFFICES ASSUME NEW e \in Dests, e # d PROVE StreakKnown(e)'
    OBVIOUS
  <2>1. CASE e \in DOMAIN breaker \ kept
    <3>1. streak'[e].n = 0 /\ e \notin DOMAIN breaker'
      BY <1>1, <1>3, <2>1
    <3> QED
      BY <3>1 DEF StreakKnown
  <2>2. CASE e \in kept
    <3>1. streak'[e] = streak[e] /\ e \in DOMAIN breaker' /\ e \in DOMAIN breaker /\ breaker'[e] = breaker[e]
      BY <1>1, <1>2, <1>3, <2>2
    <3> QED
      BY <1>0, <3>1 DEF StreakKnown
  <2>3. CASE e \notin DOMAIN breaker
    <3>1. streak'[e] = streak[e] /\ e \notin DOMAIN breaker'
      BY <1>1, <1>2, <1>3, <2>3
    <3> QED
      BY <1>0, <2>3, <3>1 DEF StreakKnown
  <2> QED
    BY <2>1, <2>2, <2>3
<1> QED
  BY <1>4, <1>12, <1>13, <1>14 DEF BreakerInv

\* record_success forgets the entry and the streak together.
LEMMA RecordSuccessKeeps ==
    ASSUME BreakerInv, NEW d \in Dests, RecordSuccess(d), UNCHANGED now
    PROVE  BreakerInv'
<1>0. BreakerTyped /\ BreakerBounded /\ \A e \in Dests : StreakKnown(e)
  BY DEF BreakerInv
<1>1. /\ DOMAIN breaker' = DOMAIN breaker \ {d}
      /\ \A e \in DOMAIN breaker' : breaker'[e] = breaker[e]
  BY DEF RecordSuccess
<1>2. streak'[d] = [n |-> 0, at |-> 0] /\ \A e \in Dests : e # d => streak'[e] = streak[e]
  BY <1>0 DEF RecordSuccess, BreakerTyped
<1>3. BreakerTyped'
  <2>1. breaker' \in [DOMAIN breaker' -> BreakerEntry]
    BY <1>0, <1>1 DEF RecordSuccess, BreakerTyped
  <2>2. 0 \in 0..Threshold /\ 0 \in 0..MaxTime
    BY TunnelsAssumption
  <2>3. [n |-> 0, at |-> 0] \in [n : 0..Threshold, at : 0..MaxTime]
    BY <2>2
  <2>4. streak' \in [Dests -> [n : 0..Threshold, at : 0..MaxTime]]
    BY <1>0, <2>3 DEF RecordSuccess, BreakerTyped
  <2> QED
    BY <1>0, <1>1, <2>1, <2>4 DEF BreakerTyped
<1>4. BreakerBounded'
  <2>1. IsFiniteSet(DOMAIN breaker') /\ Cardinality(DOMAIN breaker') <= Cardinality(DOMAIN breaker)
    BY <1>0, <1>1, FS_Subset DEF BreakerBounded
  <2>2. Cardinality(DOMAIN breaker') \in Nat /\ Cardinality(DOMAIN breaker) \in Nat
    BY <1>0, <2>1, FS_CardinalityType DEF BreakerBounded
  <2> QED
    BY <1>0, <2>1, <2>2, TunnelsAssumption DEF BreakerBounded
<1>5. StreakKnown(d)'
  <2>1. streak'[d].n = 0 /\ d \notin DOMAIN breaker'
    BY <1>1, <1>2
  <2> QED
    BY <2>1 DEF StreakKnown
<1>6. \A e \in Dests : e # d => StreakKnown(e)'
  BY <1>0, <1>1, <1>2 DEF StreakKnown
<1> QED
  BY <1>3, <1>4, <1>5, <1>6 DEF BreakerInv

\* Time only brings cooldowns to their end.
LEMMA TickKeeps ==
    ASSUME BreakerInv, Tick
    PROVE  BreakerInv'
<1>0. BreakerTyped /\ BreakerBounded /\ \A e \in Dests : StreakKnown(e)
  BY DEF BreakerInv
<1>1. now' = now + 1 /\ now' \in 0..MaxTime /\ UNCHANGED <<breaker, streak>>
  BY <1>0, TunnelsAssumption DEF Tick, BreakerTyped
<1>2. BreakerTyped' /\ BreakerBounded'
  BY <1>0, <1>1 DEF BreakerTyped, BreakerBounded
<1>3. \A e \in Dests : StreakKnown(e)'
  BY <1>0, <1>1, BreakerNumbers DEF StreakKnown
<1> QED
  BY <1>2, <1>3 DEF BreakerInv

\* Every step of the bridge is one of these to the breaker.
LEMMA BreakerStep ==
    ASSUME BreakerInv, TaskTyped, [Next]_vars, ~Restart
    PROVE  BreakerInv'
<1>1. CASE UNCHANGED <<now, breaker, streak>>
  BY <1>1 DEF BreakerInv, BreakerTyped, BreakerBounded, StreakKnown
<1>2. \A t \in Tasks : task[t].dest \in Dests
  BY DEF TaskTyped, Task
<1>3. CASE \E t \in Tasks : ConnectOk(t)
  BY <1>2, <1>3, RecordSuccessKeeps DEF ConnectOk
<1>4. CASE \E t \in Tasks : ConnectFailed(t)
  BY <1>2, <1>4, RecordFailureKeeps DEF ConnectFailed
<1>5. CASE \E t \in Tasks, d \in Dests : AdmitConnect(t, d)
  BY <1>5, AllowKeeps DEF AdmitConnect
<1>6. CASE Tick
  BY <1>6, TickKeeps
<1> QED
  BY <1>1, <1>3, <1>4, <1>5, <1>6 DEF Next, vars, TaskStep, SetupStep, DrainStep,
     Accept, TlsStart, TlsDone, Refuse, Forward, OpenDataSession, WaitFor, WaitTimeout,
     Finish, Join, Abort, Shutdown, DrainJoin, StopJoin, DrainDone, DrainDeadline,
     StopDone, ForceStop, LoopUnchanged, BreakerUnchanged

\* allow_at let a CONNECT through, so its destination is not in a cooldown.
LEMMA LetThrough ==
    ASSUME BreakerInv, NEW d \in Dests, ~Refuses(d)
    PROVE  ~(streak[d].n >= Threshold /\ now < streak[d].at + Cooldown)
<1>1. BreakerTyped /\ StreakKnown(d)
  BY DEF BreakerInv
<1> QED
  BY <1>1, BreakerNumbers DEF StreakKnown, Refuses

-----------------------------------------------------------------------------
(***************************************************************************)
(* Tasks and their permits.                                                *)
(***************************************************************************)

\* The step of task t moves each permit count, and the gauge, the way it moves t.
Ledger(t) ==
    /\ free' \in [Semaphores -> Nat]
    /\ \A sem \in Semaphores :
          \/ free'[sem] = free[sem] /\ (Holds(t, sem)' <=> Holds(t, sem))
          \/ free'[sem] = free[sem] + 1 /\ Holds(t, sem) /\ ~Holds(t, sem)'
          \/ free'[sem] = free[sem] - 1 /\ ~Holds(t, sem) /\ Holds(t, sem)'
    /\ \/ active' = active /\ (Alive(t)' <=> Alive(t))
       \/ active' = active - 1 /\ Alive(t) /\ ~Alive(t)'
       \/ active' = active + 1 /\ ~Alive(t) /\ Alive(t)'

OnlyTask(t) == task' = [task EXCEPT ![t] = task'[t]] /\ task'[t] \in Task

\* A set of tasks that a step changes at most by one task changes its size with it.
LEMMA SizeFollows ==
    ASSUME NEW S, NEW T, NEW t, IsFiniteSet(S), T \subseteq S \cup {t}, S \subseteq T \cup {t}
    PROVE  /\ IsFiniteSet(T) /\ Cardinality(S) \in Nat /\ Cardinality(T) \in Nat
           /\ (t \in S <=> t \in T) => Cardinality(T) = Cardinality(S)
           /\ t \in S /\ t \notin T => Cardinality(T) = Cardinality(S) - 1
           /\ t \notin S /\ t \in T => Cardinality(T) = Cardinality(S) + 1
<1>1. CASE t \in S <=> t \in T
  <2>1. S = T
    BY <1>1
  <2> QED
    BY <2>1, FS_CardinalityType
<1>2. CASE t \in S /\ t \notin T
  <2>1. T = S \ {t}
    BY <1>2
  <2>2. IsFiniteSet(T) /\ Cardinality(T) = Cardinality(S) - 1
    BY <1>2, <2>1, FS_RemoveElement
  <2> QED
    BY <1>2, <2>2, FS_CardinalityType
<1>3. CASE t \notin S /\ t \in T
  <2>1. T = S \cup {t}
    BY <1>3
  <2>2. IsFiniteSet(T) /\ Cardinality(T) = Cardinality(S) + 1
    BY <1>3, <2>1, FS_AddElement
  <2> QED
    BY <1>3, <2>2, FS_CardinalityType
<1> QED
  BY <1>1, <1>2, <1>3

\* So a step that keeps the ledger conserves permits.
LEMMA LedgerKeeps ==
    ASSUME TaskInv, NEW t \in Tasks, OnlyTask(t), Ledger(t)
    PROVE  TaskInv'
<1>0. TaskTyped /\ PermitsConserved
  BY DEF TaskInv
<1>1. \A u \in Tasks : u # t => task'[u] = task[u]
  BY <1>0 DEF TaskTyped, OnlyTask
<1>2. ASSUME NEW sem \in Semaphores
      PROVE  free'[sem] + Cardinality(Holders(sem)') = MaxPermits[sem]
  <2>1. IsFiniteSet(Holders(sem))
    BY FS_Subset, TunnelsAssumption DEF Holders
  <2>2. \A u \in Tasks : u # t => (Holds(u, sem)' <=> Holds(u, sem))
    BY <1>1 DEF Holds, Alive
  <2>3. /\ Holders(sem)' \subseteq Holders(sem) \cup {t}
        /\ Holders(sem) \subseteq Holders(sem)' \cup {t}
    BY <2>2 DEF Holders
  <2>4. (t \in Holders(sem) <=> Holds(t, sem)) /\ (t \in Holders(sem)' <=> Holds(t, sem)')
    BY DEF Holders
  <2> DEFINE S == Holders(sem)
             T == Holders(sem)'
  <2> HIDE DEF S, T
  <2>5. /\ Cardinality(S) \in Nat /\ Cardinality(T) \in Nat
        /\ (t \in S <=> t \in T) => Cardinality(T) = Cardinality(S)
        /\ t \in S /\ t \notin T => Cardinality(T) = Cardinality(S) - 1
        /\ t \notin S /\ t \in T => Cardinality(T) = Cardinality(S) + 1
    BY <2>1, <2>3, SizeFollows DEF S, T
  <2>6. free[sem] \in Nat /\ MaxPermits[sem] \in Nat /\ free[sem] + Cardinality(S) = MaxPermits[sem]
    BY <1>0, TunnelsAssumption DEF TaskTyped, PermitsConserved, S
  <2>7. \/ free'[sem] = free[sem] /\ (t \in T <=> t \in S)
        \/ free'[sem] = free[sem] + 1 /\ t \in S /\ t \notin T
        \/ free'[sem] = free[sem] - 1 /\ t \notin S /\ t \in T
    BY <2>4 DEF Ledger, S, T
  <2>8. free'[sem] + Cardinality(T) = MaxPermits[sem]
    BY <2>5, <2>6, <2>7
  <2> QED
    BY <2>8 DEF T
<1>3. active' \in Nat /\ active' = Cardinality({u \in Tasks : Alive(u)}')
  <2> DEFINE S == {u \in Tasks : Alive(u)}
             T == {u \in Tasks : Alive(u)'}
  <2>1. IsFiniteSet(S)
    BY FS_Subset, TunnelsAssumption
  <2>2. \A u \in Tasks : u # t => (Alive(u)' <=> Alive(u))
    BY <1>1 DEF Alive
  <2>3. T \subseteq S \cup {t} /\ S \subseteq T \cup {t}
    BY <2>2
  <2>4. (t \in S <=> Alive(t)) /\ (t \in T <=> Alive(t)')
    OBVIOUS
  <2>5. active \in Nat /\ active = Cardinality(S)
    BY <1>0 DEF TaskTyped, PermitsConserved
  <2> HIDE DEF S, T
  <2>6. /\ Cardinality(S) \in Nat /\ Cardinality(T) \in Nat
        /\ (t \in S <=> t \in T) => Cardinality(T) = Cardinality(S)
        /\ t \in S /\ t \notin T => Cardinality(T) = Cardinality(S) - 1
        /\ t \notin S /\ t \in T => Cardinality(T) = Cardinality(S) + 1
    BY <2>1, <2>3, SizeFollows
  <2>7. active' = Cardinality(T)
    BY <2>4, <2>5, <2>6 DEF Ledger
  <2> QED
    BY <2>6, <2>7 DEF T
<1>4. TaskTyped'
  <2>1. task' \in [Tasks -> Task]
    BY <1>0 DEF TaskTyped, OnlyTask
  <2> QED
    BY <1>3, <2>1 DEF TaskTyped, Ledger
<1> QED
  BY <1>2, <1>3, <1>4 DEF TaskInv, PermitsConserved

\* A step of one live task, inside its future: it stays in the JoinSet.
TaskMove(t) ==
    /\ OnlyTask(t) /\ Ledger(t)
    /\ Alive(t) /\ task'[t].pc # "none"
    /\ UNCHANGED <<phase, summary, owned>>

\* An empty slot of the registry is a task that does nothing.
LEMMA NoTaskTyped == NoTask \in Task /\ NoTask.pc = "none" /\ NoTask.kind = "metrics"
<1>1. AnyDest \in Dests
  BY TunnelsAssumption DEF AnyDest
<1> QED
  BY <1>1 DEF NoTask, Task, Kinds

\* A semaphore that has been acquired ...
LEMMA AcquireFacts ==
    ASSUME TaskTyped, NEW sem \in Semaphores, Acquire(sem)
    PROVE  /\ free' \in [Semaphores -> Nat] /\ free'[sem] = free[sem] - 1
           /\ \A o \in Semaphores : o # sem => free'[o] = free[o]
  BY DEF TaskTyped, Acquire

\* ... and one that has been released.
LEMMA ReleaseFacts ==
    ASSUME TaskTyped, NEW sem \in Semaphores, Release(sem)
    PROVE  /\ free' \in [Semaphores -> Nat] /\ free'[sem] = free[sem] + 1
           /\ \A o \in Semaphores : o # sem => free'[o] = free[o]
  BY DEF TaskTyped, Release

\* A task that goes on to its next await.
LEMMA GotoFacts ==
    ASSUME TaskTyped, NEW t \in Tasks, NEW pc \in Running, Goto(t, pc)
    PROVE  /\ OnlyTask(t) /\ task'[t].pc = pc /\ task'[t].kind = task[t].kind
           /\ active' = active /\ Alive(t)' /\ pc # "none"
           /\ UNCHANGED <<phase, summary, owned>>
<1>1. task[t] \in Task /\ task'[t] = [task[t] EXCEPT !.pc = pc]
  BY DEF TaskTyped, Goto
<1>2. task'[t] \in Task /\ task'[t].pc = pc /\ task'[t].kind = task[t].kind
  BY <1>1 DEF Task
<1>3. task' = [task EXCEPT ![t] = task'[t]]
  BY <1>1 DEF TaskTyped, Goto
<1>4. Alive(t)' /\ pc # "none"
  BY <1>2 DEF Alive, Running, Setup, Answering
<1> QED
  BY <1>2, <1>3, <1>4 DEF Goto, DrainUnchanged, OnlyTask

\* A task that ends gives back all it holds.
LEMMA EndTaskMoves ==
    ASSUME TaskTyped, NEW t \in Tasks, NEW outcome \in Finished, Alive(t), EndTask(t, outcome)
    PROVE  TaskMove(t)
<1>1. task'[t] = [NoTask EXCEPT !.pc = outcome] /\ task' = [task EXCEPT ![t] = task'[t]]
  BY DEF TaskTyped, EndTask
<1>2. task'[t] \in Task /\ task'[t].pc = outcome
  BY <1>1, NoTaskTyped DEF Task
<1>3. ~Alive(t)' /\ outcome # "none" /\ \A sem \in Semaphores : ~Holds(t, sem)'
  BY <1>2 DEF Alive, Running, Setup, Answering, Finished, Holds
<1>4. \A sem \in Semaphores : free'[sem] = IF Holds(t, sem) THEN free[sem] + 1 ELSE free[sem]
  BY DEF EndTask, DropAll
<1>5. free' \in [Semaphores -> Nat]
  BY DEF EndTask, DropAll, TaskTyped
<1>6. Ledger(t)
  BY <1>3, <1>4, <1>5 DEF Ledger, EndTask
<1> QED
  BY <1>1, <1>2, <1>3, <1>6 DEF TaskMove, OnlyTask, EndTask, DrainUnchanged

\* The TLS permit is taken, or the connection dropped.
LEMMA TlsStartMoves == ASSUME TaskTyped, NEW t \in Tasks, TlsStart(t) PROVE TaskMove(t)
<1>1. Alive(t) /\ task[t].pc = "started"
  BY DEF TlsStart, Alive, Running
<1>2. CASE Acquire("tls") /\ Goto(t, "handshake")
  <2>1. /\ OnlyTask(t) /\ task'[t].pc = "handshake" /\ task'[t].kind = task[t].kind
        /\ active' = active /\ Alive(t)' /\ UNCHANGED <<phase, summary, owned>>
    BY <1>2, GotoFacts DEF Running
  <2>2. /\ free' \in [Semaphores -> Nat] /\ free'["tls"] = free["tls"] - 1
        /\ \A o \in Semaphores : o # "tls" => free'[o] = free[o]
    BY <1>2, AcquireFacts DEF Semaphores
  <2>3. Ledger(t)
    BY <1>1, <2>1, <2>2 DEF Ledger, Holds, Semaphores
  <2> QED
    BY <1>1, <2>1, <2>3 DEF TaskMove
<1>3. CASE EndTask(t, "failed")
  BY <1>1, <1>3, EndTaskMoves DEF Finished
<1> QED
  BY <1>2, <1>3 DEF TlsStart

\* The handshake ends and gives its permit back.
LEMMA TlsDoneMoves == ASSUME TaskTyped, NEW t \in Tasks, TlsDone(t) PROVE TaskMove(t)
<1>1. Alive(t) /\ task[t].pc = "handshake"
  BY DEF TlsDone, Alive, Running
<1>2. CASE Release("tls") /\ Goto(t, "reading")
  <2>1. /\ OnlyTask(t) /\ task'[t].pc = "reading" /\ task'[t].kind = task[t].kind
        /\ active' = active /\ Alive(t)' /\ UNCHANGED <<phase, summary, owned>>
    BY <1>2, GotoFacts DEF Running
  <2>2. /\ free' \in [Semaphores -> Nat] /\ free'["tls"] = free["tls"] + 1
        /\ \A o \in Semaphores : o # "tls" => free'[o] = free[o]
    BY <1>2, ReleaseFacts DEF Semaphores
  <2>3. Ledger(t)
    BY <1>1, <2>1, <2>2 DEF Ledger, Holds, Semaphores
  <2> QED
    BY <1>1, <2>1, <2>3 DEF TaskMove
<1>3. CASE EndTask(t, "failed")
  BY <1>1, <1>3, EndTaskMoves DEF Finished
<1> QED
  BY <1>2, <1>3 DEF TlsDone

\* Steps that move no permit: what the task holds is the same before and after.
LEMMA QuietMoves ==
    ASSUME TaskTyped, NEW t \in Tasks, UNCHANGED <<free, active, phase, summary, owned>>,
           OnlyTask(t), task'[t].kind = task[t].kind,
           \/ /\ task[t].pc \in {"reading", "session", "tunnelWait"}
              /\ task'[t].pc \in {"refusing", "serving", "session", "tunnelWait"}
           \/ task[t].pc = "circuitWait" /\ task'[t].pc = "failing"
    PROVE  TaskMove(t)
<1>1. Alive(t) /\ Alive(t)' /\ task'[t].pc # "none"
  BY DEF Alive, Running, Setup, Answering
<1>2. \A sem \in Semaphores : Holds(t, sem)' <=> Holds(t, sem)
  BY <1>1 DEF Holds
<1>3. Ledger(t)
  BY <1>1, <1>2 DEF Ledger, TaskTyped
<1> QED
  BY <1>1, <1>3 DEF TaskMove

\* A task that goes on without a permit changing hands.
LEMMA ReadingMoves ==
    ASSUME TaskTyped, NEW t \in Tasks, Refuse(t) \/ Forward(t) \/ OpenDataSession(t) \/ WaitTimeout(t)
    PROVE  TaskMove(t)
<1>1. CASE Goto(t, "refusing") /\ task[t].pc \in {"reading", "session", "tunnelWait"} /\ UNCHANGED free
  BY <1>1, GotoFacts, QuietMoves DEF Running, Answering
<1>2. CASE Goto(t, "serving") /\ task[t].pc = "reading" /\ UNCHANGED free
  BY <1>2, GotoFacts, QuietMoves DEF Running
<1>3. CASE Goto(t, "tunnelWait") /\ task[t].pc = "session" /\ UNCHANGED free
  BY <1>3, GotoFacts, QuietMoves DEF Running, Setup
<1>4. CASE Goto(t, "failing") /\ task[t].pc = "circuitWait" /\ UNCHANGED free
  BY <1>4, GotoFacts, QuietMoves DEF Running, Answering
<1> QED
  BY <1>1, <1>2, <1>3, <1>4 DEF Refuse, Forward, OpenDataSession, WaitTimeout

\* A CONNECT passes the breaker and its account.
LEMMA AdmitConnectMoves ==
    ASSUME TaskTyped, NEW t \in Tasks, NEW d \in Dests, AdmitConnect(t, d)
    PROVE  TaskMove(t)
<1>1. task[t].pc = "reading" /\ UNCHANGED free
  BY DEF AdmitConnect
<1>2. CASE Goto(t, "refusing")
  BY <1>1, <1>2, GotoFacts, QuietMoves DEF Running, Answering
<1>3. CASE /\ task' = [task EXCEPT ![t].pc = "session", ![t].dest = d]
           /\ UNCHANGED active /\ DrainUnchanged
  <2>1. task[t] \in Task /\ task'[t] = [task[t] EXCEPT !.pc = "session", !.dest = d]
    BY <1>3 DEF TaskTyped
  <2>2. task'[t] \in Task /\ task'[t].pc = "session" /\ task'[t].kind = task[t].kind
    BY <2>1 DEF Task, Running, Setup
  <2>3. task' = [task EXCEPT ![t] = task'[t]]
    BY <1>3, <2>1 DEF TaskTyped
  <2> QED
    BY <1>1, <1>3, <2>2, <2>3, QuietMoves DEF OnlyTask, DrainUnchanged
<1> QED
  BY <1>2, <1>3 DEF AdmitConnect

\* A wait for a permit that is granted.
LEMMA WaitForMoves ==
    ASSUME TaskTyped, NEW t \in Tasks,
           \/ WaitFor(t, "tunnelWait", "tunnel", "circuitWait")
           \/ WaitFor(t, "circuitWait", "circuit", "connecting")
    PROVE  TaskMove(t)
<1>1. CASE WaitFor(t, "tunnelWait", "tunnel", "circuitWait")
  <2>1. /\ OnlyTask(t) /\ task'[t].pc = "circuitWait" /\ task'[t].kind = task[t].kind
        /\ active' = active /\ Alive(t)' /\ UNCHANGED <<phase, summary, owned>>
    BY <1>1, GotoFacts DEF WaitFor, Running, Setup
  <2>2. /\ free' \in [Semaphores -> Nat] /\ free'["tunnel"] = free["tunnel"] - 1
        /\ \A o \in Semaphores : o # "tunnel" => free'[o] = free[o]
    BY <1>1, AcquireFacts DEF WaitFor, Semaphores
  <2>3. task[t].pc = "tunnelWait" /\ Alive(t)
    BY <1>1 DEF WaitFor, Alive, Running, Setup
  <2>4. Ledger(t)
    BY <2>1, <2>2, <2>3 DEF Ledger, Holds, Semaphores
  <2> QED
    BY <2>1, <2>3, <2>4 DEF TaskMove
<1>2. CASE WaitFor(t, "circuitWait", "circuit", "connecting")
  <2>1. /\ OnlyTask(t) /\ task'[t].pc = "connecting" /\ task'[t].kind = task[t].kind
        /\ active' = active /\ Alive(t)' /\ UNCHANGED <<phase, summary, owned>>
    BY <1>2, GotoFacts DEF WaitFor, Running, Setup
  <2>2. /\ free' \in [Semaphores -> Nat] /\ free'["circuit"] = free["circuit"] - 1
        /\ \A o \in Semaphores : o # "circuit" => free'[o] = free[o]
    BY <1>2, AcquireFacts DEF WaitFor, Semaphores
  <2>3. task[t].pc = "circuitWait" /\ Alive(t)
    BY <1>2 DEF WaitFor, Alive, Running, Setup
  <2>4. Ledger(t)
    BY <2>1, <2>2, <2>3 DEF Ledger, Holds, Semaphores
  <2> QED
    BY <2>1, <2>3, <2>4 DEF TaskMove
<1> QED
  BY <1>1, <1>2

\* The connect to Tor ends and gives the circuit permit back.
LEMMA ConnectMoves ==
    ASSUME TaskTyped, NEW t \in Tasks, ConnectOk(t) \/ ConnectFailed(t)
    PROVE  TaskMove(t)
<1>1. task[t].pc = "connecting" /\ Alive(t) /\ Release("circuit")
  BY DEF ConnectOk, ConnectFailed, Alive, Running, Setup
<1>2. /\ free' \in [Semaphores -> Nat] /\ free'["circuit"] = free["circuit"] + 1
      /\ \A o \in Semaphores : o # "circuit" => free'[o] = free[o]
  BY <1>1, ReleaseFacts DEF Semaphores
<1>3. \E pc \in {"copying", "failing"} : Goto(t, pc)
  BY DEF ConnectOk, ConnectFailed
<1>4. /\ OnlyTask(t) /\ task'[t].pc \in {"copying", "failing"} /\ task'[t].kind = task[t].kind
      /\ active' = active /\ Alive(t)' /\ UNCHANGED <<phase, summary, owned>>
  BY <1>3, GotoFacts DEF Running, Answering
<1>5. Ledger(t)
  BY <1>1, <1>2, <1>4 DEF Ledger, Holds, Semaphores
<1> QED
  BY <1>1, <1>4, <1>5 DEF TaskMove

\* Every step of a task, and its abort at any await.
LEMMA TaskStepMoves ==
    ASSUME TaskTyped, NEW t \in Tasks, TaskStep(t) \/ Abort(t)
    PROVE  TaskMove(t)
<1>1. CASE \E outcome \in Finished : Finish(t, outcome)
  BY <1>1, EndTaskMoves DEF Finish, Alive, Running, Answering
<1>2. CASE Abort(t)
  BY <1>2, EndTaskMoves DEF Abort, Finished
<1>3. CASE \E d \in Dests : AdmitConnect(t, d)
  BY <1>3, AdmitConnectMoves
<1> QED
  BY <1>1, <1>2, <1>3, TlsStartMoves, TlsDoneMoves, ReadingMoves, WaitForMoves, ConnectMoves
     DEF TaskStep, SetupStep

\* A connection is accepted with the permit of its kind.
LEMMA AcceptMoves ==
    ASSUME TaskTyped, NEW t \in Tasks, NEW kind \in Kinds, Accept(t, kind)
    PROVE  /\ OnlyTask(t) /\ Ledger(t) /\ phase = "running"
           /\ UNCHANGED <<phase, summary, owned>>
<1> DEFINE first == [public |-> "started", internal |-> "reading", metrics |-> "serving"][kind]
<1>1. first \in {"started", "reading", "serving"}
  BY DEF Kinds
<1>2. task' = [task EXCEPT ![t] = [NoTask EXCEPT !.kind = kind, !.pc = first]]
  BY DEF Accept
<1> HIDE DEF first
<1>3. task'[t] = [NoTask EXCEPT !.kind = kind, !.pc = first] /\ task' = [task EXCEPT ![t] = task'[t]]
  BY <1>2 DEF TaskTyped
<1>4. task'[t] \in Task /\ task'[t].pc = first /\ task'[t].kind = kind
  BY <1>1, <1>3, NoTaskTyped DEF Task, Running
<1>5. task[t].pc = "none" /\ ~Alive(t) /\ Alive(t)'
  BY <1>1, <1>4 DEF Accept, Alive, Running, Setup, Answering
<1>6. \A sem \in Semaphores : ~Holds(t, sem) /\ (Holds(t, sem)' <=> sem = kind)
  BY <1>1, <1>4, <1>5 DEF Holds, Semaphores, Kinds
<1>7. Ledger(t)
  <2>1. CASE kind = "metrics"
    BY <1>5, <1>6, <2>1 DEF Ledger, Accept, Semaphores, TaskTyped
  <2>2. CASE kind # "metrics"
    <3>1. kind \in Semaphores /\ Acquire(kind)
      BY <2>2 DEF Kinds, Semaphores, Accept
    <3>2. /\ free' \in [Semaphores -> Nat] /\ free'[kind] = free[kind] - 1
          /\ \A o \in Semaphores : o # kind => free'[o] = free[o]
      BY <3>1, AcquireFacts
    <3> QED
      BY <1>5, <1>6, <3>2 DEF Ledger, Accept
  <2> QED
    BY <2>1, <2>2
<1> QED
  BY <1>3, <1>4, <1>7 DEF OnlyTask, Accept, DrainUnchanged

\* Joining a finished task takes nothing from the permits: its guards are gone.
LEMMA RemoveKeeps ==
    ASSUME TaskInv, NEW ts, \A t \in ts \cap Tasks : task[t].pc \in Finished,
           Remove(ts), UNCHANGED <<free, active>>
    PROVE  TaskInv' /\ Members' = Members \ ts
<1>0. TaskTyped /\ PermitsConserved
  BY DEF TaskInv
<1>1. \A t \in Tasks : task'[t] = IF t \in ts THEN NoTask ELSE task[t]
  BY DEF Remove
<1>2. ASSUME NEW t \in Tasks
      PROVE  /\ Alive(t)' <=> Alive(t)
             /\ \A sem \in Semaphores : Holds(t, sem)' <=> Holds(t, sem)
             /\ InSet(t)' <=> InSet(t) /\ t \notin ts
  <2>1. CASE t \in ts
    <3>1. task'[t].pc = "none" /\ task[t].pc \in Finished
      BY <1>1, <2>1, NoTaskTyped
    <3>2. ~Alive(t) /\ ~Alive(t)'
      BY <3>1 DEF Alive, Running, Setup, Answering, Finished
    <3> QED
      BY <2>1, <3>1, <3>2 DEF Holds, InSet, Finished
  <2>2. CASE t \notin ts
    <3>1. task'[t] = task[t]
      BY <1>1, <2>2
    <3> QED
      BY <2>2, <3>1 DEF Alive, Holds, InSet
  <2> QED
    BY <2>1, <2>2
<1>3. Members' = Members \ ts
  BY <1>2 DEF Members
<1>4. {t \in Tasks : Alive(t)}' = {t \in Tasks : Alive(t)}
  BY <1>2
<1>5. \A sem \in Semaphores : Holders(sem)' = Holders(sem)
  BY <1>2 DEF Holders
<1>6. PermitsConserved'
  BY <1>0, <1>4, <1>5 DEF PermitsConserved
<1>7. TaskTyped'
  BY <1>0, NoTaskTyped DEF TaskTyped, Remove
<1> QED
  BY <1>3, <1>6, <1>7 DEF TaskInv

\* The permits are all there when the process starts.
LEMMA TaskInit ==
    ASSUME Init
    PROVE  TaskInv
<1>1. TaskTyped
  BY NoTaskTyped, TunnelsAssumption DEF Init, TaskTyped
<1>2. \A t \in Tasks : task[t].pc = "none"
  BY NoTaskTyped DEF Init
<1>3. \A sem \in Semaphores : Holders(sem) = {}
  BY <1>2 DEF Holders, Holds, Alive, Running, Setup, Answering
<1>4. {t \in Tasks : Alive(t)} = {}
  BY <1>2 DEF Alive, Running, Setup, Answering
<1>5. Cardinality({}) = 0
  BY FS_EmptySet
<1>6. \A sem \in Semaphores : MaxPermits[sem] \in Nat
  BY TunnelsAssumption
<1>7. PermitsConserved
  <2>1. free = MaxPermits /\ active = 0
    BY DEF Init
  <2>2. \A sem \in Semaphores : free[sem] + Cardinality(Holders(sem)) = MaxPermits[sem]
    BY <1>3, <1>5, <1>6, <2>1
  <2>3. active = Cardinality({t \in Tasks : Alive(t)})
    BY <1>4, <1>5, <2>1
  <2> QED
    BY <2>2, <2>3 DEF PermitsConserved
<1> QED
  BY <1>1, <1>7 DEF TaskInv

\* Every step of the bridge conserves permits.
LEMMA TaskInvStep ==
    ASSUME TaskInv, [Next]_vars, ~Restart
    PROVE  TaskInv'
<1>0. TaskTyped
  BY DEF TaskInv
<1>1. CASE UNCHANGED <<task, free, active>>
  <2>1. \A sem \in Semaphores : Holders(sem)' = Holders(sem)
    BY <1>1 DEF Holders, Holds, Alive
  <2>2. {t \in Tasks : Alive(t)}' = {t \in Tasks : Alive(t)}
    BY <1>1 DEF Alive
  <2> QED
    BY <1>1, <2>1, <2>2 DEF TaskInv, TaskTyped, PermitsConserved
<1>2. CASE \E t \in Tasks, kind \in Kinds : Accept(t, kind)
  BY <1>0, <1>2, AcceptMoves, LedgerKeeps
<1>3. CASE \E t \in Tasks : TaskStep(t) \/ Abort(t)
  <2> PICK t \in Tasks : TaskStep(t) \/ Abort(t)
    BY <1>3
  <2>1. OnlyTask(t) /\ Ledger(t)
    BY <1>0, TaskStepMoves DEF TaskMove
  <2> QED
    BY <2>1, LedgerKeeps
<1>4. CASE \E t \in Tasks : Join(t) \/ DrainJoin(t) \/ StopJoin(t)
  <2> PICK t \in Tasks : Join(t) \/ DrainJoin(t) \/ StopJoin(t)
    BY <1>4
  <2>1. task[t].pc \in Finished /\ Remove({t}) /\ UNCHANGED <<free, active>>
    BY DEF Join, DrainJoin, StopJoin, LoopUnchanged
  <2> QED
    BY <2>1, RemoveKeeps
<1>5. CASE DrainDeadline
  <2> DEFINE finished == {t \in Tasks : task[t].pc \in Finished}
  <2>1. Remove(finished) /\ UNCHANGED <<free, active>>
    BY <1>5 DEF DrainDeadline, LoopUnchanged
  <2>2. \A t \in finished \cap Tasks : task[t].pc \in Finished
    OBVIOUS
  <2> HIDE DEF finished
  <2> QED
    BY <2>1, <2>2, RemoveKeeps
<1> QED
  BY <1>1, <1>2, <1>3, <1>4, <1>5 DEF Next, vars, DrainStep, Shutdown, DrainDone, StopDone,
     ForceStop, LoopUnchanged, Tick

-----------------------------------------------------------------------------
(***************************************************************************)
(* The drain.                                                              *)
(***************************************************************************)

\* The registry is finite: its members are tasks.
LEMMA MembersFinite == IsFiniteSet(Members) /\ Cardinality(Members) \in Nat
<1>1. Members \in SUBSET Tasks
  BY DEF Members
<1> QED
  BY <1>1, FS_Subset, FS_CardinalityType, TunnelsAssumption

\* Joining finished tasks counts each of them once.
LEMMA JoinCounts ==
    ASSUME DrainTyped, NEW ts \in SUBSET Tasks, \A t \in ts : task[t].pc \in Finished
    PROVE  /\ Observed(ts) \in DrainSummary
           /\ Observed(ts).completed + Observed(ts).failed + Cardinality(Members \ ts)
                = summary.completed + summary.failed + Cardinality(Members)
           /\ Observed(ts).deadline_cancelled = summary.deadline_cancelled
           /\ Observed(ts).force_aborted = summary.force_aborted
           /\ Cardinality(Members \ ts) \in Nat
           /\ Cardinality(Members \ ts) <= Cardinality(Members)
<1> DEFINE C == {t \in ts : task[t].pc = "completed"}
           F == {t \in ts : task[t].pc = "failed"}
           c == Cardinality(C)
           f == Cardinality(F)
<1>1. ts \subseteq Members /\ Members \cap ts = ts
  BY DEF Members, InSet, Finished
<1>2. C \cup F = ts /\ C \cap F = {}
  BY DEF Finished
<1>3. IsFiniteSet(C) /\ IsFiniteSet(F) /\ IsFiniteSet(ts)
  <2>1. C \in SUBSET Tasks /\ F \in SUBSET Tasks
    OBVIOUS
  <2> QED
    BY <2>1, FS_Subset, TunnelsAssumption
<1>4. c \in Nat /\ f \in Nat /\ Cardinality(ts) \in Nat
  BY <1>3, FS_CardinalityType
<1>5. Cardinality(ts) = c + f
  <2>1. Cardinality(C \cup F) = c + f - Cardinality(C \cap F)
    BY <1>3, FS_Union
  <2>2. Cardinality(C \cap F) = 0
    BY <1>2, FS_EmptySet
  <2>3. Cardinality(ts) = c + f - 0
    BY <1>2, <2>1, <2>2
  <2> HIDE DEF c, f
  <2> QED
    BY <1>4, <2>3
<1>6. Cardinality(Members \ ts) = Cardinality(Members) - Cardinality(ts)
  <2>1. Cardinality(Members \ ts) = Cardinality(Members) - Cardinality(Members \cap ts)
    BY MembersFinite, FS_Difference
  <2> QED
    BY <1>1, <2>1
<1>7. Cardinality(Members \ ts) \in Nat
  BY MembersFinite, FS_Difference, FS_CardinalityType
<1>8. summary \in DrainSummary
  BY DEF DrainTyped
<1>9. Observed(ts) = [summary EXCEPT !.completed = summary.completed + c,
                                     !.failed = summary.failed + f]
  BY <1>8 DEF Observed, DrainSummary
<1> HIDE DEF c, f
<1>10. summary.completed \in Nat /\ summary.failed \in Nat
  BY <1>8 DEF DrainSummary
<1>11. /\ Observed(ts) \in DrainSummary
       /\ Observed(ts).completed = summary.completed + c
       /\ Observed(ts).failed = summary.failed + f
       /\ Observed(ts).deadline_cancelled = summary.deadline_cancelled
       /\ Observed(ts).force_aborted = summary.force_aborted
  <2>1. PICK x \in Nat, y \in Nat : x = summary.completed + c /\ y = summary.failed + f
    BY <1>4, <1>10
  <2>2. Observed(ts) = [summary EXCEPT !.completed = x, !.failed = y]
    BY <1>9, <2>1
  <2>3. /\ Observed(ts) \in DrainSummary
        /\ Observed(ts).completed = x /\ Observed(ts).failed = y
        /\ Observed(ts).deadline_cancelled = summary.deadline_cancelled
        /\ Observed(ts).force_aborted = summary.force_aborted
    BY <1>8, <2>2 DEF DrainSummary
  <2> QED
    BY <2>1, <2>3
<1> QED
  BY <1>4, <1>5, <1>6, <1>7, <1>10, <1>11, MembersFinite

\* Before a drain nothing is counted.
LEMMA DrainInit ==
    ASSUME Init
    PROVE  DrainInv
<1>1. NoSummary \in DrainSummary
  BY DEF NoSummary, DrainSummary
<1> QED
  BY <1>1 DEF Init, DrainInv, DrainTyped, DrainCounts, Phases

\* What the shutdown signal finds in the JoinSet is what the drain owes.
LEMMA ShutdownCounts ==
    ASSUME DrainInv, Shutdown
    PROVE  DrainInv'
<1>1. /\ phase = "running" /\ phase' = "draining" /\ owned' = Members
      /\ UNCHANGED <<task, summary>>
  BY DEF Shutdown, Members
<1>2. summary = NoSummary
  BY <1>1 DEF DrainInv, DrainCounts
<1>3. /\ summary.completed = 0 /\ summary.failed = 0
      /\ summary.deadline_cancelled = 0 /\ summary.force_aborted = 0
  BY <1>2 DEF NoSummary
<1>4. Members' = Members /\ Members \subseteq Tasks
  BY <1>1 DEF Members, InSet
<1>5. Cardinality(Members) \in Nat
  BY MembersFinite
<1>6. DrainTyped'
  BY <1>1, <1>4 DEF DrainInv, DrainTyped, Phases
<1>7. DrainCounts'
  BY <1>1, <1>3, <1>4, <1>5 DEF DrainCounts
<1> QED
  BY <1>6, <1>7 DEF DrainInv

\* A task that joins before the deadline moves from the set into the summary.
LEMMA DrainJoinCounts ==
    ASSUME TaskInv, DrainInv, NEW t \in Tasks, DrainJoin(t)
    PROVE  DrainInv'
<1>0. DrainTyped /\ DrainCounts
  BY DEF DrainInv
<1>1. /\ phase = "draining" /\ phase' = phase /\ owned' = owned /\ summary' = Observed({t})
      /\ Remove({t}) /\ UNCHANGED <<free, active>> /\ task[t].pc \in Finished
  BY DEF DrainJoin, LoopUnchanged
<1>2. Members' = Members \ {t}
  BY <1>1, RemoveKeeps
<1>3. /\ summary' \in DrainSummary
      /\ summary'.completed + summary'.failed + Cardinality(Members \ {t})
           = summary.completed + summary.failed + Cardinality(Members)
      /\ summary'.deadline_cancelled = summary.deadline_cancelled
      /\ summary'.force_aborted = summary.force_aborted
  BY <1>0, <1>1, JoinCounts
<1>4. DrainTyped'
  BY <1>0, <1>1, <1>3 DEF DrainTyped
<1>5. DrainCounts'
  BY <1>0, <1>1, <1>2, <1>3 DEF DrainCounts
<1> QED
  BY <1>4, <1>5 DEF DrainInv

\* The deadline counts what finished meanwhile once, and cancels exactly the rest.
LEMMA DeadlineCounts ==
    ASSUME TaskInv, DrainInv, DrainDeadline
    PROVE  DrainInv'
<1>0. DrainTyped /\ DrainCounts
  BY DEF DrainInv
<1> DEFINE finished == {t \in Tasks : task[t].pc \in Finished}
           k == Cardinality(Members \ finished)
<1>1. /\ phase = "draining" /\ owned' = owned
      /\ summary' = [Observed(finished) EXCEPT !.deadline_cancelled = k]
      /\ Remove(finished) /\ UNCHANGED <<free, active>>
      /\ phase' = IF \E t \in Tasks : Alive(t) THEN "stopping" ELSE "stopped"
  BY DEF DrainDeadline, LoopUnchanged, Cancelled, Members
<1>2. finished \in SUBSET Tasks /\ \A t \in finished : task[t].pc \in Finished
  OBVIOUS
<1>3. ~(\E t \in Tasks : Alive(t)) => Members \ finished = {}
  BY DEF TaskInv, TaskTyped, Task, Members, InSet, Alive
<1> HIDE DEF finished
<1>4. Members' = Members \ finished
  BY <1>1, <1>2, RemoveKeeps
<1>5. /\ Observed(finished) \in DrainSummary
      /\ Observed(finished).completed + Observed(finished).failed + k
           = summary.completed + summary.failed + Cardinality(Members)
      /\ Observed(finished).force_aborted = summary.force_aborted
      /\ k \in Nat
  BY <1>0, <1>2, JoinCounts
<1>6. k = Cardinality(Members')
  BY <1>4
<1> HIDE DEF k
<1>7. /\ summary' \in DrainSummary
      /\ summary'.completed = Observed(finished).completed
      /\ summary'.failed = Observed(finished).failed
      /\ summary'.deadline_cancelled = k
      /\ summary'.force_aborted = Observed(finished).force_aborted
  <2>1. Observed(finished) \in DrainSummary /\ k \in Nat
    BY <1>5
  <2>2. summary' = [Observed(finished) EXCEPT !.deadline_cancelled = k]
    BY <1>1
  <2> QED
    BY <2>1, <2>2 DEF DrainSummary
<1>8. DrainTyped'
  BY <1>0, <1>1, <1>7 DEF DrainTyped, Phases
<1>9. DrainCounts'
  <2>1. summary'.completed + summary'.failed + summary'.deadline_cancelled = Cardinality(owned')
    BY <1>0, <1>1, <1>5, <1>7 DEF DrainCounts
  <2>2. summary'.force_aborted = 0
    BY <1>0, <1>1, <1>5, <1>7 DEF DrainCounts
  <2>3. Cardinality(Members') <= summary'.deadline_cancelled
    BY <1>5, <1>6, <1>7
  <2>4. phase' = "stopping" \/ (phase' = "stopped" /\ Members' = {})
    BY <1>1, <1>3, <1>4 DEF finished
  <2> QED
    BY <2>1, <2>2, <2>3, <2>4 DEF DrainCounts
<1> QED
  BY <1>8, <1>9 DEF DrainInv

\* Joining an aborted task only makes the set smaller.
LEMMA StopJoinCounts ==
    ASSUME TaskInv, DrainInv, NEW t \in Tasks, StopJoin(t)
    PROVE  DrainInv'
<1>0. DrainTyped /\ DrainCounts
  BY DEF DrainInv
<1>1. /\ phase = "stopping" /\ UNCHANGED <<phase, summary, owned>>
      /\ Remove({t}) /\ UNCHANGED <<free, active>> /\ task[t].pc \in Finished
  BY DEF StopJoin, LoopUnchanged
<1>2. Members' = Members \ {t}
  BY <1>1, RemoveKeeps
<1>3. Cardinality(Members \ {t}) \in Nat /\ Cardinality(Members \ {t}) <= Cardinality(Members)
  BY <1>0, <1>1, JoinCounts
<1>4. DrainTyped' /\ summary.deadline_cancelled \in Nat
  BY <1>0, <1>1 DEF DrainTyped, DrainSummary
<1>5. DrainCounts'
  BY <1>0, <1>1, <1>2, <1>3, <1>4, MembersFinite DEF DrainCounts
<1> QED
  BY <1>4, <1>5 DEF DrainInv

\* The ends of the drain.
LEMMA DrainEndCounts ==
    ASSUME DrainInv, DrainDone \/ StopDone \/ ForceStop
    PROVE  DrainInv'
<1>0. DrainTyped /\ DrainCounts
  BY DEF DrainInv
<1>1. owned' = owned /\ task' = task
  BY DEF DrainDone, StopDone, ForceStop, LoopUnchanged
<1>2. Members' = Members
  BY <1>1 DEF Members, InSet
<1>3. summary \in DrainSummary
  BY <1>0 DEF DrainTyped
<1>4. summary.completed \in Nat /\ summary.failed \in Nat /\ summary.deadline_cancelled \in Nat
  BY <1>3 DEF DrainSummary
<1>5. CASE DrainDone \/ StopDone
  <2>1. Members = {} /\ phase \in {"draining", "stopping"} /\ phase' = "stopped" /\ summary' = summary
    BY <1>5 DEF DrainDone, StopDone, Members
  <2>2. Cardinality(Members) = 0
    BY <2>1, FS_EmptySet
  <2>3. DrainTyped'
    BY <1>0, <1>1, <2>1 DEF DrainTyped, Phases
  <2>4. DrainCounts'
    BY <1>0, <1>1, <1>2, <1>4, <2>1, <2>2 DEF DrainCounts
  <2> QED
    BY <2>3, <2>4 DEF DrainInv
<1>6. CASE ForceStop
  <2> DEFINE k == Cardinality(Members)
  <2>1. /\ phase = "stopping" /\ phase' = "forced"
        /\ summary' = [summary EXCEPT !.force_aborted = k]
    BY <1>6 DEF ForceStop, Members
  <2>2. k \in Nat /\ k <= summary.deadline_cancelled
    BY <1>0, <2>1, MembersFinite DEF DrainCounts
  <2> HIDE DEF k
  <2>3. /\ summary' \in DrainSummary /\ summary'.force_aborted = k
        /\ summary'.completed = summary.completed /\ summary'.failed = summary.failed
        /\ summary'.deadline_cancelled = summary.deadline_cancelled
    BY <1>3, <2>1, <2>2 DEF DrainSummary
  <2>4. DrainTyped'
    BY <1>0, <1>1, <2>1, <2>3 DEF DrainTyped, Phases
  <2>5. DrainCounts'
    BY <1>0, <1>1, <2>1, <2>2, <2>3 DEF DrainCounts
  <2> QED
    BY <2>4, <2>5 DEF DrainInv
<1> QED
  BY <1>5, <1>6

\* Every step of the bridge keeps the drain's books.
LEMMA DrainInvStep ==
    ASSUME TaskInv, DrainInv, [Next]_vars, ~Restart
    PROVE  DrainInv'
<1>0. TaskTyped /\ DrainTyped /\ DrainCounts
  BY DEF TaskInv, DrainInv
<1>1. CASE Members' = Members /\ UNCHANGED <<phase, summary, owned>>
  BY <1>0, <1>1 DEF DrainInv, DrainTyped, DrainCounts
<1>2. CASE phase = "running" /\ UNCHANGED <<phase, summary, owned>>
  BY <1>0, <1>2 DEF DrainInv, DrainTyped, DrainCounts
<1>3. CASE \E t \in Tasks, kind \in Kinds : Accept(t, kind)
  <2>1. phase = "running" /\ UNCHANGED <<phase, summary, owned>>
    BY <1>3 DEF Accept, DrainUnchanged
  <2> QED
    BY <1>2, <2>1
<1>4. CASE \E t \in Tasks : TaskStep(t) \/ Abort(t)
  <2> PICK t \in Tasks : TaskStep(t) \/ Abort(t)
    BY <1>4
  <2>1. TaskMove(t)
    BY <1>0, TaskStepMoves
  <2>2. \A u \in Tasks : u # t => task'[u] = task[u]
    BY <1>0, <2>1 DEF TaskMove, OnlyTask, TaskTyped
  <2>3. InSet(t) /\ InSet(t)'
    BY <2>1 DEF TaskMove, Alive, InSet, Running, Setup, Answering
  <2>4. Members' = Members
    BY <2>2, <2>3 DEF Members, InSet
  <2> QED
    BY <1>1, <2>1, <2>4 DEF TaskMove
<1>5. CASE \E t \in Tasks : Join(t)
  BY <1>2, <1>5 DEF Join, LoopUnchanged
<1>6. CASE DrainStep
  BY <1>6, DrainJoinCounts, StopJoinCounts, DeadlineCounts, DrainEndCounts DEF DrainStep
<1>7. CASE Shutdown
  BY <1>7, ShutdownCounts
<1>8. CASE UNCHANGED <<task, phase, summary, owned>>
  BY <1>1, <1>8 DEF Members, InSet
<1>9. Tick \/ UNCHANGED vars => UNCHANGED <<task, phase, summary, owned>>
  BY DEF Tick, vars
<1> QED
  BY <1>3, <1>4, <1>5, <1>6, <1>7, <1>8, <1>9 DEF Next

-----------------------------------------------------------------------------

\* The invariant holds when the bridge starts.
LEMMA TunnelsInit == Init => TunnelsInv
  BY BreakerInit, TaskInit, DrainInit DEF TunnelsInv

\* A restarted process is a new one.
LEMMA RestartIsInit == Restart => Init'
  BY DEF Restart, Init

\* Every step of the bridge keeps it.
LEMMA TunnelsStep == TunnelsInv /\ [Next]_vars /\ ~Restart => TunnelsInv'
<1> SUFFICES ASSUME TunnelsInv, [Next]_vars, ~Restart PROVE TunnelsInv'
  OBVIOUS
<1>1. BreakerInv /\ TaskInv /\ DrainInv /\ TaskTyped
  BY DEF TunnelsInv, TaskInv
<1> QED
  BY <1>1, BreakerStep, TaskInvStep, DrainInvStep DEF TunnelsInv

\* Every behaviour keeps the invariant of the bridge.
LEMMA TunnelsInductive == Spec => []TunnelsInv
  BY TunnelsInit, RestartIsInit, TunnelsStep, PTL DEF Spec

\* The bridge's state stays well formed: record_failure keeps the breaker within its
\* capacity, no semaphore goes below zero and the active-task gauge never underflows.
THEOREM TunnelsTyped == Spec => []TypeOK
<1>1. TunnelsInv => TypeOK
  BY TypeParts DEF TunnelsInv, BreakerInv, BreakerBounded, TaskInv, DrainInv
<1> QED
  BY <1>1, TunnelsInductive, PTL

\* However a task ends, at any await and with any permits in hand, the guards in its
\* future give back exactly what it took, and the gauge counts the live tasks.
THEOREM PermitsAreConserved == Spec => []PermitsConserved
<1>1. TunnelsInv => PermitsConserved
  BY DEF TunnelsInv, TaskInv
<1> QED
  BY <1>1, TunnelsInductive, PTL

\* BridgeTaskRegistry::drain counts every task it owned exactly once, in whichever
\* order tasks finish, the deadline passes and aborted tasks are joined.
THEOREM DrainIsExact == Spec => []DrainExact
<1>1. ASSUME TunnelsInv PROVE DrainExact
  <2>1. DrainTyped /\ DrainCounts
    BY <1>1 DEF TunnelsInv, DrainInv
  <2>2. summary.deadline_cancelled \in Nat
    BY <2>1 DEF DrainTyped, DrainSummary
  <2> QED
    BY <2>1, <2>2 DEF DrainCounts, DrainExact
<1> QED
  BY <1>1, TunnelsInductive, PTL

\* When drain reports that it stopped, no task is left, the gauge reads zero and every
\* semaphore is full again.
THEOREM DrainIsConfirmed == Spec => []DrainConfirmed
<1>1. ASSUME TunnelsInv PROVE DrainConfirmed
  <2> SUFFICES ASSUME phase = "stopped"
               PROVE  active = 0 /\ free = MaxPermits /\ \A t \in Tasks : ~InSet(t)
    BY DEF DrainConfirmed
  <2>1. \A t \in Tasks : ~InSet(t)
    BY <1>1 DEF TunnelsInv, DrainInv, DrainCounts, Members
  <2>2. \A t \in Tasks : ~Alive(t) /\ \A sem \in Semaphores : ~Holds(t, sem)
    BY <2>1 DEF InSet, Alive, Holds, Running, Setup, Answering
  <2>3. {t \in Tasks : Alive(t)} = {} /\ \A sem \in Semaphores : Holders(sem) = {}
    BY <2>2 DEF Holders
  <2>4. Cardinality({}) = 0
    BY FS_EmptySet
  <2>5. TaskTyped /\ PermitsConserved
    BY <1>1 DEF TunnelsInv, TaskInv
  <2>6. active = 0
    BY <2>3, <2>4, <2>5 DEF PermitsConserved
  <2>7. \A sem \in Semaphores : free[sem] = MaxPermits[sem]
    BY <2>3, <2>4, <2>5, TunnelsAssumption DEF PermitsConserved, TaskTyped
  <2>8. free = MaxPermits
    BY <2>5, <2>7, TunnelsAssumption DEF TaskTyped
  <2> QED
    BY <2>1, <2>6, <2>8
<1> QED
  BY <1>1, TunnelsInductive, PTL

\* CircuitBreaker::allow_at lets no CONNECT through to a destination whose last Threshold
\* recorded results were failures until the cooldown after the latest of them is over.
THEOREM BreakerIsProtective == Spec => BreakerProtects
<1>1. ASSUME TunnelsInv, [Next]_vars
      PROVE  [\A t \in Tasks : LET d == task'[t].dest IN
                 (task[t].pc = "reading" /\ task'[t].pc = "session")
                     => ~(streak[d].n >= Threshold /\ now < streak[d].at + Cooldown)]_vars
  <2> SUFFICES ASSUME NEW t \in Tasks, task[t].pc = "reading", task'[t].pc = "session"
               PROVE  LET d == task'[t].dest IN
                      ~(streak[d].n >= Threshold /\ now < streak[d].at + Cooldown)
    OBVIOUS
  <2>0. BreakerInv /\ TaskInv /\ TaskTyped
    BY <1>1 DEF TunnelsInv, TaskInv
  <2>1. PICK d \in Dests : AdmitConnect(t, d) /\ task'[t].dest = d /\ ~Refuses(d)
    <3>1. CASE \E u \in Tasks, kind \in Kinds : Accept(u, kind)
      <4> PICK u \in Tasks, kind \in Kinds : Accept(u, kind)
        BY <3>1
      <4>1. OnlyTask(u) /\ task[u].pc = "none"
        BY <2>0, AcceptMoves DEF Accept
      <4> QED
        BY <4>1, <2>0 DEF OnlyTask, TaskTyped
    <3>2. CASE \E u \in Tasks : TaskStep(u)
      <4> PICK u \in Tasks : TaskStep(u)
        BY <3>2
      <4>1. TaskMove(u)
        BY <2>0, TaskStepMoves
      <4>2. u = t
        BY <4>1, <2>0 DEF TaskMove, OnlyTask, TaskTyped
      <4>3. PICK d \in Dests : AdmitConnect(t, d)
        <5>1. \A pc : Goto(t, pc) => pc = "session"
          BY <2>0 DEF Goto, TaskTyped, Task
        <5>2. ~EndTask(t, "failed")
          BY <2>0, NoTaskTyped DEF EndTask, TaskTyped, Task
        <5> QED
          BY <4>2, <5>1, <5>2 DEF TaskStep, SetupStep, TlsStart, TlsDone, Refuse, Forward,
             OpenDataSession, WaitFor, WaitTimeout, ConnectOk, ConnectFailed, Finish, Answering
      <4>4. ~Goto(t, "refusing")
        BY <2>0 DEF Goto, TaskTyped, Task
      <4>5. task' = [task EXCEPT ![t].pc = "session", ![t].dest = d] /\ ~Refuses(d)
        BY <4>3, <4>4 DEF AdmitConnect
      <4>6. task'[t].dest = d
        BY <4>5, <2>0 DEF TaskTyped, Task
      <4> QED
        BY <4>3, <4>5, <4>6
    <3>3. CASE \E u \in Tasks : Abort(u)
      <4> PICK u \in Tasks : Abort(u)
        BY <3>3
      <4>1. TaskMove(u) /\ EndTask(u, "failed")
        BY <2>0, TaskStepMoves DEF Abort
      <4>2. u = t
        BY <4>1, <2>0 DEF TaskMove, OnlyTask, TaskTyped
      <4> QED
        BY <4>1, <4>2, <2>0, NoTaskTyped DEF EndTask, TaskTyped, Task
    <3>4. CASE \E ts : Remove(ts)
      BY <3>4, NoTaskTyped DEF Remove
    <3>5. CASE Restart
      BY <3>5, NoTaskTyped DEF Restart
    <3> QED
      BY <1>1, <3>1, <3>2, <3>3, <3>4, <3>5 DEF Next, vars, Join, Shutdown, DrainStep, DrainJoin,
         StopJoin, DrainDone, DrainDeadline, StopDone, ForceStop, LoopUnchanged, Tick
  <2> QED
    BY <2>0, <2>1, LetThrough
<1> QED
  BY <1>1, TunnelsInductive, PTL DEF Spec, BreakerProtects

=============================================================================

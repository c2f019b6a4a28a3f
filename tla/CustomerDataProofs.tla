------------------------- MODULE CustomerDataProofs -------------------------
(***************************************************************************)
(* Every account and period has one live budget, and it never goes past    *)
(* the allowance: for any number of accounts, workspaces and tunnels, any  *)
(* cache size and any allowance.                                           *)
(*                                                                         *)
(* The first part has the shared budget, with the counters of a tunnel     *)
(* only known to be integers.  The second adds the books: what the table   *)
(* holds, and what the tunnels recorded and reserved, as sums over all     *)
(* workspaces and tunnels (module Sums).  The third is the cap within one  *)
(* process, which needs a map with room for every budget.                  *)
(***************************************************************************)
EXTENDS CustomerData, Sums, TLAPS

SessionShape ==
    [pc : {"new", "opened", "buffered", "copying", "checkpoint", "committed", "closed"},
     budget : Budgets, workspace : Workspaces, arc : Arcs \cup {NoArc},
     chunk : [Dirs -> Int], last : Dirs \cup {"none"}, eof : SUBSET Dirs,
     recorded : Int, persisted : Int, delta : Int, after : {"copying", "closed"},
     reason : {"none", "ended", "storage", "abort", "crash"}]

LimiterType ==
    /\ DOMAIN states \subseteq Budgets
    /\ states \in [DOMAIN states -> Arcs]
    /\ used \in [Arcs -> 0..Limit]
    /\ session \in [Sessions -> SessionShape]

\* No live budget, cached or held by tunnels only, ever exceeds the allowance.
BudgetWithinLimit == \A a \in Arcs : used[a] <= Limit

BudgetInv == LimiterType /\ SharedBudget

\* A step of one open tunnel that keeps its budget, and its Arc while open.
TunnelStep(s) ==
    /\ Live(s)
    /\ session' = [session EXCEPT ![s] = session'[s]]
    /\ session'[s] \in SessionShape
    /\ session'[s].budget = session[s].budget
    /\ session'[s].pc \notin {"new", "closed"} => session'[s].arc = session[s].arc

-----------------------------------------------------------------------------

\* The process starts without live budgets and without open tunnels.
LEMMA BudgetInit == Init => BudgetInv
<1> SUFFICES ASSUME Init PROVE BudgetInv
  OBVIOUS
<1>1. NewSession \in SessionShape
  BY CustomerDataAssumption DEF NewSession, SessionShape, Dirs, NoArc
<1>2. LimiterType
  BY <1>1, CustomerDataAssumption DEF Init, LimiterType
<1>3. SharedBudget
  BY DEF Init, SharedBudget, Live, NewSession
<1> QED
  BY <1>2, <1>3 DEF BudgetInv

\* A tunnel that keeps its budget and its Arc disturbs no other tunnel.
LEMMA TunnelStepKeeps ==
    ASSUME BudgetInv, NEW s \in Sessions, TunnelStep(s), UNCHANGED states,
           used' \in [Arcs -> 0..Limit]
    PROVE  BudgetInv'
<1>1. LimiterType'
  BY DEF BudgetInv, LimiterType, TunnelStep
<1>2. SharedBudget'
  <2> SUFFICES ASSUME NEW u \in Sessions, Live(u)'
               PROVE  /\ session'[u].budget \in DOMAIN states
                      /\ states[session'[u].budget] = session'[u].arc
    BY DEF SharedBudget
  <2>1. CASE u = s
    BY <2>1 DEF BudgetInv, LimiterType, SharedBudget, TunnelStep, Live
  <2>2. CASE u # s
    <3>1. session'[u] = session[u]
      BY <2>2 DEF BudgetInv, LimiterType, TunnelStep
    <3> QED
      BY <3>1 DEF BudgetInv, SharedBudget, Live
  <2> QED
    BY <2>1, <2>2
<1> QED
  BY <1>1, <1>2 DEF BudgetInv

\* An open tunnel has an Arc.
LEMMA LiveHasArc ==
    ASSUME BudgetInv, NEW s \in Sessions, Live(s)
    PROVE  session[s].arc \in Arcs
  BY DEF BudgetInv, LimiterType, SharedBudget

-----------------------------------------------------------------------------

\* Eviction keeps every budget that an open tunnel draws from.
LEMMA EvictionKeeps ==
    ASSUME BudgetInv, NEW kept \in AfterEviction, NEW s \in Sessions, Live(s)
    PROVE  kept \subseteq DOMAIN states /\ session[s].budget \in kept
<1>1. session[s].budget \in DOMAIN states /\ states[session[s].budget] = session[s].arc
  BY DEF BudgetInv, SharedBudget
<1>2. CASE kept = DOMAIN states
  BY <1>1, <1>2
<1>3. CASE \E v \in Victims : kept = DOMAIN states \ {v}
  <2> PICK v \in Victims : kept = DOMAIN states \ {v}
    BY <1>3
  <2>1. Idle(v)
    BY DEF Victims
  <2> QED
    BY <1>1, <2>1 DEF Idle
<1> QED
  BY <1>2, <1>3 DEF AfterEviction

\* Whatever eviction leaves is a part of the map.
LEMMA EvictionShrinks ==
    ASSUME NEW kept \in AfterEviction
    PROVE  kept \subseteq DOMAIN states
  BY DEF AfterEviction

\* state_for keeps the budgets of all open tunnels, and returns the one it
\* leaves in the map.
LEMMA StateForFacts ==
    ASSUME BudgetInv, NEW b \in Budgets, NEW a \in Arcs, StateFor(b, a)
    PROVE  /\ DOMAIN states' \subseteq Budgets
           /\ states' \in [DOMAIN states' -> Arcs]
           /\ used' \in [Arcs -> 0..Limit]
           /\ b \in DOMAIN states' /\ states'[b] = a
           /\ \A s \in Sessions : Live(s) =>
                 /\ session[s].budget \in DOMAIN states'
                 /\ states'[session[s].budget] = session[s].arc
<1>1. CASE b \in DOMAIN states /\ a = states[b] /\ UNCHANGED <<states, used>>
  BY <1>1 DEF BudgetInv, LimiterType, SharedBudget
<1>2. CASE /\ b \notin DOMAIN states
           /\ \E kept \in AfterEviction, persisted \in 0..(Limit - 1) :
                 /\ states' = [c \in kept \cup {b} |-> IF c = b THEN a ELSE states[c]]
                 /\ used' = [used EXCEPT ![a] = persisted]
  <2> PICK kept \in AfterEviction, persisted \in 0..(Limit - 1) :
           /\ states' = [c \in kept \cup {b} |-> IF c = b THEN a ELSE states[c]]
           /\ used' = [used EXCEPT ![a] = persisted]
    BY <1>2
  <2>1. kept \subseteq DOMAIN states
    BY EvictionShrinks
  <2>2. used' \in [Arcs -> 0..Limit]
    BY CustomerDataAssumption DEF BudgetInv, LimiterType
  <2>3. DOMAIN states' = kept \cup {b} /\ states'[b] = a
    OBVIOUS
  <2>4. states' \in [DOMAIN states' -> Arcs] /\ DOMAIN states' \subseteq Budgets
    BY <2>1, <2>3 DEF BudgetInv, LimiterType
  <2>5. ASSUME NEW s \in Sessions, Live(s)
        PROVE  /\ session[s].budget \in DOMAIN states'
               /\ states'[session[s].budget] = session[s].arc
    <3>1. session[s].budget \in kept
      BY <2>5, EvictionKeeps
    <3>2. session[s].budget \in DOMAIN states /\ states[session[s].budget] = session[s].arc
      BY <2>5 DEF BudgetInv, SharedBudget
    <3> QED
      BY <3>1, <3>2, <1>2
  <2> QED
    BY <2>2, <2>3, <2>4, <2>5
<1> QED
  BY <1>1, <1>2 DEF StateFor

\* ensure_available
LEMMA BudgetEnsure ==
    ASSUME BudgetInv, NEW b \in Budgets, EnsureAvailable(b)
    PROVE  BudgetInv'
<1> PICK a \in Arcs : StateFor(b, a)
  BY DEF EnsureAvailable
<1>1. session' = session
  BY DEF EnsureAvailable
<1> QED
  BY <1>1, StateForFacts DEF BudgetInv, LimiterType, SharedBudget, Live

\* A failed state_for may still have evicted an idle budget.
LEMMA BudgetFails ==
    ASSUME BudgetInv, NEW b \in Budgets, StateForFails(b)
    PROVE  BudgetInv'
<1> PICK kept \in AfterEviction : states' = [c \in kept |-> states[c]]
  BY DEF StateForFails
<1>1. kept \subseteq DOMAIN states
  BY EvictionShrinks
<1>2. session' = session /\ used' = used
  BY DEF StateForFails
<1>3. LimiterType'
  BY <1>1, <1>2 DEF BudgetInv, LimiterType
<1>4. SharedBudget'
  <2> SUFFICES ASSUME NEW s \in Sessions, Live(s)
               PROVE  session[s].budget \in kept /\ states[session[s].budget] = session[s].arc
    BY <1>2 DEF SharedBudget, Live
  <2> QED
    BY EvictionKeeps DEF BudgetInv, SharedBudget
<1> QED
  BY <1>3, <1>4 DEF BudgetInv

\* open_session ties a new tunnel to the budget in the map.
LEMMA BudgetOpen ==
    ASSUME BudgetInv, NEW s \in Sessions, NEW b \in Budgets, NEW w \in Workspaces,
           OpenSession(s, b, w)
    PROVE  BudgetInv'
<1> PICK a \in Arcs :
        /\ StateFor(b, a)
        /\ session' = [session EXCEPT
              ![s].pc = "opened", ![s].budget = b, ![s].workspace = w, ![s].arc = a]
  BY DEF OpenSession
<1>1. session[s] \in SessionShape
  BY DEF BudgetInv, LimiterType
<1>2. /\ session'[s] \in SessionShape
      /\ session'[s].budget = b /\ session'[s].arc = a
  BY <1>1 DEF SessionShape, BudgetInv, LimiterType
<1>3. session' = [session EXCEPT ![s] = session'[s]]
  BY DEF BudgetInv, LimiterType
<1>4. LimiterType'
  BY <1>2, <1>3, StateForFacts DEF BudgetInv, LimiterType
<1>5. SharedBudget'
  <2> SUFFICES ASSUME NEW u \in Sessions, Live(u)'
               PROVE  /\ session'[u].budget \in DOMAIN states'
                      /\ states'[session'[u].budget] = session'[u].arc
    BY DEF SharedBudget
  <2>1. CASE u = s
    BY <2>1, <1>2, StateForFacts
  <2>2. CASE u # s
    <3>1. session'[u] = session[u]
      BY <2>2, <1>3 DEF BudgetInv, LimiterType
    <3> QED
      BY <3>1, StateForFacts DEF Live
  <2> QED
    BY <2>1, <2>2
<1> QED
  BY <1>4, <1>5 DEF BudgetInv

-----------------------------------------------------------------------------

\* What LimiterType says of one tunnel.
LEMMA SessionFields ==
    ASSUME BudgetInv, NEW s \in Sessions
    PROVE  /\ session[s] \in SessionShape
           /\ session[s].recorded \in Int /\ session[s].persisted \in Int
           /\ session[s].delta \in Int /\ session[s].chunk \in [Dirs -> Int]
           /\ session[s].after \in {"copying", "closed"}
<1>1. session[s] \in SessionShape
  BY DEF BudgetInv, LimiterType
<1> QED
  BY <1>1 DEF SessionShape

\* A tunnel that ends closes, or goes to its last checkpoint with its Arc.
LEMMA FinishKeeps ==
    ASSUME BudgetInv, NEW s \in Sessions, Live(s), NEW recorded \in Int,
           Finish(s, recorded), UNCHANGED <<states, used>>
    PROVE  BudgetInv'
<1>1. session[s] \in SessionShape /\ session[s].persisted \in Int
  BY SessionFields
<1>2. session' = [session EXCEPT ![s] = session'[s]]
  BY DEF Finish, BudgetInv, LimiterType
<1>3. session'[s] \in SessionShape
  <2> DEFINE pc == IF recorded = session[s].persisted THEN "closed" ELSE "checkpoint"
             arc == IF recorded = session[s].persisted THEN NoArc ELSE session[s].arc
             delta == recorded - session[s].persisted
             none == [d \in Dirs |-> 0]
  <2>1. session'[s] =
            [session[s] EXCEPT !.pc = pc, !.arc = arc, !.chunk = none, !.last = "none",
                !.eof = {}, !.recorded = recorded, !.delta = delta, !.after = "closed",
                !.reason = "ended"]
    BY DEF Finish, BudgetInv, LimiterType
  <2>2. /\ pc \in {"closed", "checkpoint"} /\ arc \in Arcs \cup {NoArc}
        /\ delta \in Int /\ none \in [Dirs -> Int]
    BY <1>1 DEF SessionShape
  <2> HIDE DEF pc, arc, delta, none
  <2> QED
    BY <1>1, <2>1, <2>2 DEF SessionShape
<1>4. session'[s].budget = session[s].budget
  BY <1>1 DEF Finish, BudgetInv, LimiterType, SessionShape
<1>5. session'[s].pc \notin {"new", "closed"} => session'[s].arc = session[s].arc
  BY <1>1 DEF Finish, BudgetInv, LimiterType, SessionShape
<1>6. used' \in [Arcs -> 0..Limit] /\ UNCHANGED states
  BY DEF BudgetInv, LimiterType
<1> QED
  BY <1>2, <1>3, <1>4, <1>5, <1>6, TunnelStepKeeps DEF TunnelStep

\* The ends that record nothing more.
LEMMA EndTunnelKeeps ==
    ASSUME BudgetInv, NEW s \in Sessions, Live(s), EndTunnel(s)
    PROVE  BudgetInv'
  BY SessionFields, FinishKeeps DEF EndTunnel, LimiterUnchanged

\* allow() reserves no more than the budget has left.
LEMMA AllowKeeps ==
    ASSUME BudgetInv, NEW s \in Sessions, Live(s), NEW d \in Dirs, NEW n \in Reads,
           NEW pc \in {"buffered", "copying"}, Allow(s, d, n, pc)
    PROVE  BudgetInv'
<1>1. session[s] \in SessionShape
  BY SessionFields
<1>2. session[s].arc \in Arcs
  BY LiveHasArc
<1>3. /\ used[session[s].arc] \in 0..Limit /\ Limit \in Nat /\ n \in Nat
      /\ Granted(s, n) \in Nat
      /\ used[session[s].arc] + Granted(s, n) \in 0..Limit
  BY <1>2, CustomerDataAssumption DEF BudgetInv, LimiterType, Allow, Granted, Reads
<1>4. used' \in [Arcs -> 0..Limit] /\ UNCHANGED states
  BY <1>2, <1>3 DEF BudgetInv, LimiterType, Allow
<1>5. session' = [session EXCEPT ![s] = session'[s]]
  BY DEF Allow, BudgetInv, LimiterType
<1>6. session'[s] \in SessionShape
  <2> DEFINE chunk == [session[s].chunk EXCEPT ![d] = Granted(s, n)]
             last == IF used'[session[s].arc] = Limit THEN d ELSE session[s].last
  <2>1. session'[s] = [session[s] EXCEPT !.pc = pc, !.chunk = chunk, !.last = last]
    BY <1>1 DEF Allow, BudgetInv, LimiterType, SessionShape
  <2>2. chunk \in [Dirs -> Int] /\ last \in Dirs \cup {"none"}
    BY <1>1, <1>3 DEF SessionShape
  <2> HIDE DEF chunk, last
  <2> QED
    BY <1>1, <2>1, <2>2 DEF SessionShape
<1>7. session'[s].budget = session[s].budget /\ session'[s].arc = session[s].arc
  BY <1>1 DEF Allow, BudgetInv, LimiterType, SessionShape
<1> QED
  BY <1>4, <1>5, <1>6, <1>7, TunnelStepKeeps DEF TunnelStep

\* Writing, end of stream, checkpoints and their failure leave the budgets alone.
LEMMA CopyKeeps ==
    ASSUME BudgetInv, NEW s \in Sessions, Live(s), UNCHANGED <<states, used>>,
           NEW d \in Dirs, NEW more \in Int,
           \/ session' = [session EXCEPT ![s].pc = "copying"]
           \/ session' = [session EXCEPT ![s].eof = {d}]
           \/ session' = [session EXCEPT ![s].pc = "committed"]
           \/ session' = [session EXCEPT
                ![s].pc = "copying", ![s].chunk[d] = 0, ![s].recorded = more]
           \/ session' = [session EXCEPT
                ![s].pc = "checkpoint", ![s].after = "copying", ![s].delta = more]
           \/ session' = [session EXCEPT
                ![s].pc = session[s].after, ![s].delta = 0,
                ![s].arc = IF session[s].after = "closed" THEN NoArc ELSE @,
                ![s].persisted = more]
           \/ session' = [session EXCEPT
                ![s].pc = "closed", ![s].arc = NoArc, ![s].chunk = [e \in Dirs |-> 0],
                ![s].last = "none", ![s].eof = {}, ![s].delta = 0,
                ![s].reason = "storage"]
    PROVE  BudgetInv'
<1>1. session[s] \in SessionShape /\ session[s].after \in {"copying", "closed"}
  BY SessionFields
<1>2. session' = [session EXCEPT ![s] = session'[s]]
  BY DEF BudgetInv, LimiterType
<1>3. session'[s] \in SessionShape
  BY <1>1 DEF BudgetInv, LimiterType, SessionShape, NoArc
<1>4. session'[s].budget = session[s].budget
  BY <1>1 DEF BudgetInv, LimiterType, SessionShape
<1>5. session'[s].pc \notin {"new", "closed"} => session'[s].arc = session[s].arc
  BY <1>1 DEF BudgetInv, LimiterType, SessionShape
<1>6. used' \in [Arcs -> 0..Limit] /\ UNCHANGED states
  BY DEF BudgetInv, LimiterType
<1> QED
  BY <1>2, <1>3, <1>4, <1>5, <1>6, TunnelStepKeeps DEF TunnelStep

\* The end of the process closes every tunnel and forgets every budget.
LEMMA BudgetProcessEnd ==
    ASSUME BudgetInv, NEW reason \in {"abort", "crash"}, ProcessEnd(reason)
    PROVE  BudgetInv'
<1>1. ASSUME NEW s \in Sessions
      PROVE  session'[s] \in SessionShape /\ ~Live(s)'
  <2>1. session[s] \in SessionShape
    BY SessionFields
  <2>2. CASE Live(s)
    <3> DEFINE none == [d \in Dirs |-> 0]
               zero == 0
               empty == {}
    <3>1. session'[s] = [session[s] EXCEPT !.pc = "closed", !.arc = NoArc,
              !.chunk = none, !.last = "none", !.eof = empty, !.delta = zero,
              !.reason = reason]
      BY <2>2 DEF ProcessEnd
    <3>2. none \in [Dirs -> Int] /\ zero \in Int /\ empty \in SUBSET Dirs
      OBVIOUS
    <3> HIDE DEF none, zero, empty
    <3>3. session'[s] \in SessionShape
      BY <2>1, <3>1, <3>2 DEF SessionShape
    <3>4. ~Live(s)'
      BY <2>1, <3>1 DEF SessionShape, Live
    <3> QED
      BY <3>3, <3>4
  <2>3. CASE ~Live(s)
    BY <2>1, <2>3 DEF ProcessEnd, Live
  <2> QED
    BY <2>2, <2>3
<1>2. session' \in [Sessions -> SessionShape]
  <2>1. session' = [s \in Sessions |-> session'[s]]
    BY DEF ProcessEnd
  <2> QED
    BY <1>1, <2>1
<1>3. states' = [b \in {} |-> NoArc] /\ used' \in [Arcs -> 0..Limit]
  <2>1. states' = [b \in {} |-> NoArc] /\ used' = [a \in Arcs |-> 0]
    BY DEF ProcessEnd
  <2>2. 0 \in 0..Limit
    BY CustomerDataAssumption
  <2> QED
    BY <2>1, <2>2
<1>4. LimiterType'
  BY <1>2, <1>3 DEF LimiterType
<1> QED
  BY <1>1, <1>4 DEF BudgetInv, SharedBudget

\* One step of one tunnel.
LEMMA BudgetSession ==
    ASSUME BudgetInv, NEW s \in Sessions, SessionStep(s)
    PROVE  BudgetInv'
<1> USE SessionFields
<1>1. CASE \E b \in Budgets, w \in Workspaces : OpenSession(s, b, w)
  BY <1>1, BudgetOpen
<1>2. CASE \E n \in Reads : AllowBuffered(s, n)
  BY <1>2, AllowKeeps DEF AllowBuffered, Live, Dirs
<1>3. CASE \E d \in Dirs, n \in Reads : Read(s, d, n)
  BY <1>3, AllowKeeps DEF Read, Live
<1>4. ASSUME NEW d \in Dirs, Written(s, d) PROVE BudgetInv'
  <2>1. Live(s) /\ UNCHANGED <<states, used>>
        /\ session[s].recorded + session[s].chunk[d] \in Int
    BY <1>4 DEF Written, LimiterUnchanged, Live
  <2>2. CASE Finish(s, session[s].recorded + session[s].chunk[d])
    BY <2>1, <2>2, FinishKeeps
  <2>3. CASE session' = [session EXCEPT ![s].pc = "copying", ![s].chunk[d] = 0,
                             ![s].recorded = session[s].recorded + session[s].chunk[d]]
    BY <2>1, <2>3, CopyKeeps
  <2> QED
    BY <1>4, <2>2, <2>3 DEF Written
<1>5. ASSUME NEW d \in Dirs, Eof(s, d) PROVE BudgetInv'
  <2>1. Live(s)
    BY <1>5 DEF Eof, Live
  <2>2. CASE EndTunnel(s)
    BY <2>1, <2>2, EndTunnelKeeps
  <2>3. CASE session' = [session EXCEPT ![s].eof = {d}] /\ UNCHANGED <<states, used>>
    BY <2>1, <2>3, CopyKeeps
  <2> QED
    BY <1>5, <2>2, <2>3 DEF Eof
<1>6. CASE LimitReached(s) \/ LimitClose(s) \/ CopyFails(s) \/ ConnectFails(s) \/ IdleTimeout(s)
  BY <1>6, EndTunnelKeeps
     DEF LimitReached, LimitClose, CopyFails, ConnectFails, IdleTimeout, Live
<1>7. CASE Checkpoint(s)
  <2>1. Live(s) /\ session[s].recorded - session[s].persisted \in Int
    BY <1>7 DEF Checkpoint, Live
  <2> QED
    BY <1>7, <2>1, CopyKeeps DEF Checkpoint, Dirs
<1>8. CASE StartCopy(s)
  BY <1>8, CopyKeeps DEF StartCopy, Live, Dirs
<1>9. CASE Commit(s)
  BY <1>9, CopyKeeps DEF Commit, Live, Dirs
<1>10. CASE StorePersisted(s)
  <2>1. Live(s) /\ session[s].persisted + session[s].delta \in Int
    BY <1>10 DEF StorePersisted, Live
  <2> QED
    BY <1>10, <2>1, CopyKeeps DEF StorePersisted, Dirs
<1>11. CASE CommitFails(s)
  BY <1>11, CopyKeeps DEF CommitFails, Live, Dirs, LimiterUnchanged
<1> QED
  BY <1>1, <1>2, <1>3, <1>4, <1>5, <1>6, <1>7, <1>8, <1>9, <1>10, <1>11
     DEF SessionStep, Progress

-----------------------------------------------------------------------------

\* The budgets in the map and the tunnels that draw from them stay tied.
LEMMA BudgetNext == BudgetInv /\ [Next]_vars => BudgetInv'
<1> SUFFICES ASSUME BudgetInv, [Next]_vars PROVE BudgetInv'
  OBVIOUS
<1>1. CASE \E b \in Budgets : EnsureAvailable(b) \/ StateForFails(b)
  BY <1>1, BudgetEnsure, BudgetFails
<1>2. CASE \E s \in Sessions : SessionStep(s)
  BY <1>2, BudgetSession
<1>3. CASE \E reason \in {"abort", "crash"} : ProcessEnd(reason)
  BY <1>3, BudgetProcessEnd
<1>4. CASE UNCHANGED vars
  BY <1>4 DEF vars, BudgetInv, LimiterType, SharedBudget, Live
<1> QED
  BY <1>1, <1>2, <1>3, <1>4 DEF Next

\* Every behaviour keeps the inductive invariant.
LEMMA BudgetInvariant == Spec => []BudgetInv
  BY BudgetInit, BudgetNext, PTL DEF Spec

\* All open tunnels of an account and period share the live budget in the map,
\* whatever state_for evicts and however many tunnels and accounts there are.
THEOREM BudgetShared == Spec => []SharedBudget
<1>1. BudgetInv => SharedBudget
  BY DEF BudgetInv
<1> QED
  BY <1>1, BudgetInvariant, PTL

\* The compare-and-swap loop of allow() never takes a live budget past the
\* allowance, for any interleaving of any number of tunnels.
THEOREM BudgetCapped == Spec => []BudgetWithinLimit
<1>1. BudgetInv => BudgetWithinLimit
  BY CustomerDataAssumption DEF BudgetInv, LimiterType, BudgetWithinLimit
<1> QED
  BY <1>1, BudgetInvariant, PTL

-----------------------------------------------------------------------------
(***************************************************************************)
(* The accounting.  What the table holds for a budget is bounded from both *)
(* sides by sums over the tunnels that were opened under it.               *)
(***************************************************************************)

\* What a tunnel has charged and not yet put in the table, or has reserved.
OutstandingOf(t) ==
    IF t.pc \notin {"new", "closed"}
    THEN t.recorded - t.persisted + (t.chunk["ToTor"] + t.chunk["FromTor"])
         - (IF t.pc = "committed" THEN t.delta ELSE 0)
    ELSE 0

\* What a tunnel has certainly put in the table ...
InTableOf(t) == t.persisted + (IF t.pc = "committed" THEN t.delta ELSE 0)

\* ... and the most that it may have put there: a tunnel that was cut short in
\* a checkpoint does not know whether it was committed.
LedgerOf(t) == IF t.pc \notin {"new", "closed"} THEN InTableOf(t) ELSE t.recorded

\* The same per tunnel, counting the tunnels of budget b only.
OutstandingIn(b) ==
    [s \in Sessions |-> IF session[s].budget = b THEN OutstandingOf(session[s]) ELSE 0]
InTableIn(b) ==
    [s \in Sessions |-> IF session[s].budget = b THEN InTableOf(session[s]) ELSE 0]
LedgerIn(b) ==
    [s \in Sessions |-> IF session[s].budget = b THEN LedgerOf(session[s]) ELSE 0]

\* What holds of the counters of every tunnel.
TunnelOK(t) ==
    /\ t.pc \in {"new", "opened", "buffered", "copying", "checkpoint", "committed", "closed"}
    /\ t.chunk \in [Dirs -> 0..MaxRead]
    /\ t.recorded \in 0..Limit /\ t.persisted \in 0..Limit /\ t.delta \in 0..Limit
    /\ t.persisted <= t.recorded
    /\ t.delta = IF t.pc \in {"checkpoint", "committed"} THEN t.recorded - t.persisted ELSE 0
    /\ t.pc \in {"new", "opened"} =>
          t.recorded = 0 /\ t.chunk["ToTor"] = 0 /\ t.chunk["FromTor"] = 0
    /\ (t.pc = "closed" /\ t.reason = "ended") => t.persisted = t.recorded

Counters ==
    /\ usage \in [Budgets -> [Workspaces -> Nat]]
    /\ lastUsed \in [Arcs -> 0..MaxSequence]
    /\ sequence \in 1..(MaxSequence + 1)
    /\ sent \in [Budgets -> Nat] /\ base \in [Budgets -> Nat]
    /\ \A b \in DOMAIN states : states[b] < sequence

TunnelsOK == \A s \in Sessions : TunnelOK(session[s])

\* Nothing is charged that was not reserved from the live budget, and nothing
\* is in the table that no tunnel recorded.
Balanced ==
    \A b \in Budgets :
        /\ Persisted(b) + SumFunctionOnSet(OutstandingIn(b), Sessions) <= Limit
        /\ b \in DOMAIN states =>
              Persisted(b) + SumFunctionOnSet(OutstandingIn(b), Sessions) <= used[states[b]]
        /\ SumFunctionOnSet(InTableIn(b), Sessions) <= Persisted(b)
        /\ Persisted(b) <= SumFunctionOnSet(LedgerIn(b), Sessions)

AccountingInv == BudgetInv /\ Counters /\ TunnelsOK /\ Balanced

-----------------------------------------------------------------------------

\* The terms of the sums are naturals, and together cover what was recorded.
LEMMA TunnelTerms ==
    ASSUME NEW t, TunnelOK(t)
    PROVE  /\ OutstandingOf(t) \in Nat /\ InTableOf(t) \in Nat /\ LedgerOf(t) \in Nat
           /\ InTableOf(t) <= t.recorded
           /\ t.pc \notin {"new", "closed"} =>
                 InTableOf(t) + OutstandingOf(t)
                     = t.recorded + (t.chunk["ToTor"] + t.chunk["FromTor"])
<1>1. /\ t.recorded \in Nat /\ t.persisted \in Nat /\ t.delta \in Nat
      /\ t.persisted <= t.recorded
      /\ t.delta = IF t.pc \in {"checkpoint", "committed"} THEN t.recorded - t.persisted ELSE 0
  BY CustomerDataAssumption DEF TunnelOK
<1>2. t.chunk["ToTor"] \in Nat /\ t.chunk["FromTor"] \in Nat
  BY CustomerDataAssumption DEF TunnelOK, Dirs
<1>3. t.pc \in {"new", "opened", "buffered", "copying", "checkpoint", "committed", "closed"}
  BY DEF TunnelOK
<1> QED
  BY <1>1, <1>2, <1>3 DEF OutstandingOf, InTableOf, LedgerOf

\* So the sums over them are sums of naturals.
LEMMA TermsNatural ==
    ASSUME TunnelsOK, NEW b
    PROVE  \A s \in Sessions : /\ OutstandingIn(b)[s] \in Nat
                               /\ InTableIn(b)[s] \in Nat
                               /\ LedgerIn(b)[s] \in Nat
  BY TunnelTerms DEF TunnelsOK, OutstandingIn, InTableIn, LedgerIn

\* And so is the table's.
LEMMA PersistedNatural ==
    ASSUME Counters, NEW b \in Budgets
    PROVE  /\ Persisted(b) = SumFunctionOnSet(usage[b], Workspaces)
           /\ Persisted(b) \in Nat
           /\ \A w \in Workspaces : usage[b][w] \in Nat
<1>1. usage[b] \in [Workspaces -> Nat]
  BY DEF Counters
<1>2. Persisted(b) = SumFunctionOnSet(usage[b], Workspaces)
  BY <1>1 DEF Persisted, SumFunction
<1>3. \A w \in Workspaces : usage[b][w] \in Nat
  BY <1>1
<1>4. SumFunctionOnSet(usage[b], Workspaces) \in Nat
  BY <1>3, CustomerDataAssumption, SumBoundsTerms
<1> QED
  BY <1>2, <1>3, <1>4

\* When one tunnel changes, each sum moves by the change of its term.
LEMMA OneTunnelSums ==
    ASSUME TunnelsOK, NEW s \in Sessions, TunnelOK(session'[s]),
           \A u \in Sessions : u # s => session'[u] = session[u],
           NEW b \in Budgets
    PROVE  /\ SumFunctionOnSet(OutstandingIn(b)', Sessions)
                = SumFunctionOnSet(OutstandingIn(b), Sessions)
                  + (OutstandingIn(b)'[s] - OutstandingIn(b)[s])
           /\ SumFunctionOnSet(InTableIn(b)', Sessions)
                = SumFunctionOnSet(InTableIn(b), Sessions)
                  + (InTableIn(b)'[s] - InTableIn(b)[s])
           /\ SumFunctionOnSet(LedgerIn(b)', Sessions)
                = SumFunctionOnSet(LedgerIn(b), Sessions)
                  + (LedgerIn(b)'[s] - LedgerIn(b)[s])
           /\ OutstandingIn(b)[s] \in Int /\ InTableIn(b)[s] \in Int /\ LedgerIn(b)[s] \in Int
           /\ SumFunctionOnSet(OutstandingIn(b), Sessions) \in Int
           /\ SumFunctionOnSet(InTableIn(b), Sessions) \in Int
           /\ SumFunctionOnSet(LedgerIn(b), Sessions) \in Int
<1>1. /\ Integral(OutstandingIn(b), Sessions)
      /\ Integral(InTableIn(b), Sessions)
      /\ Integral(LedgerIn(b), Sessions)
  BY TermsNatural DEF Integral
<1>2. OutstandingIn(b)'[s] \in Int /\ InTableIn(b)'[s] \in Int /\ LedgerIn(b)'[s] \in Int
  BY TunnelTerms DEF OutstandingIn, InTableIn, LedgerIn
<1>3. \A u \in Sessions : u # s =>
         /\ OutstandingIn(b)'[u] = OutstandingIn(b)[u]
         /\ InTableIn(b)'[u] = InTableIn(b)[u]
         /\ LedgerIn(b)'[u] = LedgerIn(b)[u]
  BY DEF OutstandingIn, InTableIn, LedgerIn
<1>4. IsFiniteSet(Sessions)
  BY CustomerDataAssumption
<1>5. /\ SumFunctionOnSet(OutstandingIn(b)', Sessions)
                = SumFunctionOnSet(OutstandingIn(b), Sessions)
                  + (OutstandingIn(b)'[s] - OutstandingIn(b)[s])
      /\ SumFunctionOnSet(OutstandingIn(b), Sessions) \in Int
  BY <1>1, <1>2, <1>3, <1>4, SumUpdate
<1>6. /\ SumFunctionOnSet(InTableIn(b)', Sessions)
                = SumFunctionOnSet(InTableIn(b), Sessions)
                  + (InTableIn(b)'[s] - InTableIn(b)[s])
      /\ SumFunctionOnSet(InTableIn(b), Sessions) \in Int
  BY <1>1, <1>2, <1>3, <1>4, SumUpdate
<1>7. /\ SumFunctionOnSet(LedgerIn(b)', Sessions)
                = SumFunctionOnSet(LedgerIn(b), Sessions)
                  + (LedgerIn(b)'[s] - LedgerIn(b)[s])
      /\ SumFunctionOnSet(LedgerIn(b), Sessions) \in Int
  BY <1>1, <1>2, <1>3, <1>4, SumUpdate
<1> QED
  BY <1>1, <1>5, <1>6, <1>7 DEF Integral

\* A tunnel of budget B reserves r more bytes and moves p bytes to the table:
\* the books stay balanced if its own terms move accordingly.
LEMMA Rebalance ==
    ASSUME AccountingInv, NEW s \in Sessions, Live(s), TunnelOK(session'[s]),
           \A u \in Sessions : u # s => session'[u] = session[u],
           NEW B \in Budgets, session[s].budget = B, session'[s].budget = B,
           NEW p \in Nat, NEW r \in Nat, states' = states,
           \A b \in Budgets : Persisted(b)' = Persisted(b) + (IF b = B THEN p ELSE 0),
           used' \in [Arcs -> 0..Limit], \A a \in Arcs : used[a] <= used'[a],
           used'[session[s].arc] = used[session[s].arc] + r,
           OutstandingOf(session'[s]) + p <= OutstandingOf(session[s]) + r,
           InTableOf(session'[s]) <= InTableOf(session[s]) + p,
           LedgerOf(session[s]) + p <= LedgerOf(session'[s])
    PROVE  Balanced'
<1> SUFFICES ASSUME NEW b \in Budgets
             PROVE  /\ Persisted(b)' + SumFunctionOnSet(OutstandingIn(b)', Sessions) <= Limit
                    /\ b \in DOMAIN states =>
                          Persisted(b)' + SumFunctionOnSet(OutstandingIn(b)', Sessions)
                              <= used'[states[b]]
                    /\ SumFunctionOnSet(InTableIn(b)', Sessions) <= Persisted(b)'
                    /\ Persisted(b)' <= SumFunctionOnSet(LedgerIn(b)', Sessions)
  BY DEF Balanced
<1> DEFINE O == SumFunctionOnSet(OutstandingIn(b), Sessions)
           T == SumFunctionOnSet(InTableIn(b), Sessions)
           L == SumFunctionOnSet(LedgerIn(b), Sessions)
           O1 == SumFunctionOnSet(OutstandingIn(b)', Sessions)
           T1 == SumFunctionOnSet(InTableIn(b)', Sessions)
           L1 == SumFunctionOnSet(LedgerIn(b)', Sessions)
<1>1. /\ O1 = O + (OutstandingIn(b)'[s] - OutstandingIn(b)[s])
      /\ T1 = T + (InTableIn(b)'[s] - InTableIn(b)[s])
      /\ L1 = L + (LedgerIn(b)'[s] - LedgerIn(b)[s])
      /\ O \in Int /\ T \in Int /\ L \in Int
  BY OneTunnelSums DEF AccountingInv
<1>2. Persisted(b) \in Nat
  BY PersistedNatural DEF AccountingInv
<1>3. /\ Persisted(b) + O <= Limit
      /\ b \in DOMAIN states => Persisted(b) + O <= used[states[b]]
      /\ T <= Persisted(b) /\ Persisted(b) <= L
  BY DEF AccountingInv, Balanced
<1>4. Limit \in Nat /\ (\A a \in Arcs : used[a] \in Nat /\ used'[a] \in Nat /\ used'[a] <= Limit)
  BY CustomerDataAssumption DEF AccountingInv, BudgetInv, LimiterType
<1>5. b \in DOMAIN states => states[b] \in Arcs
  BY DEF AccountingInv, BudgetInv, LimiterType
<1>6. CASE b # B
  <2>1. /\ OutstandingIn(b)'[s] = 0 /\ OutstandingIn(b)[s] = 0
        /\ InTableIn(b)'[s] = 0 /\ InTableIn(b)[s] = 0
        /\ LedgerIn(b)'[s] = 0 /\ LedgerIn(b)[s] = 0
    BY <1>6 DEF OutstandingIn, InTableIn, LedgerIn
  <2>2. Persisted(b)' = Persisted(b)
    BY <1>2, <1>6
  <2> HIDE DEF O, T, L, O1, T1, L1
  <2>3. O1 = O /\ T1 = T /\ L1 = L
    BY <1>1, <2>1
  <2>4. b \in DOMAIN states => used[states[b]] <= used'[states[b]]
    BY <1>5
  <2>5. Persisted(b)' + O1 <= Limit /\ T1 <= Persisted(b)' /\ Persisted(b)' <= L1
    BY <1>3, <2>2, <2>3
  <2>6. b \in DOMAIN states => Persisted(b)' + O1 <= used'[states[b]]
    BY <1>1, <1>2, <1>3, <1>4, <1>5, <2>2, <2>3, <2>4
  <2> QED
    BY <2>5, <2>6 DEF O, T, L, O1, T1, L1
<1>7. CASE b = B
  <2>1. /\ OutstandingIn(b)'[s] = OutstandingOf(session'[s])
        /\ OutstandingIn(b)[s] = OutstandingOf(session[s])
        /\ InTableIn(b)'[s] = InTableOf(session'[s])
        /\ InTableIn(b)[s] = InTableOf(session[s])
        /\ LedgerIn(b)'[s] = LedgerOf(session'[s])
        /\ LedgerIn(b)[s] = LedgerOf(session[s])
    BY <1>7 DEF OutstandingIn, InTableIn, LedgerIn
  <2>2. Persisted(b)' = Persisted(b) + p
    BY <1>7
  <2>3. b \in DOMAIN states /\ states[b] = session[s].arc
    BY <1>7 DEF AccountingInv, BudgetInv, SharedBudget
  <2>4. /\ OutstandingOf(session[s]) \in Nat /\ OutstandingOf(session'[s]) \in Nat
        /\ InTableOf(session[s]) \in Nat /\ InTableOf(session'[s]) \in Nat
        /\ LedgerOf(session[s]) \in Nat /\ LedgerOf(session'[s]) \in Nat
    BY TunnelTerms DEF AccountingInv, TunnelsOK
  <2>5. used'[states[b]] = used[states[b]] + r /\ states[b] \in Arcs
    BY <2>3, <1>5
  <2> HIDE DEF O, T, L, O1, T1, L1
  <2>6. O1 + p <= O + r /\ T1 <= T + p /\ L + p <= L1 /\ O1 \in Int /\ T1 \in Int /\ L1 \in Int
    BY <1>1, <2>1, <2>4
  <2>7. Persisted(b)' + O1 <= used'[states[b]]
    BY <1>1, <1>2, <1>3, <1>4, <2>2, <2>3, <2>5, <2>6
  <2>8. Persisted(b)' + O1 <= Limit
    BY <1>2, <1>4, <2>2, <2>5, <2>6, <2>7
  <2>9. T1 <= Persisted(b)' /\ Persisted(b)' <= L1
    BY <1>1, <1>2, <1>3, <2>2, <2>6
  <2> QED
    BY <2>7, <2>8, <2>9 DEF O, T, L, O1, T1, L1
<1> QED
  BY <1>6, <1>7

-----------------------------------------------------------------------------
(***************************************************************************)
(* What each operation does to the counters of its tunnel: t before, u     *)
(* after.                                                                  *)
(***************************************************************************)

\* The terms of t and u are the same, or move as Rebalance asks with p = 0.
Settles(t, u) ==
    /\ TunnelOK(u)
    /\ OutstandingOf(u) <= OutstandingOf(t)
    /\ InTableOf(u) <= InTableOf(t)
    /\ LedgerOf(t) <= LedgerOf(u)

\* What TunnelOK says of the numbers.
LEMMA TunnelNumbers ==
    ASSUME NEW t, TunnelOK(t)
    PROVE  /\ t.chunk["ToTor"] \in Nat /\ t.chunk["FromTor"] \in Nat
           /\ t.recorded \in Nat /\ t.persisted \in Nat /\ t.delta \in Nat
           /\ t.persisted <= t.recorded /\ t.recorded <= Limit /\ Limit \in Nat
           /\ t.pc \notin {"checkpoint", "committed"} => t.delta = 0
           /\ t.pc \in {"checkpoint", "committed"} => t.delta = t.recorded - t.persisted
  BY CustomerDataAssumption DEF TunnelOK, Dirs

\* allow() reserves g bytes for direction d.
LEMMA ReserveFields ==
    ASSUME NEW t, NEW u, TunnelOK(t), NEW d \in Dirs, NEW g \in 0..MaxRead,
           t.pc \in {"opened", "copying"}, t.chunk[d] = 0, u.pc \in {"buffered", "copying"},
           u.chunk = [t.chunk EXCEPT ![d] = g], u.recorded = t.recorded,
           u.persisted = t.persisted, u.delta = t.delta
    PROVE  /\ TunnelOK(u)
           /\ OutstandingOf(u) = OutstandingOf(t) + g
           /\ InTableOf(u) = InTableOf(t) /\ LedgerOf(u) = LedgerOf(t)
<1>1. /\ t.chunk["ToTor"] \in Nat /\ t.chunk["FromTor"] \in Nat /\ g \in Nat
      /\ t.recorded \in Nat /\ t.persisted \in Nat /\ t.delta = 0
  BY CustomerDataAssumption DEF TunnelOK, Dirs
<1>2. u.chunk \in [Dirs -> 0..MaxRead]
  BY DEF TunnelOK
<1>3. u.chunk["ToTor"] + u.chunk["FromTor"] = t.chunk["ToTor"] + t.chunk["FromTor"] + g
  <2>1. u.chunk[d] = g /\ \A e \in Dirs : e # d => u.chunk[e] = t.chunk[e]
    BY DEF TunnelOK
  <2>2. CASE d = "ToTor"
    BY <1>1, <2>1, <2>2 DEF Dirs
  <2>3. CASE d = "FromTor"
    BY <1>1, <2>1, <2>3 DEF Dirs
  <2> QED
    BY <2>2, <2>3 DEF Dirs
<1>4. TunnelOK(u)
  BY <1>1, <1>2 DEF TunnelOK
<1>5. u.chunk["ToTor"] \in Nat /\ u.chunk["FromTor"] \in Nat
  BY <1>2, CustomerDataAssumption DEF Dirs
<1>6. /\ OutstandingOf(t) = t.recorded - t.persisted + (t.chunk["ToTor"] + t.chunk["FromTor"]) - 0
      /\ OutstandingOf(u) = t.recorded - t.persisted + (u.chunk["ToTor"] + u.chunk["FromTor"]) - 0
      /\ InTableOf(u) = InTableOf(t) /\ LedgerOf(u) = LedgerOf(t)
  BY DEF OutstandingOf, InTableOf, LedgerOf
<1> QED
  BY <1>1, <1>3, <1>4, <1>5, <1>6

\* The tunnel ends, `more` of its reserved bytes having been recorded.
LEMMA FinishFields ==
    ASSUME NEW t, NEW u, TunnelOK(t), t.pc \in {"opened", "buffered", "copying"},
           NEW more \in Nat, more <= t.chunk["ToTor"] + t.chunk["FromTor"],
           t.recorded + more <= Limit,
           u.recorded = t.recorded + more, u.persisted = t.persisted,
           u.delta = u.recorded - t.persisted,
           u.pc = IF u.recorded = t.persisted THEN "closed" ELSE "checkpoint",
           u.chunk = [d \in Dirs |-> 0]
    PROVE  Settles(t, u)
<1>1. /\ t.chunk["ToTor"] \in Nat /\ t.chunk["FromTor"] \in Nat
      /\ t.recorded \in Nat /\ t.persisted \in Nat /\ t.delta = 0
      /\ t.persisted <= t.recorded /\ Limit \in Nat
  BY TunnelNumbers
<1>2. u.chunk \in [Dirs -> 0..MaxRead] /\ u.chunk["ToTor"] = 0 /\ u.chunk["FromTor"] = 0
  BY CustomerDataAssumption DEF Dirs
<1>3. TunnelOK(u)
  BY <1>1, <1>2 DEF TunnelOK
<1>4. /\ OutstandingOf(t) = t.recorded - t.persisted + (t.chunk["ToTor"] + t.chunk["FromTor"]) - 0
      /\ InTableOf(t) = t.persisted + 0 /\ LedgerOf(t) = t.persisted + 0
  BY DEF OutstandingOf, InTableOf, LedgerOf
<1>5. CASE u.recorded = t.persisted
  <2>1. OutstandingOf(u) = 0 /\ InTableOf(u) = t.persisted + 0 /\ LedgerOf(u) = u.recorded
    BY <1>5 DEF OutstandingOf, InTableOf, LedgerOf
  <2>2. more = 0 /\ t.recorded = t.persisted
    BY <1>1, <1>5
  <2> QED
    BY <1>1, <1>3, <1>4, <2>1, <2>2 DEF Settles
<1>6. CASE u.recorded # t.persisted
  <2>1. /\ OutstandingOf(u) = u.recorded - t.persisted + (0 + 0) - 0
        /\ InTableOf(u) = t.persisted + 0 /\ LedgerOf(u) = t.persisted + 0
    <3>1. u.pc = "checkpoint"
      BY <1>6
    <3> QED
      BY <1>2, <3>1 DEF OutstandingOf, InTableOf, LedgerOf
  <2>2. PICK i \in Nat, j \in Nat, x \in Nat, y \in Nat :
            i = t.recorded /\ j = t.persisted /\ x = t.chunk["ToTor"] /\ y = t.chunk["FromTor"]
    BY <1>1
  <2>3. OutstandingOf(u) <= OutstandingOf(t)
    <3>1. OutstandingOf(u) = (i + more) - j + (0 + 0) - 0 /\ OutstandingOf(t) = i - j + (x + y) - 0
      BY <1>4, <2>1, <2>2
    <3>2. more <= x + y
      BY <2>2
    <3> QED
      BY <3>1, <3>2
  <2> QED
    BY <1>1, <1>3, <1>4, <2>1, <2>3 DEF Settles
<1> QED
  BY <1>5, <1>6

\* A chunk has been written.
LEMMA WriteFields ==
    ASSUME NEW t, NEW u, TunnelOK(t), t.pc \in {"buffered", "copying"}, NEW d \in Dirs,
           t.recorded + t.chunk[d] <= Limit, u.pc = "copying",
           u.chunk = [t.chunk EXCEPT ![d] = 0], u.recorded = t.recorded + t.chunk[d],
           u.persisted = t.persisted, u.delta = t.delta
    PROVE  Settles(t, u)
<1>1. /\ t.chunk["ToTor"] \in Nat /\ t.chunk["FromTor"] \in Nat /\ t.chunk[d] \in Nat
      /\ t.recorded \in Nat /\ t.persisted \in Nat /\ t.delta = 0
      /\ t.persisted <= t.recorded /\ Limit \in Nat
  BY CustomerDataAssumption DEF TunnelOK, Dirs
<1>2. u.chunk \in [Dirs -> 0..MaxRead]
  BY CustomerDataAssumption DEF TunnelOK
<1>3. u.chunk["ToTor"] + u.chunk["FromTor"] = t.chunk["ToTor"] + t.chunk["FromTor"] - t.chunk[d]
  <2>1. u.chunk[d] = 0 /\ \A e \in Dirs : e # d => u.chunk[e] = t.chunk[e]
    BY DEF TunnelOK
  <2>2. CASE d = "ToTor"
    BY <1>1, <2>1, <2>2 DEF Dirs
  <2>3. CASE d = "FromTor"
    BY <1>1, <2>1, <2>3 DEF Dirs
  <2> QED
    BY <2>2, <2>3 DEF Dirs
<1>4. TunnelOK(u)
  BY <1>1, <1>2 DEF TunnelOK
<1>5. u.chunk["ToTor"] \in Nat /\ u.chunk["FromTor"] \in Nat
  BY <1>2, CustomerDataAssumption DEF Dirs
<1> QED
  BY <1>1, <1>3, <1>4, <1>5 DEF Settles, OutstandingOf, InTableOf, LedgerOf

\* The copy loop starts, notes an end of stream or starts a checkpoint.
LEMMA LoopFields ==
    ASSUME NEW t, NEW u, TunnelOK(t), t.pc \in {"opened", "copying"},
           u.chunk = t.chunk, u.recorded = t.recorded, u.persisted = t.persisted,
           \/ u.pc = "copying" /\ u.delta = t.delta
           \/ u.pc = "checkpoint" /\ u.delta = t.recorded - t.persisted
    PROVE  Settles(t, u)
<1>1. /\ t.chunk["ToTor"] \in Nat /\ t.chunk["FromTor"] \in Nat
      /\ t.recorded \in Nat /\ t.persisted \in Nat /\ t.delta = 0
      /\ t.persisted <= t.recorded /\ t.recorded <= Limit /\ Limit \in Nat
  BY CustomerDataAssumption DEF TunnelOK, Dirs
<1>2. TunnelOK(u)
  BY <1>1 DEF TunnelOK
<1> QED
  BY <1>1, <1>2 DEF Settles, OutstandingOf, InTableOf, LedgerOf

\* record_usage has committed the delta ...
LEMMA CommitFields ==
    ASSUME NEW t, NEW u, TunnelOK(t), t.pc = "checkpoint", u.pc = "committed",
           u.chunk = t.chunk, u.recorded = t.recorded, u.persisted = t.persisted,
           u.delta = t.delta
    PROVE  /\ TunnelOK(u) /\ t.delta \in Nat
           /\ OutstandingOf(u) + t.delta = OutstandingOf(t)
           /\ InTableOf(u) = InTableOf(t) + t.delta
           /\ LedgerOf(u) = LedgerOf(t) + t.delta
<1>1. /\ t.chunk["ToTor"] \in Nat /\ t.chunk["FromTor"] \in Nat
      /\ t.recorded \in Nat /\ t.persisted \in Nat /\ t.delta = t.recorded - t.persisted
      /\ t.persisted <= t.recorded
  BY CustomerDataAssumption DEF TunnelOK, Dirs
<1>2. TunnelOK(u)
  BY DEF TunnelOK
<1> QED
  BY <1>1, <1>2 DEF OutstandingOf, InTableOf, LedgerOf

\* ... and the tunnel stores it.
LEMMA StoreFields ==
    ASSUME NEW t, NEW u, TunnelOK(t), t.pc = "committed", u.pc \in {"copying", "closed"},
           u.chunk = t.chunk, u.recorded = t.recorded, u.persisted = t.persisted + t.delta,
           u.delta = 0
    PROVE  Settles(t, u)
<1>1. /\ t.chunk["ToTor"] \in Nat /\ t.chunk["FromTor"] \in Nat
      /\ t.recorded \in Nat /\ t.persisted \in Nat /\ t.delta = t.recorded - t.persisted
      /\ t.persisted <= t.recorded /\ t.recorded <= Limit /\ Limit \in Nat
  BY CustomerDataAssumption DEF TunnelOK, Dirs
<1>2. TunnelOK(u)
  BY <1>1 DEF TunnelOK
<1> QED
  BY <1>1, <1>2 DEF Settles, OutstandingOf, InTableOf, LedgerOf

\* A checkpoint fails, or the process ends: the tunnel is closed as it is.
LEMMA CloseFields ==
    ASSUME NEW t, NEW u, TunnelOK(t), t.pc \notin {"new", "closed"}, u.pc = "closed",
           u.reason # "ended", u.chunk = [d \in Dirs |-> 0], u.recorded = t.recorded,
           u.persisted = t.persisted, u.delta = 0
    PROVE  Settles(t, u) /\ LedgerOf(u) = t.recorded /\ OutstandingOf(u) = 0
<1>1. /\ t.chunk["ToTor"] \in Nat /\ t.chunk["FromTor"] \in Nat /\ t.delta \in Nat
      /\ t.recorded \in Nat /\ t.persisted \in Nat
      /\ t.persisted <= t.recorded /\ Limit \in Nat
      /\ t.delta = IF t.pc \in {"checkpoint", "committed"} THEN t.recorded - t.persisted ELSE 0
  BY CustomerDataAssumption DEF TunnelOK, Dirs
<1>2. u.chunk \in [Dirs -> 0..MaxRead] /\ u.chunk["ToTor"] = 0 /\ u.chunk["FromTor"] = 0
  BY CustomerDataAssumption DEF Dirs
<1>3. TunnelOK(u)
  BY <1>1, <1>2 DEF TunnelOK
<1> QED
  BY <1>1, <1>2, <1>3 DEF Settles, OutstandingOf, InTableOf, LedgerOf

-----------------------------------------------------------------------------
(***************************************************************************)
(* The steps of a tunnel.                                                  *)
(***************************************************************************)

\* Only tunnel s changes, and it keeps its budget.
OnlyTunnel(s) ==
    /\ \A u \in Sessions : u # s => session'[u] = session[u]
    /\ session'[s].budget = session[s].budget

\* A step of one open tunnel that reserves nothing and writes no row.
LEMMA SettledStep ==
    ASSUME AccountingInv, NEW s \in Sessions, Live(s), OnlyTunnel(s),
           UNCHANGED <<usage, states, used>>, Settles(session[s], session'[s])
    PROVE  TunnelsOK' /\ Balanced'
<1>1. TunnelsOK'
  BY DEF AccountingInv, TunnelsOK, OnlyTunnel, Settles
<1>2. PICK B \in Budgets : B = session[s].budget
  BY SessionFields DEF AccountingInv, SessionShape
<1>3. \A b \in Budgets : Persisted(b) \in Nat /\ Persisted(b)' = Persisted(b)
  BY PersistedNatural DEF AccountingInv, Persisted
<1>4. PICK z \in Nat : z = 0
  OBVIOUS
<1>5. \A b \in Budgets : Persisted(b)' = Persisted(b) + (IF b = B THEN z ELSE 0)
  BY <1>3, <1>4
<1>6. session[s].arc \in Arcs
  BY LiveHasArc DEF AccountingInv
<1>7. /\ used' \in [Arcs -> 0..Limit]
      /\ \A a \in Arcs : used[a] <= used'[a]
      /\ used'[session[s].arc] = used[session[s].arc] + z
  BY <1>4, <1>6, CustomerDataAssumption DEF AccountingInv, BudgetInv, LimiterType
<1>8. /\ OutstandingOf(session[s]) \in Nat /\ OutstandingOf(session'[s]) \in Nat
      /\ InTableOf(session[s]) \in Nat /\ InTableOf(session'[s]) \in Nat
      /\ LedgerOf(session[s]) \in Nat /\ LedgerOf(session'[s]) \in Nat
  BY TunnelTerms DEF AccountingInv, TunnelsOK, Settles
<1>9. /\ OutstandingOf(session'[s]) + z <= OutstandingOf(session[s]) + z
      /\ InTableOf(session'[s]) <= InTableOf(session[s]) + z
      /\ LedgerOf(session[s]) + z <= LedgerOf(session'[s])
  BY <1>4, <1>8 DEF Settles
<1>10. TunnelOK(session'[s]) /\ session'[s].budget = B
       /\ (\A u \in Sessions : u # s => session'[u] = session[u])
  BY <1>2 DEF Settles, OnlyTunnel
<1>11. Balanced'
  BY <1>2, <1>5, <1>7, <1>9, <1>10, Rebalance
<1> QED
  BY <1>1, <1>11

\* What an open tunnel has recorded and reserved is within the allowance.
LEMMA RecordedWithinLimit ==
    ASSUME AccountingInv, NEW s \in Sessions, Live(s)
    PROVE  session[s].recorded + (session[s].chunk["ToTor"] + session[s].chunk["FromTor"]) <= Limit
<1>1. PICK B \in Budgets : B = session[s].budget
  BY SessionFields DEF AccountingInv, SessionShape
<1>2. OutstandingIn(B)[s] = OutstandingOf(session[s]) /\ InTableIn(B)[s] = InTableOf(session[s])
  BY <1>1 DEF OutstandingIn, InTableIn
<1>3. /\ SumFunctionOnSet(OutstandingIn(B), Sessions) \in Nat
      /\ OutstandingIn(B)[s] <= SumFunctionOnSet(OutstandingIn(B), Sessions)
  BY TermsNatural, SumBoundsTerms, CustomerDataAssumption DEF AccountingInv
<1>4. /\ SumFunctionOnSet(InTableIn(B), Sessions) \in Nat
      /\ InTableIn(B)[s] <= SumFunctionOnSet(InTableIn(B), Sessions)
  BY TermsNatural, SumBoundsTerms, CustomerDataAssumption DEF AccountingInv
<1>5. /\ Persisted(B) + SumFunctionOnSet(OutstandingIn(B), Sessions) <= Limit
      /\ SumFunctionOnSet(InTableIn(B), Sessions) <= Persisted(B)
  BY DEF AccountingInv, Balanced
<1>6. Persisted(B) \in Nat /\ Limit \in Nat
  BY PersistedNatural, CustomerDataAssumption DEF AccountingInv
<1>7. /\ OutstandingOf(session[s]) \in Nat /\ InTableOf(session[s]) \in Nat
      /\ InTableOf(session[s]) + OutstandingOf(session[s])
             = session[s].recorded + (session[s].chunk["ToTor"] + session[s].chunk["FromTor"])
  BY TunnelTerms DEF AccountingInv, TunnelsOK, Live
<1>8. InTableOf(session[s]) + OutstandingOf(session[s]) <= Limit
  BY <1>2, <1>3, <1>4, <1>5, <1>6, <1>7
<1> QED
  BY <1>7, <1>8

\* An update of tunnel s alone, field by field.
LEMMA TunnelUpdate ==
    ASSUME AccountingInv, NEW s \in Sessions, NEW u,
           session' = [session EXCEPT ![s] = u], u.budget = session[s].budget
    PROVE  OnlyTunnel(s) /\ session'[s] = u
  BY DEF AccountingInv, BudgetInv, LimiterType, OnlyTunnel

\* The tunnel ends, with or without a last chunk recorded.
LEMMA FinishSettles ==
    ASSUME AccountingInv, NEW s \in Sessions, session[s].pc \in {"opened", "buffered", "copying"},
           NEW more \in Nat, more <= session[s].chunk["ToTor"] + session[s].chunk["FromTor"],
           Finish(s, session[s].recorded + more), UNCHANGED <<usage, states, used>>
    PROVE  TunnelsOK' /\ Balanced'
<1>1. session[s] \in SessionShape /\ session[s].recorded \in Int /\ Live(s)
  BY SessionFields DEF AccountingInv, Live
<1>2. TunnelOK(session[s])
  BY DEF AccountingInv, TunnelsOK
<1> DEFINE recorded == session[s].recorded + more
           pc == IF recorded = session[s].persisted THEN "closed" ELSE "checkpoint"
           arc == IF recorded = session[s].persisted THEN NoArc ELSE session[s].arc
           delta == recorded - session[s].persisted
           none == [d \in Dirs |-> 0]
           u == [session[s] EXCEPT !.pc = pc, !.arc = arc, !.chunk = none, !.last = "none",
                !.eof = {}, !.recorded = recorded, !.delta = delta, !.after = "closed",
                !.reason = "ended"]
<1>3. session' = [session EXCEPT ![s] = u]
  BY DEF Finish
<1>4. /\ u.pc = pc /\ u.chunk = none /\ u.recorded = recorded /\ u.delta = delta
      /\ u.persisted = session[s].persisted /\ u.budget = session[s].budget
  <2> HIDE DEF pc, arc, none, recorded, delta
  <2> QED
    BY <1>1 DEF SessionShape
<1>5. OnlyTunnel(s) /\ session'[s] = u
  <2> HIDE DEF u
  <2> QED
    BY <1>3, <1>4, TunnelUpdate
<1>6. session[s].recorded + more <= Limit
  <2>1. session[s].recorded + (session[s].chunk["ToTor"] + session[s].chunk["FromTor"]) <= Limit
    BY <1>1, RecordedWithinLimit
  <2> QED
    BY <1>2, <2>1, TunnelNumbers
<1>7. Settles(session[s], session'[s])
  <2> HIDE DEF u
  <2> QED
    BY <1>2, <1>4, <1>5, <1>6, FinishFields
<1> QED
  BY <1>1, <1>5, <1>7, SettledStep

\* The ends that record nothing more.
LEMMA EndTunnelSettles ==
    ASSUME AccountingInv, NEW s \in Sessions, session[s].pc \in {"opened", "buffered", "copying"},
           EndTunnel(s)
    PROVE  TunnelsOK' /\ Balanced'
<1>1. PICK more \in Nat : more = 0
  OBVIOUS
<1>2. more <= session[s].chunk["ToTor"] + session[s].chunk["FromTor"]
      /\ session[s].recorded + more = session[s].recorded
  BY <1>1, TunnelNumbers DEF AccountingInv, TunnelsOK
<1>3. Finish(s, session[s].recorded + more) /\ UNCHANGED <<usage, states, used>>
  BY <1>2 DEF EndTunnel, LimiterUnchanged
<1> QED
  BY <1>2, <1>3, FinishSettles

\* allow() charges the budget what it grants the tunnel.
LEMMA AllowBalances ==
    ASSUME AccountingInv, NEW s \in Sessions, NEW d \in Dirs, NEW n \in Reads,
           NEW pc \in {"buffered", "copying"}, Allow(s, d, n, pc),
           session[s].pc \in {"opened", "copying"}, session[s].chunk[d] = 0
    PROVE  TunnelsOK' /\ Balanced'
<1>1. session[s] \in SessionShape /\ Live(s) /\ TunnelOK(session[s]) /\ session[s].arc \in Arcs
  BY SessionFields, LiveHasArc DEF AccountingInv, Live, TunnelsOK
<1>2. /\ used[session[s].arc] \in 0..Limit /\ Limit \in Nat
      /\ Granted(s, n) \in 0..MaxRead
      /\ used[session[s].arc] + Granted(s, n) \in 0..Limit
  BY <1>1, CustomerDataAssumption
  DEF AccountingInv, BudgetInv, LimiterType, Allow, Granted, Reads
<1>3. PICK g \in 0..MaxRead : g = Granted(s, n)
  BY <1>2
<1>4. g \in Nat
  BY CustomerDataAssumption
<1>5. /\ used' \in [Arcs -> 0..Limit]
      /\ \A a \in Arcs : used[a] <= used'[a]
      /\ used'[session[s].arc] = used[session[s].arc] + g
  <2>1. used' = [used EXCEPT ![session[s].arc] = used[session[s].arc] + g]
    BY <1>3 DEF Allow
  <2>2. used \in [Arcs -> 0..Limit]
    BY DEF AccountingInv, BudgetInv, LimiterType
  <2> QED
    BY <1>1, <1>2, <1>3, <1>4, <2>1, <2>2
<1> DEFINE chunk == [session[s].chunk EXCEPT ![d] = g]
           last == IF used'[session[s].arc] = Limit THEN d ELSE session[s].last
           u == [session[s] EXCEPT !.pc = pc, !.chunk = chunk, !.last = last]
<1>6. session' = [session EXCEPT ![s] = u]
  BY <1>1, <1>3 DEF Allow, SessionShape
<1>7. /\ u.pc = pc /\ u.chunk = chunk /\ u.recorded = session[s].recorded
      /\ u.persisted = session[s].persisted /\ u.delta = session[s].delta
      /\ u.budget = session[s].budget
  <2> HIDE DEF chunk, last
  <2> QED
    BY <1>1 DEF SessionShape
<1>8. OnlyTunnel(s) /\ session'[s] = u
  <2> HIDE DEF u
  <2> QED
    BY <1>6, <1>7, TunnelUpdate
<1> HIDE DEF u
<1>9. /\ TunnelOK(session'[s])
      /\ OutstandingOf(session'[s]) = OutstandingOf(session[s]) + g
      /\ InTableOf(session'[s]) = InTableOf(session[s])
      /\ LedgerOf(session'[s]) = LedgerOf(session[s])
  BY <1>1, <1>7, <1>8, ReserveFields
<1>10. TunnelsOK'
  BY <1>8, <1>9 DEF AccountingInv, TunnelsOK, OnlyTunnel
<1>11. PICK B \in Budgets : B = session[s].budget
  BY <1>1 DEF SessionShape
<1>12. PICK z \in Nat : z = 0
  OBVIOUS
<1>13. \A b \in Budgets : Persisted(b)' = Persisted(b) + (IF b = B THEN z ELSE 0)
  <2>1. \A b \in Budgets : Persisted(b) \in Nat /\ Persisted(b)' = Persisted(b)
    BY PersistedNatural DEF AccountingInv, Persisted, Allow
  <2> QED
    BY <1>12, <2>1
<1>14. /\ OutstandingOf(session[s]) \in Nat
       /\ InTableOf(session[s]) \in Nat /\ LedgerOf(session[s]) \in Nat
  BY <1>1, TunnelTerms
<1>15. /\ OutstandingOf(session'[s]) + z <= OutstandingOf(session[s]) + g
       /\ InTableOf(session'[s]) <= InTableOf(session[s]) + z
       /\ LedgerOf(session[s]) + z <= LedgerOf(session'[s])
  BY <1>4, <1>9, <1>12, <1>14
<1>16. /\ states' = states /\ session'[s].budget = B
       /\ \A v \in Sessions : v # s => session'[v] = session[v]
  BY <1>8, <1>11 DEF Allow, OnlyTunnel
<1>17. Balanced'
  BY <1>1, <1>4, <1>5, <1>9, <1>11, <1>13, <1>15, <1>16, Rebalance
<1> QED
  BY <1>10, <1>17

\* Steps of the copy loop and of the checkpoints that settle.
LEMMA LoopSettles ==
    ASSUME AccountingInv, NEW s \in Sessions, NEW d \in Dirs,
           UNCHANGED <<usage, states, used>>,
           \/ session[s].pc = "opened" /\ session' = [session EXCEPT ![s].pc = "copying"]
           \/ session[s].pc = "copying" /\ session' = [session EXCEPT ![s].eof = {d}]
           \/ /\ session[s].pc = "copying"
              /\ session' = [session EXCEPT
                    ![s].pc = "checkpoint", ![s].after = "copying",
                    ![s].delta = session[s].recorded - session[s].persisted]
    PROVE  TunnelsOK' /\ Balanced'
<1>1. session[s] \in SessionShape /\ Live(s) /\ TunnelOK(session[s])
  BY SessionFields DEF AccountingInv, Live, TunnelsOK
<1>2. session \in [Sessions -> SessionShape]
  BY DEF AccountingInv, BudgetInv, LimiterType
<1>3. session' = [session EXCEPT ![s] = session'[s]]
  BY <1>2
<1>4. /\ session'[s].chunk = session[s].chunk /\ session'[s].recorded = session[s].recorded
      /\ session'[s].persisted = session[s].persisted
      /\ session'[s].budget = session[s].budget
      /\ \/ session'[s].pc = "copying" /\ session'[s].delta = session[s].delta
         \/ /\ session'[s].pc = "checkpoint"
            /\ session'[s].delta = session[s].recorded - session[s].persisted
  BY <1>1, <1>2 DEF SessionShape
<1>5. OnlyTunnel(s)
  BY <1>3, <1>4, TunnelUpdate
<1>6. session[s].pc \in {"opened", "copying"}
  OBVIOUS
<1>7. Settles(session[s], session'[s])
  BY <1>1, <1>4, <1>6, LoopFields
<1> QED
  BY <1>1, <1>5, <1>7, SettledStep

\* write_all and flush are done.
LEMMA WrittenSettles ==
    ASSUME AccountingInv, NEW s \in Sessions, NEW d \in Dirs, Written(s, d)
    PROVE  TunnelsOK' /\ Balanced'
<1>1. /\ session[s] \in SessionShape /\ Live(s) /\ TunnelOK(session[s])
      /\ session[s].pc \in {"buffered", "copying"} /\ UNCHANGED <<usage, states, used>>
  BY SessionFields DEF AccountingInv, Live, TunnelsOK, Written, LimiterUnchanged
<1>2. /\ session[s].chunk["ToTor"] \in Nat /\ session[s].chunk["FromTor"] \in Nat
      /\ session[s].recorded \in Nat /\ Limit \in Nat
  BY <1>1, TunnelNumbers
<1>3. /\ session[s].chunk[d] \in Nat
      /\ session[s].chunk[d] <= session[s].chunk["ToTor"] + session[s].chunk["FromTor"]
  BY <1>2 DEF Dirs
<1>4. session[s].recorded + session[s].chunk[d] <= Limit
  <2>1. session[s].recorded + (session[s].chunk["ToTor"] + session[s].chunk["FromTor"]) <= Limit
    BY <1>1, RecordedWithinLimit
  <2> QED
    BY <1>2, <1>3, <2>1
<1>5. CASE Finish(s, session[s].recorded + session[s].chunk[d])
  BY <1>1, <1>3, <1>5, FinishSettles
<1>6. CASE session' = [session EXCEPT ![s].pc = "copying", ![s].chunk[d] = 0,
                           ![s].recorded = session[s].recorded + session[s].chunk[d]]
  <2> DEFINE recorded == session[s].recorded + session[s].chunk[d]
             chunk == [session[s].chunk EXCEPT ![d] = 0]
             u == [session[s] EXCEPT !.pc = "copying", !.chunk = chunk, !.recorded = recorded]
  <2>1. session' = [session EXCEPT ![s] = u]
    BY <1>1, <1>6 DEF SessionShape
  <2>2. /\ u.pc = "copying" /\ u.chunk = chunk /\ u.recorded = recorded
        /\ u.persisted = session[s].persisted /\ u.delta = session[s].delta
        /\ u.budget = session[s].budget
    <3> HIDE DEF chunk, recorded
    <3> QED
      BY <1>1 DEF SessionShape
  <2> HIDE DEF u
  <2>3. OnlyTunnel(s) /\ session'[s] = u
    BY <2>1, <2>2, TunnelUpdate
  <2>4. Settles(session[s], session'[s])
    BY <1>1, <1>4, <2>2, <2>3, WriteFields
  <2> QED
    BY <1>1, <2>3, <2>4, SettledStep
<1> QED
  BY <1>5, <1>6 DEF Written

\* The counters follow a committed checkpoint.
LEMMA StoreSettles ==
    ASSUME AccountingInv, NEW s \in Sessions, StorePersisted(s)
    PROVE  TunnelsOK' /\ Balanced'
<1>1. /\ session[s] \in SessionShape /\ Live(s) /\ TunnelOK(session[s])
      /\ session[s].pc = "committed" /\ UNCHANGED <<usage, states, used>>
  BY SessionFields DEF AccountingInv, Live, TunnelsOK, StorePersisted
<1> DEFINE persisted == session[s].persisted + session[s].delta
           arc == IF session[s].after = "closed" THEN NoArc ELSE session[s].arc
           zero == 0
           u == [session[s] EXCEPT !.pc = session[s].after, !.delta = zero, !.arc = arc,
                    !.persisted = persisted]
<1>2. session' = [session EXCEPT ![s] = u]
  BY <1>1 DEF StorePersisted, SessionShape
<1>3. /\ u.pc = session[s].after /\ u.chunk = session[s].chunk
      /\ u.recorded = session[s].recorded /\ u.persisted = persisted /\ u.delta = zero
      /\ u.budget = session[s].budget
  <2> HIDE DEF persisted, arc, zero
  <2> QED
    BY <1>1 DEF SessionShape
<1>4. session[s].after \in {"copying", "closed"}
  BY <1>1 DEF SessionShape
<1> HIDE DEF u
<1>5. OnlyTunnel(s) /\ session'[s] = u
  BY <1>2, <1>3, TunnelUpdate
<1>6. Settles(session[s], session'[s])
  BY <1>1, <1>3, <1>4, <1>5, StoreFields
<1> QED
  BY <1>1, <1>5, <1>6, SettledStep

\* A failed checkpoint closes the tunnel.
LEMMA CommitFailsSettles ==
    ASSUME AccountingInv, NEW s \in Sessions, CommitFails(s)
    PROVE  TunnelsOK' /\ Balanced'
<1>1. /\ session[s] \in SessionShape /\ Live(s) /\ TunnelOK(session[s])
      /\ session[s].pc = "checkpoint" /\ UNCHANGED <<usage, states, used>>
  BY SessionFields DEF AccountingInv, Live, TunnelsOK, CommitFails, LimiterUnchanged
<1> DEFINE none == [d \in Dirs |-> 0]
           zero == 0
           u == [session[s] EXCEPT !.pc = "closed", !.arc = NoArc, !.chunk = none,
                    !.last = "none", !.eof = {}, !.delta = zero, !.reason = "storage"]
<1>2. session' = [session EXCEPT ![s] = u]
  BY <1>1 DEF CommitFails, SessionShape
<1>3. /\ u.pc = "closed" /\ u.chunk = none /\ u.reason = "storage"
      /\ u.recorded = session[s].recorded /\ u.persisted = session[s].persisted
      /\ u.delta = zero /\ u.budget = session[s].budget
  <2> HIDE DEF none, zero
  <2> QED
    BY <1>1 DEF SessionShape
<1> HIDE DEF u
<1>4. OnlyTunnel(s) /\ session'[s] = u
  BY <1>2, <1>3, TunnelUpdate
<1>5. Settles(session[s], session'[s])
  BY <1>1, <1>3, <1>4, CloseFields
<1> QED
  BY <1>1, <1>4, <1>5, SettledStep

\* record_usage moves the delta of the tunnel to the table.
LEMMA CommitBalances ==
    ASSUME AccountingInv, NEW s \in Sessions, Commit(s)
    PROVE  TunnelsOK' /\ Balanced'
<1>1. /\ session[s] \in SessionShape /\ Live(s) /\ TunnelOK(session[s])
      /\ session[s].pc = "checkpoint" /\ UNCHANGED <<states, used>>
      /\ session[s].arc \in Arcs
  BY SessionFields, LiveHasArc DEF AccountingInv, Live, TunnelsOK, Commit
<1>2. PICK B \in Budgets, W \in Workspaces : B = session[s].budget /\ W = session[s].workspace
  BY <1>1 DEF SessionShape
<1>3. PICK p \in Nat : p = session[s].delta
  BY <1>1, TunnelNumbers
<1> DEFINE u == [session[s] EXCEPT !.pc = "committed"]
<1>4. session' = [session EXCEPT ![s] = u]
  BY DEF Commit
<1>5. /\ u.pc = "committed" /\ u.chunk = session[s].chunk
      /\ u.recorded = session[s].recorded /\ u.persisted = session[s].persisted
      /\ u.delta = session[s].delta /\ u.budget = session[s].budget
  BY <1>1 DEF SessionShape
<1> HIDE DEF u
<1>6. OnlyTunnel(s) /\ session'[s] = u
  BY <1>4, <1>5, TunnelUpdate
<1>7. /\ TunnelOK(session'[s])
      /\ OutstandingOf(session'[s]) + p = OutstandingOf(session[s])
      /\ InTableOf(session'[s]) = InTableOf(session[s]) + p
      /\ LedgerOf(session'[s]) = LedgerOf(session[s]) + p
  BY <1>1, <1>3, <1>5, <1>6, CommitFields
<1>8. TunnelsOK'
  BY <1>6, <1>7 DEF AccountingInv, TunnelsOK, OnlyTunnel
<1>9. /\ usage \in [Budgets -> [Workspaces -> Nat]]
      /\ usage' = [usage EXCEPT ![B] = [usage[B] EXCEPT ![W] = usage[B][W] + p]]
  BY <1>2, <1>3 DEF Commit, AccountingInv, Counters
<1>10. \A b \in Budgets : Persisted(b) = SumFunctionOnSet(usage[b], Workspaces)
                       /\ Persisted(b) \in Nat
  BY PersistedNatural DEF AccountingInv
<1>11. \A b \in Budgets : Persisted(b)' = SumFunctionOnSet(usage'[b], Workspaces)
  BY <1>9 DEF Persisted, SumFunction
<1>12. Persisted(B)' = Persisted(B) + p
  <2>1. /\ usage'[B][W] = usage[B][W] + p /\ usage[B][W] \in Nat
        /\ \A w \in Workspaces : w # W => usage'[B][w] = usage[B][w]
        /\ \A w \in Workspaces : usage[B][w] \in Nat
    BY <1>9
  <2>2. Integral(usage[B], Workspaces) /\ usage'[B][W] \in Int
    BY <2>1 DEF Integral
  <2>3. /\ SumFunctionOnSet(usage'[B], Workspaces)
              = SumFunctionOnSet(usage[B], Workspaces) + (usage'[B][W] - usage[B][W])
        /\ SumFunctionOnSet(usage[B], Workspaces) \in Int
    BY <2>1, <2>2, SumUpdate, CustomerDataAssumption
  <2> QED
    BY <1>10, <1>11, <2>1, <2>3
<1>13. \A b \in Budgets : Persisted(b)' = Persisted(b) + (IF b = B THEN p ELSE 0)
  <2> SUFFICES ASSUME NEW b \in Budgets, b # B PROVE Persisted(b)' = Persisted(b) + 0
    BY <1>12
  <2>1. usage'[b] = usage[b]
    BY <1>9
  <2> QED
    BY <1>10, <1>11, <2>1
<1>14. PICK z \in Nat : z = 0
  OBVIOUS
<1>15. /\ OutstandingOf(session[s]) \in Nat /\ OutstandingOf(session'[s]) \in Nat
       /\ InTableOf(session[s]) \in Nat /\ LedgerOf(session[s]) \in Nat
  BY <1>1, <1>7, TunnelTerms
<1>16. /\ OutstandingOf(session'[s]) + p <= OutstandingOf(session[s]) + z
       /\ InTableOf(session'[s]) <= InTableOf(session[s]) + p
       /\ LedgerOf(session[s]) + p <= LedgerOf(session'[s])
  BY <1>7, <1>14, <1>15
<1>17. /\ used' \in [Arcs -> 0..Limit]
       /\ \A a \in Arcs : used[a] <= used'[a]
       /\ used'[session[s].arc] = used[session[s].arc] + z
  BY <1>1, <1>14, CustomerDataAssumption DEF AccountingInv, BudgetInv, LimiterType
<1>18. /\ states' = states /\ session'[s].budget = B
       /\ \A v \in Sessions : v # s => session'[v] = session[v]
  BY <1>1, <1>2, <1>6 DEF OnlyTunnel
<1>19. Balanced'
  BY <1>1, <1>2, <1>7, <1>13, <1>16, <1>17, <1>18, Rebalance
<1> QED
  BY <1>8, <1>19

-----------------------------------------------------------------------------
(***************************************************************************)
(* The limiter.                                                            *)
(***************************************************************************)

\* The sums over the tunnels do not move.
SameTunnelSums ==
    \A b \in Budgets :
        /\ SumFunctionOnSet(OutstandingIn(b)', Sessions) = SumFunctionOnSet(OutstandingIn(b), Sessions)
        /\ SumFunctionOnSet(InTableIn(b)', Sessions) = SumFunctionOnSet(InTableIn(b), Sessions)
        /\ SumFunctionOnSet(LedgerIn(b)', Sessions) = SumFunctionOnSet(LedgerIn(b), Sessions)

\* No tunnel of a budget that is not cached is open, so nothing is outstanding.
LEMMA UncachedSettled ==
    ASSUME AccountingInv, NEW b \in Budgets, b \notin DOMAIN states
    PROVE  SumFunctionOnSet(OutstandingIn(b), Sessions) = 0
<1>1. \A s \in Sessions : OutstandingIn(b)[s] = 0
  BY DEF AccountingInv, BudgetInv, SharedBudget, Live, OutstandingIn, OutstandingOf
<1> QED
  BY <1>1, SumZero, CustomerDataAssumption

\* Loading a budget starts it at what the table holds: nothing is outstanding.
LEMMA StateForBalances ==
    ASSUME AccountingInv, NEW b \in Budgets, NEW a \in Arcs, StateFor(b, a), usage' = usage,
           SameTunnelSums
    PROVE  Balanced'
<1>1. CASE UNCHANGED <<states, used>>
  BY <1>1 DEF AccountingInv, Balanced, Persisted, SameTunnelSums
<1>2. CASE ~UNCHANGED <<states, used>>
  <2>1. b \notin DOMAIN states /\ a = sequence
    BY <1>2 DEF StateFor
  <2>2. PICK kept \in AfterEviction, persisted \in 0..(Limit - 1) :
            /\ persisted = Seed(b)
            /\ states' = [c \in kept \cup {b} |-> IF c = b THEN a ELSE states[c]]
            /\ used' = [used EXCEPT ![a] = persisted]
    BY <1>2 DEF StateFor
  <2>3. kept \subseteq DOMAIN states
    BY EvictionShrinks
  <2> SUFFICES ASSUME NEW c \in Budgets
               PROVE  /\ Persisted(c)' + SumFunctionOnSet(OutstandingIn(c)', Sessions) <= Limit
                      /\ c \in DOMAIN states' =>
                            Persisted(c)' + SumFunctionOnSet(OutstandingIn(c)', Sessions)
                                <= used'[states'[c]]
                      /\ SumFunctionOnSet(InTableIn(c)', Sessions) <= Persisted(c)'
                      /\ Persisted(c)' <= SumFunctionOnSet(LedgerIn(c)', Sessions)
    BY DEF Balanced
  <2>4. /\ Persisted(c) + SumFunctionOnSet(OutstandingIn(c), Sessions) <= Limit
        /\ c \in DOMAIN states =>
              Persisted(c) + SumFunctionOnSet(OutstandingIn(c), Sessions) <= used[states[c]]
        /\ SumFunctionOnSet(InTableIn(c), Sessions) <= Persisted(c)
        /\ Persisted(c) <= SumFunctionOnSet(LedgerIn(c), Sessions)
    BY DEF AccountingInv, Balanced
  <2>5. Persisted(c)' = Persisted(c)
    BY DEF Persisted
  <2>6. ASSUME c \in DOMAIN states'
        PROVE  Persisted(c) + SumFunctionOnSet(OutstandingIn(c), Sessions) <= used'[states'[c]]
    <3>1. used \in [Arcs -> 0..Limit]
      BY DEF AccountingInv, BudgetInv, LimiterType
    <3>2. CASE c = b
      <4>1. used'[states'[c]] = persisted
        BY <2>2, <3>1, <3>2
      <4>2. persisted = Persisted(c) /\ Persisted(c) \in Nat
        BY <2>2, <3>2, PersistedNatural DEF Seed, Persisted, AccountingInv
      <4>3. SumFunctionOnSet(OutstandingIn(c), Sessions) = 0
        BY <2>1, <3>2, UncachedSettled
      <4> QED
        BY <4>1, <4>2, <4>3
    <3>3. CASE c # b
      <4>1. c \in kept /\ states'[c] = states[c] /\ c \in DOMAIN states
        BY <2>2, <2>3, <2>6, <3>3
      <4>2. states[c] \in Arcs /\ states[c] < sequence /\ sequence \in Int
        BY <4>1 DEF AccountingInv, BudgetInv, LimiterType, Counters
      <4>3. states[c] # a
        BY <2>1, <4>2 DEF Arcs
      <4>4. used'[states'[c]] = used[states[c]]
        BY <2>2, <3>1, <4>1, <4>2, <4>3
      <4> QED
        BY <2>4, <4>1, <4>4
    <3> QED
      BY <3>2, <3>3
  <2> QED
    BY <2>4, <2>5, <2>6 DEF SameTunnelSums
<1> QED
  BY <1>1, <1>2

\* A failed state_for only drops entries.
LEMMA FailsBalances ==
    ASSUME AccountingInv, NEW b \in Budgets, StateForFails(b)
    PROVE  TunnelsOK' /\ Balanced'
<1>1. PICK kept \in AfterEviction : states' = [c \in kept |-> states[c]]
  BY DEF StateForFails
<1>2. kept \subseteq DOMAIN states
  BY EvictionShrinks
<1>3. session' = session /\ used' = used /\ usage' = usage
  BY DEF StateForFails
<1>4. TunnelsOK'
  BY <1>3 DEF AccountingInv, TunnelsOK
<1>5. \A c \in Budgets :
         /\ OutstandingIn(c)' = OutstandingIn(c) /\ InTableIn(c)' = InTableIn(c)
         /\ LedgerIn(c)' = LedgerIn(c) /\ Persisted(c)' = Persisted(c)
  BY <1>3 DEF OutstandingIn, InTableIn, LedgerIn, Persisted
<1>6. \A c \in DOMAIN states' : c \in DOMAIN states /\ states'[c] = states[c]
  BY <1>1, <1>2
<1>7. Balanced'
  BY <1>3, <1>5, <1>6 DEF AccountingInv, Balanced
<1> QED
  BY <1>4, <1>7

\* ensure_available
LEMMA EnsureBalances ==
    ASSUME AccountingInv, NEW b \in Budgets, EnsureAvailable(b)
    PROVE  TunnelsOK' /\ Balanced'
<1>1. PICK a \in Arcs : StateFor(b, a)
  BY DEF EnsureAvailable
<1>2. session' = session /\ usage' = usage
  BY DEF EnsureAvailable
<1>3. TunnelsOK'
  BY <1>2 DEF AccountingInv, TunnelsOK
<1>4. SameTunnelSums
  BY <1>2 DEF SameTunnelSums, OutstandingIn, InTableIn, LedgerIn
<1> QED
  BY <1>1, <1>2, <1>3, <1>4, StateForBalances

\* open_session: a tunnel starts with nothing recorded or reserved.
LEMMA OpenBalances ==
    ASSUME AccountingInv, NEW s \in Sessions, NEW b \in Budgets, NEW w \in Workspaces,
           OpenSession(s, b, w)
    PROVE  TunnelsOK' /\ Balanced'
<1>1. PICK a \in Arcs :
         /\ StateFor(b, a)
         /\ session' = [session EXCEPT
               ![s].pc = "opened", ![s].budget = b, ![s].workspace = w, ![s].arc = a]
  BY DEF OpenSession
<1>2. /\ session[s] \in SessionShape /\ TunnelOK(session[s]) /\ session[s].pc = "new"
      /\ usage' = usage
  BY SessionFields DEF AccountingInv, TunnelsOK, OpenSession
<1> DEFINE u == [session[s] EXCEPT !.pc = "opened", !.budget = b, !.workspace = w, !.arc = a]
<1>3. session' = [session EXCEPT ![s] = u]
  BY <1>1
<1>4. /\ u.pc = "opened" /\ u.chunk = session[s].chunk
      /\ u.recorded = session[s].recorded /\ u.persisted = session[s].persisted
      /\ u.delta = session[s].delta
  BY <1>2 DEF SessionShape
<1> HIDE DEF u
<1>5. session'[s] = u /\ \A v \in Sessions : v # s => session'[v] = session[v]
  BY <1>3 DEF AccountingInv, BudgetInv, LimiterType
<1>6. TunnelOK(u)
  BY <1>2, <1>4 DEF TunnelOK
<1>7. TunnelsOK'
  BY <1>5, <1>6 DEF AccountingInv, TunnelsOK
<1>8. /\ OutstandingOf(session[s]) = 0 /\ InTableOf(session[s]) = 0 /\ LedgerOf(session[s]) = 0
      /\ OutstandingOf(u) = 0 /\ InTableOf(u) = 0 /\ LedgerOf(u) = 0
  <2>1. /\ session[s].recorded = 0 /\ session[s].persisted = 0
        /\ session[s].chunk["ToTor"] = 0 /\ session[s].chunk["FromTor"] = 0
    BY <1>2, TunnelNumbers DEF TunnelOK
  <2> QED
    BY <1>2, <1>4, <2>1 DEF OutstandingOf, InTableOf, LedgerOf
<1>9. SameTunnelSums
  <2> SUFFICES ASSUME NEW c \in Budgets
               PROVE  /\ SumFunctionOnSet(OutstandingIn(c)', Sessions)
                            = SumFunctionOnSet(OutstandingIn(c), Sessions)
                      /\ SumFunctionOnSet(InTableIn(c)', Sessions)
                            = SumFunctionOnSet(InTableIn(c), Sessions)
                      /\ SumFunctionOnSet(LedgerIn(c)', Sessions)
                            = SumFunctionOnSet(LedgerIn(c), Sessions)
    BY DEF SameTunnelSums
  <2>1. /\ OutstandingIn(c)'[s] = 0 /\ OutstandingIn(c)[s] = 0
        /\ InTableIn(c)'[s] = 0 /\ InTableIn(c)[s] = 0
        /\ LedgerIn(c)'[s] = 0 /\ LedgerIn(c)[s] = 0
    BY <1>5, <1>8 DEF OutstandingIn, InTableIn, LedgerIn
  <2>2. TunnelOK(session'[s]) /\ TunnelsOK
    BY <1>5, <1>6 DEF AccountingInv
  <2>3. /\ SumFunctionOnSet(OutstandingIn(c)', Sessions)
             = SumFunctionOnSet(OutstandingIn(c), Sessions)
               + (OutstandingIn(c)'[s] - OutstandingIn(c)[s])
        /\ SumFunctionOnSet(InTableIn(c)', Sessions)
             = SumFunctionOnSet(InTableIn(c), Sessions)
               + (InTableIn(c)'[s] - InTableIn(c)[s])
        /\ SumFunctionOnSet(LedgerIn(c)', Sessions)
             = SumFunctionOnSet(LedgerIn(c), Sessions)
               + (LedgerIn(c)'[s] - LedgerIn(c)[s])
        /\ SumFunctionOnSet(OutstandingIn(c), Sessions) \in Int
        /\ SumFunctionOnSet(InTableIn(c), Sessions) \in Int
        /\ SumFunctionOnSet(LedgerIn(c), Sessions) \in Int
    BY <1>5, <2>2, OneTunnelSums
  <2> QED
    BY <2>1, <2>3
<1> QED
  BY <1>1, <1>2, <1>7, <1>9, StateForBalances

\* The end of the process commits some of the checkpoints under way and closes
\* every tunnel.
LEMMA EndBalances ==
    ASSUME AccountingInv, NEW reason \in {"abort", "crash"}, ProcessEnd(reason)
    PROVE  TunnelsOK' /\ Balanced' /\ usage' \in [Budgets -> [Workspaces -> Nat]]
<1> DEFINE D == [s \in Sessions |-> session[s].delta]
           K == [s \in Sessions |-> session[s].workspace]
<1>0. IsFiniteSet(Sessions) /\ IsFiniteSet(Workspaces)
  BY CustomerDataAssumption
<1>1. PICK done \in SUBSET {s \in Sessions : session[s].pc = "checkpoint"} :
         usage' = [b \in Budgets |-> [w \in Workspaces |->
              usage[b][w] + SumFunctionOnSet(D,
                  {s \in done : session[s].budget = b /\ session[s].workspace = w})]]
  BY DEF ProcessEnd
<1>2. ASSUME NEW s \in Sessions, Live(s)
      PROVE  /\ Settles(session[s], session'[s])
             /\ LedgerOf(session'[s]) = session[s].recorded
             /\ OutstandingOf(session'[s]) = 0
             /\ session'[s].budget = session[s].budget
             /\ InTableOf(session'[s]) <= InTableOf(session[s])
  <2>1. session[s] \in SessionShape /\ TunnelOK(session[s])
    BY SessionFields DEF AccountingInv, TunnelsOK
  <2> DEFINE none == [d \in Dirs |-> 0]
             zero == 0
             empty == {}
  <2>2. session'[s] = [session[s] EXCEPT !.pc = "closed", !.arc = NoArc,
            !.chunk = none, !.last = "none", !.eof = empty, !.delta = zero,
            !.reason = reason]
    BY <1>2 DEF ProcessEnd
  <2> HIDE DEF none, zero, empty
  <2>3. /\ session'[s].pc = "closed" /\ session'[s].chunk = none
        /\ session'[s].reason = reason
        /\ session'[s].recorded = session[s].recorded
        /\ session'[s].persisted = session[s].persisted
        /\ session'[s].delta = zero /\ session'[s].budget = session[s].budget
    BY <2>1, <2>2 DEF SessionShape
  <2>4. reason # "ended"
    OBVIOUS
  <2>5. session[s].pc \notin {"new", "closed"}
    BY <1>2 DEF Live
  <2>6. /\ session'[s].chunk = [d \in Dirs |-> 0] /\ session'[s].delta = 0
        /\ session'[s].reason # "ended"
    BY <2>3, <2>4 DEF none, zero
  <2>7. /\ Settles(session[s], session'[s])
        /\ LedgerOf(session'[s]) = session[s].recorded
        /\ OutstandingOf(session'[s]) = 0
    BY <2>1, <2>3, <2>5, <2>6, CloseFields
  <2> QED
    BY <2>3, <2>7 DEF Settles
<1>3. ASSUME NEW s \in Sessions, ~Live(s)
      PROVE  /\ session'[s] = session[s]
             /\ OutstandingOf(session'[s]) = 0 /\ OutstandingOf(session[s]) = 0
             /\ LedgerOf(session[s]) = session[s].recorded
  BY <1>3 DEF ProcessEnd, Live, OutstandingOf, LedgerOf
<1>4. TunnelsOK'
  BY <1>2, <1>3 DEF AccountingInv, TunnelsOK, Settles
<1>5. states' = [b \in {} |-> NoArc]
  BY DEF ProcessEnd
<1>6. ASSUME NEW s \in Sessions
      PROVE  /\ D[s] \in Nat /\ D[s] = session[s].delta
             /\ K[s] \in Workspaces /\ K[s] = session[s].workspace
  <2>1. session[s] \in SessionShape /\ TunnelOK(session[s])
    BY SessionFields DEF AccountingInv, TunnelsOK
  <2>2. session[s].delta \in Nat
    BY <2>1, TunnelNumbers
  <2> QED
    BY <2>1, <2>2 DEF SessionShape
<1> HIDE DEF D, K
<1>7. ASSUME NEW b \in Budgets
      PROVE  /\ SumFunctionOnSet(OutstandingIn(b)', Sessions) = 0
             /\ Persisted(b)' + SumFunctionOnSet(OutstandingIn(b)', Sessions) <= Limit
             /\ SumFunctionOnSet(InTableIn(b)', Sessions) <= Persisted(b)'
             /\ Persisted(b)' <= SumFunctionOnSet(LedgerIn(b)', Sessions)
             /\ usage'[b] \in [Workspaces -> Nat]
  <2> DEFINE Db == {s \in done : session[s].budget = b}
             E == [s \in Sessions |-> IF s \in Db THEN session[s].delta ELSE 0]
             C == ByClass(D, K, Db, Workspaces)
  <2>0. Db \subseteq Sessions
    OBVIOUS
  <2>1. IsFiniteSet(Db)
    BY <1>0, <2>0, FS_Subset
  <2>2. /\ Integral(D, Db) /\ (\A s \in Db : K[s] \in Workspaces)
        /\ \A s \in Db : D[s] \in Nat
    BY <1>6, <2>0 DEF Integral
  <2>3. \A w \in Workspaces : {s \in done : session[s].budget = b /\ session[s].workspace = w}
                                  = {s \in Db : K[s] = w}
    <3> SUFFICES ASSUME NEW w \in Workspaces, NEW s \in done
                 PROVE  session[s].workspace = w <=> K[s] = w
      OBVIOUS
    <3> QED
      BY <1>6
  <2>4. \A w \in Workspaces : /\ C[w] = SumFunctionOnSet(D, {s \in Db : K[s] = w})
                              /\ C[w] \in Nat
    <3> SUFFICES ASSUME NEW w \in Workspaces
                 PROVE  /\ C[w] = SumFunctionOnSet(D, {s \in Db : K[s] = w})
                        /\ C[w] \in Nat
      OBVIOUS
    <3>1. C[w] = SumFunctionOnSet(D, {s \in Db : K[s] = w})
      BY DEF ByClass
    <3> DEFINE R == {s \in Db : K[s] = w}
    <3>2. IsFiniteSet(R) /\ \A s \in R : D[s] \in Nat
      BY <2>1, <2>2, FS_Subset
    <3> HIDE DEF R
    <3>3. SumFunctionOnSet(D, R) \in Nat
      BY <3>2, SumBoundsTerms
    <3> QED
      BY <3>1, <3>3 DEF R
  <2>a. \A w \in Workspaces : C[w] \in Nat
    BY <2>4
  <2>5. \A w \in Workspaces : usage'[b][w] = usage[b][w] + C[w]
    <3> SUFFICES ASSUME NEW w \in Workspaces PROVE usage'[b][w] = usage[b][w] + C[w]
      OBVIOUS
    <3>1. usage'[b][w] = usage[b][w] + SumFunctionOnSet(D,
              {s \in done : session[s].budget = b /\ session[s].workspace = w})
      BY <1>1
    <3> QED
      BY <3>1, <2>3, <2>4
  <2>6. /\ Persisted(b) = SumFunctionOnSet(usage[b], Workspaces) /\ Persisted(b) \in Nat
        /\ \A w \in Workspaces : usage[b][w] \in Nat
    BY PersistedNatural DEF AccountingInv
  <2>7. usage'[b] \in [Workspaces -> Nat]
    <3>1. usage'[b] = [w \in Workspaces |-> usage'[b][w]]
      BY <1>1
    <3> HIDE DEF C, Db
    <3>2. \A w \in Workspaces : usage'[b][w] \in Nat
      BY <2>a, <2>5, <2>6
    <3> QED
      BY <3>1, <3>2
  <2>8. Persisted(b)' = SumFunctionOnSet(usage'[b], Workspaces)
    BY <2>7 DEF Persisted, SumFunction
  <2>9. Persisted(b)' = Persisted(b) + SumFunctionOnSet(C, Workspaces)
    <3> HIDE DEF C, Db
    <3>1. Integral(usage[b], Workspaces) /\ Integral(C, Workspaces)
      BY <2>a, <2>6 DEF Integral
    <3> QED
      BY <1>0, <2>5, <2>6, <2>8, <3>1, SumAdds
  <2>10. SumFunctionOnSet(C, Workspaces) = SumFunctionOnSet(D, Db)
    BY <1>0, <2>1, <2>2, SumPartition
  <2>11. SumFunctionOnSet(E, Sessions) = SumFunctionOnSet(D, Db)
    <3>1. /\ Integral(E, Sessions)
          /\ \A s \in Sessions \ Db : E[s] = 0
          /\ \A s \in Db : E[s] = D[s]
      BY <1>6, <2>0 DEF Integral
    <3>2. Integral(E, Db)
      BY <2>0, <3>1 DEF Integral
    <3> HIDE DEF E, Db
    <3>3. SumFunctionOnSet(E, Sessions) = SumFunctionOnSet(E, Db)
      BY <1>0, <2>0, <3>1, SumSupport
    <3>4. SumFunctionOnSet(E, Db) = SumFunctionOnSet(D, Db)
      BY <2>1, <3>1, <3>2, SumSame
    <3> QED
      BY <3>3, <3>4
  <2>12. ASSUME NEW s \in Sessions
         PROVE  /\ E[s] \in Nat
                /\ E[s] <= OutstandingIn(b)[s]
                /\ E[s] + LedgerIn(b)[s] <= LedgerIn(b)'[s]
                /\ InTableIn(b)'[s] <= InTableIn(b)[s]
                /\ OutstandingIn(b)'[s] = 0
                /\ OutstandingIn(b)[s] \in Nat /\ LedgerIn(b)[s] \in Nat
                /\ InTableIn(b)[s] \in Nat
                /\ InTableIn(b)'[s] \in Nat /\ LedgerIn(b)'[s] \in Nat
    <3>1. /\ TunnelOK(session[s]) /\ TunnelOK(session'[s])
          /\ session'[s].budget = session[s].budget
      BY <1>2, <1>3, <1>4 DEF AccountingInv, TunnelsOK
    <3>2. /\ OutstandingOf(session[s]) \in Nat /\ InTableOf(session[s]) \in Nat
          /\ LedgerOf(session[s]) \in Nat /\ InTableOf(session'[s]) \in Nat
          /\ LedgerOf(session'[s]) \in Nat
          /\ InTableOf(session[s]) <= session[s].recorded
          /\ session[s].pc \notin {"new", "closed"} =>
                 InTableOf(session[s]) + OutstandingOf(session[s])
                     = session[s].recorded
                       + (session[s].chunk["ToTor"] + session[s].chunk["FromTor"])
      BY <3>1, TunnelTerms
    <3>3. /\ session[s].chunk["ToTor"] \in Nat /\ session[s].chunk["FromTor"] \in Nat
          /\ session[s].recorded \in Nat /\ session[s].persisted \in Nat
          /\ session[s].delta \in Nat
          /\ session[s].pc = "checkpoint" =>
                session[s].delta = session[s].recorded - session[s].persisted
      BY <3>1, TunnelNumbers
    <3>4. CASE session[s].budget # b
      <4>1. /\ E[s] = 0 /\ OutstandingIn(b)[s] = 0 /\ LedgerIn(b)[s] = 0 /\ InTableIn(b)[s] = 0
            /\ OutstandingIn(b)'[s] = 0 /\ LedgerIn(b)'[s] = 0 /\ InTableIn(b)'[s] = 0
        BY <3>1, <3>4 DEF OutstandingIn, InTableIn, LedgerIn
      <4> QED
        BY <4>1
    <3>5. CASE session[s].budget = b
      <4>1. /\ OutstandingIn(b)[s] = OutstandingOf(session[s])
            /\ LedgerIn(b)[s] = LedgerOf(session[s])
            /\ InTableIn(b)[s] = InTableOf(session[s])
            /\ OutstandingIn(b)'[s] = OutstandingOf(session'[s])
            /\ LedgerIn(b)'[s] = LedgerOf(session'[s])
            /\ InTableIn(b)'[s] = InTableOf(session'[s])
        BY <3>1, <3>5 DEF OutstandingIn, InTableIn, LedgerIn
      <4>2. CASE s \in Db
        <5>1. session[s].pc = "checkpoint" /\ Live(s) /\ E[s] = session[s].delta
          BY <4>2 DEF Live
        <5>2. InTableOf(session[s]) = session[s].persisted + 0
              /\ LedgerOf(session[s]) = session[s].persisted + 0
          BY <5>1 DEF InTableOf, LedgerOf
        <5>3. /\ LedgerOf(session'[s]) = session[s].recorded
              /\ OutstandingOf(session'[s]) = 0
              /\ InTableOf(session'[s]) <= InTableOf(session[s])
          BY <1>2, <5>1
        <5>4. E[s] = session[s].recorded - session[s].persisted
          BY <3>3, <5>1
        <5>5. InTableOf(session[s]) + OutstandingOf(session[s])
                     = session[s].recorded
                       + (session[s].chunk["ToTor"] + session[s].chunk["FromTor"])
          BY <3>2, <5>1
        <5>6. E[s] \in Nat
          BY <3>3, <5>1
        <5> HIDE DEF E
        <5>7. E[s] <= OutstandingOf(session[s])
          BY <3>2, <3>3, <5>2, <5>4, <5>5
        <5>8. E[s] + LedgerOf(session[s]) <= LedgerOf(session'[s])
          BY <3>3, <5>2, <5>3, <5>4
        <5> QED
          BY <3>2, <4>1, <5>3, <5>6, <5>7, <5>8
      <4>3. CASE s \notin Db
        <5>1. E[s] = 0
          BY <4>3
        <5> HIDE DEF E
        <5>2. CASE Live(s)
          <6>1. LedgerOf(session[s]) = InTableOf(session[s])
            BY <5>2 DEF Live, LedgerOf
          <6>2. /\ LedgerOf(session'[s]) = session[s].recorded
                /\ OutstandingOf(session'[s]) = 0
                /\ InTableOf(session'[s]) <= InTableOf(session[s])
            BY <1>2, <5>2
          <6> QED
            BY <3>2, <4>1, <5>1, <6>1, <6>2
        <5>3. CASE ~Live(s)
          <6>1. session'[s] = session[s] /\ OutstandingOf(session'[s]) = 0
            BY <1>3, <5>3
          <6> QED
            BY <3>2, <4>1, <5>1, <6>1
        <5> QED
          BY <5>2, <5>3
      <4> QED
        BY <4>2, <4>3
    <3> QED
      BY <3>4, <3>5
  <2> HIDE DEF E, C, Db
  <2>13. SumFunctionOnSet(OutstandingIn(b)', Sessions) = 0
    BY <1>0, <2>12, SumZero
  <2>14. /\ Integral(E, Sessions) /\ Integral(OutstandingIn(b), Sessions)
         /\ Integral(LedgerIn(b), Sessions) /\ Integral(LedgerIn(b)', Sessions)
         /\ Integral(InTableIn(b), Sessions) /\ Integral(InTableIn(b)', Sessions)
    BY <2>12 DEF Integral
  <2>15. SumFunctionOnSet(E, Sessions) <= SumFunctionOnSet(OutstandingIn(b), Sessions)
    BY <1>0, <2>12, <2>14, SumMonotonic
  <2>16. SumFunctionOnSet(InTableIn(b)', Sessions) <= SumFunctionOnSet(InTableIn(b), Sessions)
    BY <1>0, <2>12, <2>14, SumMonotonic
  <2>17. SumFunctionOnSet(E, Sessions) + SumFunctionOnSet(LedgerIn(b), Sessions)
            <= SumFunctionOnSet(LedgerIn(b)', Sessions)
    <3> DEFINE H == [s \in Sessions |-> E[s] + LedgerIn(b)[s]]
    <3>1. \A s \in Sessions : /\ H[s] = E[s] + LedgerIn(b)[s]
                              /\ H[s] <= LedgerIn(b)'[s] /\ H[s] \in Int
      BY <2>12
    <3>2. Integral(H, Sessions)
      BY <3>1 DEF Integral
    <3> HIDE DEF H
    <3>3. SumFunctionOnSet(H, Sessions)
             = SumFunctionOnSet(E, Sessions) + SumFunctionOnSet(LedgerIn(b), Sessions)
      BY <1>0, <2>14, <3>1, SumAdds
    <3>4. SumFunctionOnSet(H, Sessions) <= SumFunctionOnSet(LedgerIn(b)', Sessions)
      BY <1>0, <2>14, <3>1, <3>2, SumMonotonic
    <3> QED
      BY <3>3, <3>4
  <2>18. /\ SumFunctionOnSet(E, Sessions) \in Nat
         /\ SumFunctionOnSet(OutstandingIn(b), Sessions) \in Int
         /\ SumFunctionOnSet(InTableIn(b), Sessions) \in Int
         /\ SumFunctionOnSet(InTableIn(b)', Sessions) \in Int
         /\ SumFunctionOnSet(LedgerIn(b), Sessions) \in Int
         /\ SumFunctionOnSet(LedgerIn(b)', Sessions) \in Int
    BY <1>0, <2>12, <2>14, SumType, SumBoundsTerms
  <2>19. Persisted(b)' = Persisted(b) + SumFunctionOnSet(E, Sessions)
    BY <2>9, <2>10, <2>11
  <2>20. /\ Persisted(b) + SumFunctionOnSet(OutstandingIn(b), Sessions) <= Limit
         /\ SumFunctionOnSet(InTableIn(b), Sessions) <= Persisted(b)
         /\ Persisted(b) <= SumFunctionOnSet(LedgerIn(b), Sessions)
    BY DEF AccountingInv, Balanced
  <2>21. Limit \in Nat
    BY CustomerDataAssumption
  <2>22. Persisted(b)' <= Limit /\ Persisted(b)' \in Nat
    BY <2>6, <2>15, <2>18, <2>19, <2>20, <2>21
  <2>23. SumFunctionOnSet(InTableIn(b)', Sessions) <= Persisted(b)'
    BY <2>6, <2>16, <2>18, <2>19, <2>20
  <2>24. Persisted(b)' <= SumFunctionOnSet(LedgerIn(b)', Sessions)
    BY <2>6, <2>17, <2>18, <2>19, <2>20
  <2> QED
    BY <2>7, <2>13, <2>22, <2>23, <2>24
<1>8. Balanced'
  BY <1>5, <1>7 DEF Balanced
<1>9. usage' \in [Budgets -> [Workspaces -> Nat]]
  <2>1. usage' = [b \in Budgets |-> usage'[b]]
    BY <1>1
  <2> QED
    BY <1>7, <2>1
<1> QED
  BY <1>4, <1>8, <1>9

-----------------------------------------------------------------------------

\* The bytes a tunnel has reserved.
LEMMA InFlightNatural ==
    ASSUME AccountingInv, NEW s \in Sessions
    PROVE  /\ InFlight(s) \in Nat
           /\ \A d \in Dirs : session[s].chunk[d] \in Nat /\ session[s].chunk[d] <= InFlight(s)
           /\ session[s].budget \in Budgets
<1>1. session[s].chunk["ToTor"] \in Nat /\ session[s].chunk["FromTor"] \in Nat
  BY TunnelNumbers DEF AccountingInv, TunnelsOK
<1>2. session[s].budget \in Budgets
  BY SessionFields DEF AccountingInv, SessionShape
<1> QED
  BY <1>1, <1>2 DEF InFlight, Dirs

\* state_for numbers the budgets it loads.
LEMMA StateForCounts ==
    ASSUME AccountingInv, NEW b \in Budgets, NEW a \in Arcs, StateFor(b, a)
    PROVE  /\ lastUsed' \in [Arcs -> 0..MaxSequence]
           /\ sequence' \in 1..(MaxSequence + 1)
           /\ \A c \in DOMAIN states' : states'[c] < sequence'
<1>1. /\ sequence \in Nat /\ 1 <= sequence /\ sequence <= MaxSequence /\ MaxSequence \in Nat
      /\ sequence' = sequence + 1
  BY CustomerDataAssumption DEF AccountingInv, Counters, StateFor, CallLimiter
<1>2. lastUsed' \in [Arcs -> 0..MaxSequence]
  BY <1>1 DEF AccountingInv, Counters, StateFor
<1>3. ASSUME NEW c \in DOMAIN states' PROVE states'[c] < sequence'
  <2>1. \A e \in DOMAIN states : states[e] \in Int /\ states[e] < sequence
    BY DEF AccountingInv, Counters, BudgetInv, LimiterType, Arcs
  <2>2. CASE UNCHANGED <<states, used>>
    BY <1>1, <2>1, <2>2
  <2>3. CASE ~UNCHANGED <<states, used>>
    <3>1. a = sequence
      BY <2>3 DEF StateFor
    <3>2. PICK kept \in AfterEviction :
              states' = [e \in kept \cup {b} |-> IF e = b THEN a ELSE states[e]]
      BY <2>3 DEF StateFor
    <3>3. kept \subseteq DOMAIN states
      BY EvictionShrinks
    <3>4. states'[c] = sequence \/ (c \in DOMAIN states /\ states'[c] = states[c])
      BY <3>1, <3>2, <3>3
    <3> QED
      BY <1>1, <2>1, <3>4
  <2> QED
    BY <2>2, <2>3
<1> QED
  BY <1>1, <1>2, <1>3

\* One step of one tunnel.
LEMMA SessionBalances ==
    ASSUME AccountingInv, NEW s \in Sessions, SessionStep(s)
    PROVE  TunnelsOK' /\ Balanced'
<1>1. CASE \E b \in Budgets, w \in Workspaces : OpenSession(s, b, w)
  BY <1>1, OpenBalances
<1>2. CASE \E n \in Reads : AllowBuffered(s, n)
  <2>1. PICK n \in Reads : AllowBuffered(s, n)
    BY <1>2
  <2>2. session[s].pc = "opened" /\ Allow(s, "ToTor", n, "buffered")
    BY <2>1 DEF AllowBuffered
  <2>3. session[s].chunk["ToTor"] = 0
    BY <2>2 DEF AccountingInv, TunnelsOK, TunnelOK
  <2> QED
    BY <2>2, <2>3, AllowBalances DEF Dirs
<1>3. CASE \E d \in Dirs, n \in Reads : Read(s, d, n)
  BY <1>3, AllowBalances DEF Read, Reading
<1>4. CASE \E d \in Dirs : Written(s, d)
  BY <1>4, WrittenSettles
<1>5. ASSUME NEW d \in Dirs, Eof(s, d) PROVE TunnelsOK' /\ Balanced'
  <2>1. session[s].pc = "copying"
    BY <1>5 DEF Eof
  <2>2. CASE EndTunnel(s)
    BY <2>1, <2>2, EndTunnelSettles
  <2>3. CASE session' = [session EXCEPT ![s].eof = {d}] /\ UNCHANGED <<usage, states, used>>
    BY <2>1, <2>3, LoopSettles
  <2> QED
    BY <1>5, <2>2, <2>3 DEF Eof
<1>6. CASE LimitReached(s) \/ LimitClose(s) \/ CopyFails(s) \/ ConnectFails(s) \/ IdleTimeout(s)
  <2>1. session[s].pc \in {"opened", "buffered", "copying"} /\ EndTunnel(s)
    BY <1>6 DEF LimitReached, LimitClose, CopyFails, ConnectFails, IdleTimeout
  <2> QED
    BY <2>1, EndTunnelSettles
<1>7. CASE Checkpoint(s) \/ StartCopy(s)
  <2>1. PICK d \in Dirs : TRUE
    BY DEF Dirs
  <2> QED
    BY <1>7, <2>1, LoopSettles DEF Checkpoint, StartCopy
<1>8. CASE Commit(s)
  BY <1>8, CommitBalances
<1>9. CASE StorePersisted(s)
  BY <1>9, StoreSettles
<1>10. CASE CommitFails(s)
  BY <1>10, CommitFailsSettles
<1> QED
  BY <1>1, <1>2, <1>3, <1>4, <1>5, <1>6, <1>7, <1>8, <1>9, <1>10 DEF SessionStep, Progress

\* The bytes an ending tunnel may still have put on the wire.
LEMMA OnWireCounts ==
    ASSUME AccountingInv, NEW s \in Sessions, NEW n \in Nat, OnWire(s, n)
    PROVE  sent' \in [Budgets -> Nat]
<1>1. session[s].budget \in Budgets
  BY InFlightNatural
<1> QED
  BY <1>1 DEF OnWire, AccountingInv, Counters

\* One step of one tunnel and the counters of the process.
LEMMA SessionCounts ==
    ASSUME AccountingInv, NEW s \in Sessions, SessionStep(s)
    PROVE  Counters'
<1> DEFINE Kept == UNCHANGED <<states, lastUsed, sequence, base>>
<1>1. ASSUME Kept, usage' \in [Budgets -> [Workspaces -> Nat]], sent' \in [Budgets -> Nat]
      PROVE  Counters'
  BY <1>1 DEF AccountingInv, Counters
<1>2. usage \in [Budgets -> [Workspaces -> Nat]] /\ sent \in [Budgets -> Nat]
  BY DEF AccountingInv, Counters
<1>3. CASE \E b \in Budgets, w \in Workspaces : OpenSession(s, b, w)
  <2>1. PICK b \in Budgets, a \in Arcs : StateFor(b, a) /\ UNCHANGED <<usage, sent, base>>
    BY <1>3 DEF OpenSession
  <2> QED
    BY <2>1, StateForCounts DEF AccountingInv, Counters
<1>4. CASE EndTunnel(s) \/ CommitFails(s)
  <2>1. PICK more \in 0..InFlight(s) : OnWire(s, more)
    BY <1>4 DEF EndTunnel, CommitFails
  <2>2. more \in Nat
    BY InFlightNatural
  <2>3. sent' \in [Budgets -> Nat]
    BY <2>1, <2>2, OnWireCounts
  <2>4. Kept /\ usage' = usage
    BY <1>4 DEF EndTunnel, CommitFails, LimiterUnchanged
  <2> QED
    BY <1>1, <1>2, <2>3, <2>4
<1>5. ASSUME NEW d \in Dirs, Written(s, d) PROVE Counters'
  <2>1. OnWire(s, session[s].chunk[d]) /\ Kept /\ usage' = usage
    BY <1>5 DEF Written, LimiterUnchanged
  <2>2. session[s].chunk[d] \in Nat
    BY InFlightNatural
  <2>3. sent' \in [Budgets -> Nat]
    BY <2>1, <2>2, OnWireCounts
  <2> QED
    BY <1>1, <1>2, <2>1, <2>3
<1>6. CASE Commit(s)
  <2>1. /\ session[s].budget \in Budgets /\ session[s].workspace \in Workspaces
        /\ session[s].delta \in Nat
    BY SessionFields, TunnelNumbers DEF AccountingInv, SessionShape, TunnelsOK
  <2>2. usage' \in [Budgets -> [Workspaces -> Nat]]
    BY <1>2, <1>6, <2>1 DEF Commit
  <2>3. Kept /\ sent' = sent
    BY <1>6 DEF Commit
  <2> QED
    BY <1>1, <1>2, <2>2, <2>3
<1>7. CASE UNCHANGED <<usage, states, lastUsed, sequence, sent, base>>
  BY <1>1, <1>2, <1>7
<1>8. \/ \E b \in Budgets, w \in Workspaces : OpenSession(s, b, w)
      \/ EndTunnel(s) \/ CommitFails(s) \/ Commit(s)
      \/ \E d \in Dirs : Written(s, d)
      \/ UNCHANGED <<usage, states, lastUsed, sequence, sent, base>>
  BY DEF SessionStep, Progress, AllowBuffered, Read, Allow, Eof, LimitReached, LimitClose,
         CopyFails, ConnectFails, IdleTimeout, Checkpoint, StartCopy, StorePersisted
<1> QED
  BY <1>3, <1>4, <1>5, <1>6, <1>7, <1>8

\* The books are balanced when nothing has been recorded.
LEMMA AccountingInit == Init => AccountingInv
<1> SUFFICES ASSUME Init PROVE AccountingInv
  OBVIOUS
<1>0. IsFiniteSet(Sessions) /\ IsFiniteSet(Workspaces)
  BY CustomerDataAssumption
<1>1. BudgetInv
  BY BudgetInit
<1>2. Counters
  BY CustomerDataAssumption DEF Init, Counters
<1>3. \A s \in Sessions : session[s] = NewSession
  BY DEF Init
<1>4. /\ NewSession.pc = "new" /\ NewSession.recorded = 0 /\ NewSession.persisted = 0
      /\ NewSession.delta = 0 /\ NewSession.chunk = [d \in Dirs |-> 0]
  BY DEF NewSession
<1>5. TunnelOK(NewSession)
  BY <1>4, CustomerDataAssumption DEF TunnelOK, Dirs
<1>6. TunnelsOK
  BY <1>3, <1>5 DEF TunnelsOK
<1>7. Balanced
  <2> SUFFICES ASSUME NEW b \in Budgets
               PROVE  /\ Persisted(b) = 0
                      /\ SumFunctionOnSet(OutstandingIn(b), Sessions) = 0
                      /\ SumFunctionOnSet(InTableIn(b), Sessions) = 0
                      /\ SumFunctionOnSet(LedgerIn(b), Sessions) = 0
    <3>1. DOMAIN states = {} /\ Limit \in Nat
      BY CustomerDataAssumption DEF Init
    <3> QED
      BY <3>1 DEF Balanced
  <2>1. \A s \in Sessions : OutstandingIn(b)[s] = 0 /\ InTableIn(b)[s] = 0 /\ LedgerIn(b)[s] = 0
    BY <1>3, <1>4 DEF OutstandingIn, InTableIn, LedgerIn, OutstandingOf, InTableOf, LedgerOf
  <2>2. /\ SumFunctionOnSet(OutstandingIn(b), Sessions) = 0
        /\ SumFunctionOnSet(InTableIn(b), Sessions) = 0
        /\ SumFunctionOnSet(LedgerIn(b), Sessions) = 0
    BY <1>0, <2>1, SumZero
  <2>3. \A w \in Workspaces : usage[b][w] = 0
    BY DEF Init
  <2>4. SumFunctionOnSet(usage[b], Workspaces) = 0
    BY <1>0, <2>3, SumZero
  <2>5. Persisted(b) = 0
    BY <1>2, <2>4, PersistedNatural
  <2> QED
    BY <2>2, <2>5
<1> QED
  BY <1>1, <1>2, <1>6, <1>7 DEF AccountingInv

\* Every step keeps the books balanced.
LEMMA AccountingNext == AccountingInv /\ [Next]_vars => AccountingInv'
<1> SUFFICES ASSUME AccountingInv, [Next]_vars PROVE AccountingInv'
  OBVIOUS
<1>0. BudgetInv'
  BY BudgetNext DEF AccountingInv
<1>1. ASSUME NEW b \in Budgets, EnsureAvailable(b)
      PROVE  Counters' /\ TunnelsOK' /\ Balanced'
  <2>1. PICK a \in Arcs : StateFor(b, a)
    BY <1>1 DEF EnsureAvailable
  <2>2. UNCHANGED <<usage, sent, base>>
    BY <1>1 DEF EnsureAvailable
  <2>3. Counters'
    BY <2>1, <2>2, StateForCounts DEF AccountingInv, Counters
  <2> QED
    BY <1>1, <2>3, EnsureBalances
<1>2. ASSUME NEW b \in Budgets, StateForFails(b)
      PROVE  Counters' /\ TunnelsOK' /\ Balanced'
  <2>1. PICK kept \in AfterEviction : states' = [c \in kept |-> states[c]]
    BY <1>2 DEF StateForFails
  <2>2. kept \subseteq DOMAIN states
    BY EvictionShrinks
  <2>3. /\ UNCHANGED <<usage, lastUsed, sent, base>>
        /\ sequence <= MaxSequence /\ sequence' = sequence + 1
    BY <1>2 DEF StateForFails, CallLimiter
  <2>4. \A c \in DOMAIN states' : states'[c] \in Int /\ states'[c] < sequence
    BY <2>1, <2>2 DEF AccountingInv, Counters, BudgetInv, LimiterType, Arcs
  <2>5. sequence \in Int /\ sequence' \in 1..(MaxSequence + 1)
    BY <2>3, CustomerDataAssumption DEF AccountingInv, Counters
  <2>6. \A c \in DOMAIN states' : states'[c] < sequence'
    BY <2>3, <2>4, <2>5
  <2>7. Counters'
    BY <2>3, <2>5, <2>6 DEF AccountingInv, Counters
  <2> QED
    BY <1>2, <2>7, FailsBalances
<1>3. ASSUME NEW s \in Sessions, SessionStep(s)
      PROVE  Counters' /\ TunnelsOK' /\ Balanced'
  BY <1>3, SessionCounts, SessionBalances
<1>4. ASSUME NEW reason \in {"abort", "crash"}, ProcessEnd(reason)
      PROVE  Counters' /\ TunnelsOK' /\ Balanced'
  <2>1. TunnelsOK' /\ Balanced' /\ usage' \in [Budgets -> [Workspaces -> Nat]]
    BY <1>4, EndBalances
  <2>2. /\ states' = [b \in {} |-> NoArc] /\ lastUsed' = [a \in Arcs |-> 0]
        /\ sequence' = 1 /\ sent' = [b \in Budgets |-> 0]
        /\ base' = [b \in Budgets |-> SumFunction(usage'[b])]
    BY <1>4 DEF ProcessEnd
  <2>3. \A b \in Budgets : SumFunction(usage'[b]) \in Nat
    <3> SUFFICES ASSUME NEW b \in Budgets PROVE SumFunction(usage'[b]) \in Nat
      OBVIOUS
    <3>1. usage'[b] \in [Workspaces -> Nat]
      BY <2>1
    <3>2. SumFunctionOnSet(usage'[b], Workspaces) \in Nat
      BY <3>1, SumBoundsTerms, CustomerDataAssumption
    <3> QED
      BY <3>1, <3>2 DEF SumFunction
  <2>4. Counters'
    BY <2>1, <2>2, <2>3, CustomerDataAssumption DEF Counters
  <2> QED
    BY <2>1, <2>4
<1>5. ASSUME UNCHANGED vars
      PROVE  Counters' /\ TunnelsOK' /\ Balanced'
  <2>1. /\ usage' = usage /\ states' = states /\ used' = used /\ lastUsed' = lastUsed
        /\ sequence' = sequence /\ session' = session /\ sent' = sent /\ base' = base
    BY <1>5 DEF vars
  <2>2. Counters' /\ TunnelsOK'
    BY <2>1 DEF AccountingInv, Counters, TunnelsOK
  <2>3. \A c \in Budgets :
           /\ OutstandingIn(c)' = OutstandingIn(c) /\ InTableIn(c)' = InTableIn(c)
           /\ LedgerIn(c)' = LedgerIn(c) /\ Persisted(c)' = Persisted(c)
    BY <2>1 DEF OutstandingIn, InTableIn, LedgerIn, Persisted
  <2>4. Balanced'
    BY <2>1, <2>3 DEF AccountingInv, Balanced
  <2> QED
    BY <2>2, <2>4
<1> QED
  BY <1>0, <1>1, <1>2, <1>3, <1>4, <1>5 DEF Next, AccountingInv

\* Every behaviour keeps the books balanced.
LEMMA AccountingInvariant == Spec => []AccountingInv
  BY AccountingInit, AccountingNext, PTL DEF Spec

-----------------------------------------------------------------------------

\* The invariant has the shape of a tunnel and the bounds of its counters apart.
LEMMA AccountingTyped == AccountingInv => TypeOK
<1> SUFFICES ASSUME AccountingInv PROVE TypeOK
  OBVIOUS
<1>1. ASSUME NEW s \in Sessions PROVE session[s] \in SessionState
  <2>1. session[s] \in SessionShape
    BY SessionFields DEF AccountingInv
  <2>2. /\ session[s].chunk \in [Dirs -> 0..MaxRead] /\ session[s].recorded \in 0..Limit
        /\ session[s].persisted \in 0..Limit /\ session[s].delta \in 0..Limit
    BY DEF AccountingInv, TunnelsOK, TunnelOK
  <2> QED
    BY <2>1, <2>2 DEF SessionShape, SessionState
<1>2. session \in [Sessions -> SessionState]
  BY <1>1 DEF AccountingInv, BudgetInv, LimiterType
<1> QED
  BY <1>2 DEF AccountingInv, BudgetInv, LimiterType, Counters, TypeOK

\* A sum over the tunnels of b is the sum over all tunnels of the terms of b.
LEMMA SumOverBudget ==
    ASSUME NEW b, NEW F, NEW G, Integral(F, Sessions),
           \A s \in Sessions : G[s] = IF session[s].budget = b THEN F[s] ELSE 0
    PROVE  SumFunctionOnSet(F, TunnelsOf(b)) = SumFunctionOnSet(G, Sessions)
<1> DEFINE R == TunnelsOf(b)
<1>1. R \in SUBSET Sessions
  BY DEF TunnelsOf
<1>2. /\ \A s \in R : G[s] = F[s]
      /\ \A s \in Sessions \ R : G[s] = 0
      /\ Integral(G, Sessions) /\ Integral(F, R)
  BY <1>1 DEF TunnelsOf, Integral
<1>3. IsFiniteSet(Sessions) /\ IsFiniteSet(R)
  BY <1>1, FS_Subset, CustomerDataAssumption
<1> HIDE DEF R
<1>4. SumFunctionOnSet(G, Sessions) = SumFunctionOnSet(G, R)
  BY <1>1, <1>2, <1>3, SumSupport
<1>5. SumFunctionOnSet(F, R) = SumFunctionOnSet(G, R)
  <2>1. \A s \in R : F[s] = G[s]
    BY <1>2
  <2> QED
    BY <1>2, <1>3, <2>1, SumSame
<1> QED
  BY <1>4, <1>5 DEF R

\* What the table holds for an account and period, with what its open tunnels
\* have reserved or still have to checkpoint, never exceeds the allowance, for
\* any number of accounts, workspaces and tunnels; and no counter of the limiter
\* or of a tunnel leaves its range (allow, state_for, record_usage).
THEOREM AllowanceIsRespected == Spec => []AllowanceRespected
<1>1. AccountingInv => AllowanceRespected
  <2> SUFFICES ASSUME AccountingInv, NEW b \in Budgets PROVE Charged(b) <= Limit
    BY AccountingTyped DEF AllowanceRespected
  <2> DEFINE F == [s \in Sessions |-> Outstanding(s)]
  <2>1. \A s \in Sessions : Outstanding(s) = OutstandingOf(session[s])
    BY DEF Outstanding, OutstandingOf, Live, InFlight
  <2>2. \A s \in Sessions : /\ F[s] \in Int
                            /\ OutstandingIn(b)[s] = IF session[s].budget = b THEN F[s] ELSE 0
    BY <2>1, TunnelTerms DEF AccountingInv, TunnelsOK, OutstandingIn
  <2> HIDE DEF F
  <2>3. SumFunctionOnSet(F, TunnelsOf(b)) = SumFunctionOnSet(OutstandingIn(b), Sessions)
    BY <2>2, SumOverBudget DEF Integral
  <2>4. Charged(b) = Persisted(b) + SumFunctionOnSet(OutstandingIn(b), Sessions)
    BY <2>3 DEF Charged, F
  <2> QED
    BY <2>4 DEF AccountingInv, Balanced
<1> QED
  BY <1>1, AccountingInvariant, PTL

\* No byte is charged twice: the table never holds more than the tunnels of a
\* budget recorded, whatever checkpoint fails or is cut short (record_usage,
\* CustomerDataSession::checkpoint).
THEOREM NothingIsChargedTwice == Spec => []NoDoubleCharge
<1>1. AccountingInv => NoDoubleCharge
  <2> SUFFICES ASSUME AccountingInv, NEW b \in Budgets
               PROVE  Persisted(b) <= SumFunctionOnSet([s \in Sessions |-> session[s].recorded],
                                          TunnelsOf(b))
    BY DEF NoDoubleCharge
  <2> DEFINE F == [s \in Sessions |-> session[s].recorded]
             G == [s \in Sessions |-> IF session[s].budget = b THEN F[s] ELSE 0]
  <2>1. \A s \in Sessions : /\ F[s] = session[s].recorded /\ F[s] \in Nat
                            /\ LedgerOf(session[s]) \in Nat /\ LedgerOf(session[s]) <= F[s]
    <3> SUFFICES ASSUME NEW s \in Sessions
                 PROVE  /\ session[s].recorded \in Nat
                        /\ LedgerOf(session[s]) \in Nat
                        /\ LedgerOf(session[s]) <= session[s].recorded
      OBVIOUS
    <3>1. TunnelOK(session[s])
      BY DEF AccountingInv, TunnelsOK
    <3> QED
      BY <3>1, TunnelNumbers, TunnelTerms DEF LedgerOf
  <2> HIDE DEF F
  <2>2. \A s \in Sessions : /\ G[s] = IF session[s].budget = b THEN F[s] ELSE 0
                            /\ G[s] \in Int /\ LedgerIn(b)[s] \in Int
                            /\ LedgerIn(b)[s] <= G[s]
    BY <2>1 DEF LedgerIn
  <2> HIDE DEF G
  <2>3. Integral(F, Sessions) /\ Integral(G, Sessions) /\ Integral(LedgerIn(b), Sessions)
    BY <2>1, <2>2 DEF Integral
  <2>4. SumFunctionOnSet(F, TunnelsOf(b)) = SumFunctionOnSet(G, Sessions)
    BY <2>2, <2>3, SumOverBudget
  <2>5. SumFunctionOnSet(LedgerIn(b), Sessions) <= SumFunctionOnSet(G, Sessions)
    BY <2>2, <2>3, SumMonotonic, CustomerDataAssumption
  <2>6. /\ SumFunctionOnSet(G, Sessions) \in Int
        /\ SumFunctionOnSet(LedgerIn(b), Sessions) \in Int
    BY <2>3, SumType, CustomerDataAssumption
  <2>7. Persisted(b) <= SumFunctionOnSet(LedgerIn(b), Sessions) /\ Persisted(b) \in Nat
    BY PersistedNatural DEF AccountingInv, Balanced
  <2> QED
    BY <2>4, <2>5, <2>6, <2>7 DEF F
<1> QED
  BY <1>1, AccountingInvariant, PTL

\* A tunnel that ends by itself while the database works has persisted all that
\* it recorded (the last checkpoint of the copy loop).
THEOREM ClosedTunnelsArePersisted == Spec => []ClosedTunnelPersisted
<1>1. AccountingInv => ClosedTunnelPersisted
  BY DEF AccountingInv, TunnelsOK, TunnelOK, ClosedTunnelPersisted
<1> QED
  BY <1>1, AccountingInvariant, PTL

-----------------------------------------------------------------------------
(***************************************************************************)
(* The data cap within one process (README.md:320).  It is exact as long   *)
(* as the map has room for every budget: an evicted budget is loaded again *)
(* from the table, which does not hold the bytes whose checkpoint failed   *)
(* or that were on the wire when their tunnel ended.                       *)
(***************************************************************************)

\* No budget ever has to be evicted.
RoomForAll == IsFiniteSet(Budgets) /\ Cardinality(Budgets) <= MaxCached

\* What an open tunnel has reserved and may still put on the wire.
FlightOf(t) ==
    IF t.pc \notin {"new", "closed"} THEN t.chunk["ToTor"] + t.chunk["FromTor"] ELSE 0

\* The same per tunnel, counting the tunnels of budget b only.
FlightIn(b) ==
    [s \in Sessions |-> IF session[s].budget = b THEN FlightOf(session[s]) ELSE 0]

\* A cached budget has been charged for all that is, or may still come, on the
\* wire in this process; a budget that is not cached has not been used in it.
CapKept ==
    \A b \in Budgets :
        /\ b \in DOMAIN states =>
              base[b] + sent[b] + SumFunctionOnSet(FlightIn(b), Sessions) <= used[states[b]]
        /\ b \notin DOMAIN states => sent[b] = 0 /\ base[b] = Persisted(b)

\* The terms of the sum are naturals, and so is the sum.
LEMMA FlightNatural ==
    ASSUME TunnelsOK, NEW b
    PROVE  /\ \A s \in Sessions : FlightOf(session[s]) \in Nat /\ FlightIn(b)[s] \in Nat
           /\ SumFunctionOnSet(FlightIn(b), Sessions) \in Nat
<1>1. \A s \in Sessions : FlightOf(session[s]) \in Nat
  BY TunnelNumbers DEF TunnelsOK, FlightOf
<1>2. \A s \in Sessions : FlightIn(b)[s] \in Nat
  BY <1>1 DEF FlightIn
<1> QED
  BY <1>1, <1>2, SumBoundsTerms, CustomerDataAssumption

\* Nothing of a budget that is not cached is on its way to the wire.
LEMMA UncachedQuiet ==
    ASSUME AccountingInv, NEW b \in Budgets, b \notin DOMAIN states
    PROVE  SumFunctionOnSet(FlightIn(b), Sessions) = 0
<1>1. \A s \in Sessions : FlightIn(b)[s] = 0
  BY DEF AccountingInv, BudgetInv, SharedBudget, Live, FlightIn, FlightOf
<1> QED
  BY <1>1, SumZero, CustomerDataAssumption

\* A step of one open tunnel that reserves r bytes and puts n on the wire: its
\* term pays for the latter, the live budget is charged for the former.
Pays(s, n, r) ==
    /\ OnlyTunnel(s) /\ UNCHANGED <<states, base>>
    /\ \A a \in Arcs : used[a] <= used'[a]
    /\ used'[session[s].arc] = used[session[s].arc] + r
    /\ \A b \in Budgets : sent'[b] = sent[b] + (IF b = session[s].budget THEN n ELSE 0)
    /\ \A b \in Budgets : b # session[s].budget => usage'[b] = usage[b]
    /\ FlightOf(session'[s]) + n <= FlightOf(session[s]) + r

\* Such a step keeps the cap.
LEMMA PayingStep ==
    ASSUME AccountingInv, AccountingInv', CapKept, NEW s \in Sessions, Live(s),
           NEW n \in Nat, NEW r \in Nat, Pays(s, n, r)
    PROVE  CapKept'
<1>1. PICK B \in Budgets : B = session[s].budget
  BY SessionFields DEF AccountingInv, SessionShape
<1>2. B \in DOMAIN states /\ states[B] = session[s].arc /\ states[B] \in Arcs
  BY <1>1, LiveHasArc DEF AccountingInv, BudgetInv, SharedBudget
<1>3. /\ states' = states /\ base' = base /\ session'[s].budget = B
      /\ \A u \in Sessions : u # s => session'[u] = session[u]
  BY <1>1 DEF Pays, OnlyTunnel
<1>4. FlightOf(session[s]) \in Nat /\ FlightOf(session'[s]) \in Nat
  <2>1. TunnelOK(session[s]) /\ TunnelOK(session'[s])
    BY DEF AccountingInv, TunnelsOK
  <2> QED
    BY <2>1, TunnelNumbers DEF FlightOf
<1> SUFFICES ASSUME NEW b \in Budgets
             PROVE  /\ b \in DOMAIN states =>
                          base[b] + sent'[b] + SumFunctionOnSet(FlightIn(b)', Sessions)
                              <= used'[states[b]]
                    /\ b \notin DOMAIN states => sent'[b] = 0 /\ base[b] = Persisted(b)'
  BY <1>3 DEF CapKept
<1>5. /\ SumFunctionOnSet(FlightIn(b)', Sessions)
            = SumFunctionOnSet(FlightIn(b), Sessions) + (FlightIn(b)'[s] - FlightIn(b)[s])
      /\ SumFunctionOnSet(FlightIn(b), Sessions) \in Int
  <2>1. Integral(FlightIn(b), Sessions)
    BY FlightNatural DEF AccountingInv, Integral
  <2>2. FlightIn(b)'[s] \in Int
    BY <1>4 DEF FlightIn
  <2>3. \A u \in Sessions : u # s => FlightIn(b)'[u] = FlightIn(b)[u]
    BY <1>3 DEF FlightIn
  <2> QED
    BY <2>1, <2>2, <2>3, SumUpdate, CustomerDataAssumption
<1>6. base[b] \in Nat /\ sent[b] \in Nat
  BY DEF AccountingInv, Counters
<1>7. \A c \in DOMAIN states : states[c] \in Arcs /\ used[states[c]] \in Nat /\ used'[states[c]] \in Nat
  BY <1>3, CustomerDataAssumption DEF AccountingInv, BudgetInv, LimiterType
<1>8. CASE b = B
  <2>1. FlightIn(b)[s] = FlightOf(session[s]) /\ FlightIn(b)'[s] = FlightOf(session'[s])
    BY <1>1, <1>3, <1>8 DEF FlightIn
  <2>2. sent'[b] = sent[b] + n /\ used'[states[b]] = used[states[b]] + r
    BY <1>1, <1>2, <1>8 DEF Pays
  <2>3. base[b] + sent[b] + SumFunctionOnSet(FlightIn(b), Sessions) <= used[states[b]]
    BY <1>2, <1>8 DEF CapKept
  <2>4. FlightOf(session'[s]) + n <= FlightOf(session[s]) + r
    BY DEF Pays
  <2> QED
    BY <1>2, <1>4, <1>5, <1>6, <1>7, <1>8, <2>1, <2>2, <2>3, <2>4
<1>9. CASE b # B
  <2>1. FlightIn(b)[s] = 0 /\ FlightIn(b)'[s] = 0
    BY <1>1, <1>3, <1>9 DEF FlightIn
  <2>2. sent'[b] = sent[b] /\ Persisted(b)' = Persisted(b)
    BY <1>1, <1>6, <1>9 DEF Pays, Persisted
  <2>3. b \in DOMAIN states => used[states[b]] <= used'[states[b]]
    BY <1>7 DEF Pays
  <2>4. b \in DOMAIN states =>
            base[b] + sent[b] + SumFunctionOnSet(FlightIn(b), Sessions) <= used[states[b]]
    BY DEF CapKept
  <2>5. b \notin DOMAIN states => sent[b] = 0 /\ base[b] = Persisted(b)
    BY DEF CapKept
  <2>6. b \in DOMAIN states =>
            base[b] + sent'[b] + SumFunctionOnSet(FlightIn(b)', Sessions) <= used'[states[b]]
    BY <1>5, <1>6, <1>7, <2>1, <2>2, <2>3, <2>4
  <2> QED
    BY <2>2, <2>5, <2>6
<1> QED
  BY <1>8, <1>9

\* While there is room for every budget, state_for evicts nothing.
LEMMA NothingIsEvicted ==
    ASSUME AccountingInv, RoomForAll, NEW b \in Budgets, b \notin DOMAIN states,
           NEW kept \in AfterEviction
    PROVE  kept = DOMAIN states
<1>1. DOMAIN states \subseteq Budgets \ {b}
  BY DEF AccountingInv, BudgetInv, LimiterType
<1>2. /\ IsFiniteSet(Budgets \ {b}) /\ Cardinality(Budgets \ {b}) = Cardinality(Budgets) - 1
      /\ Cardinality(Budgets) \in Nat
  BY FS_RemoveElement, FS_CardinalityType DEF RoomForAll
<1>3. Cardinality(DOMAIN states) <= Cardinality(Budgets \ {b}) /\ IsFiniteSet(DOMAIN states)
  BY <1>1, <1>2, FS_Subset
<1>4. Cardinality(DOMAIN states) \in Nat /\ MaxCached \in Nat
  BY <1>3, FS_CardinalityType, CustomerDataAssumption
<1>5. Cardinality(DOMAIN states) < MaxCached
  BY <1>2, <1>3, <1>4 DEF RoomForAll
<1> QED
  BY <1>5 DEF AfterEviction

\* A loaded budget starts at what the process found in the table.
LEMMA LoadingKeepsCap ==
    ASSUME AccountingInv, AccountingInv', CapKept, RoomForAll,
           NEW b \in Budgets, NEW a \in Arcs, StateFor(b, a), UNCHANGED <<usage, sent, base>>,
           \A c \in Budgets : SumFunctionOnSet(FlightIn(c)', Sessions)
                                  = SumFunctionOnSet(FlightIn(c), Sessions)
    PROVE  CapKept'
<1>1. \A c \in Budgets : Persisted(c)' = Persisted(c)
  BY DEF Persisted
<1>2. CASE UNCHANGED <<states, used>>
  BY <1>1, <1>2 DEF CapKept
<1>3. CASE ~UNCHANGED <<states, used>>
  <2>1. b \notin DOMAIN states /\ a = sequence
    BY <1>3 DEF StateFor
  <2>2. PICK kept \in AfterEviction, persisted \in 0..(Limit - 1) :
            /\ persisted = Seed(b)
            /\ states' = [c \in kept \cup {b} |-> IF c = b THEN a ELSE states[c]]
            /\ used' = [used EXCEPT ![a] = persisted]
    BY <1>3 DEF StateFor
  <2>3. kept = DOMAIN states
    BY <2>1, NothingIsEvicted
  <2>4. used \in [Arcs -> 0..Limit]
    BY DEF AccountingInv, BudgetInv, LimiterType
  <2> SUFFICES ASSUME NEW c \in Budgets
               PROVE  /\ c \in DOMAIN states' =>
                            base[c] + sent[c] + SumFunctionOnSet(FlightIn(c), Sessions)
                                <= used'[states'[c]]
                      /\ c \notin DOMAIN states' => sent[c] = 0 /\ base[c] = Persisted(c)
    BY <1>1 DEF CapKept
  <2>5. CASE c = b
    <3>1. c \in DOMAIN states' /\ used'[states'[c]] = persisted
      BY <2>2, <2>4, <2>5
    <3>2. persisted = Persisted(c) /\ Persisted(c) \in Nat
      BY <2>2, <2>5, PersistedNatural DEF Seed, Persisted, AccountingInv
    <3>3. sent[c] = 0 /\ base[c] = Persisted(c) /\ SumFunctionOnSet(FlightIn(c), Sessions) = 0
      BY <2>1, <2>5, UncachedQuiet DEF CapKept
    <3> QED
      BY <3>1, <3>2, <3>3
  <2>6. CASE c # b /\ c \in DOMAIN states
    <3>1. c \in DOMAIN states' /\ states'[c] = states[c]
      BY <2>2, <2>3, <2>6
    <3>2. states[c] \in Arcs /\ states[c] < sequence /\ sequence \in Int
      BY <2>6 DEF AccountingInv, BudgetInv, LimiterType, Counters
    <3>3. states[c] # a
      BY <2>1, <3>2 DEF Arcs
    <3>4. used'[states'[c]] = used[states[c]]
      BY <2>2, <2>4, <3>1, <3>2, <3>3
    <3> QED
      BY <2>6, <3>1, <3>4 DEF CapKept
  <2>7. CASE c # b /\ c \notin DOMAIN states
    BY <2>2, <2>3, <2>7 DEF CapKept
  <2> QED
    BY <2>5, <2>6, <2>7
<1> QED
  BY <1>2, <1>3

\* A step that leaves the budgets, and all tunnels but s, alone.
LEMMA WirePays ==
    ASSUME AccountingInv, NEW s \in Sessions, Live(s), OnlyTunnel(s),
           UNCHANGED <<usage, states, used, base>>, NEW n \in Nat, OnWire(s, n),
           FlightOf(session'[s]) + n <= FlightOf(session[s])
    PROVE  \E z \in Nat : Pays(s, n, z)
<1>1. PICK z \in Nat : z = 0
  OBVIOUS
<1>2. session[s].budget \in Budgets /\ session[s].arc \in Arcs
  BY InFlightNatural, LiveHasArc DEF AccountingInv
<1>3. \A a \in Arcs : used[a] \in Nat
  BY CustomerDataAssumption DEF AccountingInv, BudgetInv, LimiterType
<1>4. FlightOf(session[s]) \in Nat
  BY FlightNatural DEF AccountingInv
<1>5. \A b \in Budgets : sent'[b] = sent[b] + (IF b = session[s].budget THEN n ELSE 0)
  <2>1. sent \in [Budgets -> Nat]
    BY DEF AccountingInv, Counters
  <2>2. sent' = [sent EXCEPT ![session[s].budget] = sent[session[s].budget] + n]
    BY DEF OnWire
  <2> QED
    BY <1>2, <2>1, <2>2
<1>6. (\A a \in Arcs : used[a] <= used'[a]) /\ used'[session[s].arc] = used[session[s].arc] + z
  BY <1>1, <1>2, <1>3
<1>7. FlightOf(session'[s]) + n <= FlightOf(session[s]) + z
  BY <1>1, <1>4
<1> QED
  BY <1>5, <1>6, <1>7 DEF Pays

\* Finish drops the chunks of its tunnel, whatever was recorded.
LEMMA FinishDrops ==
    ASSUME AccountingInv, NEW s \in Sessions, NEW recorded, Finish(s, recorded)
    PROVE  OnlyTunnel(s) /\ session'[s].chunk = [d \in Dirs |-> 0]
<1>1. session[s] \in SessionShape
  BY SessionFields DEF AccountingInv
<1> DEFINE pc == IF recorded = session[s].persisted THEN "closed" ELSE "checkpoint"
           arc == IF recorded = session[s].persisted THEN NoArc ELSE session[s].arc
           delta == recorded - session[s].persisted
           none == [d \in Dirs |-> 0]
           u == [session[s] EXCEPT !.pc = pc, !.arc = arc, !.chunk = none, !.last = "none",
                !.eof = {}, !.recorded = recorded, !.delta = delta, !.after = "closed",
                !.reason = "ended"]
<1>2. session' = [session EXCEPT ![s] = u]
  BY DEF Finish
<1>3. u.chunk = none /\ u.budget = session[s].budget
  <2> HIDE DEF pc, arc, none, delta
  <2> QED
    BY <1>1 DEF SessionShape
<1> HIDE DEF u
<1> QED
  BY <1>2, <1>3, TunnelUpdate

\* A tunnel that ends drops its chunks, `more` of whose bytes were on the wire.
LEMMA EndPays ==
    ASSUME AccountingInv, AccountingInv', CapKept, NEW s \in Sessions,
           \/ session[s].pc \in {"opened", "buffered", "copying"} /\ EndTunnel(s)
           \/ CommitFails(s)
    PROVE  CapKept'
<1>1. session[s] \in SessionShape /\ Live(s) /\ session \in [Sessions -> SessionShape]
  BY SessionFields DEF AccountingInv, BudgetInv, LimiterType, Live, CommitFails
<1>2. PICK more \in 0..InFlight(s) : OnWire(s, more)
  BY DEF EndTunnel, CommitFails
<1>3. UNCHANGED <<usage, states, used, base>>
  BY DEF EndTunnel, CommitFails, LimiterUnchanged
<1>4. OnlyTunnel(s) /\ session'[s].chunk = [d \in Dirs |-> 0]
  <2>1. CASE EndTunnel(s)
    BY <2>1, FinishDrops DEF EndTunnel
  <2>2. CASE CommitFails(s)
    BY <1>1, <2>2 DEF CommitFails, OnlyTunnel, SessionShape
  <2> QED
    BY <2>1, <2>2
<1>5. FlightOf(session'[s]) = 0
  BY <1>4 DEF FlightOf, Dirs
<1>6. more \in Nat /\ InFlight(s) \in Nat /\ more <= InFlight(s)
  BY InFlightNatural
<1>7. FlightOf(session[s]) = InFlight(s)
  BY <1>1 DEF FlightOf, InFlight, Live
<1>8. FlightOf(session'[s]) + more <= FlightOf(session[s])
  BY <1>5, <1>6, <1>7
<1>9. PICK z \in Nat : Pays(s, more, z)
  BY <1>1, <1>2, <1>3, <1>4, <1>6, <1>8, WirePays
<1> QED
  BY <1>1, <1>6, <1>9, PayingStep

\* A chunk that has been written leaves the tunnel for the wire.
LEMMA WrittenPays ==
    ASSUME AccountingInv, AccountingInv', CapKept, NEW s \in Sessions, NEW d \in Dirs,
           Written(s, d)
    PROVE  CapKept'
<1>1. session[s] \in SessionShape /\ Live(s) /\ session \in [Sessions -> SessionShape]
  BY SessionFields DEF AccountingInv, BudgetInv, LimiterType, Live, Written
<1>2. OnWire(s, session[s].chunk[d]) /\ UNCHANGED <<usage, states, used, base>>
  BY DEF Written, LimiterUnchanged
<1>3. PICK n \in Nat : n = session[s].chunk[d]
  BY InFlightNatural
<1>4. /\ session[s].chunk["ToTor"] \in Nat /\ session[s].chunk["FromTor"] \in Nat
      /\ session[s].chunk \in [Dirs -> 0..MaxRead]
  BY TunnelNumbers DEF AccountingInv, TunnelsOK, TunnelOK
<1>5. FlightOf(session[s]) = session[s].chunk["ToTor"] + session[s].chunk["FromTor"]
  BY <1>1 DEF FlightOf, Live
<1>6. OnlyTunnel(s) /\ FlightOf(session'[s]) + n <= FlightOf(session[s])
  <2>1. CASE Finish(s, session[s].recorded + session[s].chunk[d])
    <3>1. OnlyTunnel(s) /\ session'[s].chunk = [e \in Dirs |-> 0]
      BY <2>1, FinishDrops
    <3>2. FlightOf(session'[s]) = 0
      <4>1. session'[s].chunk["ToTor"] = 0 /\ session'[s].chunk["FromTor"] = 0
        BY <3>1 DEF Dirs
      <4> QED
        BY <4>1 DEF FlightOf
    <3>3. n <= FlightOf(session[s])
      <4>1. CASE d = "ToTor"
        BY <1>3, <1>4, <1>5, <4>1
      <4>2. CASE d = "FromTor"
        BY <1>3, <1>4, <1>5, <4>2
      <4> QED
        BY <4>1, <4>2 DEF Dirs
    <3> QED
      BY <1>4, <1>5, <3>1, <3>2, <3>3
  <2>2. CASE session' = [session EXCEPT ![s].pc = "copying", ![s].chunk[d] = 0,
                             ![s].recorded = session[s].recorded + session[s].chunk[d]]
    <3>1. /\ OnlyTunnel(s) /\ session'[s].pc = "copying"
          /\ session'[s].chunk = [session[s].chunk EXCEPT ![d] = 0]
      BY <1>1, <2>2 DEF OnlyTunnel, SessionShape
    <3>2. /\ session'[s].chunk[d] = 0
          /\ \A e \in Dirs : e # d => session'[s].chunk[e] = session[s].chunk[e]
      BY <1>4, <3>1
    <3>3. FlightOf(session'[s]) = session'[s].chunk["ToTor"] + session'[s].chunk["FromTor"]
      BY <3>1 DEF FlightOf
    <3>4. CASE d = "ToTor"
      BY <1>3, <1>4, <1>5, <3>1, <3>2, <3>3, <3>4 DEF Dirs
    <3>5. CASE d = "FromTor"
      BY <1>3, <1>4, <1>5, <3>1, <3>2, <3>3, <3>5 DEF Dirs
    <3> QED
      BY <3>4, <3>5 DEF Dirs
  <2> QED
    BY <2>1, <2>2 DEF Written
<1>7. PICK z \in Nat : Pays(s, n, z)
  BY <1>1, <1>2, <1>3, <1>6, WirePays
<1> QED
  BY <1>1, <1>7, PayingStep

\* allow() charges the budget for the chunk it grants.
LEMMA AllowPays ==
    ASSUME AccountingInv, AccountingInv', CapKept, NEW s \in Sessions, NEW d \in Dirs,
           NEW n \in Reads, NEW pc \in {"buffered", "copying"}, Allow(s, d, n, pc),
           session[s].pc \in {"opened", "copying"}, session[s].chunk[d] = 0
    PROVE  CapKept'
<1>1. /\ session[s] \in SessionShape /\ Live(s) /\ session \in [Sessions -> SessionShape]
      /\ session[s].arc \in Arcs /\ used \in [Arcs -> 0..Limit]
  BY SessionFields, LiveHasArc DEF AccountingInv, BudgetInv, LimiterType, Live
<1>2. PICK g \in Nat : g = Granted(s, n)
  BY <1>1, CustomerDataAssumption DEF Allow, Granted, Reads
<1>3. used' = [used EXCEPT ![session[s].arc] = used[session[s].arc] + g]
  BY <1>2 DEF Allow
<1>4. /\ \A a \in Arcs : used[a] <= used'[a]
      /\ used'[session[s].arc] = used[session[s].arc] + g
  BY <1>1, <1>2, <1>3, CustomerDataAssumption
<1>5. /\ session[s].chunk["ToTor"] \in Nat /\ session[s].chunk["FromTor"] \in Nat
      /\ session[s].chunk \in [Dirs -> 0..MaxRead]
  BY TunnelNumbers DEF AccountingInv, TunnelsOK, TunnelOK
<1>6. /\ OnlyTunnel(s) /\ session'[s].pc = pc
      /\ session'[s].chunk = [session[s].chunk EXCEPT ![d] = g]
  BY <1>1, <1>2 DEF Allow, OnlyTunnel, SessionShape
<1>7. /\ session'[s].chunk[d] = g
      /\ \A e \in Dirs : e # d => session'[s].chunk[e] = session[s].chunk[e]
  BY <1>5, <1>6
<1>8. /\ FlightOf(session[s]) = session[s].chunk["ToTor"] + session[s].chunk["FromTor"]
      /\ FlightOf(session'[s]) = session'[s].chunk["ToTor"] + session'[s].chunk["FromTor"]
  BY <1>1, <1>6 DEF FlightOf, Live
<1>9. PICK z \in Nat : z = 0
  OBVIOUS
<1>10. FlightOf(session'[s]) + z <= FlightOf(session[s]) + g
  BY <1>2, <1>5, <1>7, <1>8, <1>9 DEF Dirs
<1>11. UNCHANGED <<usage, states, sent, base>>
  BY DEF Allow
<1>12. \A b \in Budgets : sent'[b] = sent[b] + (IF b = session[s].budget THEN z ELSE 0)
  BY <1>9, <1>11 DEF AccountingInv, Counters
<1>13. Pays(s, z, g)
  BY <1>4, <1>6, <1>10, <1>11, <1>12 DEF Pays
<1> QED
  BY <1>1, <1>2, <1>9, <1>13, PayingStep

\* The steps that put nothing on the wire and reserve nothing.  A commit only
\* changes the table for a budget that is cached.
LEMMA SilentPays ==
    ASSUME AccountingInv, AccountingInv', CapKept, NEW s \in Sessions,
           \/ StartCopy(s) \/ Checkpoint(s) \/ Commit(s) \/ StorePersisted(s)
           \/ /\ session[s].pc = "copying"
              /\ \E d \in Dirs : session' = [session EXCEPT ![s].eof = {d}]
              /\ UNCHANGED <<usage, states, used, sent, base>>
    PROVE  CapKept'
<1>1. /\ session[s] \in SessionShape /\ Live(s) /\ session \in [Sessions -> SessionShape]
      /\ session[s].arc \in Arcs /\ used \in [Arcs -> 0..Limit]
  BY SessionFields, LiveHasArc
  DEF AccountingInv, BudgetInv, LimiterType, Live, StartCopy, Checkpoint, Commit, StorePersisted
<1>2. UNCHANGED <<states, used, sent, base>>
  BY DEF StartCopy, Checkpoint, Commit, StorePersisted
<1>3. \A b \in Budgets : b # session[s].budget => usage'[b] = usage[b]
  <2>1. usage \in [Budgets -> [Workspaces -> Nat]]
    BY DEF AccountingInv, Counters
  <2>2. CASE Commit(s)
    BY <2>1, <2>2 DEF Commit
  <2>3. CASE usage' = usage
    BY <2>3
  <2> QED
    BY <2>2, <2>3 DEF StartCopy, Checkpoint, StorePersisted
<1>4. OnlyTunnel(s) /\ session'[s].chunk = session[s].chunk
  BY <1>1 DEF StartCopy, Checkpoint, Commit, StorePersisted, OnlyTunnel, SessionShape
<1>5. PICK z \in Nat : z = 0
  OBVIOUS
<1>6. FlightOf(session'[s]) + z <= FlightOf(session[s]) + z
  <2>1. session[s].chunk["ToTor"] \in Nat /\ session[s].chunk["FromTor"] \in Nat
    BY TunnelNumbers DEF AccountingInv, TunnelsOK
  <2> QED
    BY <1>1, <1>4, <1>5, <2>1 DEF FlightOf, Live
<1>7. /\ \A a \in Arcs : used[a] <= used'[a]
      /\ used'[session[s].arc] = used[session[s].arc] + z
      /\ \A b \in Budgets : sent'[b] = sent[b] + (IF b = session[s].budget THEN z ELSE 0)
  BY <1>1, <1>2, <1>5, CustomerDataAssumption DEF AccountingInv, Counters
<1>8. Pays(s, z, z)
  BY <1>2, <1>3, <1>4, <1>6, <1>7 DEF Pays
<1> QED
  BY <1>1, <1>5, <1>8, PayingStep

\* open_session: a new tunnel has reserved nothing.
LEMMA OpeningKeepsCap ==
    ASSUME AccountingInv, AccountingInv', CapKept, RoomForAll, NEW s \in Sessions,
           NEW b \in Budgets, NEW w \in Workspaces, OpenSession(s, b, w)
    PROVE  CapKept'
<1>1. /\ session[s] \in SessionShape /\ session \in [Sessions -> SessionShape]
      /\ session[s].pc = "new" /\ TunnelOK(session[s])
  BY SessionFields DEF AccountingInv, BudgetInv, LimiterType, OpenSession, TunnelsOK
<1>2. PICK a \in Arcs : /\ StateFor(b, a)
                        /\ session' = [session EXCEPT ![s].pc = "opened", ![s].budget = b,
                                          ![s].workspace = w, ![s].arc = a]
  BY DEF OpenSession
<1>3. UNCHANGED <<usage, sent, base>>
  BY DEF OpenSession
<1>4. /\ session'[s].chunk = session[s].chunk
      /\ \A u \in Sessions : u # s => session'[u] = session[u]
  BY <1>1, <1>2 DEF SessionShape
<1>5. FlightOf(session[s]) = 0 /\ FlightOf(session'[s]) = 0
  BY <1>1, <1>4 DEF FlightOf, TunnelOK
<1>6. ASSUME NEW c \in Budgets
      PROVE  SumFunctionOnSet(FlightIn(c)', Sessions) = SumFunctionOnSet(FlightIn(c), Sessions)
  <2>1. \A u \in Sessions : FlightIn(c)[u] = FlightIn(c)'[u]
    BY <1>4, <1>5 DEF FlightIn
  <2>2. Integral(FlightIn(c), Sessions)
    BY FlightNatural DEF AccountingInv, Integral
  <2> QED
    BY <2>1, <2>2, SumSame, CustomerDataAssumption
<1> QED
  BY <1>2, <1>3, <1>6, LoadingKeepsCap

\* One step of one tunnel.
LEMMA SessionKeepsCap ==
    ASSUME AccountingInv, AccountingInv', CapKept, RoomForAll, NEW s \in Sessions, SessionStep(s)
    PROVE  CapKept'
<1>1. CASE \E b \in Budgets, w \in Workspaces : OpenSession(s, b, w)
  BY <1>1, OpeningKeepsCap
<1>2. CASE \E n \in Reads : AllowBuffered(s, n)
  <2>1. PICK n \in Reads : session[s].pc = "opened" /\ Allow(s, "ToTor", n, "buffered")
    BY <1>2 DEF AllowBuffered
  <2>2. session[s].chunk["ToTor"] = 0
    BY <2>1 DEF AccountingInv, TunnelsOK, TunnelOK
  <2> QED
    BY <2>1, <2>2, AllowPays DEF Dirs
<1>3. CASE \E d \in Dirs, n \in Reads : Read(s, d, n)
  BY <1>3, AllowPays DEF Read, Reading
<1>4. CASE \E d \in Dirs : Written(s, d)
  BY <1>4, WrittenPays
<1>5. ASSUME NEW d \in Dirs, Eof(s, d) PROVE CapKept'
  <2>1. CASE session[s].pc = "copying" /\ EndTunnel(s)
    BY <2>1, EndPays
  <2>2. CASE /\ session[s].pc = "copying" /\ session' = [session EXCEPT ![s].eof = {d}]
             /\ UNCHANGED <<usage, states, used, sent, base>>
    BY <2>2, SilentPays
  <2> QED
    BY <1>5, <2>1, <2>2 DEF Eof
<1>6. CASE LimitReached(s) \/ LimitClose(s) \/ CopyFails(s) \/ ConnectFails(s) \/ IdleTimeout(s)
  <2>1. session[s].pc \in {"opened", "buffered", "copying"} /\ EndTunnel(s)
    BY <1>6 DEF LimitReached, LimitClose, CopyFails, ConnectFails, IdleTimeout
  <2> QED
    BY <2>1, EndPays
<1>7. CASE Checkpoint(s) \/ StartCopy(s) \/ Commit(s) \/ StorePersisted(s)
  BY <1>7, SilentPays
<1>8. CASE CommitFails(s)
  BY <1>8, EndPays
<1> QED
  BY <1>1, <1>2, <1>3, <1>4, <1>5, <1>6, <1>7, <1>8 DEF SessionStep, Progress

\* Every step keeps the cap, while nothing is evicted.
LEMMA CapStep ==
    ASSUME AccountingInv, AccountingInv', CapKept, RoomForAll, [Next]_vars
    PROVE  CapKept'
<1>1. ASSUME NEW b \in Budgets, EnsureAvailable(b) PROVE CapKept'
  <2>1. PICK a \in Arcs : StateFor(b, a)
    BY <1>1 DEF EnsureAvailable
  <2>2. UNCHANGED <<usage, session, sent, base>>
    BY <1>1 DEF EnsureAvailable
  <2>3. \A c \in Budgets : FlightIn(c)' = FlightIn(c)
    BY <2>2 DEF FlightIn
  <2> QED
    BY <2>1, <2>2, <2>3, LoadingKeepsCap
<1>2. ASSUME NEW b \in Budgets, StateForFails(b) PROVE CapKept'
  <2>1. PICK kept \in AfterEviction : states' = [c \in kept |-> states[c]]
    BY <1>2 DEF StateForFails
  <2>2. b \notin DOMAIN states /\ UNCHANGED <<usage, used, session, sent, base>>
    BY <1>2 DEF StateForFails
  <2>3. kept = DOMAIN states
    BY <2>2, NothingIsEvicted
  <2>4. DOMAIN states' = DOMAIN states /\ \A c \in DOMAIN states : states'[c] = states[c]
    BY <2>1, <2>3
  <2>5. \A c \in Budgets : FlightIn(c)' = FlightIn(c) /\ Persisted(c)' = Persisted(c)
    BY <2>2 DEF FlightIn, Persisted
  <2> QED
    BY <2>2, <2>4, <2>5 DEF CapKept
<1>3. ASSUME NEW s \in Sessions, SessionStep(s) PROVE CapKept'
  BY <1>3, SessionKeepsCap
<1>4. ASSUME NEW reason \in {"abort", "crash"}, ProcessEnd(reason) PROVE CapKept'
  <2>1. /\ DOMAIN states' = {} /\ sent' = [b \in Budgets |-> 0]
        /\ base' = [b \in Budgets |-> SumFunction(usage'[b])]
    BY <1>4 DEF ProcessEnd
  <2> QED
    BY <2>1 DEF CapKept, Persisted
<1>5. ASSUME UNCHANGED vars PROVE CapKept'
  <2>1. UNCHANGED <<usage, states, used, session, sent, base>>
    BY <1>5 DEF vars
  <2>2. \A c \in Budgets : FlightIn(c)' = FlightIn(c) /\ Persisted(c)' = Persisted(c)
    BY <2>1 DEF FlightIn, Persisted
  <2> QED
    BY <2>1, <2>2 DEF CapKept
<1> QED
  BY <1>1, <1>2, <1>3, <1>4, <1>5 DEF Next

\* A budget within its own charge is within the allowance.
LEMMA KeptIsExact == AccountingInv /\ CapKept => CapExact
<1> SUFFICES ASSUME AccountingInv, CapKept, NEW b \in Budgets PROVE base[b] + sent[b] <= Limit
  BY DEF CapExact
<1>1. base[b] \in Nat /\ sent[b] \in Nat /\ Limit \in Nat
  BY CustomerDataAssumption DEF AccountingInv, Counters
<1>2. CASE b \in DOMAIN states
  <2>1. SumFunctionOnSet(FlightIn(b), Sessions) \in Nat
    BY FlightNatural DEF AccountingInv
  <2>2. used[states[b]] \in 0..Limit
    BY <1>2 DEF AccountingInv, BudgetInv, LimiterType
  <2>3. base[b] + sent[b] + SumFunctionOnSet(FlightIn(b), Sessions) <= used[states[b]]
    BY <1>2 DEF CapKept
  <2> QED
    BY <1>1, <2>1, <2>2, <2>3
<1>3. CASE b \notin DOMAIN states
  <2>1. sent[b] = 0 /\ base[b] = Persisted(b) /\ SumFunctionOnSet(OutstandingIn(b), Sessions) = 0
    BY <1>3, UncachedSettled DEF CapKept
  <2>2. Persisted(b) + SumFunctionOnSet(OutstandingIn(b), Sessions) <= Limit
    BY DEF AccountingInv, Balanced
  <2> QED
    BY <1>1, <2>1, <2>2
<1> QED
  BY <1>2, <1>3

\* README.md:320, "The account-wide data cap is exact within one running service
\* process": the bytes on the wire, with those the process found in the table,
\* never exceed the allowance, whatever fails, as long as the map of
\* CustomerDataLimiter has room for every account and period it meets.  (When it
\* has not, the cap is not exact: the run customer_data_cap.)
THEOREM CapIsExactWithoutEviction == ASSUME RoomForAll PROVE Spec => []CapExact
<1>1. Init => CapKept
  <2> SUFFICES ASSUME Init, NEW b \in Budgets PROVE Persisted(b) = 0
    BY DEF Init, CapKept
  <2>1. Counters
    BY AccountingInit DEF AccountingInv
  <2>2. \A w \in Workspaces : usage[b][w] = 0
    BY DEF Init
  <2>3. SumFunctionOnSet(usage[b], Workspaces) = 0
    BY <2>2, SumZero, CustomerDataAssumption
  <2> QED
    BY <2>1, <2>3, PersistedNatural
<1>2. AccountingInv /\ AccountingInv' /\ CapKept /\ [Next]_vars => CapKept'
  BY CapStep
<1>3. AccountingInv /\ CapKept => CapExact
  BY KeptIsExact
<1> QED
  BY <1>1, <1>2, <1>3, AccountingInvariant, PTL DEF Spec

=============================================================================

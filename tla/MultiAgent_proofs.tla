-------------------------- MODULE MultiAgent_proofs --------------------------
(***************************************************************************)
(* The safety of run_parallel and of the registry it leases from, for any  *)
(* batch, any agents and capacities, and any size of the executor.  IInv   *)
(* follows one task from the queue to its end: what it holds, what its     *)
(* future holds and what the executor knows of it at each place, and why   *)
(* a task that looked at the registry still knows what it saw.             *)
(***************************************************************************)
EXTENDS MultiAgent, FiniteSetTheorems, TLAPS

AtStart == {"new", "enter", "acquire", "gap", "wait", "execute"}
Settled == {"ready", "refused"}
InQueue(t) == \E i \in 1..Len(waiting) : waiting[i] = t

\* The executor's side of a batch.
PoolOK ==
    /\ open \in BOOLEAN
    /\ waiting \in Seq(Tasks)
    /\ slot \in [Workers -> Tasks \cup {Nobody}]
    /\ fate \in [Tasks -> {"unsubmitted", "pending"} \cup Settled]

\* Only a task that has leased an agent holds one, until it ends.
LeasesInUse ==
    \A t \in Tasks : lease[t] # Nobody => at[t] \in {"execute", "failed", "release"}

\* The two halves of LeasesAreExact.
CountsExact ==
    \A a \in registered : active[a] = Cardinality(Holders(a))
                           /\ active[a] <= MaxConcurrency[a]
LeasesFit == \A t \in Tasks : lease[t] # Nobody => lease[t] \in registered \cap Fits[t]

\* A task that looked for an agent and has not been notified would look in vain.
LookedInVain == \A t \in Tasks : at[t] \in {"gap", "wait"} => Candidates(t) = {}

\* What a future holds is written once, when the task fails, releases or ends.
OutcomesOnce ==
    \A t \in Tasks :
        /\ at[t] \in AtStart => outcome[t] = "none"
        /\ at[t] = "failed" => outcome[t] \in OwnFailures \cup {"cancelled"}
        /\ at[t] = "release" => outcome[t] # "none"

\* A task is new until a worker takes it from the queue, which holds it once, and
\* is over when the executor says so.
FateOfTask ==
    /\ \A t \in Tasks :
           /\ fate[t] = "unsubmitted" => at[t] = "new"
           /\ InQueue(t) => at[t] = "new" /\ fate[t] = "pending"
           /\ fate[t] \in Settled => at[t] = "end"
    /\ \A i, j \in 1..Len(waiting) : waiting[i] = waiting[j] => i = j

\* The coordinator has the outcomes of all tasks before `next`, and then of all.
Collected ==
    /\ phase = "collect" => \A t \in 1..size : t < next => fate[t] \in Settled
    /\ phase = "returned" => \A t \in 1..size : fate[t] \in Settled

IInv ==
    /\ TypeOK /\ PoolOK /\ LeasesInUse /\ LeasesAreExact /\ LookedInVain
    /\ OutcomesOnce /\ CancelHasCause /\ FateOfTask /\ Collected

-----------------------------------------------------------------------------
\* The batch the coordinator was given has a size and a policy.
LEMMA Batch == TypeOK => N \in Nat /\ size \in 0..N /\ failFast \in BOOLEAN
BY MultiAgentAssumption DEF TypeOK

\* The registry is idle, the queue empty and all tasks are new.
LEMMA InitIInv == Init => IInv
<1> SUFFICES ASSUME Init PROVE IInv
  OBVIOUS
<1>1. TypeOK
  <2>1. PICK batch \in Batches : size = batch[1] /\ failFast = batch[2]
    BY DEF Init
  <2>2. batch = <<batch[1], batch[2]>> /\ batch[1] \in 0..N
    BY MultiAgentAssumption
  <2>3. <<size, failFast>> \in Batches /\ next \in 1..(size + 1)
    BY <2>1, <2>2, MultiAgentAssumption DEF Init
  <2> QED BY <2>3, MultiAgentAssumption DEF Init, TypeOK, Tasks, OwnFailures
<1>2. PoolOK /\ FateOfTask
  BY DEF Init, Pool!Init, PoolOK, FateOfTask, InQueue, Settled
<1>3. LeasesInUse /\ LookedInVain /\ OutcomesOnce /\ CancelHasCause /\ Collected
  BY DEF Init, LeasesInUse, LookedInVain, OutcomesOnce, AtStart, CancelHasCause, Collected
<1>4. LeasesAreExact
  <2>1. registered \subseteq Agents /\ active = [a \in Agents |-> 0]
        /\ lease = [t \in Tasks |-> Nobody]
    BY DEF Init
  <2>2. \A a \in registered : Cardinality(Holders(a)) = 0
    <3> SUFFICES ASSUME NEW a \in registered PROVE Cardinality(Holders(a)) = 0
      OBVIOUS
    <3>1. Holders(a) = {}
      BY <2>1, MultiAgentAssumption DEF Holders
    <3> QED BY ONLY <3>1, FS_EmptySet
  <2>3. \A a \in Agents : MaxConcurrency[a] \in Nat
    BY MultiAgentAssumption
  <2> QED BY ONLY <2>1, <2>2, <2>3 DEF LeasesAreExact
<1> QED BY <1>1, <1>2, <1>3, <1>4 DEF IInv

\* The task at the head of the queue, and the next one to be submitted, are new.
LEMMA HeadIsNew ==
    ASSUME IInv, waiting # <<>>
    PROVE  /\ Head(waiting) \in Tasks
           /\ at[Head(waiting)] = "new" /\ fate[Head(waiting)] = "pending"
<1>1. waiting \in Seq(Tasks) /\ FateOfTask
  BY DEF IInv, PoolOK
<1>2. 1 \in 1..Len(waiting) /\ waiting[1] = Head(waiting) /\ Head(waiting) \in Tasks
  BY <1>1
<1> QED BY <1>1, <1>2 DEF FateOfTask, InQueue

LEMMA NextIsNew ==
    ASSUME IInv, next <= size
    PROVE  next \in Tasks /\ (fate[next] = "unsubmitted" => at[next] = "new" /\ ~InQueue(next))
<1>1. next \in Tasks
  BY Batch DEF IInv, TypeOK, Tasks
<1> QED BY <1>1 DEF IInv, FateOfTask

\* Types of the executor's side.
LEMMA PoolStep == ASSUME IInv, [Next]_vars PROVE PoolOK'
<1>0. PoolOK
  BY DEF IInv
<1> USE <1>0 DEF PoolOK, Settled, registry, pool, options, coordinator
<1>1. CASE Submit
  <2>1. next \in Tasks
    BY <1>1, NextIsNew DEF Submit
  <2>2. CASE Pool!Accept(next)
    BY <2>1, <2>2 DEF Pool!Accept
  <2>3. CASE Pool!Refuse(next)
    BY <2>1, <2>3 DEF Pool!Refuse
  <2> QED BY <1>1, <2>2, <2>3 DEF Submit
<1>2. CASE AllSubmitted
  BY <1>2 DEF AllSubmitted
<1>3. CASE Collect
  BY <1>3 DEF Collect
<1>4. CASE ReturnOutcomes
  BY <1>4 DEF ReturnOutcomes
<1>5. CASE CallerStops
  BY <1>5 DEF CallerStops
<1>6. CASE ExecutorStops
  BY <1>6 DEF ExecutorStops, Pool!Close
<1>7. ASSUME NEW a \in Agents, Add(a) PROVE PoolOK'
  BY <1>7 DEF Add
<1>8. ASSUME NEW a \in Agents, RemoveAgent(a) PROVE PoolOK'
  BY <1>8 DEF RemoveAgent
<1>9. ASSUME NEW t \in Tasks, AcquireEnter(t) PROVE PoolOK'
  BY <1>9 DEF AcquireEnter
<1>10. ASSUME NEW t \in Tasks, AcquireLease(t) PROVE PoolOK'
  BY <1>10 DEF AcquireLease
<1>11. ASSUME NEW t \in Tasks, AcquireBlocked(t) PROVE PoolOK'
  BY <1>11 DEF AcquireBlocked
<1>12. ASSUME NEW t \in Tasks, AcquireSleep(t) PROVE PoolOK'
  BY <1>12 DEF AcquireSleep
<1>13. ASSUME NEW t \in Tasks, WakeLate(t) PROVE PoolOK'
  BY <1>13 DEF WakeLate
<1>14. ASSUME NEW t \in Tasks, Execute(t) PROVE PoolOK'
  BY <1>14 DEF Execute
<1>15. ASSUME NEW t \in Tasks, ActOnFailure(t) PROVE PoolOK'
  BY <1>15 DEF ActOnFailure
<1>16. ASSUME NEW t \in Tasks, Release(t) PROVE PoolOK'
  BY <1>16 DEF Release
<1>17. ASSUME NEW t \in Tasks, DeadlinePasses(t) PROVE PoolOK'
  BY <1>17 DEF DeadlinePasses
<1>18. ASSUME NEW w \in Workers, TaskBegin(w) PROVE PoolOK'
  BY <1>18 DEF TaskBegin, Pool!Start
<1>19. ASSUME NEW w \in Workers, TaskEnd(w) PROVE PoolOK'
  BY <1>19 DEF TaskEnd, Pool!Finish
<1>20. CASE UNCHANGED vars
  BY <1>20 DEF vars
<1> QED
  BY <1>1, <1>2, <1>3, <1>4, <1>5, <1>6, <1>7, <1>8, <1>9, <1>10,
     <1>11, <1>12, <1>13, <1>14, <1>15, <1>16, <1>17, <1>18, <1>19, <1>20
  DEF Next, Coordinate, TaskStep

\* Types of the rest of the state.
LEMMA TypeStep == ASSUME IInv, [Next]_vars PROVE TypeOK'
<1>0. TypeOK /\ PoolOK /\ N \in Nat /\ size \in 0..N /\ failFast \in BOOLEAN
  BY Batch DEF IInv
<1>a. OutcomesOnce
  BY DEF IInv
<1>b. /\ at \in [Tasks -> {"new", "enter", "acquire", "gap", "wait", "execute",
                          "failed", "release", "end"}]
      /\ outcome \in [Tasks -> {"none", "success", "cancelled"} \cup OwnFailures]
  BY <1>0 DEF TypeOK
<1>c. /\ \A u \in Tasks : at[u] \in {"execute", "release"} => lease[u] # Nobody
      /\ \A u \in Tasks : at[u] = "end" => outcome[u] # "none"
  BY <1>0 DEF TypeOK
<1> USE <1>0, MultiAgentAssumption DEF TypeOK, PoolOK, Tasks, OwnFailures, Goto,
    Notified, StopAll, Fail, End, SetOutcome, GiveUp, ReleaseNotify, registry, pool,
    options, coordinator
<1>1. CASE Submit
  <2>0. /\ UNCHANGED <<registered, active, lease, late>>
        /\ \/ at' = at /\ outcome' = outcome
           \/ /\ outcome' = [outcome EXCEPT ![next] = "refused"]
              /\ at' \in {[at EXCEPT ![next] = "end"], Notified([at EXCEPT ![next] = "end"])}
    BY ONLY <1>1 DEF Submit, SetOutcome, Fail, StopAll, End, registry
  <2>1. registered' \subseteq Agents /\ active' \in [Agents -> Nat] /\ late' \subseteq Tasks
    BY <2>0
  <2>2. /\ at' \in [Tasks -> {"new", "enter", "acquire", "gap", "wait", "execute",
                             "failed", "release", "end"}]
        /\ lease' \in [Tasks -> Agents \cup {Nobody}]
        /\ outcome' \in [Tasks -> {"none", "success", "cancelled"} \cup OwnFailures]
    <3>1. lease \in [Tasks -> Agents \cup {Nobody}]
      BY <1>0 DEF TypeOK
    <3> QED BY ONLY <2>0, <1>b, <3>1 DEF Notified, OwnFailures
  <2>3. /\ \A u \in Tasks : at'[u] \in {"execute", "release"} => lease'[u] # Nobody
        /\ \A u \in Tasks : at'[u] = "end" => outcome'[u] # "none"
    BY ONLY <2>0, <1>b, <1>c DEF Notified
  <2>4. stopped' \in BOOLEAN /\ asked' \in BOOLEAN
    BY <1>1 DEF Submit, Pool!Accept, Pool!Refuse, Pool!MustRefuse
  <2>5. next' \in 1..(size' + 1) /\ phase' \in {"submit", "collect", "returned"}
    BY <1>1 DEF Submit, Pool!Accept, Pool!Refuse, Pool!MustRefuse
  <2>6. <<size, failFast>>' \in Batches
    BY <1>1 DEF Submit, Pool!Accept, Pool!Refuse, Pool!MustRefuse
  <2> QED BY <2>1, <2>2, <2>3, <2>4, <2>5, <2>6 DEF TypeOK
<1>2. CASE AllSubmitted
  BY <1>2 DEF AllSubmitted
<1>3. CASE Collect
  <2>1. registered' \subseteq Agents /\ active' \in [Agents -> Nat] /\ late' \subseteq Tasks
    BY <1>3 DEF Collect
  <2>2. /\ at' \in [Tasks -> {"new", "enter", "acquire", "gap", "wait", "execute",
                             "failed", "release", "end"}]
        /\ lease' \in [Tasks -> Agents \cup {Nobody}]
        /\ outcome' \in [Tasks -> {"none", "success", "cancelled"} \cup OwnFailures]
    BY <1>3 DEF Collect
  <2>3. /\ \A u \in Tasks : at'[u] \in {"execute", "release"} => lease'[u] # Nobody
        /\ \A u \in Tasks : at'[u] = "end" => outcome'[u] # "none"
    BY <1>3 DEF Collect
  <2>4. stopped' \in BOOLEAN /\ asked' \in BOOLEAN
    BY <1>3 DEF Collect
  <2>5. next' \in 1..(size' + 1) /\ phase' \in {"submit", "collect", "returned"}
    BY <1>3 DEF Collect
  <2>6. <<size, failFast>>' \in Batches
    BY <1>3 DEF Collect
  <2> QED BY <2>1, <2>2, <2>3, <2>4, <2>5, <2>6 DEF TypeOK
<1>4. CASE ReturnOutcomes
  BY <1>4 DEF ReturnOutcomes
<1>5. CASE CallerStops
  BY <1>5 DEF CallerStops
<1>6. CASE ExecutorStops
  BY <1>6 DEF ExecutorStops, Pool!Close
<1>7. ASSUME NEW a \in Agents, Add(a) PROVE TypeOK'
  BY <1>7 DEF Add
<1>8. ASSUME NEW a \in Agents, RemoveAgent(a) PROVE TypeOK'
  BY <1>8 DEF RemoveAgent
<1>9. ASSUME NEW t \in Tasks, AcquireEnter(t) PROVE TypeOK'
  <2>1. CASE Goto(t, "enter", "acquire") /\ outcome' = outcome
    BY <1>9, <2>1 DEF AcquireEnter
  <2>2. CASE GiveUp(t, "agent_not_found")
    BY <1>9, <2>2 DEF AcquireEnter
  <2> QED BY <1>9, <2>1, <2>2 DEF AcquireEnter
<1>10. ASSUME NEW t \in Tasks, AcquireLease(t) PROVE TypeOK'
  BY SMTT(30), <1>10 DEF AcquireLease
<1>11. ASSUME NEW t \in Tasks, AcquireBlocked(t) PROVE TypeOK'
  <2>1. registered' \subseteq Agents /\ active' \in [Agents -> Nat] /\ late' \subseteq Tasks
    BY <1>11 DEF AcquireBlocked
  <2>2. /\ at' \in [Tasks -> {"new", "enter", "acquire", "gap", "wait", "execute",
                             "failed", "release", "end"}]
        /\ lease' \in [Tasks -> Agents \cup {Nobody}]
        /\ outcome' \in [Tasks -> {"none", "success", "cancelled"} \cup OwnFailures]
    <3>1. CASE GiveUp(t, "cancelled")
      BY <1>11, <3>1 DEF AcquireBlocked
    <3>2. CASE GiveUp(t, "agent_capacity_timeout")
      BY <1>11, <3>2 DEF AcquireBlocked
    <3>3. CASE Goto(t, "acquire", "gap") /\ outcome' = outcome
      BY <1>11, <3>3 DEF AcquireBlocked
    <3> QED BY <1>11, <3>1, <3>2, <3>3 DEF AcquireBlocked
  <2>3. /\ \A u \in Tasks : at'[u] \in {"execute", "release"} => lease'[u] # Nobody
        /\ \A u \in Tasks : at'[u] = "end" => outcome'[u] # "none"
    BY SMTT(30), <1>11 DEF AcquireBlocked
  <2>4. stopped' \in BOOLEAN /\ asked' \in BOOLEAN
    BY <1>11 DEF AcquireBlocked
  <2>5. next' \in 1..(size' + 1) /\ phase' \in {"submit", "collect", "returned"}
    BY <1>11 DEF AcquireBlocked
  <2>6. <<size, failFast>>' \in Batches
    BY <1>11 DEF AcquireBlocked
  <2> QED BY <2>1, <2>2, <2>3, <2>4, <2>5, <2>6 DEF TypeOK
<1>12. ASSUME NEW t \in Tasks, AcquireSleep(t) PROVE TypeOK'
  BY <1>12 DEF AcquireSleep
<1>13. ASSUME NEW t \in Tasks, WakeLate(t) PROVE TypeOK'
  BY <1>13 DEF WakeLate
<1>14. ASSUME NEW t \in Tasks, Execute(t) PROVE TypeOK'
  BY <1>14 DEF Execute
<1>15. ASSUME NEW t \in Tasks, ActOnFailure(t) PROVE TypeOK'
  <2>1. registered' \subseteq Agents /\ active' \in [Agents -> Nat] /\ late' \subseteq Tasks
    BY <1>15 DEF ActOnFailure, OutcomesOnce
  <2>2. /\ at' \in [Tasks -> {"new", "enter", "acquire", "gap", "wait", "execute",
                             "failed", "release", "end"}]
        /\ lease' \in [Tasks -> Agents \cup {Nobody}]
        /\ outcome' \in [Tasks -> {"none", "success", "cancelled"} \cup OwnFailures]
    BY <1>15 DEF ActOnFailure, OutcomesOnce
  <2>3. /\ \A u \in Tasks : at'[u] \in {"execute", "release"} => lease'[u] # Nobody
        /\ \A u \in Tasks : at'[u] = "end" => outcome'[u] # "none"
    <3>1. outcome' = outcome /\ lease' = lease /\ outcome[t] # "none"
      BY <1>15, <1>a DEF ActOnFailure, OutcomesOnce
    <3>2. \A u \in Tasks : at'[u] = "end" => u = t \/ at[u] = "end"
      BY <1>15 DEF ActOnFailure
    <3>3. \A u \in Tasks : at'[u] \in {"execute", "release"} =>
              lease[u] # Nobody \/ at[u] \in {"execute", "release"}
      BY SMTT(30), <1>15 DEF ActOnFailure
    <3> QED BY <3>1, <3>2, <3>3
  <2>4. stopped' \in BOOLEAN /\ asked' \in BOOLEAN
    BY <1>15 DEF ActOnFailure, OutcomesOnce
  <2>5. next' \in 1..(size' + 1) /\ phase' \in {"submit", "collect", "returned"}
    BY <1>15 DEF ActOnFailure, OutcomesOnce
  <2>6. <<size, failFast>>' \in Batches
    BY <1>15 DEF ActOnFailure, OutcomesOnce
  <2> QED BY <2>1, <2>2, <2>3, <2>4, <2>5, <2>6 DEF TypeOK
<1>16. ASSUME NEW t \in Tasks, Release(t) PROVE TypeOK'
  <2>1. registered' \subseteq Agents /\ active' \in [Agents -> Nat] /\ late' \subseteq Tasks
    BY <1>16 DEF Release, OutcomesOnce
  <2>2. /\ at' \in [Tasks -> {"new", "enter", "acquire", "gap", "wait", "execute",
                             "failed", "release", "end"}]
        /\ lease' \in [Tasks -> Agents \cup {Nobody}]
        /\ outcome' \in [Tasks -> {"none", "success", "cancelled"} \cup OwnFailures]
    BY <1>16 DEF Release, OutcomesOnce
  <2>3. /\ \A u \in Tasks : at'[u] \in {"execute", "release"} => lease'[u] # Nobody
        /\ \A u \in Tasks : at'[u] = "end" => outcome'[u] # "none"
    BY <1>16, <1>a DEF Release, OutcomesOnce
  <2>4. stopped' \in BOOLEAN /\ asked' \in BOOLEAN
    BY <1>16 DEF Release, OutcomesOnce
  <2>5. next' \in 1..(size' + 1) /\ phase' \in {"submit", "collect", "returned"}
    BY <1>16 DEF Release, OutcomesOnce
  <2>6. <<size, failFast>>' \in Batches
    BY <1>16 DEF Release, OutcomesOnce
  <2> QED BY <2>1, <2>2, <2>3, <2>4, <2>5, <2>6 DEF TypeOK
<1>17. ASSUME NEW t \in Tasks, DeadlinePasses(t) PROVE TypeOK'
  BY <1>17 DEF DeadlinePasses
<1>18. ASSUME NEW w \in Workers, TaskBegin(w) PROVE TypeOK'
  <2>1. /\ Head(waiting) \in Tasks /\ stopped' \in BOOLEAN
        /\ UNCHANGED <<registered, active, lease, late, asked, next, phase, size, failFast>>
    BY <1>18, HeadIsNew DEF TaskBegin, Pool!Start
  <2>2. \/ /\ at' \in {[at EXCEPT ![Head(waiting)] = "end"],
                      Notified([at EXCEPT ![Head(waiting)] = "end"])}
           /\ outcome' = [outcome EXCEPT ![Head(waiting)] = "cancelled"]
        \/ /\ at' \in {[at EXCEPT ![Head(waiting)] = "enter"],
                      Notified([at EXCEPT ![Head(waiting)] = "enter"])}
           /\ outcome' = outcome
    <3>1. outcome = [outcome EXCEPT ![Head(waiting)] = @]
      BY <2>1
    <3>2. CASE stopped'
      BY ONLY ZenonT(60), <1>18, <2>1, <3>2, <1>0 DEF TaskBegin, TypeOK
    <3>3. CASE ~stopped'
      BY ONLY <1>18, <2>1, <3>1, <3>3, <1>0 DEF TaskBegin, TypeOK
    <3> QED BY <3>2, <3>3
  <2>3. /\ at' \in [Tasks -> {"new", "enter", "acquire", "gap", "wait", "execute",
                             "failed", "release", "end"}]
        /\ outcome' \in [Tasks -> {"none", "success", "cancelled"} \cup OwnFailures]
    BY ONLY <2>1, <2>2, <1>b DEF Notified, OwnFailures
  <2>4. /\ \A u \in Tasks : at'[u] \in {"execute", "release"} => lease[u] # Nobody
        /\ \A u \in Tasks : at'[u] = "end" => outcome'[u] # "none"
    BY ONLY <2>1, <2>2, <1>b, <1>c DEF Notified
  <2> QED BY <2>1, <2>3, <2>4
<1>19. ASSUME NEW w \in Workers, TaskEnd(w) PROVE TypeOK'
  BY <1>19 DEF TaskEnd, Pool!Finish
<1>20. CASE UNCHANGED vars
  BY <1>20 DEF vars
<1> QED
  BY <1>1, <1>2, <1>3, <1>4, <1>5, <1>6, <1>7, <1>8, <1>9, <1>10,
     <1>11, <1>12, <1>13, <1>14, <1>15, <1>16, <1>17, <1>18, <1>19, <1>20
  DEF Next, Coordinate, TaskStep

\* A task gets a lease at "execute", keeps it while it fails or releases, and has none
\* at its end.
LEMMA InUseStep == ASSUME IInv, [Next]_vars PROVE LeasesInUse'
<1>0. TypeOK /\ PoolOK /\ N \in Nat /\ size \in 0..N /\ failFast \in BOOLEAN
  BY Batch DEF IInv
<1>a. LeasesInUse
  BY DEF IInv
<1> USE <1>0, <1>a DEF TypeOK, PoolOK, LeasesInUse, Tasks, Goto, Notified, StopAll,
    Fail, End, SetOutcome, GiveUp, ReleaseNotify, registry, pool, options,
    coordinator
<1>1. CASE Submit
  BY <1>1, NextIsNew DEF Submit, Pool!Accept, Pool!Refuse, Pool!MustRefuse
<1>2. CASE AllSubmitted
  BY <1>2 DEF AllSubmitted
<1>3. CASE Collect
  BY <1>3 DEF Collect
<1>4. CASE ReturnOutcomes
  BY <1>4 DEF ReturnOutcomes
<1>5. CASE CallerStops
  BY <1>5 DEF CallerStops
<1>6. CASE ExecutorStops
  BY <1>6 DEF ExecutorStops, Pool!Close
<1>7. ASSUME NEW a \in Agents, Add(a) PROVE LeasesInUse'
  BY <1>7 DEF Add
<1>8. ASSUME NEW a \in Agents, RemoveAgent(a) PROVE LeasesInUse'
  BY <1>8 DEF RemoveAgent
<1>9. ASSUME NEW t \in Tasks, AcquireEnter(t) PROVE LeasesInUse'
  BY <1>9 DEF AcquireEnter
<1>10. ASSUME NEW t \in Tasks, AcquireLease(t) PROVE LeasesInUse'
  BY <1>10 DEF AcquireLease
<1>11. ASSUME NEW t \in Tasks, AcquireBlocked(t) PROVE LeasesInUse'
  BY <1>11 DEF AcquireBlocked
<1>12. ASSUME NEW t \in Tasks, AcquireSleep(t) PROVE LeasesInUse'
  BY <1>12 DEF AcquireSleep
<1>13. ASSUME NEW t \in Tasks, WakeLate(t) PROVE LeasesInUse'
  BY <1>13 DEF WakeLate
<1>14. ASSUME NEW t \in Tasks, Execute(t) PROVE LeasesInUse'
  BY <1>14 DEF Execute
<1>15. ASSUME NEW t \in Tasks, ActOnFailure(t) PROVE LeasesInUse'
  BY SMTT(30), <1>15 DEF ActOnFailure
<1>16. ASSUME NEW t \in Tasks, Release(t) PROVE LeasesInUse'
  BY <1>16 DEF Release
<1>17. ASSUME NEW t \in Tasks, DeadlinePasses(t) PROVE LeasesInUse'
  BY <1>17 DEF DeadlinePasses
<1>18. ASSUME NEW w \in Workers, TaskBegin(w) PROVE LeasesInUse'
  BY <1>18, HeadIsNew DEF TaskBegin, Pool!Start
<1>19. ASSUME NEW w \in Workers, TaskEnd(w) PROVE LeasesInUse'
  BY <1>19 DEF TaskEnd, Pool!Finish
<1>20. CASE UNCHANGED vars
  BY <1>20 DEF vars
<1> QED
  BY <1>1, <1>2, <1>3, <1>4, <1>5, <1>6, <1>7, <1>8, <1>9, <1>10,
     <1>11, <1>12, <1>13, <1>14, <1>15, <1>16, <1>17, <1>18, <1>19, <1>20
  DEF Next, Coordinate, TaskStep

\* What makes a fitting agent free also sends every sleeper back to look, and cannot
\* happen while a task is between its look and its sleep.
LEMMA LookedStep == ASSUME IInv, [Next]_vars PROVE LookedInVain'
<1>0. TypeOK /\ PoolOK /\ N \in Nat /\ size \in 0..N /\ failFast \in BOOLEAN
  BY Batch DEF IInv
<1>a. LookedInVain
  BY DEF IInv
<1> USE MultiAgentAssumption, <1>0, <1>a DEF TypeOK, PoolOK, LookedInVain, Tasks,
    Candidates, HasRoom, MutexFree, Goto, Notified, StopAll, Fail, End, SetOutcome,
    GiveUp, ReleaseNotify, registry, pool, options, coordinator
<1>1. CASE Submit
  BY SMTT(30), <1>1 DEF Submit, Pool!Accept, Pool!Refuse, Pool!MustRefuse
<1>2. CASE AllSubmitted
  BY <1>2 DEF AllSubmitted
<1>3. CASE Collect
  <2>1. at' \in {at, Notified(at)} /\ UNCHANGED <<registered, active>>
    BY <1>3 DEF Collect
  <2> QED BY <2>1
<1>4. CASE ReturnOutcomes
  BY <1>4 DEF ReturnOutcomes
<1>5. CASE CallerStops
  BY <1>5 DEF CallerStops
<1>6. CASE ExecutorStops
  BY <1>6 DEF ExecutorStops, Pool!Close
<1>7. ASSUME NEW a \in Agents, Add(a) PROVE LookedInVain'
  BY <1>7 DEF Add
<1>8. ASSUME NEW a \in Agents, RemoveAgent(a) PROVE LookedInVain'
  BY <1>8 DEF RemoveAgent
<1>9. ASSUME NEW t \in Tasks, AcquireEnter(t) PROVE LookedInVain'
  BY <1>9 DEF AcquireEnter
<1>10. ASSUME NEW t \in Tasks, AcquireLease(t) PROVE LookedInVain'
  BY <1>10 DEF AcquireLease
<1>11. ASSUME NEW t \in Tasks, AcquireBlocked(t) PROVE LookedInVain'
  BY <1>11 DEF AcquireBlocked
<1>12. ASSUME NEW t \in Tasks, AcquireSleep(t) PROVE LookedInVain'
  BY <1>12 DEF AcquireSleep
<1>13. ASSUME NEW t \in Tasks, WakeLate(t) PROVE LookedInVain'
  BY <1>13 DEF WakeLate
<1>14. ASSUME NEW t \in Tasks, Execute(t) PROVE LookedInVain'
  BY <1>14 DEF Execute
<1>15. ASSUME NEW t \in Tasks, ActOnFailure(t) PROVE LookedInVain'
  BY SMTT(30), <1>15 DEF ActOnFailure
<1>16. ASSUME NEW t \in Tasks, Release(t) PROVE LookedInVain'
  BY <1>16 DEF Release
<1>17. ASSUME NEW t \in Tasks, DeadlinePasses(t) PROVE LookedInVain'
  BY <1>17 DEF DeadlinePasses
<1>18. ASSUME NEW w \in Workers, TaskBegin(w) PROVE LookedInVain'
  BY ZenonT(60), <1>18 DEF TaskBegin, Pool!Start
<1>19. ASSUME NEW w \in Workers, TaskEnd(w) PROVE LookedInVain'
  BY <1>19 DEF TaskEnd, Pool!Finish
<1>20. CASE UNCHANGED vars
  BY <1>20 DEF vars
<1> QED
  BY <1>1, <1>2, <1>3, <1>4, <1>5, <1>6, <1>7, <1>8, <1>9, <1>10,
     <1>11, <1>12, <1>13, <1>14, <1>15, <1>16, <1>17, <1>18, <1>19, <1>20
  DEF Next, Coordinate, TaskStep

\* No outcome is overwritten.
LEMMA OutcomesStep == ASSUME IInv, [Next]_vars PROVE OutcomesOnce'
<1>0. TypeOK /\ PoolOK /\ N \in Nat /\ size \in 0..N /\ failFast \in BOOLEAN
  BY Batch DEF IInv
<1>a. OutcomesOnce /\ FateOfTask
  BY DEF IInv
<1> USE <1>0, <1>a DEF TypeOK, PoolOK, OutcomesOnce, AtStart, OwnFailures, Tasks,
    Goto, Notified, StopAll, Fail, End, SetOutcome, GiveUp, ReleaseNotify, registry,
    pool, options, coordinator
<1>1. CASE Submit
  BY <1>1, NextIsNew DEF Submit, Pool!Accept, Pool!Refuse, Pool!MustRefuse
<1>2. CASE AllSubmitted
  BY <1>2 DEF AllSubmitted
<1>3. CASE Collect
  BY <1>3 DEF Collect
<1>4. CASE ReturnOutcomes
  BY <1>4 DEF ReturnOutcomes
<1>5. CASE CallerStops
  BY <1>5 DEF CallerStops
<1>6. CASE ExecutorStops
  BY <1>6 DEF ExecutorStops, Pool!Close
<1>7. ASSUME NEW a \in Agents, Add(a) PROVE OutcomesOnce'
  BY <1>7 DEF Add
<1>8. ASSUME NEW a \in Agents, RemoveAgent(a) PROVE OutcomesOnce'
  BY <1>8 DEF RemoveAgent
<1>9. ASSUME NEW t \in Tasks, AcquireEnter(t) PROVE OutcomesOnce'
  BY <1>9 DEF AcquireEnter
<1>10. ASSUME NEW t \in Tasks, AcquireLease(t) PROVE OutcomesOnce'
  BY <1>10 DEF AcquireLease
<1>11. ASSUME NEW t \in Tasks, AcquireBlocked(t) PROVE OutcomesOnce'
  BY <1>11 DEF AcquireBlocked
<1>12. ASSUME NEW t \in Tasks, AcquireSleep(t) PROVE OutcomesOnce'
  BY <1>12 DEF AcquireSleep
<1>13. ASSUME NEW t \in Tasks, WakeLate(t) PROVE OutcomesOnce'
  BY <1>13 DEF WakeLate
<1>14. ASSUME NEW t \in Tasks, Execute(t) PROVE OutcomesOnce'
  BY <1>14 DEF Execute
<1>15. ASSUME NEW t \in Tasks, ActOnFailure(t) PROVE OutcomesOnce'
  BY ZenonT(60), <1>15 DEF ActOnFailure
<1>16. ASSUME NEW t \in Tasks, Release(t) PROVE OutcomesOnce'
  BY <1>16 DEF Release
<1>17. ASSUME NEW t \in Tasks, DeadlinePasses(t) PROVE OutcomesOnce'
  BY <1>17 DEF DeadlinePasses
<1>18. ASSUME NEW w \in Workers, TaskBegin(w) PROVE OutcomesOnce'
  BY SMTT(30), <1>18, HeadIsNew DEF TaskBegin, Pool!Start
<1>19. ASSUME NEW w \in Workers, TaskEnd(w) PROVE OutcomesOnce'
  BY <1>19 DEF TaskEnd, Pool!Finish
<1>20. CASE UNCHANGED vars
  BY <1>20 DEF vars
<1> QED
  BY <1>1, <1>2, <1>3, <1>4, <1>5, <1>6, <1>7, <1>8, <1>9, <1>10,
     <1>11, <1>12, <1>13, <1>14, <1>15, <1>16, <1>17, <1>18, <1>19, <1>20
  DEF Next, Coordinate, TaskStep

\* A failure is in its outcome before it stops the batch, and stays there.
LEMMA CauseStep == ASSUME IInv, [Next]_vars PROVE CancelHasCause'
<1>0. TypeOK /\ PoolOK /\ N \in Nat /\ size \in 0..N /\ failFast \in BOOLEAN
  BY Batch DEF IInv
<1>a. CancelHasCause /\ OutcomesOnce /\ FateOfTask
  BY DEF IInv
<1> USE <1>0, <1>a DEF TypeOK, PoolOK, CancelHasCause, OutcomesOnce, AtStart,
    OwnFailures, Tasks, Goto, Notified, StopAll, Fail, End, SetOutcome, GiveUp,
    ReleaseNotify, registry, pool, options, coordinator
<1>1. CASE Submit
  BY SMTT(30), <1>1, NextIsNew DEF Submit, Pool!Accept, Pool!Refuse, Pool!MustRefuse
<1>2. CASE AllSubmitted
  BY <1>2 DEF AllSubmitted
<1>3. CASE Collect
  BY <1>3 DEF Collect
<1>4. CASE ReturnOutcomes
  BY <1>4 DEF ReturnOutcomes
<1>5. CASE CallerStops
  BY <1>5 DEF CallerStops
<1>6. CASE ExecutorStops
  BY <1>6 DEF ExecutorStops, Pool!Close
<1>7. ASSUME NEW a \in Agents, Add(a) PROVE CancelHasCause'
  BY <1>7 DEF Add
<1>8. ASSUME NEW a \in Agents, RemoveAgent(a) PROVE CancelHasCause'
  BY <1>8 DEF RemoveAgent
<1>9. ASSUME NEW t \in Tasks, AcquireEnter(t) PROVE CancelHasCause'
  BY <1>9 DEF AcquireEnter
<1>10. ASSUME NEW t \in Tasks, AcquireLease(t) PROVE CancelHasCause'
  BY <1>10 DEF AcquireLease
<1>11. ASSUME NEW t \in Tasks, AcquireBlocked(t) PROVE CancelHasCause'
  BY SMTT(30), <1>11 DEF AcquireBlocked
<1>12. ASSUME NEW t \in Tasks, AcquireSleep(t) PROVE CancelHasCause'
  BY <1>12 DEF AcquireSleep
<1>13. ASSUME NEW t \in Tasks, WakeLate(t) PROVE CancelHasCause'
  BY <1>13 DEF WakeLate
<1>14. ASSUME NEW t \in Tasks, Execute(t) PROVE CancelHasCause'
  BY <1>14 DEF Execute
<1>15. ASSUME NEW t \in Tasks, ActOnFailure(t) PROVE CancelHasCause'
  BY <1>15 DEF ActOnFailure
<1>16. ASSUME NEW t \in Tasks, Release(t) PROVE CancelHasCause'
  BY <1>16 DEF Release
<1>17. ASSUME NEW t \in Tasks, DeadlinePasses(t) PROVE CancelHasCause'
  BY <1>17 DEF DeadlinePasses
<1>18. ASSUME NEW w \in Workers, TaskBegin(w) PROVE CancelHasCause'
  BY <1>18, HeadIsNew DEF TaskBegin, Pool!Start
<1>19. ASSUME NEW w \in Workers, TaskEnd(w) PROVE CancelHasCause'
  BY <1>19 DEF TaskEnd, Pool!Finish
<1>20. CASE UNCHANGED vars
  BY <1>20 DEF vars
<1> QED
  BY <1>1, <1>2, <1>3, <1>4, <1>5, <1>6, <1>7, <1>8, <1>9, <1>10,
     <1>11, <1>12, <1>13, <1>14, <1>15, <1>16, <1>17, <1>18, <1>19, <1>20
  DEF Next, Coordinate, TaskStep

\* A task enters the queue once, leaves it when a worker takes it, and is settled by
\* the executor after it has ended, or by the coordinator with its end.
LEMMA FateStep == ASSUME IInv, [Next]_vars PROVE FateOfTask'
<1>0. TypeOK /\ PoolOK /\ N \in Nat /\ size \in 0..N /\ failFast \in BOOLEAN
  BY Batch DEF IInv
<1>a. FateOfTask
  BY DEF IInv
<1> USE <1>0, <1>a DEF TypeOK, PoolOK, FateOfTask, InQueue, Settled, Tasks, Goto,
    Notified, StopAll, Fail, End, SetOutcome, GiveUp, ReleaseNotify, registry, pool,
    options, coordinator
<1>1. CASE Submit
  <2>1. CASE Pool!Accept(next)
    <3>1. /\ waiting' = Append(waiting, next) /\ at' = at
          /\ fate' = [fate EXCEPT ![next] = "pending"]
      BY <1>1, <2>1 DEF Submit, Pool!Accept, Pool!Refuse, Pool!MustRefuse
    <3>2. /\ Len(waiting') = Len(waiting) + 1 /\ waiting'[Len(waiting) + 1] = next
          /\ \A i \in 1..Len(waiting) : waiting'[i] = waiting[i]
      BY <3>1, NextIsNew, <1>1 DEF Submit
    <3>3. fate[next] = "unsubmitted" /\ at[next] = "new"
          /\ \A i \in 1..Len(waiting) : waiting[i] # next
      BY <1>1, <2>1, NextIsNew DEF Submit, Pool!Accept
    <3> QED BY SMTT(30), <3>1, <3>2, <3>3
  <2>2. CASE Pool!Refuse(next)
    <3>1. waiting' = waiting /\ fate' = [fate EXCEPT ![next] = "refused"] /\ at[next] = "new"
      BY <1>1, <2>2, NextIsNew DEF Submit, Pool!Refuse
    <3>2. \A u \in Tasks : at[u] = "new" /\ u # next => at'[u] = "new"
      BY <1>1, <2>2, NextIsNew DEF Submit, Pool!Refuse, Pool!Accept, Pool!MustRefuse
    <3>3. at'[next] = "end" /\ \A u \in Tasks : at[u] = "end" => at'[u] = "end"
      BY <1>1, <2>2, NextIsNew DEF Submit, Pool!Refuse, Pool!Accept, Pool!MustRefuse
    <3>4. \A i \in 1..Len(waiting) : waiting[i] # next
      BY <1>1, <2>2, NextIsNew DEF Submit, Pool!Refuse
    <3> QED BY <3>1, <3>2, <3>3, <3>4
  <2> QED BY <1>1, <2>1, <2>2 DEF Submit
<1>2. CASE AllSubmitted
  BY <1>2 DEF AllSubmitted
<1>3. CASE Collect
  BY SMTT(30), <1>3 DEF Collect
<1>4. CASE ReturnOutcomes
  BY <1>4 DEF ReturnOutcomes
<1>5. CASE CallerStops
  BY <1>5 DEF CallerStops
<1>6. CASE ExecutorStops
  BY <1>6 DEF ExecutorStops, Pool!Close
<1>7. ASSUME NEW a \in Agents, Add(a) PROVE FateOfTask'
  BY <1>7 DEF Add
<1>8. ASSUME NEW a \in Agents, RemoveAgent(a) PROVE FateOfTask'
  BY <1>8 DEF RemoveAgent
<1>9. ASSUME NEW t \in Tasks, AcquireEnter(t) PROVE FateOfTask'
  BY SMTT(30), <1>9 DEF AcquireEnter
<1>10. ASSUME NEW t \in Tasks, AcquireLease(t) PROVE FateOfTask'
  BY SMTT(30), <1>10 DEF AcquireLease
<1>11. ASSUME NEW t \in Tasks, AcquireBlocked(t) PROVE FateOfTask'
  BY SMTT(30), <1>11 DEF AcquireBlocked
<1>12. ASSUME NEW t \in Tasks, AcquireSleep(t) PROVE FateOfTask'
  BY <1>12 DEF AcquireSleep
<1>13. ASSUME NEW t \in Tasks, WakeLate(t) PROVE FateOfTask'
  BY <1>13 DEF WakeLate
<1>14. ASSUME NEW t \in Tasks, Execute(t) PROVE FateOfTask'
  BY <1>14 DEF Execute
<1>15. ASSUME NEW t \in Tasks, ActOnFailure(t) PROVE FateOfTask'
  BY SMTT(30), <1>15 DEF ActOnFailure
<1>16. ASSUME NEW t \in Tasks, Release(t) PROVE FateOfTask'
  BY <1>16 DEF Release
<1>17. ASSUME NEW t \in Tasks, DeadlinePasses(t) PROVE FateOfTask'
  BY <1>17 DEF DeadlinePasses
<1>18. ASSUME NEW w \in Workers, TaskBegin(w) PROVE FateOfTask'
  <2>1. waiting # <<>> /\ waiting' = Tail(waiting) /\ fate' = fate
    BY <1>18 DEF TaskBegin, Pool!Start
  <2>2. /\ Len(waiting') = Len(waiting) - 1 /\ Len(waiting) \in Nat \ {0}
        /\ \A i \in 1..Len(waiting') : i + 1 \in 1..Len(waiting) /\ waiting'[i] = waiting[i + 1]
    BY <2>1
  <2>3. \A i \in 1..Len(waiting') : waiting'[i] # Head(waiting)
    <3>1. 1 \in 1..Len(waiting) /\ waiting[1] = Head(waiting)
      BY <2>2
    <3>2. \A i \in 1..Len(waiting') : i + 1 # 1
      BY <2>2
    <3> QED BY SMTT(30), <3>1, <3>2, <2>2
  <2>4. Head(waiting) \in Tasks /\ at[Head(waiting)] = "new" /\ fate[Head(waiting)] = "pending"
    BY <2>1, HeadIsNew
  <2>5. \A u \in Tasks : u # Head(waiting) /\ at[u] \in {"new", "end"} => at'[u] = at[u]
    BY <1>18, <2>4 DEF TaskBegin
  <2>6. \A i, j \in 1..Len(waiting') : waiting'[i] = waiting'[j] => i = j
    <3> SUFFICES ASSUME NEW i \in 1..Len(waiting'), NEW j \in 1..Len(waiting'),
                        waiting'[i] = waiting'[j]
                 PROVE  i = j
      OBVIOUS
    <3>1. /\ i + 1 \in 1..Len(waiting) /\ j + 1 \in 1..Len(waiting)
          /\ waiting[i + 1] = waiting[j + 1]
      BY ONLY <2>2, waiting'[i] = waiting'[j], i \in 1..Len(waiting'), j \in 1..Len(waiting')
    <3>2. i + 1 = j + 1
      BY ONLY <3>1, <1>a DEF FateOfTask
    <3> QED BY ONLY <3>2, <2>2, i \in 1..Len(waiting'), j \in 1..Len(waiting')
  <2> QED BY SMTT(30), <2>1, <2>2, <2>3, <2>4, <2>5, <2>6
<1>19. ASSUME NEW w \in Workers, TaskEnd(w) PROVE FateOfTask'
  BY <1>19 DEF TaskEnd, Pool!Finish
<1>20. CASE UNCHANGED vars
  BY <1>20 DEF vars
<1> QED
  BY <1>1, <1>2, <1>3, <1>4, <1>5, <1>6, <1>7, <1>8, <1>9, <1>10,
     <1>11, <1>12, <1>13, <1>14, <1>15, <1>16, <1>17, <1>18, <1>19, <1>20
  DEF Next, Coordinate, TaskStep

\* collect goes on only when the future at `next` is ready.
LEMMA CollectedStep == ASSUME IInv, [Next]_vars PROVE Collected'
<1>0. TypeOK /\ PoolOK /\ N \in Nat /\ size \in 0..N /\ failFast \in BOOLEAN
  BY Batch DEF IInv
<1>a. Collected
  BY DEF IInv
<1> USE <1>0, <1>a DEF TypeOK, PoolOK, Collected, FutureIsReady, Settled, Tasks,
    Goto, Notified, StopAll, Fail, End, SetOutcome, GiveUp, ReleaseNotify, registry,
    pool, options, coordinator
<1>1. CASE Submit
  BY <1>1 DEF Submit, Pool!Accept, Pool!Refuse, Pool!MustRefuse
<1>2. CASE AllSubmitted
  BY <1>2 DEF AllSubmitted
<1>3. CASE Collect
  BY <1>3 DEF Collect
<1>4. CASE ReturnOutcomes
  BY <1>4 DEF ReturnOutcomes
<1>5. CASE CallerStops
  BY <1>5 DEF CallerStops
<1>6. CASE ExecutorStops
  BY <1>6 DEF ExecutorStops, Pool!Close
<1>7. ASSUME NEW a \in Agents, Add(a) PROVE Collected'
  BY <1>7 DEF Add
<1>8. ASSUME NEW a \in Agents, RemoveAgent(a) PROVE Collected'
  BY <1>8 DEF RemoveAgent
<1>9. ASSUME NEW t \in Tasks, AcquireEnter(t) PROVE Collected'
  BY <1>9 DEF AcquireEnter
<1>10. ASSUME NEW t \in Tasks, AcquireLease(t) PROVE Collected'
  BY <1>10 DEF AcquireLease
<1>11. ASSUME NEW t \in Tasks, AcquireBlocked(t) PROVE Collected'
  BY <1>11 DEF AcquireBlocked
<1>12. ASSUME NEW t \in Tasks, AcquireSleep(t) PROVE Collected'
  BY <1>12 DEF AcquireSleep
<1>13. ASSUME NEW t \in Tasks, WakeLate(t) PROVE Collected'
  BY <1>13 DEF WakeLate
<1>14. ASSUME NEW t \in Tasks, Execute(t) PROVE Collected'
  BY <1>14 DEF Execute
<1>15. ASSUME NEW t \in Tasks, ActOnFailure(t) PROVE Collected'
  BY <1>15 DEF ActOnFailure
<1>16. ASSUME NEW t \in Tasks, Release(t) PROVE Collected'
  BY <1>16 DEF Release
<1>17. ASSUME NEW t \in Tasks, DeadlinePasses(t) PROVE Collected'
  BY <1>17 DEF DeadlinePasses
<1>18. ASSUME NEW w \in Workers, TaskBegin(w) PROVE Collected'
  BY <1>18 DEF TaskBegin, Pool!Start
<1>19. ASSUME NEW w \in Workers, TaskEnd(w) PROVE Collected'
  BY <1>19 DEF TaskEnd, Pool!Finish
<1>20. CASE UNCHANGED vars
  BY <1>20 DEF vars
<1> QED
  BY <1>1, <1>2, <1>3, <1>4, <1>5, <1>6, <1>7, <1>8, <1>9, <1>10,
     <1>11, <1>12, <1>13, <1>14, <1>15, <1>16, <1>17, <1>18, <1>19, <1>20
  DEF Next, Coordinate, TaskStep

\* Only tasks of the batch hold an agent.
LEMMA HoldersFinite == ASSUME NEW a PROVE IsFiniteSet(Holders(a))
<1>1. IsFiniteSet(Tasks)
  BY MultiAgentAssumption, FS_Interval DEF Tasks
<1> QED BY <1>1, FS_Subset DEF Holders

\* An entry of the registry counts the leases of its agent: a new entry starts at
\* zero, and nobody can hold it; acquire and release count one.
LEMMA CountStep == ASSUME IInv, [Next]_vars PROVE CountsExact'
<1>1. /\ registered \subseteq Agents /\ active \in [Agents -> Nat]
       /\ lease \in [Tasks -> Agents \cup {Nobody}]
       /\ MaxConcurrency \in [Agents -> Nat \ {0}]
  BY MultiAgentAssumption DEF IInv, TypeOK
<1>2. LeasesFit
  BY DEF IInv, LeasesAreExact, LeasesFit
<1>3. CountsExact
  BY DEF IInv, LeasesAreExact, CountsExact
<1> USE DEF registry
<1>4. CASE Submit
  BY <1>3, <1>4 DEF Submit, CountsExact, Holders
<1>5. CASE AllSubmitted
  BY <1>3, <1>5 DEF AllSubmitted, CountsExact, Holders
<1>6. CASE Collect
  BY <1>3, <1>6 DEF Collect, CountsExact, Holders
<1>7. CASE ReturnOutcomes
  BY <1>3, <1>7 DEF ReturnOutcomes, CountsExact, Holders
<1>8. CASE CallerStops
  BY <1>3, <1>8 DEF CallerStops, CountsExact, Holders
<1>9. CASE ExecutorStops
  BY <1>3, <1>9 DEF ExecutorStops, CountsExact, Holders
<1>10. ASSUME NEW a \in Agents, Add(a) PROVE CountsExact'
  <2>1. active' = [active EXCEPT ![a] = 0] /\ registered' = registered \cup {a}
        /\ lease' = lease
    BY <1>10 DEF Add
  <2>2. a \notin registered /\ a # Nobody
    BY <1>10, MultiAgentAssumption DEF Add
  <2>3. Holders(a) = {}
    BY <1>2, <2>2 DEF Holders, LeasesFit
  <2>4. Cardinality(Holders(a)) = 0
    BY ONLY <2>3, FS_EmptySet
  <2>5. active'[a] = Cardinality(Holders(a)')
    BY <1>1, <2>1, <2>4 DEF Holders
  <2>6. \A b \in registered : Holders(b)' = Holders(b) /\ active'[b] = active[b]
    BY <1>1, <2>1, <2>2 DEF Holders
  <2> QED BY <1>1, <1>3, <2>1, <2>5, <2>6 DEF CountsExact
<1>11. ASSUME NEW a \in Agents, RemoveAgent(a) PROVE CountsExact'
  BY <1>3, <1>11 DEF CountsExact, RemoveAgent, Holders
<1>12. ASSUME NEW t \in Tasks, AcquireEnter(t) PROVE CountsExact'
  BY <1>3, <1>12 DEF AcquireEnter, CountsExact, Holders
<1>13. ASSUME NEW t \in Tasks, AcquireLease(t) PROVE CountsExact'
  <2>1. PICK a \in Agents : /\ LeastLoaded(t, a)
                            /\ lease' = [lease EXCEPT ![t] = a]
                            /\ active' = [active EXCEPT ![a] = @ + 1]
    BY <1>13 DEF AcquireLease
  <2>2. a \in registered /\ active[a] < MaxConcurrency[a]
    BY <2>1 DEF LeastLoaded, Candidates, HasRoom
  <2>3. lease[t] = Nobody /\ registered' = registered
    BY <1>13 DEF AcquireLease, Goto, IInv, LeasesInUse
  <2>4. Holders(a)' = Holders(a) \cup {t} /\ t \notin Holders(a)
    BY <1>1, <2>1, <2>3, MultiAgentAssumption DEF Holders
  <2>5. \A b \in registered : b # a => Holders(b)' = Holders(b) /\ active'[b] = active[b]
    BY <1>1, <2>1, <2>3, MultiAgentAssumption DEF Holders
  <2>6. Cardinality(Holders(a)') = Cardinality(Holders(a)) + 1
    BY ONLY <2>4, HoldersFinite, FS_AddElement
  <2>7. active'[a] = Cardinality(Holders(a)') /\ active'[a] <= MaxConcurrency[a]
    <3>1. active'[a] = active[a] + 1 /\ active[a] \in Nat /\ MaxConcurrency[a] \in Nat
      BY <1>1, <2>1
    <3>2. active[a] = Cardinality(Holders(a))
      BY <1>3, <2>2 DEF CountsExact
    <3> QED BY ONLY <3>1, <3>2, <2>2, <2>6
  <2> QED BY <1>3, <2>3, <2>5, <2>7 DEF CountsExact
<1>14. ASSUME NEW t \in Tasks, AcquireBlocked(t) PROVE CountsExact'
  BY <1>3, <1>14 DEF AcquireBlocked, CountsExact, Holders
<1>15. ASSUME NEW t \in Tasks, AcquireSleep(t) PROVE CountsExact'
  BY <1>3, <1>15 DEF AcquireSleep, CountsExact, Holders
<1>16. ASSUME NEW t \in Tasks, WakeLate(t) PROVE CountsExact'
  BY <1>3, <1>16 DEF WakeLate, CountsExact, Holders
<1>17. ASSUME NEW t \in Tasks, Execute(t) PROVE CountsExact'
  BY <1>3, <1>17 DEF Execute, CountsExact, Holders
<1>18. ASSUME NEW t \in Tasks, ActOnFailure(t) PROVE CountsExact'
  BY <1>3, <1>18 DEF ActOnFailure, CountsExact, Holders
<1>19. ASSUME NEW t \in Tasks, Release(t) PROVE CountsExact'
  <2>1. PICK a \in Agents : a = lease[t] /\ a \in registered /\ a # Nobody
    BY <1>19, <1>1, <1>2 DEF IInv, TypeOK, LeasesFit, Release
  <2>2. /\ lease' = [lease EXCEPT ![t] = Nobody] /\ registered' = registered
        /\ active' = [active EXCEPT ![a] = IF @ = 0 THEN 0 ELSE @ - 1]
    BY <2>1, <1>19 DEF Release
  <2>3. Holders(a)' = Holders(a) \ {t} /\ t \in Holders(a)
    BY <1>1, <2>1, <2>2 DEF Holders
  <2>4. \A b \in registered : b # a => Holders(b)' = Holders(b) /\ active'[b] = active[b]
    BY <1>1, <2>1, <2>2, MultiAgentAssumption DEF Holders
  <2>5. Cardinality(Holders(a)') = Cardinality(Holders(a)) - 1
    BY ONLY <2>3, HoldersFinite, FS_RemoveElement
  <2>6. Cardinality(Holders(a)) # 0
    BY ONLY <2>3, HoldersFinite, FS_EmptySet
  <2>7. active'[a] = Cardinality(Holders(a)') /\ active'[a] <= MaxConcurrency[a]
    <3>1. active[a] = Cardinality(Holders(a)) /\ active[a] <= MaxConcurrency[a]
      BY <1>3, <2>1 DEF CountsExact
    <3>2. active'[a] = IF active[a] = 0 THEN 0 ELSE active[a] - 1
      BY <1>1, <2>2
    <3>3. active[a] \in Nat /\ MaxConcurrency[a] \in Nat
      BY <1>1
    <3> QED BY ONLY <3>1, <3>2, <3>3, <2>5, <2>6
  <2> QED BY <1>3, <2>2, <2>4, <2>7 DEF CountsExact
<1>20. ASSUME NEW t \in Tasks, DeadlinePasses(t) PROVE CountsExact'
  BY <1>3, <1>20 DEF DeadlinePasses, CountsExact, Holders
<1>21. ASSUME NEW w \in Workers, TaskBegin(w) PROVE CountsExact'
  BY <1>3, <1>21 DEF TaskBegin, CountsExact, Holders
<1>22. ASSUME NEW w \in Workers, TaskEnd(w) PROVE CountsExact'
  BY <1>3, <1>22 DEF TaskEnd, CountsExact, Holders
<1>23. CASE UNCHANGED vars
  BY <1>3, <1>23 DEF vars, CountsExact, Holders
<1> QED
  BY <1>4, <1>5, <1>6, <1>7, <1>8, <1>9, <1>10, <1>11, <1>12, <1>13,
     <1>14, <1>15, <1>16, <1>17, <1>18, <1>19, <1>20, <1>21, <1>22, <1>23
  DEF Next, Coordinate, TaskStep

\* A leased agent stays registered: remove refuses an agent whose count is not zero.
LEMMA FitStep == ASSUME IInv, [Next]_vars PROVE LeasesFit'
<1>0. /\ registered \subseteq Agents /\ lease \in [Tasks -> Agents \cup {Nobody}]
      /\ LeasesFit
  BY DEF IInv, TypeOK, LeasesAreExact, LeasesFit
<1> USE <1>0 DEF LeasesFit, registry
<1>1. CASE Submit
  BY <1>1 DEF Submit
<1>2. CASE AllSubmitted
  BY <1>2 DEF AllSubmitted
<1>3. CASE Collect
  BY <1>3 DEF Collect
<1>4. CASE ReturnOutcomes
  BY <1>4 DEF ReturnOutcomes
<1>5. CASE CallerStops
  BY <1>5 DEF CallerStops
<1>6. CASE ExecutorStops
  BY <1>6 DEF ExecutorStops
<1>7. ASSUME NEW a \in Agents, Add(a) PROVE LeasesFit'
  BY <1>7 DEF Add
<1>8. ASSUME NEW a \in Agents, RemoveAgent(a) PROVE LeasesFit'
  <2>1. registered' = registered \ {a} /\ lease' = lease
    BY <1>8 DEF RemoveAgent
  <2>2. Cardinality(Holders(a)) = 0
    BY <1>8 DEF RemoveAgent, MayRemove, IInv, LeasesAreExact
  <2>3. Holders(a) = {}
    BY ONLY <2>2, HoldersFinite, FS_EmptySet
  <2>4. \A u \in Tasks : lease[u] # a
    BY <2>3 DEF Holders
  <2> QED BY <2>1, <2>4
<1>9. ASSUME NEW t \in Tasks, AcquireEnter(t) PROVE LeasesFit'
  BY <1>9 DEF AcquireEnter
<1>10. ASSUME NEW t \in Tasks, AcquireLease(t) PROVE LeasesFit'
  <2>1. PICK a \in Fits[t] \cap registered : lease' = [lease EXCEPT ![t] = a]
    BY <1>10 DEF AcquireLease, LeastLoaded, Candidates
  <2>2. registered' = registered
    BY <1>10 DEF AcquireLease
  <2> QED BY <2>1, <2>2
<1>11. ASSUME NEW t \in Tasks, AcquireBlocked(t) PROVE LeasesFit'
  BY <1>11 DEF AcquireBlocked
<1>12. ASSUME NEW t \in Tasks, AcquireSleep(t) PROVE LeasesFit'
  BY <1>12 DEF AcquireSleep
<1>13. ASSUME NEW t \in Tasks, WakeLate(t) PROVE LeasesFit'
  BY <1>13 DEF WakeLate
<1>14. ASSUME NEW t \in Tasks, Execute(t) PROVE LeasesFit'
  BY <1>14 DEF Execute
<1>15. ASSUME NEW t \in Tasks, ActOnFailure(t) PROVE LeasesFit'
  BY <1>15 DEF ActOnFailure
<1>16. ASSUME NEW t \in Tasks, Release(t) PROVE LeasesFit'
  BY <1>16 DEF Release
<1>17. ASSUME NEW t \in Tasks, DeadlinePasses(t) PROVE LeasesFit'
  BY <1>17 DEF DeadlinePasses
<1>18. ASSUME NEW w \in Workers, TaskBegin(w) PROVE LeasesFit'
  BY <1>18 DEF TaskBegin
<1>19. ASSUME NEW w \in Workers, TaskEnd(w) PROVE LeasesFit'
  BY <1>19 DEF TaskEnd
<1>20. CASE UNCHANGED vars
  BY <1>20 DEF vars
<1> QED
  BY <1>1, <1>2, <1>3, <1>4, <1>5, <1>6, <1>7, <1>8, <1>9, <1>10,
     <1>11, <1>12, <1>13, <1>14, <1>15, <1>16, <1>17, <1>18, <1>19, <1>20
  DEF Next, Coordinate, TaskStep

\* IInv is inductive.
LEMMA NextIInv == IInv /\ [Next]_vars => IInv'
BY PoolStep, TypeStep, InUseStep, CountStep, FitStep, LookedStep, OutcomesStep, CauseStep,
   FateStep, CollectedStep DEF IInv, LeasesAreExact, CountsExact, LeasesFit

LEMMA Invariant == Spec => []IInv
BY InitIInv, NextIInv, PTL DEF Spec

-----------------------------------------------------------------------------
\* The types of TypeOK hold, and a task that has ended has an outcome.
THEOREM TypeCorrect == Spec => []TypeOK
BY Invariant, PTL DEF IInv

\* active_tasks of an agent counts its leases, which never exceed max_concurrency, and
\* a leased agent stays registered: whatever remove, add, acquire and ~AgentLease do.
THEOREM CapacityIsKept == Spec => []LeasesAreExact
BY Invariant, PTL DEF IInv

\* No wakeup of acquire is lost: what a task saw when it decided to sleep stays true
\* until it is notified.
THEOREM NoLostWakeup == Spec => []NoSleepWithCapacity
<1>1. IInv => NoSleepWithCapacity
  BY DEF IInv, LookedInVain, NoSleepWithCapacity
<1> QED BY Invariant, <1>1, PTL

\* A batch is stopped only for a cause, and the failure that stopped it keeps its
\* outcome; a task is reported cancelled only in a stopped batch.
THEOREM CancellationHasCause == Spec => []CancelHasCause
BY Invariant, PTL DEF IInv

\* When run_parallel returns every task is over, with its outcome and without a lease.
THEOREM ReturnIsQuiet == Spec => []QuietOnReturn
<1>1. IInv => QuietOnReturn
  <2> SUFFICES ASSUME IInv, phase = "returned", NEW t \in 1..size
               PROVE  outcome[t] # "none" /\ lease[t] = Nobody /\ fate[t] \in Settled
    BY DEF QuietOnReturn, Settled
  <2>1. t \in Tasks
    BY Batch DEF IInv, Tasks
  <2>2. fate[t] \in Settled
    BY DEF IInv, Collected
  <2>3. at[t] = "end"
    BY <2>1, <2>2 DEF IInv, FateOfTask
  <2> QED BY <2>1, <2>2, <2>3 DEF IInv, TypeOK, LeasesInUse
<1> QED BY Invariant, <1>1, PTL
-----------------------------------------------------------------------------
(* What the return of run_parallel rests on *)

OnWorker(t) == \E w \in Workers : slot[w] = t
Holding == {"execute", "failed", "release"}

\* A pending task is in the queue or on a worker, and a worker has begun its task.
PlacesOK ==
    /\ \A t \in Tasks : fate[t] = "pending" => InQueue(t) \/ OnWorker(t)
    /\ \A w \in Workers : slot[w] # Nobody => at[slot[w]] # "new"

\* The coordinator submits every task before it collects.
SubmittedOK ==
    \A t \in 1..size : phase # "submit" \/ t < next => fate[t] # "unsubmitted"

\* The executor moves a task from the queue to one worker and from there to its end.
LEMMA PlacesStep == ASSUME IInv, PlacesOK, [Next]_vars PROVE PlacesOK'
<1>0. TypeOK /\ PoolOK
  BY DEF IInv
\* Steps inside the tasks and of those who only look at them.
<1>c. ASSUME UNCHANGED <<waiting, slot, fate>>,
             \A t \in Tasks : at[t] # "new" => at'[t] # "new"
      PROVE  PlacesOK'
  BY <1>0, <1>c DEF PlacesOK, OnWorker, InQueue, PoolOK
<1>1. CASE Submit
  <2>1. next \in Tasks
    BY <1>1, NextIsNew DEF Submit
  <2>2. \A w \in Workers : slot[w] # Nobody => at'[slot[w]] # "new"
    BY <1>0, <1>1, <2>1 DEF PlacesOK, Submit, Fail, StopAll, Notified, End, TypeOK, PoolOK
  <2>3. CASE Pool!Accept(next)
    <3>1. /\ waiting' = Append(waiting, next) /\ slot' = slot
          /\ fate' = [fate EXCEPT ![next] = "pending"]
      BY <2>3 DEF Pool!Accept
    <3>2. /\ Len(waiting') = Len(waiting) + 1 /\ Len(waiting) \in Nat
          /\ waiting'[Len(waiting) + 1] = next
          /\ \A i \in 1..Len(waiting) : waiting'[i] = waiting[i]
      BY <1>0, <2>1, <3>1 DEF PoolOK
    <3>3. \A t \in Tasks : InQueue(t) \/ t = next => InQueue(t)'
      BY <3>2 DEF InQueue
    <3> QED BY <1>0, <2>1, <2>2, <3>1, <3>3 DEF PlacesOK, OnWorker, PoolOK
  <2>4. CASE Pool!Refuse(next)
    <3>1. /\ UNCHANGED <<waiting, slot>> /\ fate' = [fate EXCEPT ![next] = "refused"]
      BY <2>4 DEF Pool!Refuse
    <3> QED BY <1>0, <2>1, <2>2, <3>1 DEF PlacesOK, OnWorker, InQueue, PoolOK
  <2> QED BY <1>1, <2>3, <2>4 DEF Submit
<1>2. ASSUME NEW w \in Workers, TaskBegin(w) PROVE PlacesOK'
  <2> DEFINE q == Head(waiting)
  <2>1. /\ waiting # <<>> /\ slot[w] = Nobody /\ slot' = [slot EXCEPT ![w] = q]
        /\ waiting' = Tail(waiting) /\ fate' = fate
    BY <1>2 DEF TaskBegin, Pool!Start
  <2>2. q \in Tasks
    BY <2>1, HeadIsNew
  <2>3. \A t \in Tasks : InQueue(t) => t = q \/ InQueue(t)'
    <3> SUFFICES ASSUME NEW t \in Tasks, NEW i \in 1..Len(waiting), waiting[i] = t, t # q
                 PROVE  InQueue(t)'
      BY DEF InQueue
    <3>1. i # 1 /\ i - 1 \in 1..Len(waiting') /\ waiting'[i - 1] = t
      BY <1>0, <2>1 DEF PoolOK
    <3> QED BY <3>1 DEF InQueue
  <2>4. at'[q] # "new" /\ \A t \in Tasks : at[t] # "new" => at'[t] # "new"
    BY <1>0, <1>2, <2>2 DEF TaskBegin, Notified, TypeOK
  <2> HIDE DEF q
  <2>5. \A v \in Workers : slot'[v] = IF v = w THEN q ELSE slot[v]
    BY <1>0, <2>1 DEF PoolOK
  <2>6. \A t \in Tasks : OnWorker(t) \/ t = q => OnWorker(t)'
    BY <2>1, <2>5, MultiAgentAssumption DEF OnWorker
  <2>7. \A v \in Workers : slot[v] # Nobody => slot[v] \in Tasks
    BY <1>0 DEF PoolOK
  <2> QED BY <2>1, <2>3, <2>4, <2>5, <2>6, <2>7 DEF PlacesOK
<1>3. ASSUME NEW w \in Workers, TaskEnd(w) PROVE PlacesOK'
  <2> DEFINE q == slot[w]
  <2>1. /\ q # Nobody /\ slot' = [slot EXCEPT ![w] = Nobody] /\ waiting' = waiting
        /\ fate' = [fate EXCEPT ![q] = "ready"] /\ at' = at
    BY <1>3 DEF TaskEnd, Pool!Finish
  <2>2. \A t \in Tasks : fate'[t] = "pending" => fate[t] = "pending" /\ t # q
    BY <1>0, <2>1 DEF PoolOK
  <2>3. \A v \in Workers : slot'[v] = IF v = w THEN Nobody ELSE slot[v]
    BY <1>0, <2>1 DEF PoolOK
  <2> QED BY <2>1, <2>2, <2>3 DEF PlacesOK, OnWorker, InQueue
<1>4. ASSUME NEW t \in Tasks, TaskStep(t) \/ DeadlinePasses(t) PROVE PlacesOK'
  <2>1. UNCHANGED <<waiting, slot, fate>>
    BY <1>4 DEF TaskStep, AcquireEnter, AcquireLease, AcquireBlocked, AcquireSleep, WakeLate,
       Execute, ActOnFailure, Release, DeadlinePasses, pool
  <2>2. \A u \in Tasks : at[u] # "new" => at'[u] # "new"
    BY <1>0, <1>4 DEF TypeOK, TaskStep, AcquireEnter, AcquireLease, AcquireBlocked,
       AcquireSleep, WakeLate, Execute, ActOnFailure, Release, DeadlinePasses, Goto,
       GiveUp, Fail, StopAll, Notified, ReleaseNotify, End
  <2> QED BY <2>1, <2>2, <1>c
<1>5. ASSUME \/ AllSubmitted \/ Collect \/ ReturnOutcomes \/ CallerStops \/ ExecutorStops
             \/ (\E a \in Agents : Add(a) \/ RemoveAgent(a)) \/ UNCHANGED vars
      PROVE  PlacesOK'
  <2>1. UNCHANGED <<waiting, slot, fate>>
    BY <1>5 DEF AllSubmitted, Collect, ReturnOutcomes, CallerStops, ExecutorStops,
       Pool!Close, Add, RemoveAgent, vars, pool
  <2>2. \A u \in Tasks : at[u] # "new" => at'[u] # "new"
    BY <1>0, <1>5 DEF TypeOK, AllSubmitted, Collect, ReturnOutcomes, CallerStops,
       ExecutorStops, Add, RemoveAgent, Fail, StopAll, Notified, vars
  <2> QED BY <2>1, <2>2, <1>c
<1> QED BY <1>1, <1>2, <1>3, <1>4, <1>5 DEF Next, Coordinate

\* No future goes back to be unsubmitted, and `next` passes none that is.
LEMMA SubmittedStep == ASSUME IInv, SubmittedOK, [Next]_vars PROVE SubmittedOK'
<1>0. TypeOK /\ PoolOK /\ size \in 0..N /\ N \in Nat
  BY Batch DEF IInv
<1>1. \A t \in Tasks : fate[t] # "unsubmitted" => fate'[t] # "unsubmitted"
  BY <1>0 DEF PoolOK, Next, Coordinate, Submit, AllSubmitted, Collect, ReturnOutcomes,
     CallerStops, ExecutorStops, Add, RemoveAgent, TaskStep, AcquireEnter, AcquireLease,
     AcquireBlocked, AcquireSleep, WakeLate, Execute, ActOnFailure, Release, DeadlinePasses,
     TaskBegin, TaskEnd, Pool!Accept, Pool!Refuse, Pool!Start, Pool!Finish, Pool!Close,
     vars, pool
<1>a. 1..size \subseteq Tasks
  BY ONLY <1>0 DEF Tasks
<1>b. size' = size
  BY DEF Next, Coordinate, Submit, AllSubmitted, Collect, ReturnOutcomes,
     CallerStops, ExecutorStops, Add, RemoveAgent, TaskStep, AcquireEnter, AcquireLease,
     AcquireBlocked, AcquireSleep, WakeLate, Execute, ActOnFailure, Release, DeadlinePasses,
     TaskBegin, TaskEnd, vars, options, coordinator
<1>2. size' = size /\ 1..size \subseteq Tasks
  BY ONLY <1>a, <1>b
<1>3. CASE Submit
  <2>1. fate'[next] # "unsubmitted" /\ next' = next + 1 /\ phase' = phase
    BY <1>0, <1>3, NextIsNew DEF Submit, Pool!Accept, Pool!Refuse, PoolOK
  <2> QED BY <1>0, <1>1, <1>2, <1>3, <2>1 DEF SubmittedOK, Submit, TypeOK
<1>4. CASE AllSubmitted
  BY <1>0, <1>1, <1>2, <1>4 DEF SubmittedOK, AllSubmitted, TypeOK
<1>5. CASE ~Submit /\ ~AllSubmitted
  <2>1. phase' # "submit" <=> phase # "submit"
    BY <1>5 DEF Next, Coordinate, Collect, ReturnOutcomes,
       CallerStops, ExecutorStops, Add, RemoveAgent, TaskStep, AcquireEnter, AcquireLease,
       AcquireBlocked, AcquireSleep, WakeLate, Execute, ActOnFailure, Release,
       DeadlinePasses, TaskBegin, TaskEnd, vars, coordinator
  <2>2. next' = next \/ phase # "submit"
    BY <1>5 DEF Next, Coordinate, Collect, ReturnOutcomes,
       CallerStops, ExecutorStops, Add, RemoveAgent, TaskStep, AcquireEnter, AcquireLease,
       AcquireBlocked, AcquireSleep, WakeLate, Execute, ActOnFailure, Release,
       DeadlinePasses, TaskBegin, TaskEnd, vars, coordinator
  <2> QED BY <1>1, <1>2, <2>1, <2>2 DEF SubmittedOK
<1> QED BY <1>3, <1>4, <1>5

\* The future the coordinator waits for is settled, or its task is queued or on a worker.
\* A task on a worker that sleeps in acquire waits for agents that are all leased by
\* tasks on other workers which execute, fail or release, and so do not wait themselves.
BatchGoesOn ==
    /\ phase = "collect" /\ next <= size =>
           FutureIsReady(next) \/ InQueue(next) \/ OnWorker(next)
    /\ \A w \in Workers : slot[w] # Nobody =>
           /\ at[slot[w]] # "new"
           /\ at[slot[w]] = "wait" =>
                  \A a \in Fits[slot[w]] \cap registered : \E v \in Workers \ {w} :
                      lease[slot[v]] = a /\ at[slot[v]] \in Holding

\* No task waits for capacity while it holds some, and no future is forgotten: once the
\* agents' functions return nothing is left that run_parallel could wait for.
THEOREM NobodyHoldsAndWaits == Spec => []BatchGoesOn
<1>1. Init => PlacesOK /\ SubmittedOK
  BY MultiAgentAssumption DEF Init, Pool!Init, PlacesOK, SubmittedOK
<1>2. IInv /\ PlacesOK /\ SubmittedOK /\ [Next]_vars => (PlacesOK /\ SubmittedOK)'
  BY PlacesStep, SubmittedStep
<1>3. ASSUME IInv, PlacesOK, SubmittedOK PROVE BatchGoesOn
  <2>1. ASSUME phase = "collect", next <= size
        PROVE  FutureIsReady(next) \/ InQueue(next) \/ OnWorker(next)
    <3>1. next \in Tasks /\ next \in 1..size
      BY <1>3, <2>1, Batch, NextIsNew DEF IInv, TypeOK
    <3>2. fate[next] # "unsubmitted"
      BY <1>3, <2>1, <3>1 DEF SubmittedOK
    <3> QED BY <1>3, <3>1, <3>2 DEF IInv, PoolOK, PlacesOK, FutureIsReady, Settled
  <2>2. ASSUME NEW w \in Workers, slot[w] # Nobody, at[slot[w]] = "wait",
               NEW a \in Fits[slot[w]] \cap registered
        PROVE  \E v \in Workers \ {w} : lease[slot[v]] = a /\ at[slot[v]] \in Holding
    <3>1. slot[w] \in Tasks /\ a \in registered /\ a \in Agents
      BY <1>3, <2>2 DEF IInv, PoolOK, TypeOK
    <3>2. ~HasRoom(a)
      BY <1>3, <2>2, <3>1 DEF IInv, LookedInVain, Candidates
    <3>3. PICK h \in Tasks : lease[h] = a
      <4>1. active[a] = Cardinality(Holders(a)) /\ active[a] # 0
        BY <1>3, <3>1, <3>2, MultiAgentAssumption DEF IInv, LeasesAreExact, HasRoom, TypeOK
      <4>2. Holders(a) # {}
        BY <4>1, FS_EmptySet
      <4> QED BY <4>2 DEF Holders
    <3>4. at[h] \in Holding
      BY <1>3, <3>1, <3>3, MultiAgentAssumption DEF IInv, LeasesInUse, Holding
    <3>5. fate[h] = "pending" /\ ~InQueue(h)
      BY <1>3, <3>4 DEF IInv, FateOfTask, PoolOK, Holding, Settled
    <3>6. PICK v \in Workers : slot[v] = h
      BY <1>3, <3>5 DEF PlacesOK, OnWorker
    <3> QED BY <2>2, <3>3, <3>4, <3>6 DEF Holding
  <2> QED BY <1>3, <2>1, <2>2 DEF BatchGoesOn, PlacesOK
<1>4. IInv /\ PlacesOK /\ SubmittedOK => BatchGoesOn
  BY <1>3
<1> QED BY <1>1, <1>2, <1>4, Invariant, PTL DEF Spec
=============================================================================

----------------------- MODULE BoundedExecutor_proofs -----------------------
(***************************************************************************)
(* The safety of BoundedExecutor for every number of tasks and workers and *)
(* every capacity.  IInv is the inductive invariant: the four invariants   *)
(* that the run of BoundedExecutor.cfg checks, which support each other.   *)
(* The refinement of TaskPool needs the types alone.  The last part holds  *)
(* the safety on which its liveness rests.                                 *)
(***************************************************************************)
EXTENDS BoundedExecutor, FiniteSetTheorems, TLAPS

IInv == TypeOK /\ ActiveIsExact /\ TaskInOnePlace /\ NoIdleSleeper

Holders == {w \in Workers : Held(w)}
Checkers == {w \in Workers : pc[w] = "check"}

\* Workers woken by either notification go to "check"; the others stay.
LEMMA NotifyShape ==
    ASSUME TypeOK, NotifyOne \/ NotifyAll
    PROVE  /\ pc' \in [Workers -> {"check", "wait", "run", "retire", "exit"}]
           /\ \A w \in Workers :
                  pc'[w] = pc[w] \/ (pc[w] = "wait" /\ pc'[w] = "check")
<1>1. CASE NotifyOne
  BY <1>1 DEF NotifyOne, TypeOK, Sleepers
<1>2. CASE NotifyAll
  BY <1>2 DEF NotifyAll, TypeOK, Sleepers
<1> QED BY <1>1, <1>2

\* The sets whose cardinalities matter are finite.
LEMMA FiniteWorkers ==
    /\ IsFiniteSet(Holders) /\ Cardinality(Holders) \in Nat
    /\ IsFiniteSet(Checkers) /\ Cardinality(Checkers) \in Nat
    /\ IsFiniteSet(Holders') /\ Cardinality(Holders') \in Nat
    /\ IsFiniteSet(Checkers') /\ Cardinality(Checkers') \in Nat
BY ExecutorAssumption, FS_Subset, FS_CardinalityType DEF Holders, Checkers

\* active_ and the set of workers that hold a task: what one worker's step does.
LEMMA HoldersChange ==
    ASSUME NEW w \in Workers, TypeOK,
           \A v \in Workers \ {w} : pc'[v] = pc[v]
    PROVE  /\ Held(w)' /\ ~Held(w) =>
                  Cardinality(Holders') = Cardinality(Holders) + 1
           /\ ~Held(w)' /\ Held(w) =>
                  Cardinality(Holders') = Cardinality(Holders) - 1
<1>1. ASSUME Held(w)', ~Held(w)
      PROVE  Cardinality(Holders') = Cardinality(Holders) + 1
  <2>1. Holders' = Holders \cup {w} /\ w \notin Holders
    BY <1>1 DEF Holders, Held
  <2> QED BY <2>1, FiniteWorkers, FS_AddElement
<1>2. ASSUME ~Held(w)', Held(w)
      PROVE  Cardinality(Holders') = Cardinality(Holders) - 1
  <2>1. Holders' = Holders \ {w} /\ w \in Holders
    BY <1>2 DEF Holders, Held
  <2> QED BY <2>1, FiniteWorkers, FS_RemoveElement
<1> QED BY <1>1, <1>2

LEMMA InitIInv == Init => IInv
<1> SUFFICES ASSUME Init PROVE IInv
  OBVIOUS
<1> USE ExecutorAssumption DEF Init
<1>1. TypeOK
  BY DEF TypeOK, Held
<1>2. ActiveIsExact
  BY FS_EmptySet DEF ActiveIsExact, Held
<1>3. TaskInOnePlace
  BY DEF TaskInOnePlace, Started
<1>4. NoIdleSleeper
  BY DEF NoIdleSleeper, Sleepers
<1> QED BY <1>1, <1>2, <1>3, <1>4 DEF IInv

\* Types: the capacity bounds the queue, a worker's local `task` is set while
\* and only while it is between the pop and the decrement, and active_ does not
\* drop below zero because it counts the workers that hold a task.
LEMMA TypeStep == ASSUME IInv, [Next]_vars PROVE TypeOK'
<1> USE ExecutorAssumption DEF IInv
<1>1. ASSUME NEW t \in Tasks, EnqueueAccept(t) PROVE TypeOK'
  <2>1. /\ pc' \in [Workers -> {"check", "wait", "run", "retire", "exit"}]
        /\ \A w \in Workers : Held(w)' = Held(w)
    BY <1>1, NotifyShape DEF EnqueueAccept, Held
  <2> QED BY <1>1, <2>1 DEF EnqueueAccept, QueueIsFull, TypeOK
<1>2. ASSUME NEW t \in Tasks, EnqueueReject(t) PROVE TypeOK'
  BY <1>2 DEF EnqueueReject, TypeOK, Held
<1>3. ASSUME NEW w \in Workers, WorkerWait(w) PROVE TypeOK'
  BY <1>3 DEF WorkerWait, Goto, TypeOK, Held
<1>4. ASSUME NEW w \in Workers, WorkerTake(w) PROVE TypeOK'
  <2>1. /\ Head(queue) \in Tasks
        /\ Tail(queue) \in Seq(Tasks) /\ Len(Tail(queue)) <= QueueCapacity
    BY <1>4 DEF WorkerTake, TypeOK
  <2> QED BY <1>4, <2>1 DEF WorkerTake, TakeOldest, Goto, TypeOK, Held
<1>5. ASSUME NEW w \in Workers, WorkerExit(w) PROVE TypeOK'
  BY <1>5 DEF WorkerExit, Goto, TypeOK, Held
<1>6. ASSUME NEW w \in Workers, WorkerRun(w) PROVE TypeOK'
  BY <1>6 DEF WorkerRun, Goto, TypeOK, Held
<1>7. ASSUME NEW w \in Workers, WorkerRetire(w) PROVE TypeOK'
  <2>1. active \in Nat /\ active # 0
    <3>1. w \in Holders
      BY <1>7 DEF WorkerRetire, Goto, Holders, Held
    <3>2. Holders # {} /\ Cardinality(Holders) # 0
      BY <3>1, FiniteWorkers, FS_EmptySet
    <3> QED BY <3>2 DEF ActiveIsExact, Holders, TypeOK
  <2>2. active' \in Nat
    BY <1>7, <2>1 DEF WorkerRetire, Retire
  <2> QED BY <1>7, <2>2 DEF WorkerRetire, Goto, TypeOK, Held
<1>8. ASSUME NEW w \in Workers, SpuriousWakeup(w) PROVE TypeOK'
  BY <1>8 DEF SpuriousWakeup, Goto, TypeOK, Held
<1>9. ASSUME StopAccepting PROVE TypeOK'
  BY <1>9 DEF StopAccepting, TypeOK, Held
<1>10. ASSUME StopNotify PROVE TypeOK'
  <2>1. /\ pc' \in [Workers -> {"check", "wait", "run", "retire", "exit"}]
        /\ \A w \in Workers : Held(w)' = Held(w)
    BY <1>10, NotifyShape DEF StopNotify, Held
  <2> QED BY <1>10, <2>1 DEF StopNotify, TypeOK
<1>11. ASSUME Join PROVE TypeOK'
  BY <1>11 DEF Join, TypeOK, Held
<1>12. ASSUME UNCHANGED vars PROVE TypeOK'
  BY <1>12 DEF vars, TypeOK, Held
<1> QED
  BY <1>1, <1>2, <1>3, <1>4, <1>5, <1>6, <1>7, <1>8, <1>9, <1>10, <1>11, <1>12
  DEF Next, WorkerStep

\* active_ counts the workers that hold a task: the counter moves by one with
\* the set, in the steps that move the set, and in no other.
LEMMA ActiveStep == ASSUME IInv, [Next]_vars PROVE ActiveIsExact'
<1> USE DEF IInv, Holders
<1> SUFFICES active' = Cardinality(Holders')
  BY DEF ActiveIsExact
<1>1. active = Cardinality(Holders) /\ Cardinality(Holders) \in Nat
  BY FiniteWorkers DEF ActiveIsExact
<1>2. ASSUME active' = active, \A w \in Workers : Held(w)' = Held(w)
      PROVE  active' = Cardinality(Holders')
  BY <1>1, <1>2
<1>3. ASSUME NEW w \in Workers, WorkerTake(w)
      PROVE  active' = Cardinality(Holders')
  <2>1. Held(w)' /\ ~Held(w) /\ \A v \in Workers \ {w} : pc'[v] = pc[v]
    BY <1>3 DEF WorkerTake, Goto, Held, TypeOK
  <2>2. Cardinality(Holders') = Cardinality(Holders) + 1
    BY <2>1, HoldersChange
  <2> QED BY <1>1, <1>3, <2>2 DEF WorkerTake
<1>4. ASSUME NEW w \in Workers, WorkerRetire(w)
      PROVE  active' = Cardinality(Holders')
  <2>1. ~Held(w)' /\ Held(w) /\ \A v \in Workers \ {w} : pc'[v] = pc[v]
    BY <1>4 DEF WorkerRetire, Goto, Held, TypeOK
  <2>2. Cardinality(Holders') = Cardinality(Holders) - 1
    BY <2>1, HoldersChange
  <2> QED BY <1>1, <1>4, <2>2 DEF WorkerRetire, Retire
<1>5. ASSUME NEW t \in Tasks, EnqueueAccept(t)
      PROVE  active' = Cardinality(Holders')
  BY <1>2, <1>5, NotifyShape DEF EnqueueAccept, Held
<1>6. ASSUME StopNotify PROVE active' = Cardinality(Holders')
  BY <1>2, <1>6, NotifyShape DEF StopNotify, Held
<1>7. ASSUME NEW w \in Workers,
             WorkerWait(w) \/ WorkerExit(w) \/ WorkerRun(w) \/ SpuriousWakeup(w)
      PROVE  active' = Cardinality(Holders')
  BY <1>2, <1>7 DEF WorkerWait, WorkerExit, WorkerRun, SpuriousWakeup, Goto, Held, TypeOK
<1>8. ASSUME \/ \E t \in Tasks : EnqueueReject(t)
             \/ StopAccepting \/ Join \/ UNCHANGED vars
      PROVE  active' = Cardinality(Holders')
  BY <1>2, <1>8 DEF EnqueueReject, StopAccepting, Join, vars, Held
<1> QED
  BY <1>3, <1>4, <1>5, <1>6, <1>7, <1>8 DEF Next, WorkerStep

\* A task moves from its future to the queue, to a worker and back to its
\* future, and each of these steps leaves every other task where it is.
LEMMA PlaceStep == ASSUME IInv, [Next]_vars PROVE TaskInOnePlace'
<1> USE ExecutorAssumption DEF IInv
<1>1. ASSUME NEW t \in Tasks, EnqueueAccept(t) PROVE TaskInOnePlace'
  <2>1. Started' = Started /\ task' = task
    BY <1>1, NotifyShape DEF EnqueueAccept, Started, TypeOK
  <2>2. /\ queue' \in Seq(Tasks) /\ Len(queue') = Len(queue) + 1
        /\ queue'[Len(queue')] = t
        /\ \A i \in DOMAIN queue : queue'[i] = queue[i]
    BY <1>1 DEF EnqueueAccept, TypeOK
  <2>3. /\ future' \in [Tasks -> {"unsubmitted", "refused", "pending", "ready"}]
        /\ \A s \in Tasks : (future'[s] = "pending") <=> (future[s] = "pending" \/ s = t)
    BY <1>1 DEF EnqueueAccept, TypeOK
  <2>4. /\ \A i \in DOMAIN queue : queue[i] # t
        /\ \A w \in Started : task[w] # t
    BY <1>1 DEF EnqueueAccept, TaskInOnePlace
  <2>5. DOMAIN queue = 1..Len(queue) /\ DOMAIN queue' = 1..Len(queue')
    BY <2>2 DEF TypeOK
  <2>6. \A i \in DOMAIN queue' : i \in DOMAIN queue \/ i = Len(queue')
    BY <2>2, <2>5 DEF TypeOK
  <2>7. DOMAIN queue \subseteq DOMAIN queue' /\ Len(queue') \in DOMAIN queue'
    BY <2>2, <2>5 DEF TypeOK
  <2>8. \A i, j \in DOMAIN queue' : queue'[i] = queue'[j] => i = j
    BY <2>2, <2>4, <2>6 DEF TaskInOnePlace
  <2>9. \A i \in DOMAIN queue', w \in Started' : queue'[i] # task'[w]
    BY <2>1, <2>2, <2>4, <2>6 DEF TaskInOnePlace
  <2>10. \A s \in Tasks : (\E i \in DOMAIN queue' : queue'[i] = s)
                              <=> (\E i \in DOMAIN queue : queue[i] = s) \/ s = t
    BY <2>2, <2>6, <2>7
  <2> QED BY <2>1, <2>3, <2>8, <2>9, <2>10 DEF TaskInOnePlace
<1>2. ASSUME NEW t \in Tasks, EnqueueReject(t) PROVE TaskInOnePlace'
  BY <1>2 DEF EnqueueReject, TypeOK, TaskInOnePlace, Started
<1>3. ASSUME NEW w \in Workers,
             WorkerWait(w) \/ WorkerExit(w) \/ SpuriousWakeup(w)
      PROVE  TaskInOnePlace'
  BY <1>3 DEF WorkerWait, WorkerExit, SpuriousWakeup, Goto, TypeOK, TaskInOnePlace,
              Started
<1>4. ASSUME NEW w \in Workers, WorkerTake(w) PROVE TaskInOnePlace'
  <2>1. /\ w \notin Started /\ Started' = Started \cup {w}
        /\ task'[w] = Head(queue) /\ \A v \in Started : task'[v] = task[v]
    BY <1>4 DEF WorkerTake, TakeOldest, Goto, Started, TypeOK
  <2>2. /\ 1 \in DOMAIN queue /\ Head(queue) = queue[1]
        /\ \A i \in DOMAIN queue' : i + 1 \in DOMAIN queue /\ queue'[i] = queue[i + 1]
        /\ \A i \in DOMAIN queue : i # 1 => i - 1 \in DOMAIN queue'
        /\ DOMAIN queue \subseteq Nat /\ DOMAIN queue' \subseteq Nat \ {0}
    BY <1>4 DEF WorkerTake, TakeOldest, TypeOK
  <2>3. \A i, j \in DOMAIN queue' : queue'[i] = queue'[j] => i = j
    BY <2>2 DEF TaskInOnePlace
  <2>4. \A i \in DOMAIN queue' : queue'[i] # Head(queue)
    BY <2>2 DEF TaskInOnePlace
  <2>5. \A v \in Started : task[v] # Head(queue)
    BY <2>2 DEF TaskInOnePlace
  <2>6. \A s \in Tasks : (\E i \in DOMAIN queue : queue[i] = s)
                             <=> (\E i \in DOMAIN queue' : queue'[i] = s) \/ s = Head(queue)
    BY <2>2
  <2>7. \A i \in DOMAIN queue', v \in Started' : queue'[i] # task'[v]
    BY <2>1, <2>2, <2>4 DEF TaskInOnePlace
  <2>8. \A u, v \in Started' : task'[u] = task'[v] => u = v
    BY <2>1, <2>5 DEF TaskInOnePlace
  <2> QED BY <1>4, <2>1, <2>3, <2>6, <2>7, <2>8 DEF WorkerTake, TaskInOnePlace
<1>5. ASSUME NEW w \in Workers, WorkerRun(w) PROVE TaskInOnePlace'
  <2>1. /\ w \in Started /\ Started' = Started \ {w}
        /\ queue' = queue /\ task' = task /\ task[w] \in Tasks
    BY <1>5 DEF WorkerRun, Goto, Started, TypeOK, Held
  <2>2. \A s \in Tasks : (future'[s] = "pending") <=> (future[s] = "pending" /\ s # task[w])
    BY <1>5, <2>1 DEF WorkerRun, TypeOK
  <2> QED BY <2>1, <2>2 DEF TaskInOnePlace
<1>6. ASSUME NEW w \in Workers, WorkerRetire(w) PROVE TaskInOnePlace'
  <2>1. /\ w \notin Started /\ Started' = Started
        /\ \A v \in Started : task'[v] = task[v]
    BY <1>6 DEF WorkerRetire, Goto, Started, TypeOK
  <2> QED BY <1>6, <2>1 DEF WorkerRetire, TaskInOnePlace
<1>7. ASSUME StopNotify PROVE TaskInOnePlace'
  <2>1. Started' = Started
    BY <1>7, NotifyShape DEF StopNotify, Started, TypeOK
  <2> QED BY <1>7, <2>1 DEF StopNotify, TaskInOnePlace
<1>8. ASSUME StopAccepting \/ Join \/ UNCHANGED vars PROVE TaskInOnePlace'
  BY <1>8 DEF StopAccepting, Join, vars, TaskInOnePlace, Started
<1> QED
  BY <1>1, <1>2, <1>3, <1>4, <1>5, <1>6, <1>7, <1>8 DEF Next, WorkerStep

\* Sleepers and queued tasks: every step that adds a task, adds a sleeper or
\* takes a worker away from the predicate keeps enough workers on their way.
LEMMA SleepStep == ASSUME IInv, [Next]_vars PROVE NoIdleSleeper'
<1> USE ExecutorAssumption DEF IInv
<1> DEFINE Pc == {"check", "wait", "run", "retire", "exit"}
           Wakeful == Sleepers # {} => Len(queue) <= Cardinality(Checkers)
<1>1. NoIdleSleeper <=>
          /\ Wakeful
          /\ (\E w \in Workers : pc[w] = "exit") => queue = <<>> /\ ~accepting
          /\ host \in {"stopped", "joined"} => Sleepers = {}
  BY DEF NoIdleSleeper, Checkers
<1>2. NoIdleSleeper' <=>
          /\ Wakeful'
          /\ (\E w \in Workers : pc'[w] = "exit") => queue' = <<>> /\ ~accepting'
          /\ host' \in {"stopped", "joined"} => Sleepers' = {}
  BY DEF NoIdleSleeper, Checkers
<1>3. Len(queue) \in Nat /\ Cardinality(Checkers) \in Nat /\ Cardinality(Checkers') \in Nat
  BY FiniteWorkers DEF TypeOK
<1>4. ASSUME NEW t \in Tasks, EnqueueAccept(t) PROVE NoIdleSleeper'
  <2>1. /\ ~(\E w \in Workers : pc'[w] = "exit")
        /\ host' \notin {"stopped", "joined"}
    BY <1>1, <1>4, NotifyShape DEF EnqueueAccept, TypeOK
  <2>2. Wakeful'
    <3>1. CASE Sleepers = {}
      BY <1>4, <3>1 DEF EnqueueAccept, NotifyOne, Sleepers
    <3>2. ASSUME NEW w \in Sleepers, pc' = [pc EXCEPT ![w] = "check"] PROVE Wakeful'
      <4>1. Checkers' = Checkers \cup {w} /\ w \notin Checkers
        BY <3>2 DEF Checkers, Sleepers, TypeOK
      <4>2. Cardinality(Checkers') = Cardinality(Checkers) + 1
        BY <4>1, FiniteWorkers, FS_AddElement
      <4>3. Len(queue') = Len(queue) + 1
        BY <1>4 DEF EnqueueAccept, TypeOK
      <4> QED BY <1>1, <1>3, <4>2, <4>3
    <3> QED BY <1>4, <3>1, <3>2 DEF EnqueueAccept, NotifyOne
  <2> QED BY <1>2, <2>1, <2>2
<1>5. ASSUME NEW w \in Workers, WorkerWait(w) \/ WorkerExit(w) PROVE NoIdleSleeper'
  <2>1. queue = <<>> /\ queue' = <<>> /\ Len(queue') = 0
    BY <1>5 DEF WorkerWait, WorkerExit, MayExit
  <2>2. WorkerExit(w) => Sleepers' = Sleepers /\ ~accepting'
    BY <1>5 DEF WorkerExit, MayExit, Goto, Sleepers, TypeOK
  <2>3. WorkerWait(w) => /\ host' = "up"
                         /\ \A v \in Workers : pc'[v] = "exit" => pc[v] = "exit"
    BY <1>5 DEF WorkerWait, Goto, TypeOK
  <2>4. host' = host /\ accepting' = accepting
    BY <1>5 DEF WorkerWait, WorkerExit
  <2> QED BY <1>1, <1>2, <1>3, <1>5, <2>1, <2>2, <2>3, <2>4
<1>6. ASSUME NEW w \in Workers, WorkerTake(w) PROVE NoIdleSleeper'
  <2>1. /\ Checkers' = Checkers \ {w} /\ w \in Checkers
        /\ Sleepers' = Sleepers
        /\ ~(\E v \in Workers : pc'[v] = "exit")
    BY <1>1, <1>6 DEF WorkerTake, Goto, Checkers, Sleepers, TypeOK
  <2>2. Cardinality(Checkers') = Cardinality(Checkers) - 1
    BY <2>1, FiniteWorkers, FS_RemoveElement
  <2>3. Len(queue') = Len(queue) - 1 /\ host' = host
    BY <1>6 DEF WorkerTake, TakeOldest, TypeOK
  <2> QED BY <1>1, <1>2, <1>3, <2>1, <2>2, <2>3
<1>7. ASSUME NEW w \in Workers, WorkerRetire(w) \/ SpuriousWakeup(w)
      PROVE  NoIdleSleeper'
  <2>1. /\ Checkers' = Checkers \cup {w} /\ w \notin Checkers
        /\ Sleepers' \subseteq Sleepers
        /\ \A v \in Workers : pc'[v] = "exit" => pc[v] = "exit"
    BY <1>7 DEF WorkerRetire, SpuriousWakeup, Goto, Checkers, Sleepers, TypeOK
  <2>2. Cardinality(Checkers') = Cardinality(Checkers) + 1
    BY <2>1, FiniteWorkers, FS_AddElement
  <2>3. queue' = queue /\ accepting' = accepting /\ host' = host
    BY <1>7 DEF WorkerRetire, SpuriousWakeup
  <2> QED BY <1>1, <1>2, <1>3, <2>1, <2>2, <2>3
<1>8. ASSUME NEW w \in Workers, WorkerRun(w) PROVE NoIdleSleeper'
  <2>1. /\ Checkers' = Checkers /\ Sleepers' = Sleepers
        /\ \A v \in Workers : pc'[v] = "exit" => pc[v] = "exit"
    BY <1>8 DEF WorkerRun, Goto, Checkers, Sleepers, TypeOK
  <2> QED BY <1>1, <1>2, <1>8, <2>1 DEF WorkerRun
<1>9. ASSUME StopNotify PROVE NoIdleSleeper'
  <2>1. Sleepers' = {} /\ \A v \in Workers : pc'[v] = "exit" => pc[v] = "exit"
    BY <1>9 DEF StopNotify, NotifyAll, Sleepers, TypeOK
  <2> QED BY <1>1, <1>2, <1>9, <2>1 DEF StopNotify
<1>10. ASSUME \/ \E t \in Tasks : EnqueueReject(t)
              \/ StopAccepting \/ Join \/ UNCHANGED vars
       PROVE  NoIdleSleeper'
  <2>1. /\ pc' = pc /\ queue' = queue
        /\ Sleepers' = Sleepers /\ Checkers' = Checkers
        /\ accepting' => accepting
        /\ host' \in {"stopped", "joined"} => host \in {"stopped", "joined"}
    BY <1>10 DEF EnqueueReject, StopAccepting, Join, vars, Sleepers, Checkers, TypeOK
  <2> QED BY <1>1, <1>2, <2>1
<1> QED
  BY <1>4, <1>5, <1>6, <1>7, <1>8, <1>9, <1>10 DEF Next, WorkerStep

\* IInv holds in every reachable state.
LEMMA Invariance == Spec => []IInv
<1>1. IInv /\ [Next]_vars => IInv'
  BY TypeStep, ActiveStep, PlaceStep, SleepStep DEF IInv
<1> QED BY InitIInv, <1>1, PTL DEF Spec

\* The queue never exceeds its capacity, active_ never drops below zero and a
\* worker holds a task exactly from the pop to the decrement.
THEOREM TypesHold == Spec => []TypeOK
BY Invariance, PTL DEF IInv

\* enqueue, worker_loop and request_stop never lose or duplicate a task: an
\* accepted task is in the queue once or in the hands of one worker.
THEOREM TaskNeverLost == Spec => []TaskInOnePlace
BY Invariance, PTL DEF IInv

\* active_ is the number of workers between the pop and the decrement.
THEOREM ActiveCounts == Spec => []ActiveIsExact
BY Invariance, PTL DEF IInv

\* One notify_one per task is enough, and nobody leaves or sleeps through a stop.
THEOREM NoLostWakeup == Spec => []NoIdleSleeper
BY Invariance, PTL DEF IInv

-----------------------------------------------------------------------------
(* The refinement of TaskPool *)

\* Slot, the mapped slots: a worker at "run" has its task, any other none.
LEMMA SlotStep ==
    ASSUME NEW w \in Workers, TypeOK, NEW x,
           \A v \in Workers \ {w} : pc'[v] = pc[v] /\ task'[v] = task[v],
           x = IF pc'[w] = "run" THEN task'[w] ELSE NoTask
    PROVE  Slot' = [Slot EXCEPT ![w] = x]
BY DEF Slot

LEMMA SlotSame ==
    ASSUME \A v \in Workers : /\ pc'[v] = "run" <=> pc[v] = "run"
                              /\ pc[v] = "run" => task'[v] = task[v]
    PROVE  Slot' = Slot
BY DEF Slot

\* Every step of the threads is a step of the pool or leaves it unchanged.
LEMMA PoolStep == ASSUME TypeOK, [Next]_vars PROVE [Pool!Next]_Pool!poolVars
<1> USE ExecutorAssumption DEF Pool!poolVars, Pool!Next
<1>1. ASSUME NEW t \in Tasks, EnqueueAccept(t) PROVE Pool!Accept(t)
  <2>1. Slot' = Slot
    BY <1>1, NotifyShape, SlotSame DEF EnqueueAccept
  <2> QED BY <1>1, <2>1 DEF EnqueueAccept, QueueIsFull, Pool!Accept, Pool!MustRefuse
<1>2. ASSUME NEW t \in Tasks, EnqueueReject(t) PROVE Pool!Refuse(t)
  <2>1. Slot' = Slot
    BY <1>2, SlotSame DEF EnqueueReject
  <2> QED BY <1>2, <2>1 DEF EnqueueReject, QueueIsFull, Pool!Refuse, Pool!MustRefuse
<1>3. ASSUME NEW w \in Workers, WorkerTake(w) PROVE Pool!Start(w)
  <2>1. Slot[w] = NoTask
    BY <1>3 DEF WorkerTake, Goto, Slot
  <2>2. Slot' = [Slot EXCEPT ![w] = Head(queue)]
    BY <1>3, SlotStep DEF WorkerTake, TakeOldest, Goto, TypeOK
  <2> QED BY <1>3, <2>1, <2>2 DEF WorkerTake, TakeOldest, Pool!Start
<1>4. ASSUME NEW w \in Workers, WorkerRun(w) PROVE Pool!Finish(w)
  <2>1. Slot[w] = task[w] /\ task[w] \in Tasks
    BY <1>4 DEF WorkerRun, Goto, Slot, TypeOK, Held
  <2>2. Slot' = [Slot EXCEPT ![w] = NoTask]
    BY <1>4, SlotStep DEF WorkerRun, Goto, TypeOK
  <2> QED BY <1>4, <2>1, <2>2 DEF WorkerRun, Pool!Finish
<1>5. ASSUME StopAccepting PROVE Pool!Close
  <2>1. Slot' = Slot
    BY <1>5, SlotSame DEF StopAccepting
  <2> QED BY <1>5, <2>1 DEF StopAccepting, Pool!Close, TypeOK
<1>6. ASSUME \/ \E w \in Workers : \/ WorkerWait(w) \/ WorkerExit(w)
                                   \/ WorkerRetire(w) \/ SpuriousWakeup(w)
             \/ StopNotify \/ Join \/ UNCHANGED vars
      PROVE  UNCHANGED Pool!poolVars
  <2>1. /\ \A v \in Workers : pc'[v] = "run" <=> pc[v] = "run"
        /\ \A v \in Workers : pc[v] = "run" => task'[v] = task[v]
    BY <1>6, NotifyShape DEF WorkerWait, WorkerExit, WorkerRetire, SpuriousWakeup,
       StopNotify, Join, vars, Goto, TypeOK
  <2>2. Slot' = Slot
    BY <2>1, SlotSame
  <2> QED BY <1>6, <2>2 DEF WorkerWait, WorkerExit, WorkerRetire, SpuriousWakeup,
          StopNotify, Join, vars
<1> QED BY <1>1, <1>2, <1>3, <1>4, <1>5, <1>6 DEF Next, WorkerStep

\* The executor of execution.cpp is a bounded FIFO pool: first come first run,
\* refusals only when full or closed, and a closed pool still drains.
THEOREM Refinement == Spec => ImplementsPool
<1>1. Init => Pool!Init
  BY DEF Init, Pool!Init, Slot
<1>2. TypeOK /\ [Next]_vars => [Pool!Next]_Pool!poolVars
  BY PoolStep
<1> QED BY <1>1, <1>2, TypesHold, PTL DEF Spec, ImplementsPool, Pool!Spec

-----------------------------------------------------------------------------
(* What the liveness of the pool rests on *)

\* While a task is queued, some worker is about to evaluate the predicate of the
\* wait, or all are busy: nobody sleeps or has left while work waits.
WorkIsTaken ==
    queue # <<>> => (\E w \in Workers : pc[w] = "check") \/ (\A w \in Workers : Held(w))

\* A future that is pending has a worker that is awake.
PendingHasWorker ==
    (\E t \in Tasks : future[t] = "pending") =>
        \E w \in Workers : pc[w] \in {"check", "run", "retire"}

\* After shutdown the threads are gone, and with them all work.
AllExited == host = "joined" => \A w \in Workers : pc[w] = "exit"
JoinedIsQuiet ==
    host = "joined" => /\ queue = <<>> /\ active = 0
                       /\ \A t \in Tasks : future[t] \in {"unsubmitted", "refused", "ready"}

LEMMA NobodyStalls == ASSUME IInv PROVE WorkIsTaken /\ PendingHasWorker
<1> USE ExecutorAssumption DEF IInv
<1>1. WorkIsTaken
  <2> SUFFICES ASSUME queue # <<>>, ~(\E w \in Workers : pc[w] = "check")
               PROVE  \A w \in Workers : Held(w)
    BY DEF WorkIsTaken
  <2>1. Checkers = {} /\ Cardinality(Checkers) = 0
    BY FS_EmptySet DEF Checkers
  <2>2. Len(queue) \in Nat /\ Len(queue) # 0
    BY DEF TypeOK
  <2>3. Sleepers = {}
    BY <2>1, <2>2, FiniteWorkers DEF NoIdleSleeper, Checkers
  <2>4. \A w \in Workers : pc[w] \notin {"wait", "check", "exit"}
    BY <2>3 DEF NoIdleSleeper, Sleepers
  <2> QED BY <2>4 DEF TypeOK, Held
<1>2. PendingHasWorker
  <2> SUFFICES ASSUME NEW t \in Tasks, future[t] = "pending"
               PROVE  \E w \in Workers : pc[w] \in {"check", "run", "retire"}
    BY DEF PendingHasWorker
  <2>1. queue # <<>> \/ \E w \in Started : task[w] = t
    BY DEF TaskInOnePlace
  <2>2. CASE queue # <<>>
    <3>1. PICK v : v \in Workers
      OBVIOUS
    <3> QED BY <1>1, <2>2, <3>1 DEF WorkIsTaken, Held
  <2>3. CASE \E w \in Started : task[w] = t
    BY <2>3 DEF Started
  <2> QED BY <2>1, <2>2, <2>3
<1> QED BY <1>1, <1>2

LEMMA ExitStep == ASSUME TypeOK, AllExited, [Next]_vars PROVE AllExited'
<1>1. ASSUME NEW t \in Tasks, EnqueueAccept(t) PROVE AllExited'
  BY <1>1 DEF EnqueueAccept, TypeOK, AllExited
<1>2. ASSUME NEW t \in Tasks, EnqueueReject(t) PROVE AllExited'
  BY <1>2 DEF EnqueueReject, AllExited
<1>3. ASSUME NEW w \in Workers, WorkerStep(w) \/ SpuriousWakeup(w) PROVE AllExited'
  BY <1>3 DEF WorkerStep, WorkerWait, WorkerTake, WorkerExit, WorkerRun, WorkerRetire,
              SpuriousWakeup, Goto, TypeOK, AllExited
<1>4. ASSUME StopAccepting \/ StopNotify \/ Join PROVE AllExited'
  BY <1>4 DEF StopAccepting, StopNotify, Join, AllExited
<1>5. ASSUME UNCHANGED vars PROVE AllExited'
  BY <1>5 DEF vars, AllExited
<1> QED BY <1>1, <1>2, <1>3, <1>4, <1>5 DEF Next

LEMMA QuietAtTheEnd == ASSUME IInv, AllExited PROVE JoinedIsQuiet
<1> USE ExecutorAssumption DEF IInv
<1> SUFFICES ASSUME host = "joined"
             PROVE  /\ queue = <<>> /\ active = 0
                    /\ \A t \in Tasks : future[t] \in {"unsubmitted", "refused", "ready"}
  BY DEF JoinedIsQuiet
<1>1. \A w \in Workers : pc[w] = "exit"
  BY DEF AllExited
<1>2. queue = <<>>
  <2>1. PICK w : w \in Workers
    OBVIOUS
  <2> QED BY <1>1, <2>1 DEF NoIdleSleeper
<1>3. active = 0
  <2>1. {w \in Workers : Held(w)} = {}
    BY <1>1 DEF Held
  <2> QED BY <2>1, FS_EmptySet DEF ActiveIsExact
<1>4. ASSUME NEW t \in Tasks PROVE future[t] # "pending"
  <2>1. Started = {} /\ DOMAIN queue = {}
    BY <1>1, <1>2 DEF Started
  <2> QED BY <2>1 DEF TaskInOnePlace
<1> QED BY <1>2, <1>3, <1>4 DEF TypeOK

\* No task waits while a worker sleeps on the condition variable or has returned
\* from worker_loop, and no future is pending without a worker to complete it: all
\* that AcceptedTaskCompletes needs from there is that these workers go on.
THEOREM WorkIsNeverStuck == Spec => [](WorkIsTaken /\ PendingHasWorker)
<1>1. Spec => []IInv
  BY Invariance
<1> QED BY <1>1, NobodyStalls, PTL

\* When shutdown has returned, nothing is queued or running, and the future of every
\* task that was accepted is ready: nobody waits for a task that no thread will run.
THEOREM ShutdownDrains == Spec => []JoinedIsQuiet
<1>1. Init => AllExited
  BY DEF Init, AllExited
<1>2. IInv /\ AllExited /\ [Next]_vars => AllExited'
  BY ExitStep DEF IInv
<1>3. IInv /\ AllExited => JoinedIsQuiet
  BY QuietAtTheEnd
<1> QED BY <1>1, <1>2, <1>3, Invariance, PTL DEF Spec
=============================================================================

------------------------ MODULE RuntimeService_proofs ------------------------
(***************************************************************************)
(* The safety of the runtime service and its refinement of RunLifecycle,   *)
(* for any runs, sessions, clients, workers and bounds.  IInv says who may *)
(* move the row of a run at each moment: the one client that launches it,  *)
(* the one task that executes it, or after a restart nobody.  Everything   *)
(* else follows a run along that line: its entry in active_runs_, the      *)
(* mutex of its session, the stop that was heard, and its events.  The     *)
(* last section proves what the liveness of the service rests on.          *)
(***************************************************************************)
EXTENDS RuntimeService, FiniteSetTheorems, TLAPS

InQueue(r) == \E i \in 1..Len(waiting) : waiting[i] = r
Terminal == {"succeeded", "failed", "cancelled"}

\* A client between the row it made or resumed and the executor, and one that
\* takes back a run the executor refused.
Early == {"logQueued", "logResumed", "register"}
Launching == Early \cup {"submit"}
TakingBack == {"deregister", "reject"}
Owning == Launching \cup TakingBack \cup {"logRejected"}
On(c, r, places) == op[c].run = r /\ op[c].at \in places

\* Nothing of a process survives it, and no request is inside handle when the
\* destructor has returned.
ModesOK ==
    /\ mode = "down" =>
           /\ activeRuns = {} /\ heard = {} /\ waiting = <<>>
           /\ \A r \in Runs : step[r].at = "none" /\ fate[r] = "unsubmitted"
    /\ mode \in {"gone", "down"} => activeRuns = {} /\ \A c \in Clients : op[c].at = "idle"

\* A request is about a run that exists; the client that launches a run is the
\* only one, and the row waits for it.
ClientsOK ==
    /\ \A c \in Clients : op[c].at # "idle" => op[c].run \in Runs /\ row[op[c].run] # "absent"
    /\ \A c \in Clients : op[c].at \in Launching =>
           row[op[c].run] = "queued" /\ fate[op[c].run] = "unsubmitted"
    /\ \A c \in Clients : op[c].at \in TakingBack =>
           row[op[c].run] = "queued" /\ fate[op[c].run] = "refused"
    /\ \A c \in Clients : op[c].at = "logRejected" =>
           row[op[c].run] = "failed" /\ fate[op[c].run] = "refused"
    /\ \A c, d \in Clients :
           op[c].at \in Owning /\ op[d].at \in Owning /\ op[c].run = op[d].run => c = d

\* The executor has a task once, and it is none of a run that was not accepted.
QueueOK ==
    /\ \A r \in Runs : InQueue(r) => fate[r] = "pending" /\ step[r].at = "none"
    /\ \A i, j \in 1..Len(waiting) : waiting[i] = waiting[j] => i = j
    /\ \A r \in Runs : step[r].at # "none" => fate[r] = "pending"

\* The row of a run, by what became of it in this process and where its task is.
RowsOK ==
    \A r \in Runs :
        /\ row[r] # "cancelling"
        /\ row[r] \in {"absent", "interrupted"} => fate[r] = "unsubmitted"
        /\ fate[r] = "pending" /\ step[r].at \in {"none", "lock", "check", "claim"} =>
               row[r] = "queued"
        /\ step[r].at \in {"started", "handle"} => row[r] = "running"
        /\ step[r].at = "write" => row[r] = step[r].from
        /\ step[r].at = "log" => row[r] = step[r].to
        /\ step[r].at \in {"unlock", "leave", "notify"} \/ fate[r] = "ready" =>
               row[r] \in Terminal
        /\ row[r] = "running" /\ mode # "down" => InBody(r)

\* A run the executor refused is failed, or its client has still to make it so.
RefusalsOK ==
    \A r \in Runs : fate[r] = "refused" =>
        \/ row[r] = "failed"
        \/ row[r] = "queued" /\ \E c \in Clients : On(c, r, TakingBack)

\* What a task will write over its row is a move of the table.
DecisionsOK ==
    \A r \in Runs :
        /\ step[r].at = "write" =>
               \/ step[r].from = "queued" /\ step[r].to = "cancelled"
               \/ step[r].from = "running" /\ step[r].to \in Terminal
        /\ step[r].at = "log" => step[r].to \in Terminal

LocksOK ==
    \A r \in Runs :
        step[r].at \in {"check", "claim", "started", "handle", "write", "log", "unlock"}
            => lockedBy[SessionOf[r]] = r

\* active_runs_ has the runs that a client has registered and not taken back, and
\* those the executor took, until their task leaves.
ActiveOK ==
    \A r \in Runs :
        r \in activeRuns <=> \/ fate[r] = "pending" /\ step[r].at # "notify"
                             \/ \E c \in Clients : On(c, r, {"submit", "deregister"})

\* A stop that was heard stays requested, and is what the task decides.
HeardOK ==
    \A r \in heard :
        /\ r \in stop
        /\ row[r] \notin {"absent", "interrupted", "succeeded"}
        /\ row[r] = "failed" => fate[r] = "refused"
        /\ step[r].at = "write" => step[r].to = "cancelled"
        /\ \A c \in Clients : ~On(c, r, Early)

\* The positions of some events in a log.
Positions(l, events) == {i \in DOMAIN l : l[i] \in events}
Count(l, events) == Cardinality(Positions(l, events))

\* No more starts than resumes for a run that may still be started, and one more at
\* most for any other.
MayStart(r) == \/ \E c \in Clients : On(c, r, {"logQueued", "register", "submit"})
               \/ fate[r] = "pending" /\ (row[r] = "queued" \/ step[r].at = "started")
StartsOK ==
    \A r \in Runs :
        /\ row[r] = "absent" => log[r] = <<>>
        /\ Count(log[r], {"started"}) <= 1 + Count(log[r], {"resumed"})
        /\ MayStart(r) => Count(log[r], {"started"}) <= Count(log[r], {"resumed"})

\* An outcome is that of the row, and there is none before the step that logs it.
ToBeLogged(r) == step[r].at = "log" \/ \E c \in Clients : On(c, r, {"logRejected"})
OutcomesOK ==
    \A r \in Runs :
        /\ \A i \in Positions(log[r], Outcomes) :
               row[r] = IF log[r][i] = "rejected" THEN "failed" ELSE log[r][i]
        /\ Count(log[r], Outcomes) <= 1
        /\ ToBeLogged(r) => Positions(log[r], Outcomes) = {}

\* Only a crash loses an outcome.
LossOK ==
    \A r \in Runs : row[r] \in Terminal /\ Positions(log[r], Outcomes) = {} =>
        ToBeLogged(r) \/ crashes > 0

\* TypeOK in parts.
TypeStore ==
    /\ row \in [Runs -> Terminal
           \cup {"queued", "running", "cancelling", "interrupted", "absent"}]
    /\ keyOf \in [Runs -> Keys \cup {NoRun}]
    /\ log \in [Runs -> Seq(Events)]
TypeMemory ==
    /\ mode \in {"up", "stopping", "gone", "down"}
    /\ activeRuns \subseteq Runs /\ stop \subseteq Runs
    /\ lockedBy \in [Sessions -> Runs \cup {NoRun}]
    /\ step \in [Runs -> [at : TaskPlaces, from : {"queued", "running"},
                          to : Terminal \cup {"queued"}]]
    /\ heard \subseteq Runs /\ promised \subseteq Runs
TypeRequests ==
    /\ waiting \in Seq(Runs)
    /\ slot \in [Workers -> Runs \cup {NoRun}]
    /\ fate \in [Runs -> {"unsubmitted", "refused", "pending", "ready"}]
    /\ op \in [Clients -> [at : ClientPlaces, run : Runs \cup {NoRun}]]
    /\ requests \in 0..MaxRequests /\ crashes \in 0..MaxCrashes

IInv ==
    /\ TypeOK /\ ModesOK /\ ClientsOK /\ QueueOK /\ RowsOK /\ RefusalsOK /\ DecisionsOK
    /\ LocksOK /\ ActiveOK /\ HeardOK /\ StartsOK /\ OutcomesOK /\ LossOK

-----------------------------------------------------------------------------
\* The moves a client or a task makes are in the table.
LEMMA Table ==
    /\ \A to \in {"running", "cancelled", "failed"} : to \in Lifecycle!Successors("queued")
    /\ \A to \in Terminal : to \in Lifecycle!Successors("running")
    /\ "queued" \in Lifecycle!Successors("interrupted")
BY Zenon DEF Terminal, Lifecycle!Successors

\* The run at the head of the queue was accepted and has no task yet.
LEMMA HeadOfQueue ==
    ASSUME IInv, waiting # <<>>
    PROVE  /\ Head(waiting) \in Runs
           /\ fate[Head(waiting)] = "pending" /\ step[Head(waiting)].at = "none"
<1>1. waiting \in Seq(Runs) /\ QueueOK
  BY DEF IInv, TypeOK
<1>2. 1 \in 1..Len(waiting) /\ waiting[1] = Head(waiting) /\ Head(waiting) \in Runs
  BY <1>1
<1> QED BY <1>1, <1>2 DEF QueueOK, InQueue

\* The sets of TypeOK.
LEMMA Sets ==
    /\ Lifecycle!Terminal = Terminal
    /\ Lifecycle!Status = Terminal \cup {"queued", "running", "cancelling", "interrupted"}
    /\ Outcomes = Terminal \cup {"rejected"}
BY DEF Lifecycle!Terminal, Lifecycle!Status, Terminal, Outcomes

LEMMA TypeParts == TypeOK <=> TypeStore /\ TypeMemory /\ TypeRequests
BY Sets DEF TypeOK, TypeStore, TypeMemory, TypeRequests

\* What is written into the database is a status, a key or an event.
LEMMA StoreStep == ASSUME IInv, [Next]_vars PROVE TypeStore'
<1>0. TypeStore /\ ClientsOK /\ DecisionsOK
  BY TypeParts DEF IInv
<1>a. step \in [Runs -> [at : TaskPlaces, from : {"queued", "running"},
                     to : Terminal \cup {"queued"}]]
  BY Sets DEF IInv, TypeOK
<1> USE <1>0, Sets DEF TypeStore, Events, db, memory, pool, history, bounds
<1>1. ASSUME NEW c \in Clients, NEW r \in Runs, NEW k \in Keys, CreateRun(c, r, k)
      PROVE  TypeStore'
  BY <1>1 DEF CreateRun, Receive, At
<1>2. ASSUME NEW c \in Clients, NEW r \in Runs, ResumeRun(c, r) PROVE TypeStore'
  BY <1>2 DEF ResumeRun, Receive, At, CanMove, TransitionRun
<1>3. ASSUME NEW c \in Clients, NEW r \in Runs, CancelRun(c, r) PROVE TypeStore'
  BY <1>3 DEF CancelRun, Receive, At
<1>4. ASSUME NEW c \in Clients, LogQueued(c) PROVE TypeStore'
  BY <1>4 DEF LogQueued, AppendEvent, At, Goto, ClientsOK, Launching, Early,
    TakingBack
<1>5. ASSUME NEW c \in Clients, LogResumed(c) PROVE TypeStore'
  BY <1>5 DEF LogResumed, AppendEvent, At, Goto, ClientsOK, Launching, Early,
    TakingBack
<1>6. ASSUME NEW c \in Clients, Register(c) PROVE TypeStore'
  BY <1>6 DEF Register, At, Goto, Reply
<1>7. ASSUME NEW c \in Clients, SubmitAccepted(c) PROVE TypeStore'
  BY <1>7 DEF SubmitAccepted, At, Reply, Pool!Accept
<1>8. ASSUME NEW c \in Clients, SubmitRefused(c) PROVE TypeStore'
  BY <1>8 DEF SubmitRefused, At, Goto, Pool!Refuse
<1>9. ASSUME NEW c \in Clients, Deregister(c) PROVE TypeStore'
  BY <1>9 DEF Deregister, At, Goto, RemoveActive
<1>10. ASSUME NEW c \in Clients, RejectRow(c) PROVE TypeStore'
  <2>1. row' \in {row, [row EXCEPT ![op[c].run] = "failed"]} /\ UNCHANGED <<keyOf, log>>
    BY <1>10 DEF RejectRow, TransitionRun
  <2> QED BY <2>1 DEF Terminal
<1>11. ASSUME NEW c \in Clients, LogRejected(c) PROVE TypeStore'
  BY <1>11 DEF LogRejected, At, AppendEvent, Reply, ClientsOK, Launching, Early,
    TakingBack
<1>12. ASSUME NEW c \in Clients, CancelSignal(c) PROVE TypeStore'
  BY <1>12 DEF CancelSignal, At, Goto, RequestStop
<1>13. ASSUME NEW c \in Clients, CancelReply(c) PROVE TypeStore'
  BY <1>13 DEF CancelReply, At, AppendEvent, Reply, ClientsOK, Launching, Early,
    TakingBack
<1>14. ASSUME NEW r \in Runs, TaskLock(r) PROVE TypeStore'
  BY <1>14 DEF TaskLock, Place, LockIsFree
<1>15. ASSUME NEW r \in Runs, TaskCheck(r) PROVE TypeStore'
  BY <1>15 DEF TaskCheck, Place, Decide, CancelStopped
<1>16. ASSUME NEW r \in Runs, TaskClaim(r) PROVE TypeStore'
  BY <1>16 DEF TaskClaim, Place, TransitionRun
<1>17. ASSUME NEW r \in Runs, TaskStarted(r) PROVE TypeStore'
  BY <1>17 DEF TaskStarted, Place, AppendEvent
<1>18. ASSUME NEW r \in Runs, TaskPersist(r) PROVE TypeStore'
  <2>1. row' \in {row, [row EXCEPT ![r] = step[r].to]} /\ keyOf' = keyOf
        /\ log' \in {log, [log EXCEPT ![r] = Append(@, step[r].to)]}
    BY <1>18 DEF TaskPersist, WriteThenLog, TransitionRun, AppendEvent
  <2>2. step[r].to \in Terminal /\ step[r].to \in Events
    BY <1>18 DEF DecisionsOK, Terminal, TaskPersist, WriteThenLog, Place
  <2>3. log[r] \in Seq(Events)
    OBVIOUS
  <2>4. Append(log[r], step[r].to) \in Seq(Events)
    BY ONLY <2>2, <2>3
  <2>5. log' \in [Runs -> Seq(Events)]
    BY <2>1, <2>4
  <2>6. row' \in [Runs -> Terminal
            \cup {"queued", "running", "cancelling", "interrupted", "absent"}]
    BY <2>1, <2>2
  <2> QED BY <2>1, <2>5, <2>6
<1>19. ASSUME NEW r \in Runs, TaskUnlock(r) PROVE TypeStore'
  BY <1>19 DEF TaskUnlock, Place
<1>20. ASSUME NEW r \in Runs, TaskLeave(r) PROVE TypeStore'
  BY <1>20 DEF TaskLeave, Place, RemoveActive
<1>21. ASSUME NEW r \in Runs, TaskHandled(r) PROVE TypeStore'
  BY <1>21 DEF TaskHandled, DecideOutcome, Decide
<1>22. ASSUME NEW w \in Workers, TaskStart(w) PROVE TypeStore'
  BY <1>22 DEF TaskStart, Place, Pool!Start
<1>23. ASSUME NEW w \in Workers, TaskNotify(w) PROVE TypeStore'
  BY <1>23 DEF TaskNotify, Place, Pool!Finish
<1>24. CASE BeginDestroy
  BY <1>24 DEF BeginDestroy, RequestStop
<1>25. CASE FinishDestroy
  BY <1>25 DEF FinishDestroy, At, Drained
<1>26. CASE Exit
  BY <1>26 DEF Exit, MemoryIsLost, NoStep, Idle
<1>27. CASE Crash
  BY <1>27 DEF Crash, MemoryIsLost, NoStep, Idle
<1>28. CASE Restart
  BY <1>28 DEF Restart, Recovered, Lifecycle!Recovered
<1>29. CASE UNCHANGED vars
  BY <1>29 DEF vars
<1> QED
  BY <1>1, <1>2, <1>3, <1>4, <1>5, <1>6, <1>7, <1>8, <1>9, <1>10, <1>11, <1>12, <1>13,
     <1>14, <1>15, <1>16, <1>17, <1>18, <1>19, <1>20, <1>21, <1>22, <1>23, <1>24,
     <1>25, <1>26, <1>27, <1>28, <1>29
  DEF Next, Request, ClientStep, TaskStep, WorkerStep

\* The service's memory stays about runs, and a task is at one of its places.
LEMMA MemoryStep == ASSUME IInv, [Next]_vars PROVE TypeMemory'
<1>0. TypeMemory /\ ClientsOK
  BY TypeParts DEF IInv
<1> USE <1>0, Sets DEF TypeMemory, TaskPlaces, db, memory, pool, history, bounds
<1>1. ASSUME NEW c \in Clients, NEW r \in Runs, NEW k \in Keys, CreateRun(c, r, k)
      PROVE  TypeMemory'
  BY <1>1 DEF CreateRun, Receive, At
<1>2. ASSUME NEW c \in Clients, NEW r \in Runs, ResumeRun(c, r) PROVE TypeMemory'
  BY <1>2 DEF ResumeRun, Receive, At, CanMove, TransitionRun
<1>3. ASSUME NEW c \in Clients, NEW r \in Runs, CancelRun(c, r) PROVE TypeMemory'
  BY <1>3 DEF CancelRun, Receive, At
<1>4. ASSUME NEW c \in Clients, LogQueued(c) PROVE TypeMemory'
  BY <1>4 DEF LogQueued, AppendEvent, At, Goto
<1>5. ASSUME NEW c \in Clients, LogResumed(c) PROVE TypeMemory'
  BY <1>5 DEF LogResumed, AppendEvent, At, Goto
<1>6. ASSUME NEW c \in Clients, Register(c) PROVE TypeMemory'
  BY <1>6 DEF Register, At, Goto, Reply, ClientsOK, Launching, Early, TakingBack
<1>7. ASSUME NEW c \in Clients, SubmitAccepted(c) PROVE TypeMemory'
  BY <1>7 DEF SubmitAccepted, At, Reply, Pool!Accept
<1>8. ASSUME NEW c \in Clients, SubmitRefused(c) PROVE TypeMemory'
  BY <1>8 DEF SubmitRefused, At, Goto, Pool!Refuse
<1>9. ASSUME NEW c \in Clients, Deregister(c) PROVE TypeMemory'
  BY <1>9 DEF Deregister, At, Goto, RemoveActive, ClientsOK, Launching, Early,
    TakingBack
<1>10. ASSUME NEW c \in Clients, RejectRow(c) PROVE TypeMemory'
  BY <1>10 DEF RejectRow, At, Goto, TransitionRun
<1>11. ASSUME NEW c \in Clients, LogRejected(c) PROVE TypeMemory'
  BY <1>11 DEF LogRejected, At, AppendEvent, Reply
<1>12. ASSUME NEW c \in Clients, CancelSignal(c) PROVE TypeMemory'
  BY <1>12 DEF CancelSignal, At, Goto, RequestStop, ClientsOK, Launching, Early,
    TakingBack
<1>13. ASSUME NEW c \in Clients, CancelReply(c) PROVE TypeMemory'
  BY <1>13 DEF CancelReply, At, AppendEvent, Reply, ClientsOK, Launching, Early,
    TakingBack
<1>14. ASSUME NEW r \in Runs, TaskLock(r) PROVE TypeMemory'
  BY ZenonT(60), <1>14 DEF TaskLock, Place, LockIsFree
<1>15. ASSUME NEW r \in Runs, TaskCheck(r) PROVE TypeMemory'
  BY <1>15 DEF TaskCheck, Place, Decide, CancelStopped, Terminal
<1>16. ASSUME NEW r \in Runs, TaskClaim(r) PROVE TypeMemory'
  BY <1>16 DEF TaskClaim, Place, TransitionRun
<1>17. ASSUME NEW r \in Runs, TaskStarted(r) PROVE TypeMemory'
  BY <1>17 DEF TaskStarted, Place, AppendEvent
<1>18. ASSUME NEW r \in Runs, TaskPersist(r) PROVE TypeMemory'
  BY <1>18 DEF TaskPersist, WriteThenLog, Place, TransitionRun, AppendEvent
<1>19. ASSUME NEW r \in Runs, TaskUnlock(r) PROVE TypeMemory'
  BY ZenonT(60), <1>19 DEF TaskUnlock, Place
<1>20. ASSUME NEW r \in Runs, TaskLeave(r) PROVE TypeMemory'
  BY <1>20 DEF TaskLeave, Place, RemoveActive
<1>21. ASSUME NEW r \in Runs, TaskHandled(r) PROVE TypeMemory'
  BY <1>21 DEF TaskHandled, DecideOutcome, Decide, Terminal
<1>22. ASSUME NEW w \in Workers, TaskStart(w) PROVE TypeMemory'
  BY <1>22, HeadOfQueue DEF TaskStart, Place, Pool!Start
<1>23. ASSUME NEW w \in Workers, TaskNotify(w) PROVE TypeMemory'
  BY ZenonT(60), <1>23 DEF TaskNotify, Place, Pool!Finish
<1>24. CASE BeginDestroy
  BY <1>24 DEF BeginDestroy, RequestStop
<1>25. CASE FinishDestroy
  BY <1>25 DEF FinishDestroy, At, Drained
<1>26. CASE Exit
  BY <1>26 DEF Exit, MemoryIsLost, NoStep, Idle
<1>27. CASE Crash
  BY <1>27 DEF Crash, MemoryIsLost, NoStep, Idle
<1>28. CASE Restart
  BY <1>28 DEF Restart, Recovered, Lifecycle!Recovered
<1>29. CASE UNCHANGED vars
  BY <1>29 DEF vars
<1> QED
  BY <1>1, <1>2, <1>3, <1>4, <1>5, <1>6, <1>7, <1>8, <1>9, <1>10, <1>11, <1>12, <1>13,
     <1>14, <1>15, <1>16, <1>17, <1>18, <1>19, <1>20, <1>21, <1>22, <1>23, <1>24,
     <1>25, <1>26, <1>27, <1>28, <1>29
  DEF Next, Request, ClientStep, TaskStep, WorkerStep

\* The executor holds runs, and a client is at one of its places.
LEMMA RequestsStep == ASSUME IInv, [Next]_vars PROVE TypeRequests'
<1>0. TypeRequests /\ ClientsOK
  BY TypeParts DEF IInv
<1> USE <1>0, ServiceAssumption DEF TypeRequests, ClientPlaces, Idle, db, memory,
    pool, history, bounds
<1>1. ASSUME NEW c \in Clients, NEW r \in Runs, NEW k \in Keys, CreateRun(c, r, k)
      PROVE  TypeRequests'
  BY <1>1 DEF CreateRun, Receive, At
<1>2. ASSUME NEW c \in Clients, NEW r \in Runs, ResumeRun(c, r) PROVE TypeRequests'
  BY <1>2 DEF ResumeRun, Receive, At, CanMove, TransitionRun
<1>3. ASSUME NEW c \in Clients, NEW r \in Runs, CancelRun(c, r) PROVE TypeRequests'
  BY <1>3 DEF CancelRun, Receive, At
<1>4. ASSUME NEW c \in Clients, LogQueued(c) PROVE TypeRequests'
  BY <1>4 DEF LogQueued, AppendEvent, At, Goto
<1>5. ASSUME NEW c \in Clients, LogResumed(c) PROVE TypeRequests'
  BY <1>5 DEF LogResumed, AppendEvent, At, Goto
<1>6. ASSUME NEW c \in Clients, Register(c) PROVE TypeRequests'
  BY <1>6 DEF Register, At, Goto, Reply
<1>7. ASSUME NEW c \in Clients, SubmitAccepted(c) PROVE TypeRequests'
  BY <1>7 DEF SubmitAccepted, At, Reply, Pool!Accept, ClientsOK, Launching, Early,
    TakingBack
<1>8. ASSUME NEW c \in Clients, SubmitRefused(c) PROVE TypeRequests'
  BY <1>8 DEF SubmitRefused, At, Goto, Pool!Refuse, ClientsOK, Launching, Early,
    TakingBack
<1>9. ASSUME NEW c \in Clients, Deregister(c) PROVE TypeRequests'
  BY <1>9 DEF Deregister, At, Goto, RemoveActive
<1>10. ASSUME NEW c \in Clients, RejectRow(c) PROVE TypeRequests'
  BY <1>10 DEF RejectRow, At, Goto, TransitionRun
<1>11. ASSUME NEW c \in Clients, LogRejected(c) PROVE TypeRequests'
  BY <1>11 DEF LogRejected, At, AppendEvent, Reply
<1>12. ASSUME NEW c \in Clients, CancelSignal(c) PROVE TypeRequests'
  BY <1>12 DEF CancelSignal, At, Goto, RequestStop
<1>13. ASSUME NEW c \in Clients, CancelReply(c) PROVE TypeRequests'
  BY <1>13 DEF CancelReply, At, AppendEvent, Reply
<1>14. ASSUME NEW r \in Runs, TaskLock(r) PROVE TypeRequests'
  BY <1>14 DEF TaskLock, Place, LockIsFree
<1>15. ASSUME NEW r \in Runs, TaskCheck(r) PROVE TypeRequests'
  BY <1>15 DEF TaskCheck, Place, Decide, CancelStopped
<1>16. ASSUME NEW r \in Runs, TaskClaim(r) PROVE TypeRequests'
  BY <1>16 DEF TaskClaim, Place, TransitionRun
<1>17. ASSUME NEW r \in Runs, TaskStarted(r) PROVE TypeRequests'
  BY <1>17 DEF TaskStarted, Place, AppendEvent
<1>18. ASSUME NEW r \in Runs, TaskPersist(r) PROVE TypeRequests'
  BY <1>18 DEF TaskPersist, WriteThenLog, Place, TransitionRun, AppendEvent
<1>19. ASSUME NEW r \in Runs, TaskUnlock(r) PROVE TypeRequests'
  BY <1>19 DEF TaskUnlock, Place
<1>20. ASSUME NEW r \in Runs, TaskLeave(r) PROVE TypeRequests'
  BY <1>20 DEF TaskLeave, Place, RemoveActive
<1>21. ASSUME NEW r \in Runs, TaskHandled(r) PROVE TypeRequests'
  BY <1>21 DEF TaskHandled, DecideOutcome, Decide
<1>22. ASSUME NEW w \in Workers, TaskStart(w) PROVE TypeRequests'
  BY <1>22, HeadOfQueue DEF TaskStart, Place, Pool!Start
<1>23. ASSUME NEW w \in Workers, TaskNotify(w) PROVE TypeRequests'
  BY <1>23 DEF TaskNotify, Place, Pool!Finish
<1>24. CASE BeginDestroy
  BY <1>24 DEF BeginDestroy, RequestStop
<1>25. CASE FinishDestroy
  BY <1>25 DEF FinishDestroy, At, Drained
<1>26. CASE Exit
  BY <1>26 DEF Exit, MemoryIsLost, NoStep, Idle
<1>27. CASE Crash
  BY <1>27 DEF Crash, MemoryIsLost, NoStep, Idle
<1>28. CASE Restart
  BY <1>28 DEF Restart, Recovered, Lifecycle!Recovered
<1>29. CASE UNCHANGED vars
  BY <1>29 DEF vars
<1> QED
  BY <1>1, <1>2, <1>3, <1>4, <1>5, <1>6, <1>7, <1>8, <1>9, <1>10, <1>11, <1>12, <1>13,
     <1>14, <1>15, <1>16, <1>17, <1>18, <1>19, <1>20, <1>21, <1>22, <1>23, <1>24,
     <1>25, <1>26, <1>27, <1>28, <1>29
  DEF Next, Request, ClientStep, TaskStep, WorkerStep

\* The four places where the code ignores whether transition_run did anything: it
\* did, for the row is where the client or the task has left it.
LEMMA RejectSucceeds ==
    ASSUME IInv, NEW c \in Clients, RejectRow(c)
    PROVE  /\ op[c].run \in Runs /\ row[op[c].run] = "queued"
           /\ row' = [row EXCEPT ![op[c].run] = "failed"]
BY Table DEF IInv, ClientsOK, TakingBack, RejectRow, At, TransitionRun, CanMove

LEMMA StopIsDecided ==
    ASSUME IInv, NEW r \in Runs, TaskCheck(r)
    PROVE  \/ r \in stop /\ row[r] = "queued" /\ Decide(r, "queued", "cancelled")
           \/ r \notin stop /\ step' = [step EXCEPT ![r].at = "claim"]
BY DEF IInv, QueueOK, RowsOK, TaskCheck, CancelStopped, Place

LEMMA ClaimSucceeds ==
    ASSUME IInv, NEW r \in Runs, TaskClaim(r)
    PROVE  /\ row[r] = "queued" /\ row' = [row EXCEPT ![r] = "running"]
           /\ step[r].at = "claim" /\ step' = [step EXCEPT ![r].at = "started"]
<1>1. row[r] = "queued" /\ CanMove(r, "queued", "running")
  BY Table DEF IInv, QueueOK, RowsOK, TaskClaim, Place, CanMove
<1> QED BY <1>1 DEF TaskClaim, TransitionRun, Place

LEMMA PersistSucceeds ==
    ASSUME IInv, NEW r \in Runs, TaskPersist(r)
    PROVE  /\ step[r].to \in Terminal
           /\ \/ /\ step[r].at = "write" /\ step' = [step EXCEPT ![r].at = "log"]
                 /\ \/ row[r] = "queued" /\ step[r].to = "cancelled"
                    \/ row[r] = "running"
                 /\ row' = [row EXCEPT ![r] = step[r].to] /\ log' = log
              \/ /\ step[r].at = "log" /\ step' = [step EXCEPT ![r].at = "unlock"]
                 /\ row' = row /\ AppendEvent(r, step[r].to)
<1>1. CASE step[r].at = "write"
  <2>1. CanMove(r, step[r].from, step[r].to) /\ step[r].to \in Terminal
    BY <1>1, Table DEF IInv, DecisionsOK, RowsOK, CanMove, Terminal
  <2>2. \/ row[r] = "queued" /\ step[r].to = "cancelled"
        \/ row[r] = "running"
    BY <1>1 DEF IInv, DecisionsOK, RowsOK
  <2> QED BY <1>1, <2>1, <2>2 DEF TaskPersist, WriteThenLog, TransitionRun, Place
<1>2. CASE step[r].at = "log"
  BY <1>2 DEF IInv, DecisionsOK, TaskPersist, WriteThenLog, AppendEvent, Place
<1> QED BY <1>1, <1>2 DEF TaskPersist, WriteThenLog, Place

\* A process takes nothing over, and its end waits for the clients.
LEMMA ModesStep == ASSUME IInv, [Next]_vars PROVE ModesOK'
<1>0. ModesOK
  BY DEF IInv
<1>a. /\ step \in [Runs -> [at : TaskPlaces, from : {"queued", "running"},
                     to : Terminal \cup {"queued"}]]
      /\ fate \in [Runs -> {"unsubmitted", "refused", "pending", "ready"}]
      /\ op \in [Clients -> [at : ClientPlaces, run : Runs \cup {NoRun}]]
      /\ waiting \in Seq(Runs)
  BY TypeParts DEF IInv, TypeStore, TypeMemory, TypeRequests
<1> USE <1>0, <1>a, ServiceAssumption DEF ModesOK, Idle, NoStep, db, memory, pool,
    history, bounds
<1>1. ASSUME NEW c \in Clients, NEW r \in Runs, NEW k \in Keys, CreateRun(c, r, k)
      PROVE  ModesOK'
  BY <1>1 DEF CreateRun, Receive, At
<1>2. ASSUME NEW c \in Clients, NEW r \in Runs, ResumeRun(c, r) PROVE ModesOK'
  BY <1>2 DEF ResumeRun, Receive, At, CanMove, TransitionRun
<1>3. ASSUME NEW c \in Clients, NEW r \in Runs, CancelRun(c, r) PROVE ModesOK'
  BY <1>3 DEF CancelRun, Receive, At
<1>4. ASSUME NEW c \in Clients, LogQueued(c) PROVE ModesOK'
  BY <1>4 DEF LogQueued, AppendEvent, At, Goto
<1>5. ASSUME NEW c \in Clients, LogResumed(c) PROVE ModesOK'
  BY <1>5 DEF LogResumed, AppendEvent, At, Goto
<1>6. ASSUME NEW c \in Clients, Register(c) PROVE ModesOK'
  BY <1>6 DEF Register, At, Goto, Reply
<1>7. ASSUME NEW c \in Clients, SubmitAccepted(c) PROVE ModesOK'
  BY <1>7 DEF SubmitAccepted, At, Reply, Pool!Accept
<1>8. ASSUME NEW c \in Clients, SubmitRefused(c) PROVE ModesOK'
  BY <1>8 DEF SubmitRefused, At, Goto, Pool!Refuse
<1>9. ASSUME NEW c \in Clients, Deregister(c) PROVE ModesOK'
  BY <1>9 DEF Deregister, At, Goto, RemoveActive
<1>10. ASSUME NEW c \in Clients, RejectRow(c) PROVE ModesOK'
  BY <1>10 DEF RejectRow, At, Goto, TransitionRun
<1>11. ASSUME NEW c \in Clients, LogRejected(c) PROVE ModesOK'
  BY <1>11 DEF LogRejected, At, AppendEvent, Reply
<1>12. ASSUME NEW c \in Clients, CancelSignal(c) PROVE ModesOK'
  BY <1>12 DEF CancelSignal, At, Goto, RequestStop
<1>13. ASSUME NEW c \in Clients, CancelReply(c) PROVE ModesOK'
  BY <1>13 DEF CancelReply, At, AppendEvent, Reply
<1>14. ASSUME NEW r \in Runs, TaskLock(r) PROVE ModesOK'
  BY <1>14 DEF TaskLock, Place, LockIsFree
<1>15. ASSUME NEW r \in Runs, TaskCheck(r) PROVE ModesOK'
  BY <1>15 DEF TaskCheck, Place, Decide, CancelStopped
<1>16. ASSUME NEW r \in Runs, TaskClaim(r) PROVE ModesOK'
  BY <1>16 DEF TaskClaim, Place, TransitionRun
<1>17. ASSUME NEW r \in Runs, TaskStarted(r) PROVE ModesOK'
  BY <1>17 DEF TaskStarted, Place, AppendEvent
<1>18. ASSUME NEW r \in Runs, TaskPersist(r) PROVE ModesOK'
  BY <1>18 DEF TaskPersist, WriteThenLog, Place, TransitionRun, AppendEvent
<1>19. ASSUME NEW r \in Runs, TaskUnlock(r) PROVE ModesOK'
  BY <1>19 DEF TaskUnlock, Place
<1>20. ASSUME NEW r \in Runs, TaskLeave(r) PROVE ModesOK'
  BY <1>20 DEF TaskLeave, Place, RemoveActive
<1>21. ASSUME NEW r \in Runs, TaskHandled(r) PROVE ModesOK'
  BY <1>21 DEF TaskHandled, DecideOutcome, Decide
<1>22. ASSUME NEW w \in Workers, TaskStart(w) PROVE ModesOK'
  BY <1>22 DEF TaskStart, Place, Pool!Start
<1>23. ASSUME NEW w \in Workers, TaskNotify(w) PROVE ModesOK'
  BY <1>23 DEF TaskNotify, Place, Pool!Finish
<1>24. CASE BeginDestroy
  BY <1>24 DEF BeginDestroy, RequestStop
<1>25. CASE FinishDestroy
  BY <1>25 DEF FinishDestroy, At, Drained
<1>26. CASE Exit
  BY <1>26 DEF Exit, MemoryIsLost, NoStep, Idle
<1>27. CASE Crash
  BY <1>27 DEF Crash, MemoryIsLost, NoStep, Idle
<1>28. CASE Restart
  BY <1>28 DEF Restart, Recovered, Lifecycle!Recovered
<1>29. CASE UNCHANGED vars
  BY SMTT(30), <1>29 DEF vars
<1> QED
  BY <1>1, <1>2, <1>3, <1>4, <1>5, <1>6, <1>7, <1>8, <1>9, <1>10, <1>11, <1>12, <1>13,
     <1>14, <1>15, <1>16, <1>17, <1>18, <1>19, <1>20, <1>21, <1>22, <1>23, <1>24,
     <1>25, <1>26, <1>27, <1>28, <1>29
  DEF Next, Request, ClientStep, TaskStep, WorkerStep

\* A run has one launching client: ids and keys are fresh, and a resume needs a row that
\* is "interrupted", which only one client can make "queued" again.
LEMMA ClientsStep == ASSUME IInv, [Next]_vars PROVE ClientsOK'
<1>0. ClientsOK
  BY DEF IInv
<1>a. /\ op \in [Clients -> [at : ClientPlaces, run : Runs \cup {NoRun}]]
      /\ fate \in [Runs -> {"unsubmitted", "refused", "pending", "ready"}]
      /\ row \in [Runs -> Terminal
             \cup {"queued", "running", "cancelling", "interrupted", "absent"}]
  BY TypeParts DEF IInv, TypeStore, TypeMemory, TypeRequests
<1> USE <1>0, <1>a, ServiceAssumption DEF ClientsOK, Idle, NoStep, Owning, Launching,
    Early, TakingBack, db, memory, pool, history, bounds
<1>1. ASSUME NEW c \in Clients, NEW r \in Runs, NEW k \in Keys, CreateRun(c, r, k)
      PROVE  ClientsOK'
  BY <1>1 DEF CreateRun, Receive, At, IInv, RowsOK
<1>2. ASSUME NEW c \in Clients, NEW r \in Runs, ResumeRun(c, r) PROVE ClientsOK'
  BY <1>2 DEF ResumeRun, Receive, At, CanMove, TransitionRun, IInv, RowsOK
<1>3. ASSUME NEW c \in Clients, NEW r \in Runs, CancelRun(c, r) PROVE ClientsOK'
  BY <1>3 DEF CancelRun, Receive, At
<1>4. ASSUME NEW c \in Clients, LogQueued(c) PROVE ClientsOK'
  BY <1>4 DEF LogQueued, AppendEvent, At, Goto
<1>5. ASSUME NEW c \in Clients, LogResumed(c) PROVE ClientsOK'
  BY <1>5 DEF LogResumed, AppendEvent, At, Goto
<1>6. ASSUME NEW c \in Clients, Register(c) PROVE ClientsOK'
  BY SMTT(30), <1>6 DEF Register, At, Goto, Reply
<1>7. ASSUME NEW c \in Clients, SubmitAccepted(c) PROVE ClientsOK'
  BY <1>7 DEF SubmitAccepted, At, Reply, Pool!Accept
<1>8. ASSUME NEW c \in Clients, SubmitRefused(c) PROVE ClientsOK'
  BY <1>8 DEF SubmitRefused, At, Goto, Pool!Refuse
<1>9. ASSUME NEW c \in Clients, Deregister(c) PROVE ClientsOK'
  BY <1>9 DEF Deregister, At, Goto, RemoveActive
<1>10. ASSUME NEW c \in Clients, RejectRow(c) PROVE ClientsOK'
  <2>1. /\ op[c].run \in Runs /\ row[op[c].run] = "queued"
        /\ row' = [row EXCEPT ![op[c].run] = "failed"]
    BY <1>10, RejectSucceeds
  <2> QED BY <1>10, <2>1 DEF RejectRow, At, Goto, TakingBack
<1>11. ASSUME NEW c \in Clients, LogRejected(c) PROVE ClientsOK'
  BY <1>11 DEF LogRejected, At, AppendEvent, Reply
<1>12. ASSUME NEW c \in Clients, CancelSignal(c) PROVE ClientsOK'
  BY <1>12 DEF CancelSignal, At, Goto, RequestStop
<1>13. ASSUME NEW c \in Clients, CancelReply(c) PROVE ClientsOK'
  BY <1>13 DEF CancelReply, At, AppendEvent, Reply
<1>14. ASSUME NEW r \in Runs, TaskLock(r) PROVE ClientsOK'
  BY <1>14 DEF TaskLock, Place, LockIsFree
<1>15. ASSUME NEW r \in Runs, TaskCheck(r) PROVE ClientsOK'
  BY <1>15 DEF TaskCheck, Place, Decide, CancelStopped
<1>16. ASSUME NEW r \in Runs, TaskClaim(r) PROVE ClientsOK'
  <2>1. /\ row[r] = "queued" /\ row' = [row EXCEPT ![r] = "running"]
        /\ step[r].at = "claim" /\ step' = [step EXCEPT ![r].at = "started"]
    BY <1>16, ClaimSucceeds
  <2> QED BY <1>16, <2>1 DEF TaskClaim, QueueOK, IInv
<1>17. ASSUME NEW r \in Runs, TaskStarted(r) PROVE ClientsOK'
  BY <1>17 DEF TaskStarted, Place, AppendEvent
<1>18. ASSUME NEW r \in Runs, TaskPersist(r) PROVE ClientsOK'
  <2>1. /\ step[r].to \in Terminal
        /\ \/ /\ step[r].at = "write" /\ step' = [step EXCEPT ![r].at = "log"]
              /\ \/ row[r] = "queued" /\ step[r].to = "cancelled"
                 \/ row[r] = "running"
              /\ row' = [row EXCEPT ![r] = step[r].to] /\ log' = log
           \/ /\ step[r].at = "log" /\ step' = [step EXCEPT ![r].at = "unlock"]
              /\ row' = row /\ AppendEvent(r, step[r].to)
    BY <1>18, PersistSucceeds
  <2> QED BY <1>18, <2>1 DEF TaskPersist, QueueOK, IInv, Terminal
<1>19. ASSUME NEW r \in Runs, TaskUnlock(r) PROVE ClientsOK'
  BY <1>19 DEF TaskUnlock, Place
<1>20. ASSUME NEW r \in Runs, TaskLeave(r) PROVE ClientsOK'
  BY <1>20 DEF TaskLeave, Place, RemoveActive
<1>21. ASSUME NEW r \in Runs, TaskHandled(r) PROVE ClientsOK'
  BY <1>21 DEF TaskHandled, DecideOutcome, Decide
<1>22. ASSUME NEW w \in Workers, TaskStart(w) PROVE ClientsOK'
  BY <1>22 DEF TaskStart, Place, Pool!Start
<1>23. ASSUME NEW w \in Workers, TaskNotify(w) PROVE ClientsOK'
  BY <1>23 DEF TaskNotify, Place, Pool!Finish, IInv, QueueOK
<1>24. CASE BeginDestroy
  BY <1>24 DEF BeginDestroy, RequestStop
<1>25. CASE FinishDestroy
  BY <1>25 DEF FinishDestroy, At, Drained
<1>26. CASE Exit
  BY <1>26 DEF Exit, MemoryIsLost, NoStep, Idle
<1>27. CASE Crash
  BY <1>27 DEF Crash, MemoryIsLost, NoStep, Idle
<1>28. CASE Restart
  BY <1>28 DEF Restart, Recovered, Lifecycle!Recovered, IInv, ModesOK
<1>29. CASE UNCHANGED vars
  BY <1>29 DEF vars
<1> QED
  BY <1>1, <1>2, <1>3, <1>4, <1>5, <1>6, <1>7, <1>8, <1>9, <1>10, <1>11, <1>12, <1>13,
     <1>14, <1>15, <1>16, <1>17, <1>18, <1>19, <1>20, <1>21, <1>22, <1>23, <1>24,
     <1>25, <1>26, <1>27, <1>28, <1>29
  DEF Next, Request, ClientStep, TaskStep, WorkerStep

\* A run enters the queue when its only client submits it, and a task leaves the queue
\* when it starts.
LEMMA QueueStep == ASSUME IInv, [Next]_vars PROVE QueueOK'
<1>0. QueueOK
  BY DEF IInv
<1>a. /\ step \in [Runs -> [at : TaskPlaces, from : {"queued", "running"},
                     to : Terminal \cup {"queued"}]]
      /\ fate \in [Runs -> {"unsubmitted", "refused", "pending", "ready"}]
      /\ waiting \in Seq(Runs)
  BY TypeParts DEF IInv, TypeStore, TypeMemory, TypeRequests
<1> USE <1>0, <1>a DEF QueueOK, InQueue, NoStep, db, memory, pool, history, bounds
<1>1. ASSUME NEW c \in Clients, NEW r \in Runs, NEW k \in Keys, CreateRun(c, r, k)
      PROVE  QueueOK'
  BY <1>1 DEF CreateRun, Receive, At
<1>2. ASSUME NEW c \in Clients, NEW r \in Runs, ResumeRun(c, r) PROVE QueueOK'
  BY <1>2 DEF ResumeRun, Receive, At, CanMove, TransitionRun
<1>3. ASSUME NEW c \in Clients, NEW r \in Runs, CancelRun(c, r) PROVE QueueOK'
  BY <1>3 DEF CancelRun, Receive, At
<1>4. ASSUME NEW c \in Clients, LogQueued(c) PROVE QueueOK'
  BY <1>4 DEF LogQueued, AppendEvent, At, Goto
<1>5. ASSUME NEW c \in Clients, LogResumed(c) PROVE QueueOK'
  BY <1>5 DEF LogResumed, AppendEvent, At, Goto
<1>6. ASSUME NEW c \in Clients, Register(c) PROVE QueueOK'
  BY <1>6 DEF Register, At, Goto, Reply
<1>7. ASSUME NEW c \in Clients, SubmitAccepted(c) PROVE QueueOK'
  BY <1>7 DEF SubmitAccepted, At, Reply, Pool!Accept, IInv, ClientsOK, Launching
<1>8. ASSUME NEW c \in Clients, SubmitRefused(c) PROVE QueueOK'
  BY <1>8 DEF SubmitRefused, At, Goto, Pool!Refuse, IInv, ClientsOK, Launching
<1>9. ASSUME NEW c \in Clients, Deregister(c) PROVE QueueOK'
  BY <1>9 DEF Deregister, At, Goto, RemoveActive
<1>10. ASSUME NEW c \in Clients, RejectRow(c) PROVE QueueOK'
  BY <1>10 DEF RejectRow, At, Goto, TransitionRun
<1>11. ASSUME NEW c \in Clients, LogRejected(c) PROVE QueueOK'
  BY <1>11 DEF LogRejected, At, AppendEvent, Reply
<1>12. ASSUME NEW c \in Clients, CancelSignal(c) PROVE QueueOK'
  BY <1>12 DEF CancelSignal, At, Goto, RequestStop
<1>13. ASSUME NEW c \in Clients, CancelReply(c) PROVE QueueOK'
  BY <1>13 DEF CancelReply, At, AppendEvent, Reply
<1>14. ASSUME NEW r \in Runs, TaskLock(r) PROVE QueueOK'
  BY <1>14 DEF TaskLock, Place, LockIsFree
<1>15. ASSUME NEW r \in Runs, TaskCheck(r) PROVE QueueOK'
  BY <1>15 DEF TaskCheck, Place, Decide, CancelStopped
<1>16. ASSUME NEW r \in Runs, TaskClaim(r) PROVE QueueOK'
  BY <1>16 DEF TaskClaim, Place, TransitionRun
<1>17. ASSUME NEW r \in Runs, TaskStarted(r) PROVE QueueOK'
  BY <1>17 DEF TaskStarted, Place, AppendEvent
<1>18. ASSUME NEW r \in Runs, TaskPersist(r) PROVE QueueOK'
  BY <1>18 DEF TaskPersist, WriteThenLog, Place, TransitionRun, AppendEvent
<1>19. ASSUME NEW r \in Runs, TaskUnlock(r) PROVE QueueOK'
  BY <1>19 DEF TaskUnlock, Place
<1>20. ASSUME NEW r \in Runs, TaskLeave(r) PROVE QueueOK'
  BY <1>20 DEF TaskLeave, Place, RemoveActive
<1>21. ASSUME NEW r \in Runs, TaskHandled(r) PROVE QueueOK'
  BY <1>21 DEF TaskHandled, DecideOutcome, Decide
<1>22. ASSUME NEW w \in Workers, TaskStart(w) PROVE QueueOK'
  <2>1. waiting # <<>> /\ waiting' = Tail(waiting) /\ fate' = fate
        /\ step' = [step EXCEPT ![Head(waiting)].at = "lock"]
    BY <1>22 DEF TaskStart, Pool!Start, Place
  <2>2. /\ Len(waiting') = Len(waiting) - 1 /\ Len(waiting) \in Nat \ {0}
        /\ \A i \in 1..Len(waiting') : i + 1 \in 1..Len(waiting) /\ waiting'[i] = waiting[i + 1]
    BY <2>1
  <2>3. \A i \in 1..Len(waiting') : waiting'[i] # Head(waiting)
    <3>1. 1 \in 1..Len(waiting) /\ waiting[1] = Head(waiting)
      BY <2>2
    <3>2. \A i \in 1..Len(waiting') : i + 1 # 1
      BY <2>2
    <3> QED BY SMTT(30), <3>1, <3>2, <2>2
  <2>4. /\ Head(waiting) \in Runs
        /\ fate[Head(waiting)] = "pending" /\ step[Head(waiting)].at = "none"
    BY <2>1, HeadOfQueue
  <2>5. \A i, j \in 1..Len(waiting') : waiting'[i] = waiting'[j] => i = j
    <3> SUFFICES ASSUME NEW i \in 1..Len(waiting'), NEW j \in 1..Len(waiting'),
                        waiting'[i] = waiting'[j]
                 PROVE  i = j
      OBVIOUS
    <3>1. /\ i + 1 \in 1..Len(waiting) /\ j + 1 \in 1..Len(waiting)
          /\ waiting[i + 1] = waiting[j + 1]
      BY ONLY <2>2, waiting'[i] = waiting'[j], i \in 1..Len(waiting'), j \in 1..Len(waiting')
    <3>2. i + 1 = j + 1
      BY ONLY <3>1, <1>0 DEF QueueOK
    <3> QED BY ONLY <3>2, <2>2, i \in 1..Len(waiting'), j \in 1..Len(waiting')
  <2> QED BY <2>1, <2>2, <2>3, <2>4, <2>5
<1>23. ASSUME NEW w \in Workers, TaskNotify(w) PROVE QueueOK'
  BY <1>23 DEF TaskNotify, Place, Pool!Finish
<1>24. CASE BeginDestroy
  BY <1>24 DEF BeginDestroy, RequestStop
<1>25. CASE FinishDestroy
  BY <1>25 DEF FinishDestroy, At, Drained
<1>26. CASE Exit
  BY <1>26 DEF Exit, MemoryIsLost, NoStep, Idle
<1>27. CASE Crash
  BY <1>27 DEF Crash, MemoryIsLost, NoStep, Idle
<1>28. CASE Restart
  BY <1>28 DEF Restart, Recovered, Lifecycle!Recovered
<1>29. CASE UNCHANGED vars
  BY SMTT(30), <1>29 DEF vars
<1> QED
  BY <1>1, <1>2, <1>3, <1>4, <1>5, <1>6, <1>7, <1>8, <1>9, <1>10, <1>11, <1>12, <1>13,
     <1>14, <1>15, <1>16, <1>17, <1>18, <1>19, <1>20, <1>21, <1>22, <1>23, <1>24,
     <1>25, <1>26, <1>27, <1>28, <1>29
  DEF Next, Request, ClientStep, TaskStep, WorkerStep

\* The row of a run moves with its task; nobody else writes it.
LEMMA RowsStep == ASSUME IInv, [Next]_vars PROVE RowsOK'
<1>0. RowsOK /\ ClientsOK /\ QueueOK
  BY DEF IInv
<1>a. /\ row \in [Runs -> Terminal
             \cup {"queued", "running", "cancelling", "interrupted", "absent"}]
      /\ step \in [Runs -> [at : TaskPlaces, from : {"queued", "running"},
                     to : Terminal \cup {"queued"}]]
      /\ fate \in [Runs -> {"unsubmitted", "refused", "pending", "ready"}]
      /\ op \in [Clients -> [at : ClientPlaces, run : Runs \cup {NoRun}]]
  BY TypeParts DEF IInv, TypeStore, TypeMemory, TypeRequests
<1> USE <1>0, <1>a DEF RowsOK, NoStep, InBody, db, memory, pool, history, bounds
<1>1. ASSUME NEW c \in Clients, NEW r \in Runs, NEW k \in Keys, CreateRun(c, r, k) PROVE RowsOK'
  BY <1>1 DEF CreateRun, Receive, At, QueueOK
<1>2. ASSUME NEW c \in Clients, NEW r \in Runs, ResumeRun(c, r) PROVE RowsOK'
  BY <1>2 DEF ResumeRun, Receive, At, CanMove, TransitionRun, QueueOK
<1>3. ASSUME NEW c \in Clients, NEW r \in Runs, CancelRun(c, r) PROVE RowsOK'
  BY <1>3 DEF CancelRun, Receive, At
<1>4. ASSUME NEW c \in Clients, LogQueued(c) PROVE RowsOK'
  BY <1>4 DEF LogQueued, AppendEvent, At, Goto
<1>5. ASSUME NEW c \in Clients, LogResumed(c) PROVE RowsOK'
  BY <1>5 DEF LogResumed, AppendEvent, At, Goto
<1>6. ASSUME NEW c \in Clients, Register(c) PROVE RowsOK'
  BY <1>6 DEF Register, At, Goto, Reply
<1>7. ASSUME NEW c \in Clients, SubmitAccepted(c) PROVE RowsOK'
  BY <1>7 DEF SubmitAccepted, At, Reply, Pool!Accept, ClientsOK, Launching, TakingBack
<1>8. ASSUME NEW c \in Clients, SubmitRefused(c) PROVE RowsOK'
  BY <1>8 DEF SubmitRefused, At, Goto, Pool!Refuse, ClientsOK, Launching, TakingBack
<1>9. ASSUME NEW c \in Clients, Deregister(c) PROVE RowsOK'
  BY <1>9 DEF Deregister, At, Goto, RemoveActive
<1>10. ASSUME NEW c \in Clients, RejectRow(c) PROVE RowsOK'
  <2>1. /\ op[c].run \in Runs /\ row[op[c].run] = "queued"
        /\ row' = [row EXCEPT ![op[c].run] = "failed"]
    BY <1>10, RejectSucceeds
  <2> QED BY <1>10, <2>1 DEF RejectRow, At, Goto, ClientsOK, TakingBack, QueueOK
<1>11. ASSUME NEW c \in Clients, LogRejected(c) PROVE RowsOK'
  BY <1>11 DEF LogRejected, At, AppendEvent, Reply
<1>12. ASSUME NEW c \in Clients, CancelSignal(c) PROVE RowsOK'
  BY <1>12 DEF CancelSignal, At, Goto, RequestStop
<1>13. ASSUME NEW c \in Clients, CancelReply(c) PROVE RowsOK'
  BY <1>13 DEF CancelReply, At, AppendEvent, Reply
<1>14. ASSUME NEW r \in Runs, TaskLock(r) PROVE RowsOK'
  BY <1>14 DEF TaskLock, Place, LockIsFree
<1>15. ASSUME NEW r \in Runs, TaskCheck(r) PROVE RowsOK'
  <2>1. /\ step[r].at = "check" /\ UNCHANGED <<row, fate, mode>>
        /\ \/ Decide(r, "queued", "cancelled")
           \/ step' = [step EXCEPT ![r].at = "claim"]
    BY <1>15 DEF TaskCheck, CancelStopped, QueueOK, Place
  <2> QED BY <2>1 DEF Decide, QueueOK
<1>16. ASSUME NEW r \in Runs, TaskClaim(r) PROVE RowsOK'
  <2>1. /\ row[r] = "queued" /\ row' = [row EXCEPT ![r] = "running"]
        /\ step[r].at = "claim" /\ step' = [step EXCEPT ![r].at = "started"]
    BY <1>16, ClaimSucceeds
  <2> QED BY <1>16, <2>1 DEF TaskClaim, QueueOK
<1>17. ASSUME NEW r \in Runs, TaskStarted(r) PROVE RowsOK'
  BY <1>17 DEF TaskStarted, Place, AppendEvent
<1>18. ASSUME NEW r \in Runs, TaskPersist(r) PROVE RowsOK'
  <2>1. /\ step[r].to \in Terminal
        /\ \/ /\ step[r].at = "write" /\ step' = [step EXCEPT ![r].at = "log"]
              /\ \/ row[r] = "queued" /\ step[r].to = "cancelled"
                 \/ row[r] = "running"
              /\ row' = [row EXCEPT ![r] = step[r].to] /\ log' = log
           \/ /\ step[r].at = "log" /\ step' = [step EXCEPT ![r].at = "unlock"]
              /\ row' = row /\ AppendEvent(r, step[r].to)
    BY <1>18, PersistSucceeds
  <2> QED BY <1>18, <2>1 DEF TaskPersist, QueueOK, Terminal
<1>19. ASSUME NEW r \in Runs, TaskUnlock(r) PROVE RowsOK'
  BY <1>19 DEF TaskUnlock, Place
<1>20. ASSUME NEW r \in Runs, TaskLeave(r) PROVE RowsOK'
  BY <1>20 DEF TaskLeave, Place, RemoveActive
<1>21. ASSUME NEW r \in Runs, TaskHandled(r) PROVE RowsOK'
  <2>1. PICK to \in Terminal : Decide(r, "running", to)
    BY <1>21 DEF TaskHandled, DecideOutcome, Terminal
  <2> QED BY <1>21, <2>1 DEF TaskHandled, Decide
<1>22. ASSUME NEW w \in Workers, TaskStart(w) PROVE RowsOK'
  BY <1>22, HeadOfQueue DEF TaskStart, Place, Pool!Start
<1>23. ASSUME NEW w \in Workers, TaskNotify(w) PROVE RowsOK'
  BY <1>23 DEF TaskNotify, Place, Pool!Finish, QueueOK
<1>24. CASE BeginDestroy
  BY <1>24 DEF BeginDestroy, RequestStop
<1>25. CASE FinishDestroy
  BY <1>25 DEF FinishDestroy, At, Drained
<1>26. CASE Exit
  BY <1>26 DEF Exit, MemoryIsLost, NoStep, Idle
<1>27. CASE Crash
  BY <1>27 DEF Crash, MemoryIsLost, NoStep, Idle
<1>28. CASE Restart
  BY <1>28 DEF Restart, Recovered, Lifecycle!Recovered, ModesOK, IInv, Terminal
<1>29. CASE UNCHANGED vars
  BY <1>29 DEF vars
<1> QED
  BY <1>1, <1>2, <1>3, <1>4, <1>5, <1>6, <1>7, <1>8, <1>9, <1>10, <1>11, <1>12, <1>13,
     <1>14, <1>15, <1>16, <1>17, <1>18, <1>19, <1>20, <1>21, <1>22, <1>23, <1>24,
     <1>25, <1>26, <1>27, <1>28, <1>29
  DEF Next, Request, ClientStep, TaskStep, WorkerStep

\* The client of a refused run stays with it until it has written "failed".
LEMMA RefusalsStep == ASSUME IInv, [Next]_vars PROVE RefusalsOK'
<1>0. RefusalsOK /\ RowsOK
  BY DEF IInv
<1>a. /\ row \in [Runs -> Terminal
             \cup {"queued", "running", "cancelling", "interrupted", "absent"}]
      /\ fate \in [Runs -> {"unsubmitted", "refused", "pending", "ready"}]
      /\ op \in [Clients -> [at : ClientPlaces, run : Runs \cup {NoRun}]]
  BY TypeParts DEF IInv, TypeStore, TypeMemory, TypeRequests
<1> USE <1>0, <1>a DEF RefusalsOK, On, TakingBack, Idle, NoStep, db, memory, pool,
    history, bounds
<1>1. ASSUME NEW c \in Clients, NEW r \in Runs, NEW k \in Keys, CreateRun(c, r, k)
      PROVE  RefusalsOK'
  BY <1>1 DEF CreateRun, Receive, At, RowsOK
<1>2. ASSUME NEW c \in Clients, NEW r \in Runs, ResumeRun(c, r) PROVE RefusalsOK'
  BY <1>2 DEF ResumeRun, Receive, At, CanMove, TransitionRun, RowsOK
<1>3. ASSUME NEW c \in Clients, NEW r \in Runs, CancelRun(c, r) PROVE RefusalsOK'
  BY <1>3 DEF CancelRun, Receive, At
<1>4. ASSUME NEW c \in Clients, LogQueued(c) PROVE RefusalsOK'
  BY <1>4 DEF LogQueued, AppendEvent, At, Goto
<1>5. ASSUME NEW c \in Clients, LogResumed(c) PROVE RefusalsOK'
  BY <1>5 DEF LogResumed, AppendEvent, At, Goto
<1>6. ASSUME NEW c \in Clients, Register(c) PROVE RefusalsOK'
  BY <1>6 DEF Register, At, Goto, Reply
<1>7. ASSUME NEW c \in Clients, SubmitAccepted(c) PROVE RefusalsOK'
  BY <1>7 DEF SubmitAccepted, At, Reply, Pool!Accept
<1>8. ASSUME NEW c \in Clients, SubmitRefused(c) PROVE RefusalsOK'
  BY <1>8 DEF SubmitRefused, At, Goto, Pool!Refuse, IInv, ClientsOK, Launching
<1>9. ASSUME NEW c \in Clients, Deregister(c) PROVE RefusalsOK'
  BY <1>9 DEF Deregister, At, Goto, RemoveActive
<1>10. ASSUME NEW c \in Clients, RejectRow(c) PROVE RefusalsOK'
  <2>1. /\ op[c].run \in Runs /\ row[op[c].run] = "queued"
        /\ row' = [row EXCEPT ![op[c].run] = "failed"]
    BY <1>10, RejectSucceeds
  <2> QED BY <1>10, <2>1 DEF RejectRow, At, Goto
<1>11. ASSUME NEW c \in Clients, LogRejected(c) PROVE RefusalsOK'
  BY <1>11 DEF LogRejected, At, AppendEvent, Reply
<1>12. ASSUME NEW c \in Clients, CancelSignal(c) PROVE RefusalsOK'
  BY <1>12 DEF CancelSignal, At, Goto, RequestStop
<1>13. ASSUME NEW c \in Clients, CancelReply(c) PROVE RefusalsOK'
  BY <1>13 DEF CancelReply, At, AppendEvent, Reply
<1>14. ASSUME NEW r \in Runs, TaskLock(r) PROVE RefusalsOK'
  BY <1>14 DEF TaskLock, Place, LockIsFree
<1>15. ASSUME NEW r \in Runs, TaskCheck(r) PROVE RefusalsOK'
  BY <1>15 DEF TaskCheck, Place, Decide, CancelStopped
<1>16. ASSUME NEW r \in Runs, TaskClaim(r) PROVE RefusalsOK'
  <2>1. /\ row[r] = "queued" /\ row' = [row EXCEPT ![r] = "running"]
        /\ step[r].at = "claim" /\ step' = [step EXCEPT ![r].at = "started"]
    BY <1>16, ClaimSucceeds
  <2> QED BY <1>16, <2>1 DEF TaskClaim, IInv, QueueOK
<1>17. ASSUME NEW r \in Runs, TaskStarted(r) PROVE RefusalsOK'
  BY <1>17 DEF TaskStarted, Place, AppendEvent
<1>18. ASSUME NEW r \in Runs, TaskPersist(r) PROVE RefusalsOK'
  <2>1. /\ step[r].to \in Terminal
        /\ \/ /\ step[r].at = "write" /\ step' = [step EXCEPT ![r].at = "log"]
              /\ \/ row[r] = "queued" /\ step[r].to = "cancelled"
                 \/ row[r] = "running"
              /\ row' = [row EXCEPT ![r] = step[r].to] /\ log' = log
           \/ /\ step[r].at = "log" /\ step' = [step EXCEPT ![r].at = "unlock"]
              /\ row' = row /\ AppendEvent(r, step[r].to)
    BY <1>18, PersistSucceeds
  <2> QED BY <1>18, <2>1 DEF TaskPersist, IInv, QueueOK
<1>19. ASSUME NEW r \in Runs, TaskUnlock(r) PROVE RefusalsOK'
  BY <1>19 DEF TaskUnlock, Place
<1>20. ASSUME NEW r \in Runs, TaskLeave(r) PROVE RefusalsOK'
  BY <1>20 DEF TaskLeave, Place, RemoveActive
<1>21. ASSUME NEW r \in Runs, TaskHandled(r) PROVE RefusalsOK'
  BY <1>21 DEF TaskHandled, DecideOutcome, Decide
<1>22. ASSUME NEW w \in Workers, TaskStart(w) PROVE RefusalsOK'
  BY <1>22 DEF TaskStart, Place, Pool!Start
<1>23. ASSUME NEW w \in Workers, TaskNotify(w) PROVE RefusalsOK'
  BY <1>23 DEF TaskNotify, Place, Pool!Finish, IInv, QueueOK
<1>24. CASE BeginDestroy
  BY <1>24 DEF BeginDestroy, RequestStop
<1>25. CASE FinishDestroy
  BY <1>25 DEF FinishDestroy, At, Drained
<1>26. CASE Exit
  BY <1>26 DEF Exit, MemoryIsLost, NoStep, Idle
<1>27. CASE Crash
  BY <1>27 DEF Crash, MemoryIsLost, NoStep, Idle
<1>28. CASE Restart
  BY <1>28 DEF Restart, Recovered, Lifecycle!Recovered, IInv, ModesOK
<1>29. CASE UNCHANGED vars
  BY <1>29 DEF vars
<1> QED
  BY <1>1, <1>2, <1>3, <1>4, <1>5, <1>6, <1>7, <1>8, <1>9, <1>10, <1>11, <1>12, <1>13,
     <1>14, <1>15, <1>16, <1>17, <1>18, <1>19, <1>20, <1>21, <1>22, <1>23, <1>24,
     <1>25, <1>26, <1>27, <1>28, <1>29
  DEF Next, Request, ClientStep, TaskStep, WorkerStep

\* A task decides on a move of the table.
LEMMA DecisionsStep == ASSUME IInv, [Next]_vars PROVE DecisionsOK'
<1>0. DecisionsOK
  BY DEF IInv
<1>a. step \in [Runs -> [at : TaskPlaces, from : {"queued", "running"},
                     to : Terminal \cup {"queued"}]]
  BY TypeParts DEF IInv, TypeStore, TypeMemory, TypeRequests
<1> USE <1>0, <1>a DEF DecisionsOK, NoStep, Terminal, db, memory, pool, history,
    bounds
<1>1. ASSUME NEW c \in Clients, NEW r \in Runs, NEW k \in Keys, CreateRun(c, r, k)
      PROVE  DecisionsOK'
  BY <1>1 DEF CreateRun, Receive, At
<1>2. ASSUME NEW c \in Clients, NEW r \in Runs, ResumeRun(c, r) PROVE DecisionsOK'
  BY <1>2 DEF ResumeRun, Receive, At, CanMove, TransitionRun
<1>3. ASSUME NEW c \in Clients, NEW r \in Runs, CancelRun(c, r) PROVE DecisionsOK'
  BY <1>3 DEF CancelRun, Receive, At
<1>4. ASSUME NEW c \in Clients, LogQueued(c) PROVE DecisionsOK'
  BY <1>4 DEF LogQueued, AppendEvent, At, Goto
<1>5. ASSUME NEW c \in Clients, LogResumed(c) PROVE DecisionsOK'
  BY <1>5 DEF LogResumed, AppendEvent, At, Goto
<1>6. ASSUME NEW c \in Clients, Register(c) PROVE DecisionsOK'
  BY <1>6 DEF Register, At, Goto, Reply
<1>7. ASSUME NEW c \in Clients, SubmitAccepted(c) PROVE DecisionsOK'
  BY <1>7 DEF SubmitAccepted, At, Reply, Pool!Accept
<1>8. ASSUME NEW c \in Clients, SubmitRefused(c) PROVE DecisionsOK'
  BY <1>8 DEF SubmitRefused, At, Goto, Pool!Refuse
<1>9. ASSUME NEW c \in Clients, Deregister(c) PROVE DecisionsOK'
  BY <1>9 DEF Deregister, At, Goto, RemoveActive
<1>10. ASSUME NEW c \in Clients, RejectRow(c) PROVE DecisionsOK'
  BY <1>10 DEF RejectRow, At, Goto, TransitionRun
<1>11. ASSUME NEW c \in Clients, LogRejected(c) PROVE DecisionsOK'
  BY <1>11 DEF LogRejected, At, AppendEvent, Reply
<1>12. ASSUME NEW c \in Clients, CancelSignal(c) PROVE DecisionsOK'
  BY <1>12 DEF CancelSignal, At, Goto, RequestStop
<1>13. ASSUME NEW c \in Clients, CancelReply(c) PROVE DecisionsOK'
  BY <1>13 DEF CancelReply, At, AppendEvent, Reply
<1>14. ASSUME NEW r \in Runs, TaskLock(r) PROVE DecisionsOK'
  BY <1>14 DEF TaskLock, Place, LockIsFree
<1>15. ASSUME NEW r \in Runs, TaskCheck(r) PROVE DecisionsOK'
  BY <1>15 DEF TaskCheck, Place, Decide, CancelStopped
<1>16. ASSUME NEW r \in Runs, TaskClaim(r) PROVE DecisionsOK'
  BY <1>16 DEF TaskClaim, Place, TransitionRun
<1>17. ASSUME NEW r \in Runs, TaskStarted(r) PROVE DecisionsOK'
  BY <1>17 DEF TaskStarted, Place, AppendEvent
<1>18. ASSUME NEW r \in Runs, TaskPersist(r) PROVE DecisionsOK'
  BY <1>18 DEF TaskPersist, WriteThenLog, Place, TransitionRun, AppendEvent
<1>19. ASSUME NEW r \in Runs, TaskUnlock(r) PROVE DecisionsOK'
  BY <1>19 DEF TaskUnlock, Place
<1>20. ASSUME NEW r \in Runs, TaskLeave(r) PROVE DecisionsOK'
  BY <1>20 DEF TaskLeave, Place, RemoveActive
<1>21. ASSUME NEW r \in Runs, TaskHandled(r) PROVE DecisionsOK'
  BY <1>21 DEF TaskHandled, DecideOutcome, Decide
<1>22. ASSUME NEW w \in Workers, TaskStart(w) PROVE DecisionsOK'
  BY <1>22 DEF TaskStart, Place, Pool!Start
<1>23. ASSUME NEW w \in Workers, TaskNotify(w) PROVE DecisionsOK'
  BY <1>23 DEF TaskNotify, Place, Pool!Finish
<1>24. CASE BeginDestroy
  BY <1>24 DEF BeginDestroy, RequestStop
<1>25. CASE FinishDestroy
  BY <1>25 DEF FinishDestroy, At, Drained
<1>26. CASE Exit
  BY <1>26 DEF Exit, MemoryIsLost, NoStep, Idle
<1>27. CASE Crash
  BY <1>27 DEF Crash, MemoryIsLost, NoStep, Idle
<1>28. CASE Restart
  BY <1>28 DEF Restart, Recovered, Lifecycle!Recovered
<1>29. CASE UNCHANGED vars
  BY <1>29 DEF vars
<1> QED
  BY <1>1, <1>2, <1>3, <1>4, <1>5, <1>6, <1>7, <1>8, <1>9, <1>10, <1>11, <1>12, <1>13,
     <1>14, <1>15, <1>16, <1>17, <1>18, <1>19, <1>20, <1>21, <1>22, <1>23, <1>24,
     <1>25, <1>26, <1>27, <1>28, <1>29
  DEF Next, Request, ClientStep, TaskStep, WorkerStep

\* A task that locked the mutex of its session holds it until it unlocks it: nobody
\* else unlocks it.
LEMMA LocksStep == ASSUME IInv, [Next]_vars PROVE LocksOK'
<1>0. LocksOK
  BY DEF IInv
<1>a. /\ step \in [Runs -> [at : TaskPlaces, from : {"queued", "running"},
                     to : Terminal \cup {"queued"}]]
      /\ lockedBy \in [Sessions -> Runs \cup {NoRun}]
  BY TypeParts DEF IInv, TypeStore, TypeMemory, TypeRequests
<1> USE <1>0, <1>a, ServiceAssumption DEF LocksOK, NoStep, db, memory, pool, history,
    bounds
<1>1. ASSUME NEW c \in Clients, NEW r \in Runs, NEW k \in Keys, CreateRun(c, r, k)
      PROVE  LocksOK'
  BY <1>1 DEF CreateRun, Receive, At
<1>2. ASSUME NEW c \in Clients, NEW r \in Runs, ResumeRun(c, r) PROVE LocksOK'
  BY <1>2 DEF ResumeRun, Receive, At, CanMove, TransitionRun
<1>3. ASSUME NEW c \in Clients, NEW r \in Runs, CancelRun(c, r) PROVE LocksOK'
  BY <1>3 DEF CancelRun, Receive, At
<1>4. ASSUME NEW c \in Clients, LogQueued(c) PROVE LocksOK'
  BY <1>4 DEF LogQueued, AppendEvent, At, Goto
<1>5. ASSUME NEW c \in Clients, LogResumed(c) PROVE LocksOK'
  BY <1>5 DEF LogResumed, AppendEvent, At, Goto
<1>6. ASSUME NEW c \in Clients, Register(c) PROVE LocksOK'
  BY <1>6 DEF Register, At, Goto, Reply
<1>7. ASSUME NEW c \in Clients, SubmitAccepted(c) PROVE LocksOK'
  BY <1>7 DEF SubmitAccepted, At, Reply, Pool!Accept
<1>8. ASSUME NEW c \in Clients, SubmitRefused(c) PROVE LocksOK'
  BY <1>8 DEF SubmitRefused, At, Goto, Pool!Refuse
<1>9. ASSUME NEW c \in Clients, Deregister(c) PROVE LocksOK'
  BY <1>9 DEF Deregister, At, Goto, RemoveActive
<1>10. ASSUME NEW c \in Clients, RejectRow(c) PROVE LocksOK'
  BY <1>10 DEF RejectRow, At, Goto, TransitionRun
<1>11. ASSUME NEW c \in Clients, LogRejected(c) PROVE LocksOK'
  BY <1>11 DEF LogRejected, At, AppendEvent, Reply
<1>12. ASSUME NEW c \in Clients, CancelSignal(c) PROVE LocksOK'
  BY <1>12 DEF CancelSignal, At, Goto, RequestStop
<1>13. ASSUME NEW c \in Clients, CancelReply(c) PROVE LocksOK'
  BY <1>13 DEF CancelReply, At, AppendEvent, Reply
<1>14. ASSUME NEW r \in Runs, TaskLock(r) PROVE LocksOK'
  BY <1>14 DEF TaskLock, Place, LockIsFree
<1>15. ASSUME NEW r \in Runs, TaskCheck(r) PROVE LocksOK'
  BY <1>15 DEF TaskCheck, Place, Decide, CancelStopped
<1>16. ASSUME NEW r \in Runs, TaskClaim(r) PROVE LocksOK'
  BY <1>16 DEF TaskClaim, Place, TransitionRun
<1>17. ASSUME NEW r \in Runs, TaskStarted(r) PROVE LocksOK'
  BY <1>17 DEF TaskStarted, Place, AppendEvent
<1>18. ASSUME NEW r \in Runs, TaskPersist(r) PROVE LocksOK'
  BY <1>18 DEF TaskPersist, WriteThenLog, Place, TransitionRun, AppendEvent
<1>19. ASSUME NEW r \in Runs, TaskUnlock(r) PROVE LocksOK'
  BY <1>19 DEF TaskUnlock, Place
<1>20. ASSUME NEW r \in Runs, TaskLeave(r) PROVE LocksOK'
  BY <1>20 DEF TaskLeave, Place, RemoveActive
<1>21. ASSUME NEW r \in Runs, TaskHandled(r) PROVE LocksOK'
  BY <1>21 DEF TaskHandled, DecideOutcome, Decide
<1>22. ASSUME NEW w \in Workers, TaskStart(w) PROVE LocksOK'
  BY <1>22, HeadOfQueue DEF TaskStart, Place, Pool!Start
<1>23. ASSUME NEW w \in Workers, TaskNotify(w) PROVE LocksOK'
  BY <1>23 DEF TaskNotify, Place, Pool!Finish
<1>24. CASE BeginDestroy
  BY <1>24 DEF BeginDestroy, RequestStop
<1>25. CASE FinishDestroy
  BY <1>25 DEF FinishDestroy, At, Drained
<1>26. CASE Exit
  BY <1>26 DEF Exit, MemoryIsLost, NoStep, Idle
<1>27. CASE Crash
  BY <1>27 DEF Crash, MemoryIsLost, NoStep, Idle
<1>28. CASE Restart
  BY <1>28 DEF Restart, Recovered, Lifecycle!Recovered
<1>29. CASE UNCHANGED vars
  BY <1>29 DEF vars
<1> QED
  BY <1>1, <1>2, <1>3, <1>4, <1>5, <1>6, <1>7, <1>8, <1>9, <1>10, <1>11, <1>12, <1>13,
     <1>14, <1>15, <1>16, <1>17, <1>18, <1>19, <1>20, <1>21, <1>22, <1>23, <1>24,
     <1>25, <1>26, <1>27, <1>28, <1>29
  DEF Next, Request, ClientStep, TaskStep, WorkerStep

\* An entry of active_runs_ is made before the submission and erased once.
LEMMA ActiveStep == ASSUME IInv, [Next]_vars PROVE ActiveOK'
<1>0. ActiveOK /\ QueueOK /\ ClientsOK
  BY DEF IInv
<1>a. /\ step \in [Runs -> [at : TaskPlaces, from : {"queued", "running"},
                     to : Terminal \cup {"queued"}]]
      /\ fate \in [Runs -> {"unsubmitted", "refused", "pending", "ready"}]
      /\ op \in [Clients -> [at : ClientPlaces, run : Runs \cup {NoRun}]]
  BY TypeParts DEF IInv, TypeStore, TypeMemory, TypeRequests
<1> USE <1>0, <1>a DEF ActiveOK, On, NoStep, Idle, db, memory, pool, history, bounds
<1>1. ASSUME NEW c \in Clients, NEW r \in Runs, NEW k \in Keys, CreateRun(c, r, k)
      PROVE  ActiveOK'
  BY <1>1 DEF CreateRun, Receive, At
<1>2. ASSUME NEW c \in Clients, NEW r \in Runs, ResumeRun(c, r) PROVE ActiveOK'
  BY <1>2 DEF ResumeRun, Receive, At, CanMove, TransitionRun
<1>3. ASSUME NEW c \in Clients, NEW r \in Runs, CancelRun(c, r) PROVE ActiveOK'
  BY <1>3 DEF CancelRun, Receive, At
<1>4. ASSUME NEW c \in Clients, LogQueued(c) PROVE ActiveOK'
  BY <1>4 DEF LogQueued, AppendEvent, At, Goto
<1>5. ASSUME NEW c \in Clients, LogResumed(c) PROVE ActiveOK'
  BY <1>5 DEF LogResumed, AppendEvent, At, Goto
<1>6. ASSUME NEW c \in Clients, Register(c) PROVE ActiveOK'
  <2> DEFINE r == op[c].run
  <2>1. /\ op[c].at = "register" /\ r \in Runs /\ fate[r] = "unsubmitted"
        /\ UNCHANGED <<fate, step>>
    BY <1>6 DEF Register, At, ClientsOK, Launching, Early
  <2>2. \A d \in Clients : op[d].run = r /\ op[d].at \in Owning => d = c
    BY <2>1 DEF ClientsOK, Owning, Launching, Early
  <2>3. CASE mode = "up"
    <3>1. activeRuns' = activeRuns \cup {r} /\ op' = [op EXCEPT ![c].at = "submit"]
      BY <1>6, <2>3 DEF Register, Goto
    <3> QED BY <2>1, <3>1
  <2>4. CASE mode # "up"
    <3>1. activeRuns' = activeRuns /\ op' = [op EXCEPT ![c] = Idle]
      BY <1>6, <2>4 DEF Register, Reply
    <3> QED BY <2>1, <3>1
  <2> QED BY <2>3, <2>4
<1>7. ASSUME NEW c \in Clients, SubmitAccepted(c) PROVE ActiveOK'
  BY <1>7 DEF SubmitAccepted, At, Reply, Pool!Accept, QueueOK, ClientsOK, Launching,
    Early, TakingBack, Owning
<1>8. ASSUME NEW c \in Clients, SubmitRefused(c) PROVE ActiveOK'
  BY <1>8 DEF SubmitRefused, At, Goto, Pool!Refuse, QueueOK, ClientsOK, Launching,
    Early, TakingBack, Owning
<1>9. ASSUME NEW c \in Clients, Deregister(c) PROVE ActiveOK'
  BY <1>9 DEF Deregister, At, Goto, RemoveActive, QueueOK, ClientsOK, Launching,
    Early, TakingBack, Owning
<1>10. ASSUME NEW c \in Clients, RejectRow(c) PROVE ActiveOK'
  BY <1>10 DEF RejectRow, At, Goto, TransitionRun
<1>11. ASSUME NEW c \in Clients, LogRejected(c) PROVE ActiveOK'
  BY <1>11 DEF LogRejected, At, AppendEvent, Reply
<1>12. ASSUME NEW c \in Clients, CancelSignal(c) PROVE ActiveOK'
  BY <1>12 DEF CancelSignal, At, Goto, RequestStop
<1>13. ASSUME NEW c \in Clients, CancelReply(c) PROVE ActiveOK'
  BY <1>13 DEF CancelReply, At, AppendEvent, Reply
<1>14. ASSUME NEW r \in Runs, TaskLock(r) PROVE ActiveOK'
  BY <1>14 DEF TaskLock, Place, LockIsFree
<1>15. ASSUME NEW r \in Runs, TaskCheck(r) PROVE ActiveOK'
  BY <1>15 DEF TaskCheck, Place, Decide, CancelStopped
<1>16. ASSUME NEW r \in Runs, TaskClaim(r) PROVE ActiveOK'
  BY SMTT(30), <1>16 DEF TaskClaim, Place, TransitionRun
<1>17. ASSUME NEW r \in Runs, TaskStarted(r) PROVE ActiveOK'
  BY <1>17 DEF TaskStarted, Place, AppendEvent
<1>18. ASSUME NEW r \in Runs, TaskPersist(r) PROVE ActiveOK'
  BY <1>18 DEF TaskPersist, WriteThenLog, Place, TransitionRun, AppendEvent
<1>19. ASSUME NEW r \in Runs, TaskUnlock(r) PROVE ActiveOK'
  BY <1>19 DEF TaskUnlock, Place
<1>20. ASSUME NEW r \in Runs, TaskLeave(r) PROVE ActiveOK'
  BY <1>20 DEF TaskLeave, Place, RemoveActive, QueueOK, ClientsOK, Launching, Early,
    TakingBack
<1>21. ASSUME NEW r \in Runs, TaskHandled(r) PROVE ActiveOK'
  BY <1>21 DEF TaskHandled, DecideOutcome, Decide
<1>22. ASSUME NEW w \in Workers, TaskStart(w) PROVE ActiveOK'
  BY <1>22, HeadOfQueue DEF TaskStart, Place, Pool!Start
<1>23. ASSUME NEW w \in Workers, TaskNotify(w) PROVE ActiveOK'
  BY <1>23 DEF TaskNotify, Place, Pool!Finish, QueueOK
<1>24. CASE BeginDestroy
  BY <1>24 DEF BeginDestroy, RequestStop
<1>25. CASE FinishDestroy
  BY <1>25 DEF FinishDestroy, At, Drained
<1>26. CASE Exit
  BY <1>26 DEF Exit, MemoryIsLost, NoStep, Idle
<1>27. CASE Crash
  BY <1>27 DEF Crash, MemoryIsLost, NoStep, Idle
<1>28. CASE Restart
  BY <1>28 DEF Restart, Recovered, Lifecycle!Recovered
<1>29. CASE UNCHANGED vars
  BY <1>29 DEF vars
<1> QED
  BY <1>1, <1>2, <1>3, <1>4, <1>5, <1>6, <1>7, <1>8, <1>9, <1>10, <1>11, <1>12, <1>13,
     <1>14, <1>15, <1>16, <1>17, <1>18, <1>19, <1>20, <1>21, <1>22, <1>23, <1>24,
     <1>25, <1>26, <1>27, <1>28, <1>29
  DEF Next, Request, ClientStep, TaskStep, WorkerStep

\* A stop request stays until the run is registered again, and a task that has one
\* decides for "cancelled".
LEMMA HeardStep == ASSUME IInv, [Next]_vars PROVE HeardOK'
<1>0. HeardOK /\ RowsOK /\ ClientsOK
  BY DEF IInv
<1>a. /\ row \in [Runs -> Terminal
             \cup {"queued", "running", "cancelling", "interrupted", "absent"}]
      /\ step \in [Runs -> [at : TaskPlaces, from : {"queued", "running"},
                     to : Terminal \cup {"queued"}]]
      /\ fate \in [Runs -> {"unsubmitted", "refused", "pending", "ready"}]
      /\ op \in [Clients -> [at : ClientPlaces, run : Runs \cup {NoRun}]]
      /\ heard \subseteq Runs
  BY TypeParts DEF IInv, TypeStore, TypeMemory, TypeRequests
<1> USE <1>0, <1>a DEF HeardOK, On, NoStep, Idle, Early, RowsOK, db, memory, pool,
    history, bounds
<1>1. ASSUME NEW c \in Clients, NEW r \in Runs, NEW k \in Keys, CreateRun(c, r, k)
      PROVE  HeardOK'
  BY <1>1 DEF CreateRun, Receive, At
<1>2. ASSUME NEW c \in Clients, NEW r \in Runs, ResumeRun(c, r) PROVE HeardOK'
  BY <1>2 DEF ResumeRun, Receive, At, CanMove, TransitionRun
<1>3. ASSUME NEW c \in Clients, NEW r \in Runs, CancelRun(c, r) PROVE HeardOK'
  BY <1>3 DEF CancelRun, Receive, At
<1>4. ASSUME NEW c \in Clients, LogQueued(c) PROVE HeardOK'
  BY <1>4 DEF LogQueued, AppendEvent, At, Goto
<1>5. ASSUME NEW c \in Clients, LogResumed(c) PROVE HeardOK'
  BY <1>5 DEF LogResumed, AppendEvent, At, Goto
<1>6. ASSUME NEW c \in Clients, Register(c) PROVE HeardOK'
  BY <1>6 DEF Register, At, Goto, Reply
<1>7. ASSUME NEW c \in Clients, SubmitAccepted(c) PROVE HeardOK'
  BY <1>7 DEF SubmitAccepted, At, Reply, Pool!Accept, ClientsOK, Launching
<1>8. ASSUME NEW c \in Clients, SubmitRefused(c) PROVE HeardOK'
  BY <1>8 DEF SubmitRefused, At, Goto, Pool!Refuse, ClientsOK, Launching
<1>9. ASSUME NEW c \in Clients, Deregister(c) PROVE HeardOK'
  BY <1>9 DEF Deregister, At, Goto, RemoveActive
<1>10. ASSUME NEW c \in Clients, RejectRow(c) PROVE HeardOK'
  <2>1. /\ op[c].run \in Runs /\ row[op[c].run] = "queued"
        /\ row' = [row EXCEPT ![op[c].run] = "failed"]
    BY <1>10, RejectSucceeds
  <2> QED BY <1>10, <2>1 DEF RejectRow, At, Goto, ClientsOK, TakingBack
<1>11. ASSUME NEW c \in Clients, LogRejected(c) PROVE HeardOK'
  BY <1>11 DEF LogRejected, At, AppendEvent, Reply
<1>12. ASSUME NEW c \in Clients, CancelSignal(c) PROVE HeardOK'
  <2> DEFINE r == op[c].run
  <2>1. /\ op' = [op EXCEPT ![c].at = "logCancel"] /\ UNCHANGED <<row, fate, step>>
        /\ \/ r \in activeRuns /\ stop' = stop \cup {r} /\ heard' = heard \cup {r}
               /\ Undecided(r)
           \/ stop \subseteq stop' /\ heard' = heard
    BY <1>12 DEF CancelSignal, Goto, RequestStop
  <2>2. CASE r \in activeRuns /\ Undecided(r)
    <3>1. r \in Runs /\ \A d \in Clients : ~On(d, r, Early)
      <4>1. r \in Runs
        BY <2>2 DEF IInv, TypeOK
      <4>2. CASE fate[r] = "pending"
        BY <4>1, <4>2 DEF ClientsOK, Launching
      <4>3. CASE \E d \in Clients : On(d, r, {"submit", "deregister"})
        BY <4>1, <4>3 DEF ClientsOK, Owning, Launching, TakingBack
      <4> QED BY <2>2, <4>1, <4>2, <4>3 DEF IInv, ActiveOK
    <3>2. step[r].at \notin {"write", "log", "unlock", "leave", "notify"}
      BY <2>2 DEF Undecided
    <3>3. row[r] \in {"queued", "running"}
      <4>1. CASE fate[r] = "pending"
        BY <3>1, <3>2, <4>1, <1>a DEF TaskPlaces
      <4>2. CASE \E d \in Clients : On(d, r, {"submit", "deregister"})
        BY <4>2 DEF ClientsOK, Launching, TakingBack
      <4> QED BY <2>2, <3>1, <4>1, <4>2 DEF IInv, ActiveOK
    <3> QED BY <2>1, <3>1, <3>2, <3>3
  <2> QED BY <2>1, <2>2
<1>13. ASSUME NEW c \in Clients, CancelReply(c) PROVE HeardOK'
  BY <1>13 DEF CancelReply, At, AppendEvent, Reply
<1>14. ASSUME NEW r \in Runs, TaskLock(r) PROVE HeardOK'
  BY <1>14 DEF TaskLock, Place, LockIsFree
<1>15. ASSUME NEW r \in Runs, TaskCheck(r) PROVE HeardOK'
  <2>1. \/ r \in stop /\ row[r] = "queued" /\ Decide(r, "queued", "cancelled")
        \/ r \notin stop /\ step' = [step EXCEPT ![r].at = "claim"]
    BY <1>15, StopIsDecided
  <2> QED BY <1>15, <2>1 DEF TaskCheck, Decide
<1>16. ASSUME NEW r \in Runs, TaskClaim(r) PROVE HeardOK'
  <2>1. /\ row[r] = "queued" /\ row' = [row EXCEPT ![r] = "running"]
        /\ step[r].at = "claim" /\ step' = [step EXCEPT ![r].at = "started"]
    BY <1>16, ClaimSucceeds
  <2> QED BY <1>16, <2>1 DEF TaskClaim
<1>17. ASSUME NEW r \in Runs, TaskStarted(r) PROVE HeardOK'
  BY <1>17 DEF TaskStarted, Place, AppendEvent
<1>18. ASSUME NEW r \in Runs, TaskPersist(r) PROVE HeardOK'
  <2>1. /\ step[r].to \in Terminal
        /\ \/ /\ step[r].at = "write" /\ step' = [step EXCEPT ![r].at = "log"]
              /\ \/ row[r] = "queued" /\ step[r].to = "cancelled"
                 \/ row[r] = "running"
              /\ row' = [row EXCEPT ![r] = step[r].to] /\ log' = log
           \/ /\ step[r].at = "log" /\ step' = [step EXCEPT ![r].at = "unlock"]
              /\ row' = row /\ AppendEvent(r, step[r].to)
    BY <1>18, PersistSucceeds
  <2> QED BY <1>18, <2>1 DEF TaskPersist, RowsOK
<1>19. ASSUME NEW r \in Runs, TaskUnlock(r) PROVE HeardOK'
  BY <1>19 DEF TaskUnlock, Place
<1>20. ASSUME NEW r \in Runs, TaskLeave(r) PROVE HeardOK'
  BY <1>20 DEF TaskLeave, Place, RemoveActive
<1>21. ASSUME NEW r \in Runs, TaskHandled(r) PROVE HeardOK'
  BY SMTT(30), <1>21 DEF TaskHandled, DecideOutcome, Decide
<1>22. ASSUME NEW w \in Workers, TaskStart(w) PROVE HeardOK'
  BY <1>22, HeadOfQueue DEF TaskStart, Place, Pool!Start
<1>23. ASSUME NEW w \in Workers, TaskNotify(w) PROVE HeardOK'
  BY <1>23 DEF TaskNotify, Place, Pool!Finish, IInv, QueueOK, RowsOK
<1>24. CASE BeginDestroy
  BY <1>24 DEF BeginDestroy, RequestStop
<1>25. CASE FinishDestroy
  BY <1>25 DEF FinishDestroy, At, Drained
<1>26. CASE Exit
  BY <1>26 DEF Exit, MemoryIsLost, NoStep, Idle
<1>27. CASE Crash
  BY <1>27 DEF Crash, MemoryIsLost, NoStep, Idle
<1>28. CASE Restart
  BY <1>28 DEF Restart, Recovered, Lifecycle!Recovered, IInv, ModesOK
<1>29. CASE UNCHANGED vars
  BY <1>29 DEF vars
<1> QED
  BY <1>1, <1>2, <1>3, <1>4, <1>5, <1>6, <1>7, <1>8, <1>9, <1>10, <1>11, <1>12, <1>13,
     <1>14, <1>15, <1>16, <1>17, <1>18, <1>19, <1>20, <1>21, <1>22, <1>23, <1>24,
     <1>25, <1>26, <1>27, <1>28, <1>29
  DEF Next, Request, ClientStep, TaskStep, WorkerStep

-----------------------------------------------------------------------------
(* The event log *)

\* The events of a log can be counted.
LEMMA PositionsFinite ==
    ASSUME NEW l \in Seq(Events), NEW E
    PROVE  IsFiniteSet(Positions(l, E)) /\ Count(l, E) \in Nat
<1>1. Len(l) \in Nat /\ Positions(l, E) \subseteq 1..Len(l)
  BY DEF Positions
<1>2. IsFiniteSet(1..Len(l))
  BY ONLY <1>1, FS_Interval
<1>3. IsFiniteSet(Positions(l, E))
  BY ONLY <1>1, <1>2, FS_Subset
<1> QED BY <1>3, FS_CardinalityType DEF Count

\* An event is counted once, at the end of the log.
LEMMA AppendPositions ==
    ASSUME NEW l \in Seq(Events), NEW e \in Events, NEW E
    PROVE  /\ e \notin E => Positions(Append(l, e), E) = Positions(l, E)
           /\ e \in E => Positions(Append(l, e), E) = Positions(l, E) \cup {Len(l) + 1}
           /\ Len(l) + 1 \notin Positions(l, E) /\ Append(l, e)[Len(l) + 1] = e
           /\ \A i \in Positions(l, E) : Append(l, e)[i] = l[i]
BY DEF Positions

LEMMA EventCounted ==
    ASSUME NEW l \in Seq(Events), NEW e \in Events, NEW E
    PROVE  Count(Append(l, e), E) = IF e \in E THEN Count(l, E) + 1 ELSE Count(l, E)
<1>1. IsFiniteSet(Positions(l, E)) /\ Len(l) + 1 \notin Positions(l, E)
  BY PositionsFinite, AppendPositions
<1>2. CASE e \in E
  <2>1. Positions(Append(l, e), E) = Positions(l, E) \cup {Len(l) + 1}
    BY <1>2, AppendPositions
  <2>2. Cardinality(Positions(l, E) \cup {Len(l) + 1}) = Cardinality(Positions(l, E)) + 1
    BY ONLY <1>1, FS_AddElement
  <2> QED BY <1>2, <2>1, <2>2 DEF Count
<1>3. CASE e \notin E
  BY <1>3, AppendPositions DEF Count
<1> QED BY <1>2, <1>3

\* What an event does to the numbers of starts and of resumes.
LEMMA StartsCounted ==
    ASSUME IInv, NEW r \in Runs, NEW e \in Events, AppendEvent(r, e), NEW u \in Runs
    PROVE  /\ Count(log[u], {"started"}) \in Nat /\ Count(log[u], {"resumed"}) \in Nat
           /\ Count(log'[u], {"started"}) = IF u = r /\ e = "started"
                  THEN Count(log[u], {"started"}) + 1 ELSE Count(log[u], {"started"})
           /\ Count(log'[u], {"resumed"}) = IF u = r /\ e = "resumed"
                  THEN Count(log[u], {"resumed"}) + 1 ELSE Count(log[u], {"resumed"})
<1>1. log[u] \in Seq(Events) /\ log'[u] = IF u = r THEN Append(log[u], e) ELSE log[u]
  BY DEF IInv, TypeOK, AppendEvent
<1>2. Count(log[u], {"started"}) \in Nat /\ Count(log[u], {"resumed"}) \in Nat
  BY <1>1, PositionsFinite
<1>3. /\ Count(Append(log[u], e), {"started"}) = IF e \in {"started"}
             THEN Count(log[u], {"started"}) + 1 ELSE Count(log[u], {"started"})
      /\ Count(Append(log[u], e), {"resumed"}) = IF e \in {"resumed"}
             THEN Count(log[u], {"resumed"}) + 1 ELSE Count(log[u], {"resumed"})
  BY ONLY <1>1, EventCounted, e \in Events
<1> QED BY ONLY <1>1, <1>2, <1>3

\* A row that has not ended has no outcome in its log.
LEMMA NoOutcomeYet ==
    ASSUME IInv, NEW r \in Runs, row[r] \notin Terminal
    PROVE  Positions(log[r], Outcomes) = {}
<1>1. \A i \in Positions(log[r], Outcomes) : log[r][i] \in Outcomes
  BY DEF Positions
<1>2. \A i \in Positions(log[r], Outcomes) : row[r] \in Terminal
  BY <1>1, Sets DEF IInv, OutcomesOK, Terminal
<1> QED BY <1>2

\* A start is logged for a run that may start, which it may not again before a resume is
\* logged.
LEMMA StartsStep == ASSUME IInv, [Next]_vars PROVE StartsOK'
<1>0. StartsOK /\ RowsOK /\ ClientsOK /\ QueueOK
  BY DEF IInv
<1>a. /\ row \in [Runs -> Terminal
             \cup {"queued", "running", "cancelling", "interrupted", "absent"}]
      /\ step \in [Runs -> [at : TaskPlaces, from : {"queued", "running"},
                     to : Terminal \cup {"queued"}]]
      /\ fate \in [Runs -> {"unsubmitted", "refused", "pending", "ready"}]
      /\ op \in [Clients -> [at : ClientPlaces, run : Runs \cup {NoRun}]]
  BY TypeParts DEF IInv, TypeStore, TypeMemory, TypeRequests
<1>b. log \in [Runs -> Seq(Events)]
  BY DEF IInv, TypeOK
<1> USE <1>0, <1>a DEF StartsOK, Idle, NoStep, db, memory, pool, history, bounds
<1>1. ASSUME NEW c \in Clients, NEW r \in Runs, NEW k \in Keys, CreateRun(c, r, k)
      PROVE  StartsOK'
  <2>1. row[r] = "absent" /\ log[r] = <<>> /\ log' = log /\ row' = [row EXCEPT ![r] = "queued"]
    BY <1>1 DEF CreateRun
  <2>2. Count(log[r], {"started"}) <= Count(log[r], {"resumed"})
    <3>1. Positions(log[r], {"started"}) = {} /\ Positions(log[r], {"resumed"}) = {}
      BY <2>1 DEF Positions
    <3>2. Count(log[r], {"started"}) = 0 /\ Count(log[r], {"resumed"}) = 0
      BY ONLY <3>1, FS_EmptySet DEF Count
    <3> QED BY <3>2
  <2>3. \A u \in Runs : u # r /\ MayStart(u)' => MayStart(u)
    BY <1>1 DEF CreateRun, Receive, At, MayStart, On
  <2> QED BY <2>1, <2>2, <2>3
<1>2. ASSUME NEW c \in Clients, NEW r \in Runs, ResumeRun(c, r) PROVE StartsOK'
  BY <1>2 DEF ResumeRun, Receive, At, CanMove, TransitionRun, MayStart, On, RowsOK
<1>3. ASSUME NEW c \in Clients, NEW r \in Runs, CancelRun(c, r) PROVE StartsOK'
  BY <1>3 DEF CancelRun, Receive, At, MayStart, On
<1>4. ASSUME NEW c \in Clients, LogQueued(c) PROVE StartsOK'
  <2>1. op[c].run \in Runs /\ AppendEvent(op[c].run, "queued") /\ "queued" \in Events
    BY <1>4 DEF LogQueued, At, ClientsOK, Events, Outcomes
  <2>2. \A u \in Runs :
            /\ Count(log[u], {"started"}) \in Nat /\ Count(log[u], {"resumed"}) \in Nat
            /\ Count(log'[u], {"started"}) = Count(log[u], {"started"})
            /\ Count(log'[u], {"resumed"}) = Count(log[u], {"resumed"})
    BY <2>1, StartsCounted
  <2>3. \A u \in Runs : MayStart(u)' => MayStart(u)
    BY <1>4, <1>a DEF LogQueued, At, Goto, AppendEvent, MayStart, On
  <2>4. \A u \in Runs : row'[u] = "absent" => log'[u] = log[u] /\ row[u] = "absent"
    BY <1>4, <2>1 DEF LogQueued, AppendEvent, ClientsOK, At
  <2> QED BY ONLY <1>0, <2>2, <2>3, <2>4 DEF StartsOK
<1>5. ASSUME NEW c \in Clients, LogResumed(c) PROVE StartsOK'
  <2>1. op[c].run \in Runs /\ AppendEvent(op[c].run, "resumed") /\ "resumed" \in Events
    BY <1>5 DEF LogResumed, At, ClientsOK, Events, Outcomes
  <2>2. \A u \in Runs :
            /\ Count(log[u], {"started"}) \in Nat /\ Count(log[u], {"resumed"}) \in Nat
            /\ Count(log'[u], {"started"}) = Count(log[u], {"started"})
            /\ Count(log'[u], {"resumed"}) =
                   IF u = op[c].run THEN Count(log[u], {"resumed"}) + 1 ELSE
                   Count(log[u], {"resumed"})
    BY <2>1, StartsCounted
  <2>3. \A u \in Runs : MayStart(u)' => MayStart(u) \/ u = op[c].run
    BY <1>5, <1>a DEF LogResumed, At, Goto, AppendEvent, MayStart, On
  <2>4. \A u \in Runs : row'[u] = "absent" => log'[u] = log[u] /\ row[u] = "absent"
    BY <1>5, <2>1 DEF LogResumed, AppendEvent, ClientsOK, At
  <2> QED BY ONLY <1>0, <2>2, <2>3, <2>4 DEF StartsOK
<1>6. ASSUME NEW c \in Clients, Register(c) PROVE StartsOK'
  BY SMTT(30), <1>6 DEF Register, At, Goto, Reply, MayStart, On
<1>7. ASSUME NEW c \in Clients, SubmitAccepted(c) PROVE StartsOK'
  BY <1>7 DEF SubmitAccepted, At, Reply, Pool!Accept, MayStart, On, ClientsOK,
    Launching
<1>8. ASSUME NEW c \in Clients, SubmitRefused(c) PROVE StartsOK'
  BY <1>8 DEF SubmitRefused, At, Goto, Pool!Refuse, MayStart, On
<1>9. ASSUME NEW c \in Clients, Deregister(c) PROVE StartsOK'
  BY <1>9 DEF Deregister, At, Goto, RemoveActive, MayStart, On
<1>10. ASSUME NEW c \in Clients, RejectRow(c) PROVE StartsOK'
  <2>1. /\ op[c].run \in Runs /\ row[op[c].run] = "queued"
        /\ row' = [row EXCEPT ![op[c].run] = "failed"]
    BY <1>10, RejectSucceeds
  <2> QED BY <1>10, <2>1 DEF RejectRow, At, Goto, MayStart, On, ClientsOK, TakingBack
<1>11. ASSUME NEW c \in Clients, LogRejected(c) PROVE StartsOK'
  <2>1. op[c].run \in Runs /\ AppendEvent(op[c].run, "rejected") /\ "rejected" \in Events
    BY <1>11 DEF LogRejected, At, ClientsOK, Events, Outcomes
  <2>2. \A u \in Runs :
            /\ Count(log[u], {"started"}) \in Nat /\ Count(log[u], {"resumed"}) \in Nat
            /\ Count(log'[u], {"started"}) = Count(log[u], {"started"})
            /\ Count(log'[u], {"resumed"}) = Count(log[u], {"resumed"})
    BY <2>1, StartsCounted
  <2>3. \A u \in Runs : MayStart(u)' => MayStart(u)
    BY <1>11, <1>a DEF LogRejected, At, Reply, Idle, AppendEvent, MayStart, On
  <2>4. \A u \in Runs : row'[u] = "absent" => log'[u] = log[u] /\ row[u] = "absent"
    BY <1>11, <2>1 DEF LogRejected, AppendEvent, ClientsOK, At
  <2> QED BY ONLY <1>0, <2>2, <2>3, <2>4 DEF StartsOK
<1>12. ASSUME NEW c \in Clients, CancelSignal(c) PROVE StartsOK'
  BY <1>12 DEF CancelSignal, At, Goto, RequestStop, MayStart, On
<1>13. ASSUME NEW c \in Clients, CancelReply(c) PROVE StartsOK'
  <2>1. op[c].run \in Runs /\ AppendEvent(op[c].run, "cancel_requested")
        /\ "cancel_requested" \in Events
    BY <1>13 DEF CancelReply, At, ClientsOK, Events, Outcomes
  <2>2. \A u \in Runs :
            /\ Count(log[u], {"started"}) \in Nat /\ Count(log[u], {"resumed"}) \in Nat
            /\ Count(log'[u], {"started"}) = Count(log[u], {"started"})
            /\ Count(log'[u], {"resumed"}) = Count(log[u], {"resumed"})
    BY <2>1, StartsCounted
  <2>3. \A u \in Runs : MayStart(u)' => MayStart(u)
    BY <1>13, <1>a DEF CancelReply, At, Reply, Idle, AppendEvent, MayStart, On
  <2>4. \A u \in Runs : row'[u] = "absent" => log'[u] = log[u] /\ row[u] = "absent"
    BY <1>13, <2>1 DEF CancelReply, AppendEvent, ClientsOK, At
  <2> QED BY ONLY <1>0, <2>2, <2>3, <2>4 DEF StartsOK
<1>14. ASSUME NEW r \in Runs, TaskLock(r) PROVE StartsOK'
  BY <1>14 DEF TaskLock, Place, LockIsFree, MayStart, On
<1>15. ASSUME NEW r \in Runs, TaskCheck(r) PROVE StartsOK'
  BY <1>15 DEF TaskCheck, Place, Decide, CancelStopped, MayStart, On
<1>16. ASSUME NEW r \in Runs, TaskClaim(r) PROVE StartsOK'
  <2>1. /\ row[r] = "queued" /\ row' = [row EXCEPT ![r] = "running"]
        /\ step[r].at = "claim" /\ step' = [step EXCEPT ![r].at = "started"]
    BY <1>16, ClaimSucceeds
  <2> QED BY <1>16, <2>1 DEF TaskClaim, MayStart, On, QueueOK
<1>17. ASSUME NEW r \in Runs, TaskStarted(r) PROVE StartsOK'
  <2>1. r \in Runs /\ AppendEvent(r, "started") /\ "started" \in Events
    BY <1>17 DEF TaskStarted, At, ClientsOK, Events, Outcomes
  <2>2. \A u \in Runs :
            /\ Count(log[u], {"started"}) \in Nat /\ Count(log[u], {"resumed"}) \in Nat
            /\ Count(log'[u], {"started"}) = IF u = r THEN Count(log[u], {"started"}) + 1
                   ELSE Count(log[u], {"started"})
            /\ Count(log'[u], {"resumed"}) = Count(log[u], {"resumed"})
    BY <2>1, StartsCounted
  <2>3. \A u \in Runs : MayStart(u)' => MayStart(u) /\ u # r
    BY <1>17, <1>a DEF TaskStarted, Place, AppendEvent, MayStart, On, RowsOK, ClientsOK,
        Launching, Early
  <2>4. \A u \in Runs : row'[u] = "absent" => log'[u] = log[u] /\ row[u] = "absent"
    BY <1>17, <2>1 DEF TaskStarted, AppendEvent, ClientsOK, Place, RowsOK, QueueOK
  <2>5. MayStart(r)
    BY <1>17 DEF TaskStarted, Place, MayStart, QueueOK
  <2> QED BY ONLY <1>0, <2>2, <2>3, <2>4, <2>5 DEF StartsOK
<1>18. ASSUME NEW r \in Runs, TaskPersist(r) PROVE StartsOK'
  <2>1. \/ log' = log /\ row' = [row EXCEPT ![r] = step[r].to] /\ step[r].at = "write"
        \/ row' = row /\ AppendEvent(r, step[r].to) /\ step[r].at = "log"
    BY <1>18, PersistSucceeds
  <2>2. step[r].to \in Terminal /\ step[r].to \in Events
    BY <1>18, PersistSucceeds, Sets DEF Events
  <2>3. \A u \in Runs : /\ Count(log[u], {"started"}) \in Nat
                       /\ Count(log'[u], {"started"}) = Count(log[u], {"started"})
                       /\ Count(log'[u], {"resumed"}) = Count(log[u], {"resumed"})
    <3>1. CASE log' = log
      BY <3>1, <1>b, PositionsFinite
    <3>2. CASE AppendEvent(r, step[r].to)
      BY <2>2, <3>2, StartsCounted DEF Terminal
    <3> QED BY <2>1, <3>1, <3>2
  <2>4. \A u \in Runs : MayStart(u)' => MayStart(u)
    <3>1. /\ UNCHANGED <<fate, op>> /\ \A u \in Runs : row'[u] = "queued" => row[u] = "queued"
          /\ \A u \in Runs : step'[u].at = "started" => step[u].at = "started"
      BY <1>18, <2>1, <2>2, PersistSucceeds DEF TaskPersist, Terminal
    <3> QED BY <3>1 DEF MayStart, On
  <2>5. \A u \in Runs : row'[u] = "absent" => log'[u] = log[u] /\ row[u] = "absent"
    <3>1. row[r] # "absent"
      BY <2>1 DEF QueueOK, RowsOK
    <3>2. row'[r] # "absent" /\ \A u \in Runs : u # r => row'[u] = row[u] /\ log'[u] = log[u]
      BY <2>1, <2>2, <3>1, <1>a, <1>b DEF Terminal, AppendEvent
    <3> QED BY <3>1, <3>2
  <2> QED BY ONLY <1>0, <2>3, <2>4, <2>5 DEF StartsOK
<1>19. ASSUME NEW r \in Runs, TaskUnlock(r) PROVE StartsOK'
  BY <1>19 DEF TaskUnlock, Place, MayStart, On
<1>20. ASSUME NEW r \in Runs, TaskLeave(r) PROVE StartsOK'
  BY <1>20 DEF TaskLeave, Place, RemoveActive, MayStart, On
<1>21. ASSUME NEW r \in Runs, TaskHandled(r) PROVE StartsOK'
  BY <1>21 DEF TaskHandled, DecideOutcome, Decide, MayStart, On
<1>22. ASSUME NEW w \in Workers, TaskStart(w) PROVE StartsOK'
  BY <1>22, HeadOfQueue DEF TaskStart, Place, Pool!Start, MayStart, On
<1>23. ASSUME NEW w \in Workers, TaskNotify(w) PROVE StartsOK'
  BY <1>23 DEF TaskNotify, Place, Pool!Finish, MayStart, On, QueueOK
<1>24. CASE BeginDestroy
  BY <1>24 DEF BeginDestroy, RequestStop, MayStart, On
<1>25. CASE FinishDestroy
  BY <1>25 DEF FinishDestroy, At, Drained, MayStart, On
<1>26. CASE Exit
  BY <1>26 DEF Exit, MemoryIsLost, NoStep, Idle, MayStart, On
<1>27. CASE Crash
  BY <1>27 DEF Crash, MemoryIsLost, NoStep, Idle, MayStart, On
<1>28. CASE Restart
  <2>1. /\ \A u \in Runs : ~MayStart(u)' /\ (row'[u] = "absent" => row[u] = "absent")
        /\ log' = log
    BY <1>28 DEF Restart, Recovered, Lifecycle!Recovered, MayStart, On, IInv, ModesOK
  <2> QED BY ONLY <1>0, <2>1 DEF StartsOK
<1>29. CASE UNCHANGED vars
  BY <1>29 DEF vars, MayStart, On
<1> QED
  BY <1>1, <1>2, <1>3, <1>4, <1>5, <1>6, <1>7, <1>8, <1>9, <1>10, <1>11, <1>12, <1>13,
     <1>14, <1>15, <1>16, <1>17, <1>18, <1>19, <1>20, <1>21, <1>22, <1>23, <1>24,
     <1>25, <1>26, <1>27, <1>28, <1>29
  DEF Next, Request, ClientStep, TaskStep, WorkerStep

\* A log that gets another event has the outcomes it had; its first outcome is the
\* only one.
LEMMA OtherEvent ==
    ASSUME IInv, NEW r \in Runs, NEW e \in Events \ Outcomes, AppendEvent(r, e), NEW u \in Runs
    PROVE  /\ Positions(log'[u], Outcomes) = Positions(log[u], Outcomes)
           /\ \A i \in Positions(log[u], Outcomes) : log'[u][i] = log[u][i]
<1>1. log[u] \in Seq(Events) /\ log'[u] = IF u = r THEN Append(log[u], e) ELSE log[u]
  BY DEF IInv, TypeOK, AppendEvent
<1>2. e \in Events /\ e \notin Outcomes
  OBVIOUS
<1>3. Positions(Append(log[u], e), Outcomes) = Positions(log[u], Outcomes)
  BY ONLY <1>1, <1>2, AppendPositions
<1>4. \A i \in Positions(log[u], Outcomes) : Append(log[u], e)[i] = log[u][i]
  BY ONLY <1>1, <1>2 DEF Positions
<1> QED BY ONLY <1>1, <1>3, <1>4

LEMMA OutcomeEvent ==
    ASSUME IInv, NEW r \in Runs, NEW e \in Outcomes, AppendEvent(r, e),
           Positions(log[r], Outcomes) = {}
    PROVE  /\ \A i \in Positions(log'[r], Outcomes) : log'[r][i] = e
           /\ Count(log'[r], Outcomes) = 1 /\ Positions(log'[r], Outcomes) # {}
           /\ \A u \in Runs : u # r => log'[u] = log[u]
<1>1. /\ log[r] \in Seq(Events) /\ log'[r] = Append(log[r], e) /\ e \in Events
      /\ \A u \in Runs : u # r => log'[u] = log[u]
  BY DEF IInv, TypeOK, AppendEvent, Events
<1>2. /\ Positions(log'[r], Outcomes) = Positions(log[r], Outcomes) \cup {Len(log[r]) + 1}
      /\ log'[r][Len(log[r]) + 1] = e
  BY <1>1, AppendPositions
<1>3. Positions(log'[r], Outcomes) = {Len(log[r]) + 1}
  BY <1>2
<1>4. Cardinality({Len(log[r]) + 1}) = 1
  BY FS_Singleton
<1> QED BY <1>1, <1>2, <1>3, <1>4 DEF Count

\* An outcome is logged by the step after the one that wrote it into the row, and the
\* row keeps it.
LEMMA OutcomesStep == ASSUME IInv, [Next]_vars PROVE OutcomesOK'
<1>0. OutcomesOK /\ RowsOK /\ ClientsOK /\ QueueOK
  BY DEF IInv
<1>a. /\ row \in [Runs -> Terminal
             \cup {"queued", "running", "cancelling", "interrupted", "absent"}]
      /\ step \in [Runs -> [at : TaskPlaces, from : {"queued", "running"},
                     to : Terminal \cup {"queued"}]]
      /\ fate \in [Runs -> {"unsubmitted", "refused", "pending", "ready"}]
      /\ op \in [Clients -> [at : ClientPlaces, run : Runs \cup {NoRun}]]
  BY TypeParts DEF IInv, TypeStore, TypeMemory, TypeRequests
<1>b. \A r \in Runs : Count(log[r], Outcomes) \in Nat
  BY PositionsFinite DEF IInv, TypeOK
<1> USE <1>0, <1>a DEF OutcomesOK, Idle, NoStep, db, memory, pool, history, bounds
<1>1. ASSUME NEW c \in Clients, NEW r \in Runs, NEW k \in Keys, CreateRun(c, r, k)
      PROVE  OutcomesOK'
  <2>1. row[r] = "absent" /\ r \in Runs /\ log' = log
        /\ \A u \in Runs : u # r => row'[u] = row[u]
    BY <1>1, <1>a DEF CreateRun, Receive, At
  <2>2. Positions(log[r], Outcomes) = {}
    BY <2>1, NoOutcomeYet DEF Terminal
  <2>3. \A u \in Runs : u # r /\ ToBeLogged(u)' => ToBeLogged(u)
    BY <1>1, <1>a DEF CreateRun, Receive, At, ToBeLogged, On
  <2> QED BY ONLY <1>0, <1>b, <2>1, <2>2, <2>3, FS_EmptySet DEF OutcomesOK, Count
<1>2. ASSUME NEW c \in Clients, NEW r \in Runs, ResumeRun(c, r) PROVE OutcomesOK'
  <2>1. row[r] = "interrupted" /\ r \in Runs /\ log' = log
        /\ \A u \in Runs : u # r => row'[u] = row[u]
    BY <1>2, <1>a DEF ResumeRun, Receive, At, CanMove, TransitionRun
  <2>2. Positions(log[r], Outcomes) = {}
    BY <2>1, NoOutcomeYet DEF Terminal
  <2>3. \A u \in Runs : u # r /\ ToBeLogged(u)' => ToBeLogged(u)
    BY <1>2, <1>a DEF ResumeRun, Receive, At, CanMove, TransitionRun, ToBeLogged, On
  <2> QED BY ONLY <1>0, <1>b, <2>1, <2>2, <2>3, FS_EmptySet DEF OutcomesOK, Count
<1>3. ASSUME NEW c \in Clients, NEW r \in Runs, CancelRun(c, r) PROVE OutcomesOK'
  <2>1. UNCHANGED <<row, log>> /\ \A u \in Runs : ToBeLogged(u)' => ToBeLogged(u)
    BY <1>3 DEF CancelRun, Receive, At, ToBeLogged, On
  <2> QED BY ONLY <1>0, <2>1 DEF OutcomesOK
<1>4. ASSUME NEW c \in Clients, LogQueued(c) PROVE OutcomesOK'
  <2>1. op[c].run \in Runs /\ AppendEvent(op[c].run, "queued") /\ "queued" \in Events \ Outcomes
    BY <1>4 DEF LogQueued, At, ClientsOK, Events, Outcomes, Lifecycle!Terminal
  <2>2. \A u \in Runs : /\ Positions(log'[u], Outcomes) = Positions(log[u], Outcomes)
                       /\ \A i \in Positions(log[u], Outcomes) : log'[u][i] = log[u][i]
    BY <2>1, OtherEvent
  <2>3. row' = row /\ \A u \in Runs : ToBeLogged(u)' => ToBeLogged(u)
    BY <1>4, <1>a DEF LogQueued, AppendEvent, At, Goto, ToBeLogged, On, Idle
  <2> QED BY ONLY <1>0, <2>2, <2>3 DEF OutcomesOK, Count
<1>5. ASSUME NEW c \in Clients, LogResumed(c) PROVE OutcomesOK'
  <2>1. op[c].run \in Runs /\ AppendEvent(op[c].run, "resumed")
        /\ "resumed" \in Events \ Outcomes
    BY <1>5 DEF LogResumed, At, ClientsOK, Events, Outcomes, Lifecycle!Terminal
  <2>2. \A u \in Runs : /\ Positions(log'[u], Outcomes) = Positions(log[u], Outcomes)
                       /\ \A i \in Positions(log[u], Outcomes) : log'[u][i] = log[u][i]
    BY <2>1, OtherEvent
  <2>3. row' = row /\ \A u \in Runs : ToBeLogged(u)' => ToBeLogged(u)
    BY <1>5, <1>a DEF LogResumed, AppendEvent, At, Goto, ToBeLogged, On, Idle
  <2> QED BY ONLY <1>0, <2>2, <2>3 DEF OutcomesOK, Count
<1>6. ASSUME NEW c \in Clients, Register(c) PROVE OutcomesOK'
  <2>1. UNCHANGED <<row, log>> /\ \A u \in Runs : ToBeLogged(u)' => ToBeLogged(u)
    BY <1>6 DEF Register, At, Goto, Reply, ToBeLogged, On
  <2> QED BY ONLY <1>0, <2>1 DEF OutcomesOK
<1>7. ASSUME NEW c \in Clients, SubmitAccepted(c) PROVE OutcomesOK'
  <2>1. UNCHANGED <<row, log>> /\ \A u \in Runs : ToBeLogged(u)' => ToBeLogged(u)
    BY <1>7 DEF SubmitAccepted, At, Reply, Pool!Accept, ToBeLogged, On
  <2> QED BY ONLY <1>0, <2>1 DEF OutcomesOK
<1>8. ASSUME NEW c \in Clients, SubmitRefused(c) PROVE OutcomesOK'
  <2>1. UNCHANGED <<row, log>> /\ \A u \in Runs : ToBeLogged(u)' => ToBeLogged(u)
    BY <1>8 DEF SubmitRefused, At, Goto, Pool!Refuse, ToBeLogged, On
  <2> QED BY ONLY <1>0, <2>1 DEF OutcomesOK
<1>9. ASSUME NEW c \in Clients, Deregister(c) PROVE OutcomesOK'
  <2>1. UNCHANGED <<row, log>> /\ \A u \in Runs : ToBeLogged(u)' => ToBeLogged(u)
    BY <1>9 DEF Deregister, At, Goto, RemoveActive, ToBeLogged, On
  <2> QED BY ONLY <1>0, <2>1 DEF OutcomesOK
<1>10. ASSUME NEW c \in Clients, RejectRow(c) PROVE OutcomesOK'
  <2>a. /\ op[c].run \in Runs /\ row[op[c].run] = "queued"
        /\ row' = [row EXCEPT ![op[c].run] = "failed"]
    BY <1>10, RejectSucceeds
  <2>b. log' = log /\ op' = [op EXCEPT ![c].at = "logRejected"] /\ step' = step
    BY <1>10 DEF RejectRow, Goto
  <2>1. row[op[c].run] = "queued" /\ log' = log
        /\ \A u \in Runs : u # op[c].run => row'[u] = row[u]
    BY ONLY <2>a, <2>b, <1>a
  <2>2. Positions(log[op[c].run], Outcomes) = {}
    <3>1. row[op[c].run] \notin Terminal
      BY ONLY <2>1 DEF Terminal
    <3> QED BY <2>a, <3>1, NoOutcomeYet
  <2>3. \A u \in Runs : u # op[c].run /\ ToBeLogged(u)' => ToBeLogged(u)
    BY ONLY <1>a, <2>b DEF ToBeLogged, On
  <2> QED BY ONLY <1>0, <1>b, <2>1, <2>2, <2>3, FS_EmptySet DEF OutcomesOK, Count
<1>11. ASSUME NEW c \in Clients, LogRejected(c) PROVE OutcomesOK'
  <2>1. PICK r \in Runs : r = op[c].run
    BY <1>11 DEF LogRejected, At, ClientsOK
  <2>2. /\ AppendEvent(r, "rejected") /\ "rejected" \in Outcomes /\ row[r] = "failed"
        /\ op[c].at = "logRejected" /\ fate[r] = "refused"
    BY <1>11, <2>1 DEF LogRejected, At, ClientsOK, Outcomes
  <2>3. Positions(log[r], Outcomes) = {}
    BY <2>1, <2>2 DEF ToBeLogged, On
  <2>4. /\ \A i \in Positions(log'[r], Outcomes) : log'[r][i] = "rejected"
        /\ Count(log'[r], Outcomes) = 1
        /\ \A u \in Runs : u # r => log'[u] = log[u]
    BY <2>2, <2>3, OutcomeEvent
  <2>5. UNCHANGED <<row, step>> /\ op' = [op EXCEPT ![c] = Idle]
    BY <1>11 DEF LogRejected, AppendEvent, Reply
  <2>6. \A u \in Runs : u # r /\ ToBeLogged(u)' => ToBeLogged(u)
    BY ONLY <2>1, <2>5, <1>a DEF ToBeLogged, On, Idle
  <2>7. ~ToBeLogged(r)'
    <3>1. step[r].at # "log"
      BY ONLY <2>1, <2>2, <1>0 DEF QueueOK
    <3>2. \A d \in Clients : d # c => ~On(d, r, {"logRejected"})
      BY ONLY <2>1, <2>2, <1>0 DEF ClientsOK, Owning, On
    <3> QED BY ONLY <2>5, <3>1, <3>2, <1>a DEF ToBeLogged, On, Idle
  <2> QED BY ONLY <1>0, <2>2, <2>4, <2>5, <2>6, <2>7 DEF OutcomesOK
<1>12. ASSUME NEW c \in Clients, CancelSignal(c) PROVE OutcomesOK'
  <2>1. UNCHANGED <<row, log>> /\ \A u \in Runs : ToBeLogged(u)' => ToBeLogged(u)
    BY <1>12 DEF CancelSignal, At, Goto, RequestStop, ToBeLogged, On
  <2> QED BY ONLY <1>0, <2>1 DEF OutcomesOK
<1>13. ASSUME NEW c \in Clients, CancelReply(c) PROVE OutcomesOK'
  <2>1. op[c].run \in Runs /\ AppendEvent(op[c].run, "cancel_requested")
        /\ "cancel_requested" \in Events \ Outcomes
    BY <1>13 DEF CancelReply, At, ClientsOK, Events, Outcomes, Lifecycle!Terminal
  <2>2. \A u \in Runs : /\ Positions(log'[u], Outcomes) = Positions(log[u], Outcomes)
                       /\ \A i \in Positions(log[u], Outcomes) : log'[u][i] = log[u][i]
    BY <2>1, OtherEvent
  <2>3. row' = row /\ \A u \in Runs : ToBeLogged(u)' => ToBeLogged(u)
    BY <1>13, <1>a DEF CancelReply, At, AppendEvent, Reply, AppendEvent, ToBeLogged, On, Idle
  <2> QED BY ONLY <1>0, <2>2, <2>3 DEF OutcomesOK, Count
<1>14. ASSUME NEW r \in Runs, TaskLock(r) PROVE OutcomesOK'
  <2>1. UNCHANGED <<row, log>> /\ \A u \in Runs : ToBeLogged(u)' => ToBeLogged(u)
    BY <1>14 DEF TaskLock, Place, LockIsFree, ToBeLogged, On
  <2> QED BY ONLY <1>0, <2>1 DEF OutcomesOK
<1>15. ASSUME NEW r \in Runs, TaskCheck(r) PROVE OutcomesOK'
  <2>1. UNCHANGED <<row, log>> /\ \A u \in Runs : ToBeLogged(u)' => ToBeLogged(u)
    BY SMTT(30), <1>15 DEF TaskCheck, Place, Decide, CancelStopped, ToBeLogged, On
  <2> QED BY ONLY <1>0, <2>1 DEF OutcomesOK
<1>16. ASSUME NEW r \in Runs, TaskClaim(r) PROVE OutcomesOK'
  <2>1. row[r] = "queued" /\ r \in Runs /\ log' = log
        /\ \A u \in Runs : u # r => row'[u] = row[u]
    BY <1>16, ClaimSucceeds, <1>a DEF TaskClaim
  <2>2. Positions(log[r], Outcomes) = {}
    BY <2>1, NoOutcomeYet DEF Terminal
  <2>3. \A u \in Runs : u # r /\ ToBeLogged(u)' => ToBeLogged(u)
    BY <1>16, <1>a, ClaimSucceeds DEF TaskClaim, ToBeLogged, On
  <2> QED BY ONLY <1>0, <1>b, <2>1, <2>2, <2>3, FS_EmptySet DEF OutcomesOK, Count
<1>17. ASSUME NEW r \in Runs, TaskStarted(r) PROVE OutcomesOK'
  <2>1. r \in Runs /\ AppendEvent(r, "started") /\ "started" \in Events \ Outcomes
    BY <1>17 DEF TaskStarted, At, ClientsOK, Events, Outcomes, Lifecycle!Terminal
  <2>2. \A u \in Runs : /\ Positions(log'[u], Outcomes) = Positions(log[u], Outcomes)
                       /\ \A i \in Positions(log[u], Outcomes) : log'[u][i] = log[u][i]
    BY <2>1, OtherEvent
  <2>3. row' = row /\ \A u \in Runs : ToBeLogged(u)' => ToBeLogged(u)
    BY <1>17, <1>a DEF TaskStarted, Place, AppendEvent, AppendEvent, ToBeLogged, On, Idle
  <2> QED BY ONLY <1>0, <2>2, <2>3 DEF OutcomesOK, Count
<1>18. ASSUME NEW r \in Runs, TaskPersist(r) PROVE OutcomesOK'
  <2>1. CASE step[r].at = "write"
    <3>1. /\ row[r] \notin Terminal /\ log' = log /\ \A u \in Runs : u # r => row'[u] = row[u]
          /\ step' = [step EXCEPT ![r].at = "log"] /\ op' = op
      BY <1>18, <2>1, <1>a, PersistSucceeds DEF TaskPersist, Terminal
    <3>2. Positions(log[r], Outcomes) = {}
      BY <3>1, NoOutcomeYet
    <3>3. \A u \in Runs : u # r /\ ToBeLogged(u)' => ToBeLogged(u)
      BY <3>1, <1>a DEF ToBeLogged, On
    <3> QED BY ONLY <1>0, <3>1, <3>2, <3>3 DEF OutcomesOK
  <2>2. CASE step[r].at = "log"
    <3>1. /\ AppendEvent(r, step[r].to) /\ step[r].to \in Outcomes /\ step[r].to # "rejected"
          /\ step' = [step EXCEPT ![r].at = "unlock"] /\ op' = op /\ row' = row
      BY <1>18, <2>2, PersistSucceeds, Sets DEF TaskPersist, Terminal
    <3>2. Positions(log[r], Outcomes) = {} /\ row[r] = step[r].to
      BY <2>2 DEF ToBeLogged, RowsOK
    <3>3. /\ \A i \in Positions(log'[r], Outcomes) : log'[r][i] = step[r].to
          /\ Count(log'[r], Outcomes) = 1
          /\ \A u \in Runs : u # r => log'[u] = log[u]
      BY <3>1, <3>2, OutcomeEvent
    <3>4. \A u \in Runs : u # r /\ ToBeLogged(u)' => ToBeLogged(u)
      BY <3>1, <1>a DEF ToBeLogged, On
    <3>5. ~ToBeLogged(r)'
      BY <3>1, <2>2, <1>a DEF ToBeLogged, On, ClientsOK, QueueOK
    <3> QED BY ONLY <1>0, <3>1, <3>2, <3>3, <3>4, <3>5 DEF OutcomesOK
  <2> QED BY <1>18, <2>1, <2>2 DEF TaskPersist, WriteThenLog, Place
<1>19. ASSUME NEW r \in Runs, TaskUnlock(r) PROVE OutcomesOK'
  <2>1. UNCHANGED <<row, log>> /\ \A u \in Runs : ToBeLogged(u)' => ToBeLogged(u)
    BY <1>19 DEF TaskUnlock, Place, ToBeLogged, On
  <2> QED BY ONLY <1>0, <2>1 DEF OutcomesOK
<1>20. ASSUME NEW r \in Runs, TaskLeave(r) PROVE OutcomesOK'
  <2>1. UNCHANGED <<row, log>> /\ \A u \in Runs : ToBeLogged(u)' => ToBeLogged(u)
    BY <1>20 DEF TaskLeave, Place, RemoveActive, ToBeLogged, On
  <2> QED BY ONLY <1>0, <2>1 DEF OutcomesOK
<1>21. ASSUME NEW r \in Runs, TaskHandled(r) PROVE OutcomesOK'
  <2>1. UNCHANGED <<row, log>> /\ \A u \in Runs : ToBeLogged(u)' => ToBeLogged(u)
    BY SMTT(30), <1>21 DEF TaskHandled, DecideOutcome, Decide, ToBeLogged, On
  <2> QED BY ONLY <1>0, <2>1 DEF OutcomesOK
<1>22. ASSUME NEW w \in Workers, TaskStart(w) PROVE OutcomesOK'
  <2>1. UNCHANGED <<row, log>> /\ \A u \in Runs : ToBeLogged(u)' => ToBeLogged(u)
    BY <1>22 DEF TaskStart, Place, Pool!Start, ToBeLogged, On
  <2> QED BY ONLY <1>0, <2>1 DEF OutcomesOK
<1>23. ASSUME NEW w \in Workers, TaskNotify(w) PROVE OutcomesOK'
  <2>1. UNCHANGED <<row, log>> /\ \A u \in Runs : ToBeLogged(u)' => ToBeLogged(u)
    BY <1>23 DEF TaskNotify, Place, Pool!Finish, ToBeLogged, On
  <2> QED BY ONLY <1>0, <2>1 DEF OutcomesOK
<1>24. CASE BeginDestroy
  <2>1. UNCHANGED <<row, log>> /\ \A u \in Runs : ToBeLogged(u)' => ToBeLogged(u)
    BY <1>24 DEF BeginDestroy, RequestStop, ToBeLogged, On
  <2> QED BY ONLY <1>0, <2>1 DEF OutcomesOK
<1>25. CASE FinishDestroy
  <2>1. UNCHANGED <<row, log>> /\ \A u \in Runs : ToBeLogged(u)' => ToBeLogged(u)
    BY <1>25 DEF FinishDestroy, At, Drained, ToBeLogged, On
  <2> QED BY ONLY <1>0, <2>1 DEF OutcomesOK
<1>26. CASE Exit
  <2>1. UNCHANGED <<row, log>> /\ \A u \in Runs : ToBeLogged(u)' => ToBeLogged(u)
    BY <1>26 DEF Exit, MemoryIsLost, NoStep, Idle, ToBeLogged, On
  <2> QED BY ONLY <1>0, <2>1 DEF OutcomesOK
<1>27. CASE Crash
  <2>1. UNCHANGED <<row, log>> /\ \A u \in Runs : ToBeLogged(u)' => ToBeLogged(u)
    BY <1>27 DEF Crash, MemoryIsLost, NoStep, Idle, ToBeLogged, On
  <2> QED BY ONLY <1>0, <2>1 DEF OutcomesOK
<1>28. CASE Restart
  <2>1. log' = log /\ \A u \in Runs : row'[u] = row[u] \/ row[u] \notin Terminal
    BY <1>28 DEF Restart, Recovered, Lifecycle!Recovered, Terminal
  <2>2. \A u \in Runs : row[u] \notin Terminal => Positions(log[u], Outcomes) = {}
    BY NoOutcomeYet
  <2>3. \A u \in Runs : ToBeLogged(u)' => ToBeLogged(u)
    BY <1>28 DEF Restart, ToBeLogged, On
  <2> QED BY ONLY <1>0, <2>1, <2>2, <2>3 DEF OutcomesOK
<1>29. CASE UNCHANGED vars
  <2>1. UNCHANGED <<row, log>> /\ \A u \in Runs : ToBeLogged(u)' => ToBeLogged(u)
    BY <1>29 DEF vars, ToBeLogged, On
  <2> QED BY ONLY <1>0, <2>1 DEF OutcomesOK
<1> QED
  BY <1>1, <1>2, <1>3, <1>4, <1>5, <1>6, <1>7, <1>8, <1>9, <1>10, <1>11, <1>12, <1>13,
     <1>14, <1>15, <1>16, <1>17, <1>18, <1>19, <1>20, <1>21, <1>22, <1>23, <1>24,
     <1>25, <1>26, <1>27, <1>28, <1>29
  DEF Next, Request, ClientStep, TaskStep, WorkerStep

\* A row that has ended is followed by its event unless the process dies.
LEMMA LossStep == ASSUME IInv, [Next]_vars PROVE LossOK'
<1>0. LossOK /\ ClientsOK
  BY DEF IInv
<1>a. /\ row \in [Runs -> Terminal
             \cup {"queued", "running", "cancelling", "interrupted", "absent"}]
      /\ step \in [Runs -> [at : TaskPlaces, from : {"queued", "running"},
                     to : Terminal \cup {"queued"}]]
      /\ fate \in [Runs -> {"unsubmitted", "refused", "pending", "ready"}]
      /\ op \in [Clients -> [at : ClientPlaces, run : Runs \cup {NoRun}]]
  BY TypeParts DEF IInv, TypeStore, TypeMemory, TypeRequests
<1>b. crashes \in Nat
  BY ServiceAssumption DEF IInv, TypeOK
<1> USE <1>0, <1>a DEF LossOK, Idle, NoStep, db, memory, pool, history, bounds
<1>1. ASSUME NEW c \in Clients, NEW r \in Runs, NEW k \in Keys, CreateRun(c, r, k) PROVE LossOK'
  <2>1. /\ log' = log /\ crashes' = crashes /\ row'[r] \notin Terminal
        /\ \A u \in Runs : u # r => row'[u] = row[u]
    BY <1>1, <1>a DEF CreateRun, Receive, At, Terminal
  <2>2. \A u \in Runs : ToBeLogged(u) => ToBeLogged(u)'
    BY <1>1, <1>a DEF CreateRun, Receive, At, ToBeLogged, On
  <2> QED BY ONLY <1>0, <2>1, <2>2 DEF LossOK
<1>2. ASSUME NEW c \in Clients, NEW r \in Runs, ResumeRun(c, r) PROVE LossOK'
  <2>1. /\ log' = log /\ crashes' = crashes /\ row'[r] \notin Terminal
        /\ \A u \in Runs : u # r => row'[u] = row[u]
    BY <1>2, <1>a DEF ResumeRun, Receive, At, CanMove, TransitionRun, Terminal
  <2>2. \A u \in Runs : ToBeLogged(u) => ToBeLogged(u)'
    BY <1>2, <1>a DEF ResumeRun, Receive, At, CanMove, TransitionRun, ToBeLogged, On
  <2> QED BY ONLY <1>0, <2>1, <2>2 DEF LossOK
<1>3. ASSUME NEW c \in Clients, NEW r \in Runs, CancelRun(c, r) PROVE LossOK'
  <2>1. UNCHANGED <<row, log, crashes>> /\ \A u \in Runs : ToBeLogged(u) => ToBeLogged(u)'
    BY <1>3 DEF CancelRun, Receive, At, ToBeLogged, On
  <2> QED BY ONLY <1>0, <2>1 DEF LossOK
<1>4. ASSUME NEW c \in Clients, LogQueued(c) PROVE LossOK'
  <2>1. op[c].run \in Runs /\ AppendEvent(op[c].run, "queued") /\ "queued" \in Events \ Outcomes
    BY <1>4 DEF LogQueued, At, ClientsOK, Events, Outcomes, Lifecycle!Terminal
  <2>2. \A u \in Runs : /\ Positions(log'[u], Outcomes) = Positions(log[u], Outcomes)
                       /\ \A i \in Positions(log[u], Outcomes) : log'[u][i] = log[u][i]
    BY <2>1, OtherEvent
  <2>3. UNCHANGED <<row, crashes>> /\ \A u \in Runs : ToBeLogged(u) => ToBeLogged(u)'
    BY <1>4, <1>a DEF LogQueued, AppendEvent, At, Goto, ToBeLogged, On, Idle
  <2> QED BY ONLY <1>0, <2>2, <2>3 DEF LossOK
<1>5. ASSUME NEW c \in Clients, LogResumed(c) PROVE LossOK'
  <2>1. op[c].run \in Runs /\ AppendEvent(op[c].run, "resumed")
        /\ "resumed" \in Events \ Outcomes
    BY <1>5 DEF LogResumed, At, ClientsOK, Events, Outcomes, Lifecycle!Terminal
  <2>2. \A u \in Runs : /\ Positions(log'[u], Outcomes) = Positions(log[u], Outcomes)
                       /\ \A i \in Positions(log[u], Outcomes) : log'[u][i] = log[u][i]
    BY <2>1, OtherEvent
  <2>3. UNCHANGED <<row, crashes>> /\ \A u \in Runs : ToBeLogged(u) => ToBeLogged(u)'
    BY <1>5, <1>a DEF LogResumed, AppendEvent, At, Goto, ToBeLogged, On, Idle
  <2> QED BY ONLY <1>0, <2>2, <2>3 DEF LossOK
<1>6. ASSUME NEW c \in Clients, Register(c) PROVE LossOK'
  <2>1. UNCHANGED <<row, log, crashes>> /\ \A u \in Runs : ToBeLogged(u) => ToBeLogged(u)'
    BY <1>6 DEF Register, At, Goto, Reply, ToBeLogged, On
  <2> QED BY ONLY <1>0, <2>1 DEF LossOK
<1>7. ASSUME NEW c \in Clients, SubmitAccepted(c) PROVE LossOK'
  <2>1. UNCHANGED <<row, log, crashes>> /\ \A u \in Runs : ToBeLogged(u) => ToBeLogged(u)'
    BY <1>7 DEF SubmitAccepted, At, Reply, Pool!Accept, ToBeLogged, On
  <2> QED BY ONLY <1>0, <2>1 DEF LossOK
<1>8. ASSUME NEW c \in Clients, SubmitRefused(c) PROVE LossOK'
  <2>1. UNCHANGED <<row, log, crashes>> /\ \A u \in Runs : ToBeLogged(u) => ToBeLogged(u)'
    BY <1>8 DEF SubmitRefused, At, Goto, Pool!Refuse, ToBeLogged, On
  <2> QED BY ONLY <1>0, <2>1 DEF LossOK
<1>9. ASSUME NEW c \in Clients, Deregister(c) PROVE LossOK'
  <2>1. UNCHANGED <<row, log, crashes>> /\ \A u \in Runs : ToBeLogged(u) => ToBeLogged(u)'
    BY <1>9 DEF Deregister, At, Goto, RemoveActive, ToBeLogged, On
  <2> QED BY ONLY <1>0, <2>1 DEF LossOK
<1>10. ASSUME NEW c \in Clients, RejectRow(c) PROVE LossOK'
  <2>1. PICK r \in Runs : r = op[c].run
    BY <1>10, RejectSucceeds
  <2>2. log' = log /\ crashes' = crashes /\ \A u \in Runs : u # r => row'[u] = row[u]
    BY <1>10, <2>1, RejectSucceeds, <1>a DEF RejectRow
  <2>3. step' = step /\ op' = [op EXCEPT ![c].at = "logRejected"] /\ op[c].at = "reject"
    BY <1>10 DEF RejectRow, At, Goto
  <2>4. ToBeLogged(r)' /\ \A u \in Runs : ToBeLogged(u) => ToBeLogged(u)'
    BY ONLY <2>1, <2>3, <1>a DEF ToBeLogged, On
  <2> QED BY ONLY <1>0, <2>2, <2>4 DEF LossOK
<1>11. ASSUME NEW c \in Clients, LogRejected(c) PROVE LossOK'
  <2>1. PICK r \in Runs : r = op[c].run
    BY <1>11 DEF LogRejected, At, ClientsOK
  <2>2. /\ AppendEvent(r, "rejected") /\ "rejected" \in Outcomes
        /\ op[c].at = "logRejected"
    BY <1>11, <2>1 DEF LogRejected, At, Outcomes
  <2>3. Positions(log[r], Outcomes) = {}
    BY <2>1, <2>2 DEF IInv, OutcomesOK, ToBeLogged, On
  <2>4. Positions(log'[r], Outcomes) # {} /\ \A u \in Runs : u # r => log'[u] = log[u]
    BY <2>2, <2>3, OutcomeEvent
  <2>5. UNCHANGED <<row, step, crashes>> /\ op' = [op EXCEPT ![c] = Idle]
    BY <1>11 DEF LogRejected, AppendEvent, Reply
  <2>6. \A u \in Runs : u # r /\ ToBeLogged(u) => ToBeLogged(u)'
    BY ONLY <2>1, <2>5, <1>a DEF ToBeLogged, On
  <2> QED BY ONLY <1>0, <2>4, <2>5, <2>6 DEF LossOK
<1>12. ASSUME NEW c \in Clients, CancelSignal(c) PROVE LossOK'
  <2>1. UNCHANGED <<row, log, crashes>> /\ \A u \in Runs : ToBeLogged(u) => ToBeLogged(u)'
    BY <1>12 DEF CancelSignal, At, Goto, RequestStop, ToBeLogged, On
  <2> QED BY ONLY <1>0, <2>1 DEF LossOK
<1>13. ASSUME NEW c \in Clients, CancelReply(c) PROVE LossOK'
  <2>1. op[c].run \in Runs /\ AppendEvent(op[c].run, "cancel_requested")
        /\ "cancel_requested" \in Events \ Outcomes
    BY <1>13 DEF CancelReply, At, ClientsOK, Events, Outcomes, Lifecycle!Terminal
  <2>2. \A u \in Runs : /\ Positions(log'[u], Outcomes) = Positions(log[u], Outcomes)
                       /\ \A i \in Positions(log[u], Outcomes) : log'[u][i] = log[u][i]
    BY <2>1, OtherEvent
  <2>3. UNCHANGED <<row, crashes>> /\ \A u \in Runs : ToBeLogged(u) => ToBeLogged(u)'
    BY <1>13, <1>a DEF CancelReply, At, AppendEvent, Reply, AppendEvent, ToBeLogged, On, Idle
  <2> QED BY ONLY <1>0, <2>2, <2>3 DEF LossOK
<1>14. ASSUME NEW r \in Runs, TaskLock(r) PROVE LossOK'
  <2>1. UNCHANGED <<row, log, crashes>> /\ \A u \in Runs : ToBeLogged(u) => ToBeLogged(u)'
    BY <1>14 DEF TaskLock, Place, LockIsFree, ToBeLogged, On
  <2> QED BY ONLY <1>0, <2>1 DEF LossOK
<1>15. ASSUME NEW r \in Runs, TaskCheck(r) PROVE LossOK'
  <2>1. UNCHANGED <<row, log, crashes>> /\ \A u \in Runs : ToBeLogged(u) => ToBeLogged(u)'
    BY <1>15 DEF TaskCheck, Place, Decide, CancelStopped, ToBeLogged, On
  <2> QED BY ONLY <1>0, <2>1 DEF LossOK
<1>16. ASSUME NEW r \in Runs, TaskClaim(r) PROVE LossOK'
  <2>1. /\ log' = log /\ crashes' = crashes /\ row'[r] \notin Terminal
        /\ \A u \in Runs : u # r => row'[u] = row[u]
    BY <1>16, ClaimSucceeds, <1>a DEF TaskClaim, Place, Terminal
  <2>2. \A u \in Runs : ToBeLogged(u) => ToBeLogged(u)'
    BY <1>16, <1>a DEF TaskClaim, Place, ToBeLogged, On
  <2> QED BY ONLY <1>0, <2>1, <2>2 DEF LossOK
<1>17. ASSUME NEW r \in Runs, TaskStarted(r) PROVE LossOK'
  <2>1. r \in Runs /\ AppendEvent(r, "started") /\ "started" \in Events \ Outcomes
    BY <1>17 DEF TaskStarted, At, ClientsOK, Events, Outcomes, Lifecycle!Terminal
  <2>2. \A u \in Runs : /\ Positions(log'[u], Outcomes) = Positions(log[u], Outcomes)
                       /\ \A i \in Positions(log[u], Outcomes) : log'[u][i] = log[u][i]
    BY <2>1, OtherEvent
  <2>3. UNCHANGED <<row, crashes>> /\ \A u \in Runs : ToBeLogged(u) => ToBeLogged(u)'
    BY <1>17, <1>a DEF TaskStarted, Place, AppendEvent, AppendEvent, ToBeLogged, On, Idle
  <2> QED BY ONLY <1>0, <2>2, <2>3 DEF LossOK
<1>18. ASSUME NEW r \in Runs, TaskPersist(r) PROVE LossOK'
  <2>1. CASE step[r].at = "write"
    <3>1. /\ log' = log /\ crashes' = crashes /\ \A u \in Runs : u # r => row'[u] = row[u]
          /\ step' = [step EXCEPT ![r].at = "log"] /\ op' = op
      BY <1>18, <2>1, <1>a, PersistSucceeds DEF TaskPersist, Terminal
    <3>2. ToBeLogged(r)' /\ \A u \in Runs : ToBeLogged(u) => ToBeLogged(u)'
      BY <3>1, <1>a DEF ToBeLogged, On
    <3> QED BY ONLY <1>0, <3>1, <3>2 DEF LossOK
  <2>2. CASE step[r].at = "log"
    <3>1. /\ AppendEvent(r, step[r].to) /\ step[r].to \in Outcomes
          /\ step' = [step EXCEPT ![r].at = "unlock"] /\ op' = op /\ row' = row
                 /\ crashes' = crashes
      BY <1>18, <2>2, PersistSucceeds, Sets DEF TaskPersist, Terminal
    <3>2. Positions(log[r], Outcomes) = {}
      BY <2>2 DEF IInv, OutcomesOK, ToBeLogged
    <3>3. Positions(log'[r], Outcomes) # {} /\ \A u \in Runs : u # r => log'[u] = log[u]
      BY <3>1, <3>2, OutcomeEvent
    <3>4. \A u \in Runs : u # r /\ ToBeLogged(u) => ToBeLogged(u)'
      BY <3>1, <1>a DEF ToBeLogged, On
    <3> QED BY ONLY <1>0, <3>1, <3>3, <3>4 DEF LossOK
  <2> QED BY <1>18, <2>1, <2>2 DEF TaskPersist, WriteThenLog, Place
<1>19. ASSUME NEW r \in Runs, TaskUnlock(r) PROVE LossOK'
  <2>1. UNCHANGED <<row, log, crashes>> /\ \A u \in Runs : ToBeLogged(u) => ToBeLogged(u)'
    BY <1>19 DEF TaskUnlock, Place, ToBeLogged, On
  <2> QED BY ONLY <1>0, <2>1 DEF LossOK
<1>20. ASSUME NEW r \in Runs, TaskLeave(r) PROVE LossOK'
  <2>1. UNCHANGED <<row, log, crashes>> /\ \A u \in Runs : ToBeLogged(u) => ToBeLogged(u)'
    BY <1>20 DEF TaskLeave, Place, RemoveActive, ToBeLogged, On
  <2> QED BY ONLY <1>0, <2>1 DEF LossOK
<1>21. ASSUME NEW r \in Runs, TaskHandled(r) PROVE LossOK'
  <2>1. UNCHANGED <<row, log, crashes>> /\ \A u \in Runs : ToBeLogged(u) => ToBeLogged(u)'
    BY <1>21 DEF TaskHandled, DecideOutcome, Decide, ToBeLogged, On
  <2> QED BY ONLY <1>0, <2>1 DEF LossOK
<1>22. ASSUME NEW w \in Workers, TaskStart(w) PROVE LossOK'
  <2>1. UNCHANGED <<row, log, crashes>> /\ \A u \in Runs : ToBeLogged(u) => ToBeLogged(u)'
    BY <1>22 DEF TaskStart, Place, Pool!Start, ToBeLogged, On
  <2> QED BY ONLY <1>0, <2>1 DEF LossOK
<1>23. ASSUME NEW w \in Workers, TaskNotify(w) PROVE LossOK'
  <2>1. UNCHANGED <<row, log, crashes>> /\ \A u \in Runs : ToBeLogged(u) => ToBeLogged(u)'
    BY <1>23 DEF TaskNotify, Place, Pool!Finish, ToBeLogged, On
  <2> QED BY ONLY <1>0, <2>1 DEF LossOK
<1>24. CASE BeginDestroy
  <2>1. UNCHANGED <<row, log, crashes>> /\ \A u \in Runs : ToBeLogged(u) => ToBeLogged(u)'
    BY <1>24 DEF BeginDestroy, RequestStop, ToBeLogged, On
  <2> QED BY ONLY <1>0, <2>1 DEF LossOK
<1>25. CASE FinishDestroy
  <2>1. UNCHANGED <<row, log, crashes>> /\ \A u \in Runs : ToBeLogged(u) => ToBeLogged(u)'
    BY <1>25 DEF FinishDestroy, At, Drained, ToBeLogged, On
  <2> QED BY ONLY <1>0, <2>1 DEF LossOK
<1>26. CASE Exit
  <2>1. UNCHANGED <<row, log, crashes>>
    BY <1>26 DEF Exit, MemoryIsLost
  <2>2. \A u \in Runs : ~ToBeLogged(u)
    BY <1>26 DEF Exit, IInv, ModesOK, ActiveOK, QueueOK, ToBeLogged, On
  <2> QED BY ONLY <1>0, <2>1, <2>2 DEF LossOK
<1>27. CASE Crash
  <2>1. crashes' > 0
    BY <1>27, <1>b DEF Crash
  <2> QED BY ONLY <2>1 DEF LossOK
<1>28. CASE Restart
  <2>1. /\ UNCHANGED <<log, crashes>>
           /\ \A u \in Runs : row'[u] \in Terminal => row[u] \in Terminal
        /\ \A u \in Runs : ToBeLogged(u) => ToBeLogged(u)'
    BY <1>28 DEF Restart, Recovered, Lifecycle!Recovered, Terminal, ToBeLogged, On
  <2> QED BY ONLY <1>0, <2>1 DEF LossOK
<1>29. CASE UNCHANGED vars
  <2>1. UNCHANGED <<row, log, crashes>> /\ \A u \in Runs : ToBeLogged(u) => ToBeLogged(u)'
    BY <1>29 DEF vars, ToBeLogged, On
  <2> QED BY ONLY <1>0, <2>1 DEF LossOK
<1> QED
  BY <1>1, <1>2, <1>3, <1>4, <1>5, <1>6, <1>7, <1>8, <1>9, <1>10, <1>11, <1>12, <1>13,
     <1>14, <1>15, <1>16, <1>17, <1>18, <1>19, <1>20, <1>21, <1>22, <1>23, <1>24,
     <1>25, <1>26, <1>27, <1>28, <1>29
  DEF Next, Request, ClientStep, TaskStep, WorkerStep


-----------------------------------------------------------------------------
(* The theorems *)

LEMMA InitIInv == ASSUME Init PROVE IInv
<1>1. TypeOK
  <2>1. TypeStore /\ TypeMemory /\ TypeRequests
    BY ServiceAssumption DEF Init, TypeStore, TypeMemory, TypeRequests, Idle, NoStep,
       TaskPlaces, ClientPlaces
  <2> QED BY <2>1, TypeParts
<1>2. ModesOK /\ ClientsOK /\ QueueOK
  BY DEF Init, ModesOK, ClientsOK, QueueOK, InQueue, Idle, NoStep, Owning, Launching, Early,
     TakingBack
<1>3. RowsOK /\ RefusalsOK /\ DecisionsOK /\ LocksOK /\ ActiveOK /\ HeardOK
  BY DEF Init, RowsOK, RefusalsOK, DecisionsOK, LocksOK, ActiveOK, HeardOK, On, Idle, NoStep,
     Terminal
<1>4. \A r \in Runs : \A E : Positions(log[r], E) = {}
  BY DEF Init, Positions
<1>5. \A r \in Runs : Count(log[r], {"started"}) = 0 /\ Count(log[r], {"resumed"}) = 0
                      /\ Count(log[r], Outcomes) = 0
  BY ONLY <1>4, FS_EmptySet DEF Count
<1>6. StartsOK
  BY <1>5 DEF Init, StartsOK, MayStart, On, Idle
<1>7. OutcomesOK /\ LossOK
  BY <1>4, <1>5 DEF Init, OutcomesOK, LossOK, Terminal
<1> QED BY <1>1, <1>2, <1>3, <1>6, <1>7 DEF IInv

LEMMA NextIInv == ASSUME IInv, [Next]_vars PROVE IInv'
<1>1. TypeStore' /\ TypeMemory' /\ TypeRequests'
  BY StoreStep, MemoryStep, RequestsStep
<1>2. TypeOK'
  BY <1>1, Sets DEF TypeOK, TypeStore, TypeMemory, TypeRequests
<1>3. ModesOK' /\ ClientsOK' /\ QueueOK' /\ RowsOK' /\ RefusalsOK' /\ DecisionsOK'
  BY ModesStep, ClientsStep, QueueStep, RowsStep, RefusalsStep, DecisionsStep
<1>4. LocksOK' /\ ActiveOK' /\ HeardOK' /\ StartsOK' /\ OutcomesOK' /\ LossOK'
  BY LocksStep, ActiveStep, HeardStep, StartsStep, OutcomesStep, LossStep
<1> QED BY <1>2, <1>3, <1>4 DEF IInv

\* The inductive invariant holds in every reachable state.
THEOREM Invariant == Spec => []IInv
<1>1. Init => IInv
  BY InitIInv
<1>2. IInv /\ [Next]_vars => IInv'
  BY NextIInv
<1> QED BY <1>1, <1>2, PTL DEF Spec

\* The state of the service, its store and its executor stays well-typed
\* (src/src/service/service.cpp, src/src/state/state_store.cpp).
THEOREM TypeCorrect == Spec => []TypeOK
<1>1. IInv => TypeOK
  BY DEF IInv
<1> QED BY <1>1, Invariant, PTL

\* While the process lives, a "running" row has a task in its body whose stop source
\* is in active_runs_, so that a cancel finds it; and submit_run hands a run to the
\* executor once per process.
THEOREM RunningHasTask == Spec => []RunningIsTracked
<1>1. ASSUME IInv PROVE RunningIsTracked
  <2>1. ASSUME NEW r \in Runs, row[r] = "running", mode # "down"
        PROVE  InBody(r) /\ r \in activeRuns
    <3>1. InBody(r)
      BY <1>1, <2>1 DEF IInv, RowsOK
    <3> QED BY <1>1, <3>1 DEF IInv, QueueOK, ActiveOK, InBody
  <2> QED BY <1>1, <2>1 DEF RunningIsTracked, IInv, ClientsOK, Launching, At
<1>2. IInv => RunningIsTracked
  BY <1>1
<1> QED BY <1>2, Invariant, PTL

\* run_events can be trusted: no more starts than one and one per resume, one outcome
\* at most and only that of the row, and only a crash of the process between the row
\* and its event loses it.
THEOREM EventsTellTruth == Spec => []LogTellsTruth
<1>1. ASSUME IInv PROVE LogTellsTruth
  <2>1. \A r, E : Occurrences(r, E) = Positions(log[r], E)
    BY DEF Occurrences, Positions
  <2>2. \A r \in Runs :
            /\ Cardinality(Occurrences(r, {"started"}))
                   <= 1 + Cardinality(Occurrences(r, {"resumed"}))
            /\ Cardinality(Occurrences(r, Outcomes)) <= 1
    BY <1>1, <2>1 DEF IInv, StartsOK, OutcomesOK, Count
  <2>3. \A r \in Runs : \A i \in Occurrences(r, Outcomes) :
            row[r] = IF log[r][i] = "rejected" THEN "failed" ELSE log[r][i]
    BY <1>1, <2>1 DEF IInv, OutcomesOK
  <2>4. ASSUME NEW r \in Runs, row[r] \in Lifecycle!Terminal, Occurrences(r, Outcomes) = {}
        PROVE  \/ step[r].at = "log" \/ crashes > 0
               \/ \E c \in Clients : At(c, "logRejected") /\ op[c].run = r
    BY <1>1, <2>1, <2>4, Sets DEF IInv, LossOK, ToBeLogged, On, At
  <2> QED BY <2>2, <2>3, <2>4 DEF LogTellsTruth
<1>2. IInv => LogTellsTruth
  BY <1>1
<1> QED BY <1>2, Invariant, PTL

\* A stop that reached the source of a run before its task had decided is what the
\* task decides: the run does not succeed.
THEOREM HeardCancelIsKept == Spec => []HeardCancelWins
<1>1. IInv => HeardCancelWins
  BY DEF IInv, HeardOK, HeardCancelWins
<1> QED BY <1>1, Invariant, PTL

\* When the destructor has returned no task touches the service again but for its
\* notify, and every run it had taken is settled in the database.
THEOREM DestroyIsQuiet == Spec => []GoneIsQuiet
<1>1. ASSUME IInv, mode = "gone", NEW r \in Runs
      PROVE  /\ step[r].at \in {"none", "notify"}
             /\ fate[r] # "unsubmitted" => row[r] \in Lifecycle!Terminal
  <2>1. activeRuns = {} /\ \A c \in Clients : ~On(c, r, TakingBack)
    BY <1>1 DEF IInv, ModesOK, On, TakingBack
  <2>2. fate[r] = "pending" => step[r].at = "notify"
    BY <1>1, <2>1 DEF IInv, ActiveOK
  <2>3. fate[r] \in {"unsubmitted", "refused", "pending", "ready"}
    BY <1>1 DEF IInv, TypeOK
  <2>4. step[r].at \in {"none", "notify"}
    BY <1>1, <2>2 DEF IInv, QueueOK
  <2>5. fate[r] # "unsubmitted" => row[r] \in Terminal
    BY <1>1, <2>1, <2>2, <2>3 DEF IInv, RowsOK, RefusalsOK, Terminal
  <2> QED BY <2>4, <2>5, Sets
<1>2. IInv => GoneIsQuiet
  BY <1>1 DEF GoneIsQuiet
<1> QED BY <1>2, Invariant, PTL

-----------------------------------------------------------------------------
(* The refinement *)

\* Two runs of one session do not have their handlers executing.
LEMMA SessionIsFree ==
    ASSUME IInv, NEW r \in Runs, step[r].at = "started", NEW other \in Executing
    PROVE  SessionOf[other] # SessionOf[r]
<1>1. other \in Runs /\ step[other].at = "handle" /\ other # r
  BY DEF Executing
<1> QED BY <1>1 DEF IInv, LocksOK

\* What a step does to the rows and to the handlers is a step of the life cycle.
LEMMA LifecycleStep ==
    ASSUME IInv, [Next]_vars
    PROVE  [Lifecycle!Next]_<<row, Executing>>
<1>a. /\ row \in [Runs -> Terminal \cup {"queued", "running", "cancelling", "interrupted",
                                          "absent"}]
      /\ step \in [Runs -> [at : TaskPlaces, from : {"queued", "running"},
                            to : Terminal \cup {"queued"}]]
      /\ op \in [Clients -> [at : ClientPlaces, run : Runs \cup {NoRun}]]
  BY TypeParts DEF IInv, TypeStore, TypeMemory, TypeRequests
<1>b. ASSUME NEW r \in Runs, NEW to \in Lifecycle!Successors(row[r]), to # "interrupted",
             row' = [row EXCEPT ![r] = to], step[r].at # "handle", Executing' = Executing
      PROVE  Lifecycle!Next
  <2>1. r \notin Executing
    BY <1>b DEF Executing
  <2>2. Lifecycle!Move(r)
    BY <1>b, <2>1 DEF Lifecycle!Move
  <2> QED BY <2>2 DEF Lifecycle!Next
<1>c. step' = step => Executing' = Executing
  BY DEF Executing
<1>d. ASSUME NEW r \in Runs, step[r].at # "handle", step'[r].at # "handle",
             \A u \in Runs : u # r => step'[u] = step[u]
      PROVE  Executing' = Executing
  BY <1>d DEF Executing
<1> USE DEF db, memory, pool, history, bounds
<1>1. ASSUME NEW c \in Clients, NEW r \in Runs, NEW k \in Keys, CreateRun(c, r, k)
      PROVE  Lifecycle!Next
  BY <1>1, <1>c DEF CreateRun, Lifecycle!Next, Lifecycle!Create
<1>2. ASSUME NEW c \in Clients, NEW r \in Runs, ResumeRun(c, r) PROVE Lifecycle!Next
  <2>1. row[r] = "interrupted" /\ step' = step /\ row' = [row EXCEPT ![r] = "queued"]
    BY <1>2 DEF ResumeRun, CanMove, TransitionRun
  <2>2. step[r].at # "handle"
    BY <2>1 DEF IInv, RowsOK
  <2> QED BY <1>b, <1>c, <2>1, <2>2, Table
<1>3. ASSUME NEW c \in Clients, RejectRow(c) PROVE Lifecycle!Next
  <2>1. PICK r \in Runs : r = op[c].run /\ row[r] = "queued"
        /\ row' = [row EXCEPT ![r] = "failed"]
    BY <1>3, RejectSucceeds
  <2>2. step' = step /\ step[r].at # "handle"
    BY <1>3, <2>1 DEF RejectRow, IInv, RowsOK
  <2> QED BY <1>b, <1>c, <2>1, <2>2, Table
<1>4. ASSUME NEW r \in Runs, TaskClaim(r) PROVE Lifecycle!Next
  <2>1. /\ row[r] = "queued" /\ row' = [row EXCEPT ![r] = "running"]
        /\ step[r].at = "claim" /\ step' = [step EXCEPT ![r].at = "started"]
    BY <1>4, ClaimSucceeds
  <2>2. Executing' = Executing
    BY <1>d, <1>a, <2>1
  <2> QED BY <1>b, <2>1, <2>2, Table
<1>5. ASSUME NEW r \in Runs, TaskPersist(r) PROVE [Lifecycle!Next]_<<row, Executing>>
  <2>1. /\ step[r].to \in Terminal
        /\ \/ /\ step[r].at = "write" /\ step' = [step EXCEPT ![r].at = "log"]
              /\ \/ row[r] = "queued" /\ step[r].to = "cancelled"
                 \/ row[r] = "running"
              /\ row' = [row EXCEPT ![r] = step[r].to]
           \/ /\ step[r].at = "log" /\ step' = [step EXCEPT ![r].at = "unlock"]
              /\ row' = row
    BY <1>5, PersistSucceeds
  <2>2. Executing' = Executing /\ step[r].at # "handle"
    BY <1>d, <1>a, <2>1
  <2>3. CASE row' = row
    BY <2>2, <2>3
  <2>4. CASE row' = [row EXCEPT ![r] = step[r].to] /\ step[r].at = "write"
    <3>1. step[r].to \in Lifecycle!Successors(row[r]) /\ step[r].to # "interrupted"
      BY <2>1, <2>4, Table DEF Terminal
    <3> QED BY <1>b, <2>2, <2>4, <3>1
  <2> QED BY <2>1, <2>3, <2>4
<1>6. ASSUME NEW r \in Runs, TaskStarted(r) PROVE Lifecycle!Next
  <2>1. step[r].at = "started" /\ step' = [step EXCEPT ![r].at = "handle"] /\ row' = row
    BY <1>6 DEF TaskStarted, Place, AppendEvent
  <2>2. row[r] = "running" /\ \A other \in Executing : SessionOf[other] # SessionOf[r]
    BY <2>1, SessionIsFree DEF IInv, RowsOK
  <2>3. Executing' = Executing \cup {r}
    BY <1>a, <2>1 DEF Executing
  <2>4. Lifecycle!Begin(r)
    BY <2>1, <2>2, <2>3 DEF Lifecycle!Begin
  <2> QED BY <2>4 DEF Lifecycle!Next
<1>7. ASSUME NEW r \in Runs, TaskHandled(r) PROVE Lifecycle!Next
  <2>1. step[r].at = "handle" /\ step'[r].at = "write" /\ row' = row
        /\ \A u \in Runs : u # r => step'[u] = step[u]
    BY <1>7, <1>a DEF TaskHandled, DecideOutcome, Decide
  <2>2. Executing' = Executing \ {r} /\ r \in Executing
    BY <2>1 DEF Executing
  <2>3. Lifecycle!End(r)
    BY <2>1, <2>2 DEF Lifecycle!End
  <2> QED BY <2>3 DEF Lifecycle!Next
<1>8. CASE Exit \/ Crash
  <2>1. row' = row /\ Executing' = {}
    BY <1>8 DEF Exit, Crash, MemoryIsLost, Executing, NoStep
  <2> QED BY <2>1 DEF Lifecycle!Next, Lifecycle!Die
<1>9. CASE Restart
  <2>1. Executing = {} /\ Executing' = {}
    BY <1>9, <1>c DEF Restart, IInv, ModesOK, Executing
  <2> QED BY <1>9, <2>1 DEF Restart, Recovered, Lifecycle!Next, Lifecycle!Recover
\* The other steps of a task are not about its handler.
<1>10. ASSUME NEW r \in Runs,
              TaskLock(r) \/ TaskCheck(r) \/ TaskUnlock(r) \/ TaskLeave(r)
       PROVE  UNCHANGED <<row, Executing>>
  <2>1. row' = row /\ step[r].at # "handle" /\ step'[r].at # "handle"
        /\ \A u \in Runs : u # r => step'[u] = step[u]
    BY <1>10, <1>a, StopIsDecided
    DEF TaskLock, TaskCheck, TaskUnlock, TaskLeave, Place, Decide, CancelStopped
  <2> QED BY <2>1, <1>d
<1>11. ASSUME NEW w \in Workers, WorkerStep(w) PROVE UNCHANGED <<row, Executing>>
  <2>1. PICK r \in Runs : \/ Place(r, "none", "lock") \/ Place(r, "notify", "none")
    BY <1>11, HeadOfQueue DEF WorkerStep, TaskStart, TaskNotify, Pool!Start, IInv, TypeOK
  <2>2. step[r].at # "handle" /\ step'[r].at # "handle"
        /\ \A u \in Runs : u # r => step'[u] = step[u]
    BY <2>1, <1>a DEF Place
  <2>3. row' = row
    BY <1>11 DEF WorkerStep, TaskStart, TaskNotify
  <2> QED BY <2>2, <2>3, <1>d
\* Clients and the destructor do not touch the tasks, and the rows no more than above.
<1>12. ASSUME NEW c \in Clients, NEW r \in Runs, CancelRun(c, r)
       PROVE  UNCHANGED <<row, Executing>>
  BY <1>12, <1>c DEF CancelRun
<1>13. ASSUME NEW c \in Clients, ClientStep(c), ~RejectRow(c)
       PROVE  UNCHANGED <<row, Executing>>
  <2>1. UNCHANGED <<row, step>>
    BY <1>13
    DEF ClientStep, LogQueued, LogResumed, Register, SubmitAccepted, SubmitRefused,
        Deregister, LogRejected, CancelSignal, CancelReply, AppendEvent
  <2> QED BY <2>1, <1>c
<1>14. CASE BeginDestroy \/ FinishDestroy \/ UNCHANGED vars
  <2>1. UNCHANGED <<row, step>>
    BY <1>14 DEF BeginDestroy, FinishDestroy, vars
  <2> QED BY <2>1, <1>c
<1> QED
  BY <1>1, <1>2, <1>3, <1>4, <1>5, <1>6, <1>7, <1>8, <1>9, <1>10, <1>11, <1>12, <1>13, <1>14
  DEF Next, Request, TaskStep

\* The service implements the life cycle: rows move along the table of
\* valid_transition, a handler executes only for a running row that nobody moves
\* meanwhile, and never beside another handler of its session.
THEOREM Refinement == Spec => ImplementsLifecycle
<1>1. Init => Lifecycle!Init
  BY DEF Init, Lifecycle!Init, Executing, NoStep
<1>2. IInv /\ [Next]_vars => [Lifecycle!Next]_<<row, Executing>>
  BY LifecycleStep
<1> QED BY <1>1, <1>2, Invariant, PTL DEF Spec, ImplementsLifecycle, Lifecycle!Spec

-----------------------------------------------------------------------------
(* What the liveness of the service rests on *)

\* Where a task holds the mutex of its session.
Guarded == {"check", "claim", "started", "handle", "write", "log", "unlock"}
OnWorker(r) == \E w \in Workers : slot[w] = r

\* A task that has begun is on one worker; a run that was accepted is in the queue or
\* on a worker.
SlotsOK ==
    /\ \A r \in Runs : step[r].at # "none" <=> OnWorker(r)
    /\ \A v, w \in Workers : slot[v] = slot[w] /\ slot[v] # NoRun => v = w
    /\ \A r \in Runs : fate[r] = "pending" => InQueue(r) \/ OnWorker(r)

\* Who holds the mutex of a session is a run of it, and is where it will unlock it.
HoldersOK ==
    \A s \in Sessions : lockedBy[s] # NoRun =>
        /\ lockedBy[s] \in Runs /\ SessionOf[lockedBy[s]] = s
        /\ step[lockedBy[s]].at \in Guarded

\* Whatever the destructor waits for has been told to stop.
StopsOK == mode = "stopping" => activeRuns \subseteq stop

\* A step keeps every pending task in the queue or on exactly one worker.
LEMMA SlotsStep == ASSUME IInv, SlotsOK, [Next]_vars PROVE SlotsOK'
<1>a. /\ step \in [Runs -> [at : TaskPlaces, from : {"queued", "running"},
                     to : Terminal \cup {"queued"}]]
      /\ waiting \in Seq(Runs) /\ slot \in [Workers -> Runs \cup {NoRun}]
      /\ fate \in [Runs -> {"unsubmitted", "refused", "pending", "ready"}]
  BY TypeParts DEF IInv, TypeMemory, TypeRequests
<1>b. NoRun \notin Runs
  BY ServiceAssumption
\* Steps of the tasks between their start and their notify, and of all others.
<1>c. ASSUME UNCHANGED <<waiting, slot, fate>>,
             \A r \in Runs : step'[r].at # "none" <=> step[r].at # "none"
      PROVE  SlotsOK'
  BY <1>c DEF SlotsOK, OnWorker, InQueue
<1>1. ASSUME NEW r \in Runs, TaskStep(r) \/ TaskHandled(r) PROVE SlotsOK'
  <2>1. UNCHANGED <<waiting, slot, fate>>
    BY <1>1
    DEF TaskStep, TaskLock, TaskCheck, TaskClaim, TaskStarted, TaskPersist, TaskUnlock,
        TaskLeave, TaskHandled, pool
  <2>2. \A q \in Runs : step'[q].at # "none" <=> step[q].at # "none"
    BY SMTT(30), <1>1, <1>a
    DEF TaskStep, TaskLock, TaskCheck, TaskClaim, TaskStarted, TaskPersist, TaskUnlock,
        TaskLeave, TaskHandled, Place, Decide, DecideOutcome, CancelStopped, WriteThenLog
  <2> QED BY <2>1, <2>2, <1>c
<1>2. ASSUME NEW c \in Clients, SubmitAccepted(c) PROVE SlotsOK'
  <2> DEFINE q == op[c].run
  <2>1. /\ fate[q] = "unsubmitted" /\ waiting' = Append(waiting, q)
        /\ fate' = [fate EXCEPT ![q] = "pending"] /\ UNCHANGED <<step, slot>>
    BY <1>2 DEF SubmitAccepted, Pool!Accept
  <2>2. q \in Runs
    BY <1>2 DEF SubmitAccepted, At, IInv, ClientsOK
  <2> HIDE DEF q
  <2>3. Len(waiting') = Len(waiting) + 1 /\ Len(waiting) \in Nat /\ waiting'[Len(waiting) + 1] = q
        /\ \A i \in 1..Len(waiting) : waiting'[i] = waiting[i]
    BY <2>1, <2>2, <1>a
  <2>4. \A r \in Runs : InQueue(r) \/ r = q => InQueue(r)'
    BY <2>3 DEF InQueue
  <2> QED BY <2>1, <2>2, <2>4, <1>a DEF SlotsOK, OnWorker
<1>3. ASSUME NEW c \in Clients, SubmitRefused(c) PROVE SlotsOK'
  <2>1. /\ fate' = [fate EXCEPT ![op[c].run] = "refused"] /\ UNCHANGED <<step, slot, waiting>>
    BY <1>3 DEF SubmitRefused, Pool!Refuse
  <2> QED BY <2>1, <1>a DEF SlotsOK, OnWorker, InQueue
<1>4. ASSUME NEW w \in Workers, TaskStart(w) PROVE SlotsOK'
  <2> DEFINE q == Head(waiting)
  <2>1. /\ waiting # <<>> /\ slot[w] = NoRun /\ slot' = [slot EXCEPT ![w] = q]
        /\ waiting' = Tail(waiting) /\ fate' = fate
        /\ step' = [step EXCEPT ![q].at = "lock"]
    BY <1>4 DEF TaskStart, Pool!Start, Place
  <2>2. q \in Runs /\ step[q].at = "none" /\ ~OnWorker(q)
    BY <2>1, HeadOfQueue DEF SlotsOK
  <2>3. \A r \in Runs : InQueue(r) => r = q \/ InQueue(r)'
    <3> SUFFICES ASSUME NEW r \in Runs, NEW i \in 1..Len(waiting), waiting[i] = r, r # q
                 PROVE  InQueue(r)'
      BY DEF InQueue
    <3>1. i # 1 /\ i - 1 \in 1..Len(waiting') /\ waiting'[i - 1] = r
      BY <1>a, <2>1
    <3> QED BY <3>1 DEF InQueue
  <2> HIDE DEF q
  <2>4. \A v \in Workers : slot'[v] = IF v = w THEN q ELSE slot[v]
    BY <2>1, <1>a
  <2>5. \A r \in Runs : step'[r].at = IF r = q THEN "lock" ELSE step[r].at
    BY <2>1, <1>a
  <2>6. \A r \in Runs : OnWorker(r)' <=> OnWorker(r) \/ r = q
    BY <2>1, <2>4, <1>b DEF OnWorker
  <2>7. \A r \in Runs : step'[r].at # "none" <=> OnWorker(r)'
    BY <2>2, <2>5, <2>6 DEF SlotsOK
  <2>8. \A r \in Runs : fate'[r] = "pending" => InQueue(r)' \/ OnWorker(r)'
    BY <2>1, <2>3, <2>6 DEF SlotsOK
  <2>9. \A u, v \in Workers : slot'[u] = slot'[v] /\ slot'[u] # NoRun => u = v
    BY <2>2, <2>4 DEF SlotsOK, OnWorker
  <2> QED BY <2>7, <2>8, <2>9 DEF SlotsOK
<1>5. ASSUME NEW w \in Workers, TaskNotify(w) PROVE SlotsOK'
  <2> DEFINE q == slot[w]
  <2>1. /\ q # NoRun /\ slot' = [slot EXCEPT ![w] = NoRun] /\ waiting' = waiting
        /\ fate' = [fate EXCEPT ![q] = "ready"] /\ step' = [step EXCEPT ![q].at = "none"]
    BY <1>5 DEF TaskNotify, Pool!Finish, Place
  <2>2. q \in Runs
    BY <2>1, <1>a
  <2>3. \A v \in Workers : slot[v] = q => v = w
    BY <2>1 DEF SlotsOK
  <2> HIDE DEF q
  <2>4. \A v \in Workers : slot'[v] = IF v = w THEN NoRun ELSE slot[v]
    BY <2>1, <1>a
  <2>5. \A r \in Runs : step'[r].at = IF r = q THEN "none" ELSE step[r].at
    BY <2>1, <1>a
  <2>6. \A r \in Runs : OnWorker(r)' <=> OnWorker(r) /\ r # q
    BY <2>3, <2>4, <1>b DEF OnWorker, q
  <2>7. \A r \in Runs : step'[r].at # "none" <=> OnWorker(r)'
    BY <2>5, <2>6 DEF SlotsOK
  <2>8. \A r \in Runs : fate'[r] = "pending" => fate[r] = "pending" /\ r # q
    BY <2>1, <2>2, <1>a
  <2>9. \A r \in Runs : fate'[r] = "pending" => InQueue(r)' \/ OnWorker(r)'
    BY <2>1, <2>6, <2>8 DEF SlotsOK, InQueue
  <2>10. \A u, v \in Workers : slot'[u] = slot'[v] /\ slot'[u] # NoRun => u = v
    BY <2>4 DEF SlotsOK
  <2> QED BY <2>7, <2>9, <2>10 DEF SlotsOK
<1>6. CASE Exit \/ Crash
  <2>1. /\ slot' = [w \in Workers |-> NoRun] /\ step' = [r \in Runs |-> NoStep]
        /\ fate' = [r \in Runs |-> "unsubmitted"]
    BY <1>6 DEF Exit, Crash, MemoryIsLost
  <2> QED BY <2>1, <1>b DEF SlotsOK, OnWorker, NoStep
<1>7. ASSUME NEW c \in Clients, Request(c) \/ ClientStep(c),
             ~SubmitAccepted(c), ~SubmitRefused(c)
      PROVE  SlotsOK'
  <2>1. UNCHANGED <<waiting, slot, fate, step>>
    BY <1>7
    DEF Request, CreateRun, ResumeRun, CancelRun, ClientStep, LogQueued, LogResumed,
        Register, Deregister, RejectRow, LogRejected, CancelSignal, CancelReply, pool
  <2> QED BY <2>1, <1>c
<1>8. CASE BeginDestroy \/ FinishDestroy \/ Restart \/ UNCHANGED vars
  <2>1. UNCHANGED <<waiting, slot, fate, step>>
    BY <1>8 DEF BeginDestroy, FinishDestroy, Restart, vars, pool
  <2> QED BY <2>1, <1>c
<1> QED BY <1>1, <1>2, <1>3, <1>4, <1>5, <1>6, <1>7, <1>8 DEF Next, WorkerStep

\* A step keeps each session mutex with a task of that session inside its lock_guard.
LEMMA HoldersStep == ASSUME IInv, HoldersOK, [Next]_vars PROVE HoldersOK'
<1>a. /\ step \in [Runs -> [at : TaskPlaces, from : {"queued", "running"},
                     to : Terminal \cup {"queued"}]]
      /\ lockedBy \in [Sessions -> Runs \cup {NoRun}]
      /\ SessionOf \in [Runs -> Sessions] /\ LocksOK
  BY TypeParts, ServiceAssumption DEF IInv, TypeMemory
<1>c. ASSUME lockedBy' = lockedBy,
             \A r \in Runs : step[r].at \in Guarded => step'[r].at \in Guarded
      PROVE  HoldersOK'
  BY <1>c DEF HoldersOK
<1>1. ASSUME NEW r \in Runs, TaskStep(r) \/ TaskHandled(r), ~TaskLock(r), ~TaskUnlock(r)
      PROVE  HoldersOK'
  <2>1. lockedBy' = lockedBy
    BY <1>1
    DEF TaskStep, TaskCheck, TaskClaim, TaskStarted, TaskPersist, TaskLeave, TaskHandled,
        memory
  <2>2. \A q \in Runs : step[q].at \in Guarded => step'[q].at \in Guarded
    BY <1>1, <1>a
    DEF TaskStep, TaskCheck, TaskClaim, TaskStarted, TaskPersist, TaskLeave, TaskHandled,
        Place, Decide, DecideOutcome, CancelStopped, WriteThenLog, Guarded
  <2> QED BY <2>1, <2>2, <1>c
<1>2. ASSUME NEW r \in Runs, TaskLock(r) PROVE HoldersOK'
  <2>1. /\ lockedBy' = [lockedBy EXCEPT ![SessionOf[r]] = r] /\ step[r].at = "lock"
        /\ step' = [step EXCEPT ![r].at = "check"]
    BY <1>2 DEF TaskLock, Place
  <2>2. \A q \in Runs : step'[q].at = IF q = r THEN "check" ELSE step[q].at
    BY <2>1, <1>a
  <2>3. \A s \in Sessions : lockedBy'[s] = IF s = SessionOf[r] THEN r ELSE lockedBy[s]
    BY <2>1, <1>a
  <2> QED BY <2>2, <2>3 DEF HoldersOK, Guarded
<1>3. ASSUME NEW r \in Runs, TaskUnlock(r) PROVE HoldersOK'
  <2>1. /\ lockedBy' = [lockedBy EXCEPT ![SessionOf[r]] = NoRun] /\ step[r].at = "unlock"
        /\ step' = [step EXCEPT ![r].at = "leave"]
    BY <1>3 DEF TaskUnlock, Place
  <2>2. \A q \in Runs : step'[q].at = IF q = r THEN "leave" ELSE step[q].at
    BY <2>1, <1>a
  <2>3. \A s \in Sessions : lockedBy'[s] = IF s = SessionOf[r] THEN NoRun ELSE lockedBy[s]
    BY <2>1, <1>a
  <2> QED BY <2>2, <2>3 DEF HoldersOK
<1>4. ASSUME NEW w \in Workers, TaskStart(w) PROVE HoldersOK'
  <2>1. lockedBy' = lockedBy /\ waiting # <<>>
        /\ step' = [step EXCEPT ![Head(waiting)].at = "lock"]
    BY <1>4 DEF TaskStart, Pool!Start, Place, memory
  <2>2. step[Head(waiting)].at = "none"
    BY <2>1, HeadOfQueue
  <2> QED BY <2>1, <2>2, <1>a, <1>c DEF Guarded
<1>5. ASSUME NEW w \in Workers, TaskNotify(w) PROVE HoldersOK'
  <2>1. lockedBy' = lockedBy /\ step[slot[w]].at = "notify"
        /\ step' = [step EXCEPT ![slot[w]].at = "none"]
    BY <1>5 DEF TaskNotify, Place, memory
  <2> QED BY <2>1, <1>a, <1>c DEF Guarded
<1>6. CASE Exit \/ Crash
  BY <1>6 DEF Exit, Crash, MemoryIsLost, HoldersOK
<1>7. ASSUME NEW c \in Clients, Request(c) \/ ClientStep(c) PROVE HoldersOK'
  <2>1. UNCHANGED <<lockedBy, step>>
    BY <1>7
    DEF Request, CreateRun, ResumeRun, CancelRun, ClientStep, LogQueued, LogResumed,
        Register, SubmitAccepted, SubmitRefused, Deregister, RejectRow, LogRejected,
        CancelSignal, CancelReply, memory
  <2> QED BY <2>1, <1>c
<1>8. CASE BeginDestroy \/ FinishDestroy \/ Restart \/ UNCHANGED vars
  <2>1. UNCHANGED <<lockedBy, step>>
    BY <1>8 DEF BeginDestroy, FinishDestroy, Restart, vars, memory
  <2> QED BY <2>1, <1>c
<1> QED BY <1>1, <1>2, <1>3, <1>4, <1>5, <1>6, <1>7, <1>8 DEF Next, WorkerStep

\* A step of a stopping service adds no run to active_runs_ and takes no stop back.
LEMMA StopsStep == ASSUME StopsOK, [Next]_vars PROVE StopsOK'
<1>1. ASSUME NEW c \in Clients, Request(c) \/ ClientStep(c) PROVE StopsOK'
  BY <1>1
  DEF Request, CreateRun, ResumeRun, CancelRun, Receive, ClientStep, LogQueued, LogResumed,
      Register, SubmitAccepted, SubmitRefused, Deregister, RemoveActive, RejectRow,
      LogRejected, CancelSignal, RequestStop, CancelReply, memory, StopsOK
<1>2. ASSUME NEW r \in Runs, TaskStep(r) \/ TaskHandled(r) PROVE StopsOK'
  BY <1>2
  DEF TaskStep, TaskLock, TaskCheck, TaskClaim, TaskStarted, TaskPersist, TaskUnlock,
      TaskLeave, RemoveActive, TaskHandled, memory, StopsOK
<1>3. ASSUME NEW w \in Workers, WorkerStep(w) PROVE StopsOK'
  BY <1>3 DEF WorkerStep, TaskStart, TaskNotify, memory, StopsOK
<1>4. CASE BeginDestroy \/ FinishDestroy \/ Exit \/ Crash \/ Restart \/ UNCHANGED vars
  BY <1>4 DEF BeginDestroy, RequestStop, FinishDestroy, Exit, Crash, MemoryIsLost, Restart,
     vars, memory, StopsOK
<1> QED BY <1>1, <1>2, <1>3, <1>4 DEF Next

\* A task that waits for nothing but its own thread, or for the handler it calls.
GoesOn(r) == step[r].at # "none" /\ (step[r].at = "lock" => LockIsFree(r))

\* A run that was accepted is in the queue, or it has a worker.  A worker that has a task
\* goes on with it, or the task waits for the mutex of its session, and then it is held
\* by a task on another worker that goes on.
WorkersGoOn ==
    /\ \A r \in Runs : fate[r] = "pending" => InQueue(r) \/ OnWorker(r)
    /\ \A w \in Workers : slot[w] # NoRun =>
           \/ GoesOn(slot[w])
           \/ \E v \in Workers \ {w} :
                  slot[v] = lockedBy[SessionOf[slot[w]]] /\ GoesOn(slot[v])

\* Tasks of one session that fill the workers while they wait for its mutex do not block
\* each other: the mutex is never held by a task that waits for it or by none. From there
\* AcceptedRunEnds needs only that threads go on and handlers return.
THEOREM NoWorkerBlocksAnother == Spec => []WorkersGoOn
<1>1. Init => SlotsOK /\ HoldersOK
  BY ServiceAssumption DEF Init, SlotsOK, OnWorker, HoldersOK, NoStep
<1>2. IInv /\ SlotsOK /\ HoldersOK /\ [Next]_vars => (SlotsOK /\ HoldersOK)'
  BY SlotsStep, HoldersStep
<1>3. ASSUME IInv, SlotsOK, HoldersOK PROVE WorkersGoOn
  <2>1. ASSUME NEW w \in Workers, slot[w] # NoRun, ~GoesOn(slot[w])
        PROVE  \E v \in Workers \ {w} :
                   slot[v] = lockedBy[SessionOf[slot[w]]] /\ GoesOn(slot[v])
    <3> DEFINE r == slot[w]
               h == lockedBy[SessionOf[r]]
    <3>1. r \in Runs /\ SessionOf[r] \in Sessions
      BY <1>3, <2>1, ServiceAssumption DEF IInv, TypeOK
    <3>2. step[r].at = "lock" /\ h # NoRun
      BY <1>3, <2>1, <3>1 DEF SlotsOK, OnWorker, GoesOn, LockIsFree
    <3>3. h \in Runs /\ step[h].at \in Guarded
      BY <1>3, <3>1, <3>2 DEF HoldersOK
    <3>4. step[h].at # "none" /\ step[h].at # "lock"
      BY <3>3 DEF Guarded
    <3>5. PICK v \in Workers : slot[v] = h
      BY <1>3, <3>3, <3>4 DEF SlotsOK, OnWorker
    <3>6. v # w
      BY <3>2, <3>4, <3>5
    <3> QED BY <3>4, <3>5, <3>6 DEF GoesOn
  <2> QED BY <1>3, <2>1 DEF WorkersGoOn, SlotsOK
<1>4. IInv /\ SlotsOK /\ HoldersOK => WorkersGoOn
  BY <1>3
<1> QED BY <1>1, <1>2, <1>4, Invariant, PTL DEF Spec

\* While the destructor waits, every entry of active_runs_ it waits for has its stop
\* requested, also those registered just before it began: DestroyReturns then needs only
\* that a handler which is told to stop returns.
THEOREM DestroyTellsAll == Spec => []StopsOK
<1>1. Init => StopsOK
  BY DEF Init, StopsOK
<1>2. StopsOK /\ [Next]_vars => StopsOK'
  BY StopsStep
<1> QED BY <1>1, <1>2, PTL DEF Spec
=============================================================================

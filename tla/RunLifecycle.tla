---------------------------- MODULE RunLifecycle ----------------------------
(***************************************************************************)
(* What the runtime service promises about its runs: the status of a run   *)
(* only moves along the table of the state store, a handler executes only  *)
(* for a run that is "running", whose status stays put meanwhile, and at   *)
(* most one handler executes per session.  The process may die at any      *)
(* moment; the recovery after it turns what was executing into             *)
(* "interrupted", all at once.  RuntimeService.tla implements this.        *)
(***************************************************************************)
CONSTANTS Runs, Sessions, SessionOf

VARIABLES row, executing

\* valid_transition, as the set of statuses a status may be followed by.
Successors(status) ==
    CASE status = "queued" -> {"running", "cancelled", "failed"}
      [] status = "running" -> {"succeeded", "failed", "cancelling", "cancelled",
                                "interrupted"}
      [] status = "cancelling" -> {"cancelled", "failed", "interrupted"}
      [] status = "interrupted" -> {"queued", "cancelled"}
      [] OTHER -> {}

Terminal == {"succeeded", "failed", "cancelled"}
Status == Terminal \cup {"queued", "running", "cancelling", "interrupted"}

Init ==
    /\ row = [r \in Runs |-> "absent"]
    /\ executing = {}

Create(r) ==
    /\ row[r] = "absent"
    /\ row' = [row EXCEPT ![r] = "queued"]
    /\ UNCHANGED executing

Move(r) ==
    /\ r \notin executing
    /\ \E to \in Successors(row[r]) \ {"interrupted"} :
           row' = [row EXCEPT ![r] = to]
    /\ UNCHANGED executing

Begin(r) ==
    /\ row[r] = "running"
    /\ \A other \in executing : SessionOf[other] # SessionOf[r]
    /\ executing' = executing \cup {r}
    /\ UNCHANGED row

End(r) ==
    /\ r \in executing
    /\ executing' = executing \ {r}
    /\ UNCHANGED row

Die ==
    /\ executing' = {}
    /\ UNCHANGED row

\* recover_running_runs
Recovered ==
    [r \in Runs |-> IF row[r] \in {"running", "cancelling"} THEN "interrupted"
                    ELSE row[r]]

Recover ==
    /\ executing = {}
    /\ row' = Recovered
    /\ UNCHANGED executing

Next ==
    \/ \E r \in Runs : Create(r) \/ Move(r) \/ Begin(r) \/ End(r)
    \/ Die \/ Recover

Spec == Init /\ [][Next]_<<row, executing>>
=============================================================================

----------------------------- MODULE LabRecords -----------------------------
(***************************************************************************)
(* The three durable records of one attempt in Worker Lab's state/ tree    *)
(* and the transitions their stores accept:                                *)
(*   state/attempts/<id>.json         AttemptRecord          lifecycle.py  *)
(*   state/invocations/<id>.json      InvocationRecord       integration.py*)
(*   state/process-custody/<id>.json  ProcessCustodyRecord   process_custody.py *)
(* A record keeps the fields that can change after it is created; the      *)
(* immutable identity fields (exercise, policy, role, digests of the       *)
(* definitions) never vary for one attempt and are left out.               *)
(***************************************************************************)

CONSTANT None                     \* a JSON null

-----------------------------------------------------------------------------
(* Attempts *)

\* lifecycle.LEGAL_TRANSITIONS.
AttemptNext ==
  [ DRAFT        |-> {"READY", "ABORTED"},
    READY        |-> {"RUNNING", "ABORTED"},
    RUNNING      |-> {"CANDIDATE", "ABORTED"},
    CANDIDATE    |-> {"EVALUATING", "ABORTED"},
    EVALUATING   |-> {"PASSED", "FAILED", "NEEDS_REVIEW", "ABORTED"},
    PASSED       |-> {"CLOSED"},
    FAILED       |-> {"CLOSED"},
    NEEDS_REVIEW |-> {"CLOSED"},
    CLOSED       |-> {},
    ABORTED      |-> {} ]

AttemptStates == DOMAIN AttemptNext

AttemptTerminal == {"CLOSED", "ABORTED"}

\* b is the record transition_attempt returns for a: the runtime identity is
\* bound once, on READY -> RUNNING, the candidate once, on -> CANDIDATE, and a
\* cleanup outcome is recorded exactly at a terminal transition.  save_transition
\* recomputes the transition from the record on disk and accepts only this b.
LegalAttemptMove(a, b) ==
  /\ b.state \in AttemptNext[a.state]
  /\ IF b.state = "RUNNING"
     THEN a.runtime = None /\ b.runtime # None
     ELSE b.runtime = a.runtime
  /\ IF b.state = "CANDIDATE" THEN b.candidate # None ELSE b.candidate = a.candidate
  /\ IF b.state \in AttemptTerminal THEN b.cleanup # None ELSE b.cleanup = a.cleanup

-----------------------------------------------------------------------------
(* Invocations *)

\* integration.LEGAL_INVOCATION_TRANSITIONS.  MISSING is the absence of the file.
InvocationNext ==
  [ MISSING     |-> {"PREPARED"},
    PREPARED    |-> {"AUTHORIZED", "REJECTED"},
    AUTHORIZED  |-> {"DISPATCHING", "ABORTED"},
    DISPATCHING |-> {"COMPLETED", "UNCERTAIN"},
    UNCERTAIN   |-> {"ABORTED"},
    COMPLETED   |-> {},
    REJECTED    |-> {},
    ABORTED     |-> {} ]

InvocationStates == DOMAIN InvocationNext

InvocationTerminal == {"COMPLETED", "REJECTED", "ABORTED"}

NoInvocation == [state |-> "MISSING", by |-> None, result |-> None]

\* b is the record transition_invocation returns for a: the controller is set
\* once, on -> AUTHORIZED, and only a COMPLETED record names a result.
LegalInvocationMove(a, b) ==
  /\ b.state \in InvocationNext[a.state]
  /\ IF b.state = "AUTHORIZED" THEN b.by # None ELSE b.by = a.by
  /\ (b.state = "COMPLETED") = (b.result # None)

-----------------------------------------------------------------------------
(* Process custody *)

\* process_custody.LEGAL_CUSTODY_TRANSITIONS.
CustodyNext ==
  [ MISSING          |-> {"PREPARED"},
    PREPARED         |-> {"ASSIGNED", "TERMINATED", "UNCERTAIN"},
    ASSIGNED         |-> {"DISPATCHING", "TERMINATED", "UNCERTAIN"},
    DISPATCHING      |-> {"EXITED", "TERMINATED", "UNCERTAIN"},
    EXITED           |-> {"ABSENCE_VERIFIED"},
    TERMINATED       |-> {"ABSENCE_VERIFIED"},
    UNCERTAIN        |-> {},
    ABSENCE_VERIFIED |-> {} ]

CustodyStates == DOMAIN CustodyNext

\* active is the observed number of processes in the job: a failed query
\* records "unknown", never zero.  failed is first_failure # null, assigned is
\* adapter_pid # null, owner the process named by the controller's pid and
\* creation time.
ActiveCounts == {"unknown", "zero", "some"}

NoCustody == [state |-> "MISSING", owner |-> None, assigned |-> FALSE,
              sent |-> FALSE, active |-> "unknown", failed |-> FALSE]

\* _validate_custody: what every stored custody record satisfies.
ValidCustody(r) ==
  /\ r.state = "PREPARED" => ~r.assigned
  /\ r.state \in {"ASSIGNED", "DISPATCHING", "EXITED"} => r.assigned
  /\ r.state \in {"DISPATCHING", "EXITED", "ABSENCE_VERIFIED"} /\ r.assigned => r.sent
  /\ r.state \in {"PREPARED", "ASSIGNED"} => ~r.sent
  /\ r.state \in {"TERMINATED", "UNCERTAIN"} => r.failed
  /\ r.state = "ABSENCE_VERIFIED" => r.active = "zero"
=============================================================================

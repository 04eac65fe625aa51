------------------------------ MODULE Dispatch ------------------------------
(***************************************************************************)
(* The invocation of a worker for one attempt: prepare-invocation,         *)
(* authorize-, reject-, cancel-, dispatch- and recover-invocation and the  *)
(* operator's transition-attempt, as WorkerLabService runs them            *)
(* (application_service.py), with the contained runner of windows_job.py.  *)
(*                                                                         *)
(* Every command is a process of its own (a client slot), there is no lock *)
(* between them, and the only shared state is the record files, the        *)
(* workspace directory and the adapter process.  One action is one access  *)
(* to that shared state: save_transition reads the file, compares, then    *)
(* replaces it, so its check and its write are two actions.  Custody is    *)
(* the exception: with one dispatching slot its only writers are the       *)
(* controller that created the record and, once that controller is gone,   *)
(* recoveries that all write the same update, so nothing can come between  *)
(* a custody save's check and its write.  A read whose result the          *)
(* following check reads again and compares in full is part of that check. *)
(* Any command may stop at any point (Crash): the next command starts from *)
(* the files alone.                                                        *)
(*                                                                         *)
(* The model starts where prepare-workspace ended: a READY attempt with a  *)
(* PREPARED receipt and a clean workspace.                                 *)
(***************************************************************************)
EXTENDS LabRecords, Naturals

CONSTANTS
  Clients,      \* slots in which a command (an OS process) may run
  Invocations,  \* the identities uuid4 may give invocations
  Controllers,  \* controller identities an operator may type
  May,          \* the commands the environment issues in each slot
  Sandbox,      \* sandbox mode of the attempt's role
  MaxCrashes    \* bound: how many commands stop half way

Commands == {"prepare", "authorize", "reject", "cancel", "dispatch", "recover",
             "transition"}

Typed   == "typed"     \* a candidate digest the operator typed, not a result's
AdapterStates == {"none", "outside", "waiting", "working", "remnant"}
InJob   == {"waiting", "working", "remnant"}

ASSUME DispatchAssumption ==
  /\ May \in [Clients -> SUBSET Commands]
  /\ Sandbox \in {"read-only", "workspace-write"}
  /\ MaxCrashes \in Nat
  /\ None \notin Clients /\ None \notin Invocations /\ None \notin Controllers
  /\ None \notin {Typed, "operator", "recovered"}   \* null is no string
  /\ Typed \notin Clients

VARIABLES
  attempt,      \* the AttemptRecord
  invocation,   \* invocation id -> InvocationRecord
  custody,      \* invocation id -> ProcessCustodyRecord
  result,       \* invocation id -> whose ResultRecord is stored, or None
  workspace,    \* "clean" (status "" at the starting commit) or "changed"
  adapter,      \* invocation id -> client -> the process tree it launched
  sends,        \* invocation id -> requests delivered to an adapter (0, 1, 2+)
  cli,          \* client -> the command it runs and what that holds in memory
  crashes

records == <<attempt, invocation, custody, result>>
world   == <<workspace, adapter, sends>>
vars    == <<attempt, invocation, custody, result, workspace, adapter, sends, cli, crashes>>

-----------------------------------------------------------------------------
(* Program counters, grouped by the command that owns them *)

\* A checked save_transition whose write is still to come, and where the
\* command continues after the write.
AfterInvocation ==
  [ save_prepared |-> "idle", save_authorized |-> "idle", save_rejected |-> "idle",
    save_cancelled |-> "idle", save_dispatching |-> "r_create",
    save_completed |-> "a_attempt", save_uncertain |-> "v_abort",
    save_aborted |-> "v_attempt" ]

AfterAttempt ==
  [ save_running |-> "d_dispatch", save_candidate |-> "idle",
    save_recovered |-> "idle", save_operator |-> "idle" ]

RunnerPC  == {"r_create", "r_make", "r_launch", "r_assign", "r_record", "r_mark",
              "r_send", "r_wait", "r_late", "r_verify"}
FaultPC   == {"r_launch", "r_assign", "r_record", "r_mark", "r_send", "r_wait", "r_late"}
AcceptPC  == {"a_accept", "a_result", "a_complete", "save_completed", "a_attempt",
              "save_candidate"}
DispatchPC == {"d_bind", "save_running", "d_dispatch", "save_dispatching"}
                 \cup RunnerPC \cup AcceptPC
RecoverPC == {"v_inspect", "v_custody", "v_absent", "v_uncertain", "save_uncertain",
              "v_abort", "save_aborted", "v_attempt", "save_recovered"}
Labels == {"idle", "save_prepared", "save_authorized", "save_rejected",
           "save_cancelled", "save_operator"} \cup DispatchPC \cup RecoverPC

IdleClient == [pc |-> "idle", target |-> None, inv |-> NoInvocation,
               att |-> None, cus |-> NoCustody]

At(c, l)     == cli[c].pc = l
Inv(c)       == cli[c].target
Goto(c, l)   == cli' = [cli EXCEPT ![c].pc = l]
Return(c)    == cli' = [cli EXCEPT ![c] = IdleClient]
Continue(c, l) == IF l = "idle" THEN Return(c) ELSE Goto(c, l)

\* A command reads invocation i and goes to l holding inv as its copy.
Start(c, i, l, inv) ==
  cli' = [cli EXCEPT ![c] = [pc |-> l, target |-> i, inv |-> inv,
                             att |-> None, cus |-> NoCustody]]

Issue(c, command) == At(c, "idle") /\ command \in May[c]

\* The process that created custody r is still in its dispatch command.
ControllerActive(r, i) ==
  \E o \in Clients : r.owner = o /\ Inv(o) = i /\ cli[o].pc \in DispatchPC

ReadyUnbound ==
  attempt.state = "READY" /\ attempt.runtime = None /\ attempt.candidate = None

-----------------------------------------------------------------------------
(* Preparing and deciding an invocation *)

\* The attempt is READY, its workspace verifies, and no stored invocation names it.
PrepareScan(c, i) ==
  /\ Issue(c, "prepare")
  /\ attempt.state = "READY"
  /\ workspace = "clean"
  /\ \A j \in Invocations : invocation[j].state = "MISSING"
  /\ \A d \in Clients : Inv(d) # i                  \* a fresh uuid4
  /\ Start(c, i, "save_prepared", [NoInvocation EXCEPT !.state = "PREPARED"])
  /\ UNCHANGED <<records, world, crashes>>

AuthorizeCheck(c, i, k) ==
  /\ Issue(c, "authorize")
  /\ invocation[i].state = "PREPARED"
  /\ Start(c, i, "save_authorized",
           [invocation[i] EXCEPT !.state = "AUTHORIZED", !.by = k])
  /\ UNCHANGED <<records, world, crashes>>

RejectCheck(c, i) ==
  /\ Issue(c, "reject")
  /\ invocation[i].state = "PREPARED"
  /\ Start(c, i, "save_rejected", [invocation[i] EXCEPT !.state = "REJECTED"])
  /\ UNCHANGED <<records, world, crashes>>

\* The controller is compared only when the record is AUTHORIZED; the legal
\* transition table then admits AUTHORIZED and UNCERTAIN alike.
CancelCheck(c, i, k) ==
  /\ Issue(c, "cancel")
  /\ "ABORTED" \in InvocationNext[invocation[i].state]
  /\ invocation[i].state = "AUTHORIZED" => invocation[i].by = k
  /\ Start(c, i, "save_cancelled", [invocation[i] EXCEPT !.state = "ABORTED"])
  /\ UNCHANGED <<records, world, crashes>>

\* os.replace of state/invocations/<id>.json by the record just checked.
CommitInvocation(c) ==
  /\ cli[c].pc \in DOMAIN AfterInvocation
  /\ invocation' = [invocation EXCEPT ![Inv(c)] = cli[c].inv]
  /\ Continue(c, AfterInvocation[cli[c].pc])
  /\ UNCHANGED <<attempt, custody, result, world, crashes>>

\* InvocationStore.save_transition up to the write: the file still holds the
\* record this command read; then the update is the one to be written.
CheckInvocation(c, new, l) ==
  /\ IF invocation[Inv(c)] = cli[c].inv
     THEN cli' = [cli EXCEPT ![c].inv = new, ![c].pc = l]
     ELSE Return(c)
  /\ UNCHANGED <<records, world, crashes>>

-----------------------------------------------------------------------------
(* The attempt record *)

\* AttemptStore.save_transition up to the write.
CheckAttempt(c, ok, new, l) ==
  /\ IF ok /\ LegalAttemptMove(attempt, new)
     THEN cli' = [cli EXCEPT ![c].att = new, ![c].pc = l]
     ELSE Return(c)
  /\ UNCHANGED <<records, world, crashes>>

CommitAttempt(c) ==
  /\ cli[c].pc \in DOMAIN AfterAttempt
  /\ attempt' = cli[c].att
  /\ Continue(c, AfterAttempt[cli[c].pc])
  /\ UNCHANGED <<invocation, custody, result, world, crashes>>

\* Mutant: a receipt-bound READY attempt may be aborted.
OperatorAbortsReady(c, t) ==
  LET new == [attempt EXCEPT !.state = t,
                !.candidate = IF t = "CANDIDATE" THEN Typed ELSE @,
                !.cleanup = IF t \in AttemptTerminal THEN "operator" ELSE @]
  IN /\ Issue(c, "transition")
     /\ t # "RUNNING" /\ LegalAttemptMove(attempt, new)
     /\ cli' = [cli EXCEPT ![c].pc = "save_operator", ![c].att = new]
     /\ UNCHANGED <<records, world, crashes>>

\* transition-attempt: any legal move but READY -> RUNNING (no runtime
\* identity can be given) and, as the receipt exists, READY -> ABORTED.
OperatorCheck(c, t) ==
  LET new == [attempt EXCEPT !.state = t,
                !.candidate = IF t = "CANDIDATE" THEN Typed ELSE @,
                !.cleanup = IF t \in AttemptTerminal THEN "operator" ELSE @]
  IN /\ Issue(c, "transition")
     /\ ~(attempt.state = "READY" /\ t = "ABORTED")
     /\ t # "RUNNING" /\ LegalAttemptMove(attempt, new)
     /\ cli' = [cli EXCEPT ![c].pc = "save_operator", ![c].att = new]
     /\ UNCHANGED <<records, world, crashes>>

-----------------------------------------------------------------------------
(* dispatch-invocation, up to the runner *)

\* Admission: AUTHORIZED by this controller, a READY unbound attempt, a
\* verified workspace, and no result or custody of an earlier dispatch.
Admit(c, i, k) ==
  /\ Issue(c, "dispatch")
  /\ invocation[i].state = "AUTHORIZED" /\ invocation[i].by = k
  /\ ReadyUnbound
  /\ workspace = "clean"
  /\ result[i] = None /\ custody[i].state = "MISSING"
  /\ Start(c, i, "d_bind", invocation[i])
  /\ UNCHANGED <<records, world, crashes>>

\* bind_authorized_invocation: both records are read again.
BindCheck(c) ==
  /\ At(c, "d_bind")
  /\ CheckAttempt(c, invocation[Inv(c)].state = "AUTHORIZED",
                  [attempt EXCEPT !.state = "RUNNING", !.runtime = Inv(c)],
                  "save_running")

DispatchCheck(c) ==
  /\ At(c, "d_dispatch")
  /\ CheckInvocation(c, [cli[c].inv EXCEPT !.state = "DISPATCHING"], "save_dispatching")

-----------------------------------------------------------------------------
(* WindowsJobRunner: one contained adapter process tree *)

\* transition_custody and the custody store's save_transition.  An update that
\* _validate_custody refuses, or one whose snapshot is stale because another
\* process replaced the record, raises: nothing is written, and the command
\* ends (inside the runner's except branch the refusal itself is swallowed).
SaveCustody(c, new, l) ==
  IF custody[Inv(c)] = cli[c].cus /\ ValidCustody(new)
  THEN /\ custody' = [custody EXCEPT ![Inv(c)] = new]
       /\ cli' = [cli EXCEPT ![c] = IF l = "idle" THEN IdleClient
                                    ELSE [@ EXCEPT !.cus = new, !.pc = l]]
  ELSE Return(c) /\ UNCHANGED custody

\* The launch workspace is inspected and no custody record is on disk.
CustodyCheck(c) ==
  /\ At(c, "r_create")
  /\ IF workspace = "clean" /\ custody[Inv(c)].state = "MISSING"
     THEN Goto(c, "r_make")
     ELSE Return(c)
  /\ UNCHANGED <<records, world, crashes>>

CustodyCreate(c) ==
  LET new == [NoCustody EXCEPT !.state = "PREPARED", !.owner = c]
  IN /\ At(c, "r_make")
     /\ custody' = [custody EXCEPT ![Inv(c)] = new]
     /\ cli' = [cli EXCEPT ![c].cus = new, ![c].pc = "r_launch"]
     /\ UNCHANGED <<attempt, invocation, result, world, crashes>>

\* No job object: nothing was launched, and nothing is claimed about it.
JobFails(c) ==
  /\ At(c, "r_launch")
  /\ SaveCustody(c, [cli[c].cus EXCEPT !.state = "UNCERTAIN", !.failed = TRUE], "idle")
  /\ UNCHANGED <<attempt, invocation, result, world, crashes>>

\* Popen returns: the process runs, and is not yet in the job.
Launch(c) ==
  /\ At(c, "r_launch")
  /\ adapter' = [adapter EXCEPT ![Inv(c)][c] = "outside"]
  /\ Goto(c, "r_assign")
  /\ UNCHANGED <<records, workspace, sends, crashes>>

Assign(c) ==
  /\ At(c, "r_assign")
  /\ adapter' = [adapter EXCEPT ![Inv(c)][c] = IF @ = "outside" THEN "waiting" ELSE @]
  /\ Goto(c, "r_record")
  /\ UNCHANGED <<records, workspace, sends, crashes>>

\* AssignProcessToJobObject refuses: the process itself is terminated and
\* waited for, and the empty job is queried.
AssignFails(c) ==
  /\ At(c, "r_assign")
  /\ adapter' = [adapter EXCEPT ![Inv(c)][c] = "none"]
  /\ \/ SaveCustody(c, [cli[c].cus EXCEPT !.state = "TERMINATED", !.active = "zero",
                                          !.failed = TRUE], "r_verify")
     \/ SaveCustody(c, [cli[c].cus EXCEPT !.state = "UNCERTAIN", !.failed = TRUE], "idle")
  /\ UNCHANGED <<attempt, invocation, result, workspace, sends, crashes>>

RecordAssigned(c) ==
  /\ At(c, "r_record")
  /\ SaveCustody(c, [cli[c].cus EXCEPT !.state = "ASSIGNED", !.assigned = TRUE], "r_mark")
  /\ UNCHANGED <<attempt, invocation, result, world, crashes>>

\* request_sent is durable before the first byte of the request is written.
MarkDispatching(c) ==
  /\ At(c, "r_mark")
  /\ SaveCustody(c, [cli[c].cus EXCEPT !.state = "DISPATCHING", !.sent = TRUE], "r_send")
  /\ UNCHANGED <<attempt, invocation, result, world, crashes>>

\* Mutant: a write that seems to have failed is repeated.
SendAgain(c) ==
  /\ At(c, "r_send")
  /\ adapter[Inv(c)][c] \in {"waiting", "working"}
  /\ adapter' = [adapter EXCEPT ![Inv(c)][c] = "working"]
  /\ sends' = [sends EXCEPT ![Inv(c)] = IF @ < 2 THEN @ + 1 ELSE @]
  /\ \E l \in {"r_send", "r_wait"} : Goto(c, l)
  /\ UNCHANGED <<records, workspace, crashes>>

\* The request lies before an adapter that has not read it: the write and the
\* close of its stdin come before the timed wait, and nothing bounds them.
Unread(c) == At(c, "r_send") /\ adapter[Inv(c)][c] = "waiting"

Send(c) ==
  /\ Unread(c)
  /\ adapter' = [adapter EXCEPT ![Inv(c)][c] = "working"]
  /\ sends' = [sends EXCEPT ![Inv(c)] = IF @ < 2 THEN @ + 1 ELSE @]
  /\ Goto(c, "r_wait")
  /\ UNCHANGED <<records, workspace, crashes>>

\* Mutant: the wait for the adapter has no timeout.
NoTimeout(c) == At(c, "r_wait") /\ FALSE /\ UNCHANGED vars

\* timeout_seconds pass (or an output reader overflows its limit) while the
\* adapter runs: the job is terminated.
Timeout(c) ==
  /\ At(c, "r_wait")
  /\ adapter[Inv(c)][c] = "working"
  /\ \E left \in {"none", "remnant"} : adapter' = [adapter EXCEPT ![Inv(c)][c] = left]
  /\ Goto(c, "r_late")
  /\ UNCHANGED <<records, workspace, sends, crashes>>

\* Mutant: the first process's exit is taken for the end of its tree.
CollectLeaderOnly(c) ==
  /\ cli[c].pc \in {"r_wait", "r_late"}
  /\ adapter[Inv(c)][c] \in {"none", "remnant"}
  /\ \E failed \in IF At(c, "r_late") THEN {TRUE} ELSE BOOLEAN :
       SaveCustody(c, [cli[c].cus EXCEPT
                         !.state  = IF failed THEN "TERMINATED" ELSE "EXITED",
                         !.active = "zero", !.failed = failed], "r_verify")
  /\ UNCHANGED <<attempt, invocation, result, world, crashes>>

\* Mutant: a zero exit code is accepted before absence is verified.
CollectWithoutProof(c) ==
  /\ cli[c].pc \in {"r_wait", "r_late"}
  /\ adapter[Inv(c)][c] = "none"
  /\ \E failed \in IF At(c, "r_late") THEN {TRUE} ELSE BOOLEAN :
       SaveCustody(c, [cli[c].cus EXCEPT
                         !.state  = IF failed THEN "TERMINATED" ELSE "EXITED",
                         !.active = "zero", !.failed = failed],
                   IF failed THEN "r_verify" ELSE "a_result")
  /\ UNCHANGED <<attempt, invocation, result, world, crashes>>

\* The adapter has ended; the job's active count is queried and the outcome is
\* saved.  A tree that is still active raises before absence is claimed.
Collect(c) ==
  LET a == adapter[Inv(c)][c]
  IN /\ cli[c].pc \in {"r_wait", "r_late"}
     /\ a \in {"none", "remnant"}
     /\ \E failed \in IF At(c, "r_late") THEN {TRUE} ELSE BOOLEAN :
          SaveCustody(c, [cli[c].cus EXCEPT
                            !.state  = IF failed THEN "TERMINATED" ELSE "EXITED",
                            !.active = IF a = "none" THEN "zero" ELSE "some",
                            !.failed = failed],
                      IF a = "none" THEN "r_verify" ELSE "idle")
     /\ UNCHANGED <<attempt, invocation, result, world, crashes>>

\* The except branch: any exception between launch and outcome (a refused
\* launch, a failed write, an interrupt) terminates the job, waits, and records
\* what the job query observed.  A process outside the job is not in it.
Fault(c) ==
  /\ cli[c].pc \in FaultPC
  /\ \E left \in IF adapter[Inv(c)][c] \in InJob THEN {"none", "remnant"}
                 ELSE {adapter[Inv(c)][c]} :
       \E active \in {"unknown", IF left = "remnant" THEN "some" ELSE "zero"} :
         /\ adapter' = [adapter EXCEPT ![Inv(c)][c] = left]
         /\ SaveCustody(c, [cli[c].cus EXCEPT
                              !.state  = IF active = "zero" THEN "TERMINATED"
                                         ELSE "UNCERTAIN",
                              !.active = active, !.failed = TRUE],
                        IF active = "zero" THEN "r_verify" ELSE "idle")
  /\ UNCHANGED <<attempt, invocation, result, workspace, sends, crashes>>

\* The adapter ended before its request could be written.
BrokenPipe(c) == At(c, "r_send") /\ adapter[Inv(c)][c] # "waiting" /\ Fault(c)

\* Absence is claimed only after a saved outcome with zero active processes; a
\* failed execution then raises, a success returns the adapter's output.
VerifyAbsence(c) ==
  /\ At(c, "r_verify")
  /\ SaveCustody(c, [cli[c].cus EXCEPT !.state = "ABSENCE_VERIFIED"],
                 IF cli[c].cus.failed THEN "idle" ELSE "a_accept")
  /\ UNCHANGED <<attempt, invocation, result, world, crashes>>

-----------------------------------------------------------------------------
(* The adapter's process tree, and Windows *)

\* The tree ends by itself, or because the job's last handle closed with its
\* controller (kill-on-close); its first process may leave descendants behind.
AdapterEnds(i, c) ==
  /\ adapter[i][c] # "none"
  /\ \E left \in IF adapter[i][c] = "working" THEN {"none", "remnant"} ELSE {"none"} :
       adapter' = [adapter EXCEPT ![i][c] = left]
  /\ UNCHANGED <<records, workspace, sends, cli, crashes>>

AdapterWrites(i, c) ==
  /\ adapter[i][c] \in {"working", "remnant"}
  /\ workspace' = "changed"
  /\ UNCHANGED <<records, adapter, sends, cli, crashes>>

-----------------------------------------------------------------------------
(* dispatch-invocation, after the runner *)

\* accept_execute_response and accept_workspace_write_response: the reloaded
\* custody proves a complete verified success ...
VerifiedSuccess(r) ==
  r.state = "ABSENCE_VERIFIED" /\ r.assigned /\ r.sent /\ r.active = "zero" /\ ~r.failed

\* ... and Worker Lab's own look at the workspace agrees with the sandbox mode.
\* The response may still be refused (its fields, digests, the sealed tests).
Accept(c) ==
  /\ At(c, "a_accept")
  /\ \/ /\ VerifiedSuccess(custody[Inv(c)])
        /\ workspace = (IF Sandbox = "read-only" THEN "clean" ELSE "changed")
        /\ Goto(c, "a_result")
     \/ Return(c)
  /\ UNCHANGED <<records, world, crashes>>

\* Mutant: the invocation is not completed before the attempt.
StoreThenCandidate(c) ==
  /\ At(c, "a_result")
  /\ result' = [result EXCEPT ![Inv(c)] = c]
  /\ Goto(c, "a_attempt")
  /\ UNCHANGED <<attempt, invocation, custody, world, crashes>>

\* results/<id>.json is written unconditionally.
StoreResult(c) ==
  /\ At(c, "a_result")
  /\ result' = [result EXCEPT ![Inv(c)] = c]
  /\ Goto(c, "a_complete")
  /\ UNCHANGED <<attempt, invocation, custody, world, crashes>>

CompleteCheck(c) ==
  /\ At(c, "a_complete")
  /\ CheckInvocation(c, [cli[c].inv EXCEPT !.state = "COMPLETED", !.result = c],
                     "save_completed")

\* Mutant: the invocation's identity is recorded instead of the result's digest.
CandidateIsIdentity(c) ==
  /\ At(c, "a_attempt")
  /\ CheckAttempt(c, /\ attempt.state = "RUNNING"
                     /\ attempt.runtime = Inv(c) /\ attempt.candidate = None,
                  [attempt EXCEPT !.state = "CANDIDATE", !.candidate = Inv(c)],
                  "save_candidate")

\* _validate_running_dispatch_binding on the attempt read again.
CandidateCheck(c) ==
  /\ At(c, "a_attempt")
  /\ CheckAttempt(c, /\ attempt.state = "RUNNING"
                     /\ attempt.runtime = Inv(c) /\ attempt.candidate = None,
                  [attempt EXCEPT !.state = "CANDIDATE", !.candidate = c],
                  "save_candidate")

-----------------------------------------------------------------------------
(* recover-invocation *)

RecoveryOutcome == "recovered"     \* RECOVERY_CLEANUP_OUTCOME

\* Mutant: a recovery interrupted after its first write is not accepted again.
RecoverReadOnce(c, i, k) ==
  /\ Issue(c, "recover")
  /\ invocation[i].by = k
  /\ invocation[i].state = "DISPATCHING"
  /\ attempt.runtime = i /\ attempt.candidate = None /\ attempt.state = "RUNNING"
  /\ cli' = [cli EXCEPT ![c] = [pc |-> "v_inspect", target |-> i,
                                inv |-> invocation[i], att |-> attempt,
                                cus |-> NoCustody]]
  /\ UNCHANGED <<records, world, crashes>>

\* The invocation is this controller's and recoverable, its attempt is RUNNING
\* on it, or ABORTED by an earlier recovery of the same invocation.
RecoverRead(c, i, k) ==
  /\ Issue(c, "recover")
  /\ invocation[i].by = k
  /\ invocation[i].state \in {"DISPATCHING", "UNCERTAIN", "ABORTED"}
  /\ attempt.runtime = i /\ attempt.candidate = None
  /\ \/ attempt.state = "RUNNING"
     \/ /\ attempt.state = "ABORTED" /\ invocation[i].state = "ABORTED"
        /\ attempt.cleanup = RecoveryOutcome
  /\ cli' = [cli EXCEPT ![c] = [pc |-> "v_inspect", target |-> i,
                                inv |-> invocation[i], att |-> attempt,
                                cus |-> NoCustody]]
  /\ UNCHANGED <<records, world, crashes>>

\* Mutant: a stored result does not stop recovery.
InspectWorkspaceOnly(c) ==
  /\ At(c, "v_inspect")
  /\ IF workspace = "clean" THEN Goto(c, "v_custody") ELSE Return(c)
  /\ UNCHANGED <<records, world, crashes>>

\* No result record, and the workspace is still the clean launch workspace.
RecoverInspect(c) ==
  /\ At(c, "v_inspect")
  /\ IF result[Inv(c)] = None /\ workspace = "clean"
     THEN Goto(c, "v_custody")
     ELSE Return(c)
  /\ UNCHANGED <<records, world, crashes>>

\* Custody TERMINATED with zero active processes proves absence once its
\* controller is gone.
ProvableAbsence(r, i) ==
  r.state = "TERMINATED" /\ r.active = "zero" /\ r.failed /\ ~ControllerActive(r, i)

\* Mutant: proven absence is not written back to a TERMINATED record.
RecoverCustodyInMemory(c) ==
  /\ At(c, "v_custody")
  /\ LET r == custody[Inv(c)]
     IN IF r.assigned /\ r.sent
           /\ (ProvableAbsence(r, Inv(c)) \/ r.state = "ABSENCE_VERIFIED")
        THEN cli' = [cli EXCEPT ![c].cus = r, ![c].pc = "v_uncertain"]
        ELSE Return(c)
  /\ UNCHANGED <<records, world, crashes>>

RecoverCustody(c) ==
  /\ At(c, "v_custody")
  /\ LET r == custody[Inv(c)]
     IN IF r.assigned /\ r.sent
           /\ (ProvableAbsence(r, Inv(c)) \/ r.state = "ABSENCE_VERIFIED")
        THEN cli' = [cli EXCEPT ![c].cus = r,
                       ![c].pc = IF r.state = "TERMINATED" THEN "v_absent"
                                 ELSE "v_uncertain"]
        ELSE Return(c)
  /\ UNCHANGED <<records, world, crashes>>

RecoverAbsence(c) ==
  /\ At(c, "v_absent")
  /\ SaveCustody(c, [cli[c].cus EXCEPT !.state = "ABSENCE_VERIFIED"], "v_uncertain")
  /\ UNCHANGED <<attempt, invocation, result, world, crashes>>

\* DISPATCHING -> UNCERTAIN, if the copy read at the start still says so.
RecoverUncertain(c) ==
  /\ At(c, "v_uncertain")
  /\ IF cli[c].inv.state = "DISPATCHING"
     THEN CheckInvocation(c, [cli[c].inv EXCEPT !.state = "UNCERTAIN"], "save_uncertain")
     ELSE Goto(c, "v_abort") /\ UNCHANGED <<records, world, crashes>>

RecoverAbort(c) ==
  /\ At(c, "v_abort")
  /\ IF cli[c].inv.state = "UNCERTAIN"
     THEN CheckInvocation(c, [cli[c].inv EXCEPT !.state = "ABORTED"], "save_aborted")
     ELSE Goto(c, "v_attempt") /\ UNCHANGED <<records, world, crashes>>

\* The attempt copy read at the start is aborted too; the records are then read
\* once more and compared, which changes none of them.
RecoverAttempt(c) ==
  /\ At(c, "v_attempt")
  /\ IF cli[c].att.state = "RUNNING"
     THEN CheckAttempt(c, TRUE, [cli[c].att EXCEPT !.state = "ABORTED",
                                                   !.cleanup = RecoveryOutcome],
                       "save_recovered")
     ELSE Return(c) /\ UNCHANGED <<records, world, crashes>>

-----------------------------------------------------------------------------
(* A command is killed, interrupted or its host fails, between any two steps. *)

Crash(c) ==
  /\ ~At(c, "idle")
  /\ crashes < MaxCrashes
  /\ crashes' = crashes + 1
  /\ Return(c)
  /\ UNCHANGED <<records, world>>

-----------------------------------------------------------------------------
Init ==
  /\ attempt = [state |-> "READY", runtime |-> None, candidate |-> None,
                cleanup |-> None]
  /\ invocation = [i \in Invocations |-> NoInvocation]
  /\ custody = [i \in Invocations |-> NoCustody]
  /\ result = [i \in Invocations |-> None]
  /\ workspace = "clean"
  /\ adapter = [i \in Invocations |-> [c \in Clients |-> "none"]]
  /\ sends = [i \in Invocations |-> 0]
  /\ cli = [c \in Clients |-> IdleClient]
  /\ crashes = 0

Read(c) ==
  \/ \E i \in Invocations : PrepareScan(c, i) \/ RejectCheck(c, i)
  \/ \E i \in Invocations, k \in Controllers :
       AuthorizeCheck(c, i, k) \/ CancelCheck(c, i, k) \/ Admit(c, i, k) \/ RecoverRead(c, i, k)
  \/ \E t \in AttemptStates : OperatorCheck(c, t)

Run(c) ==
  \/ CustodyCheck(c) \/ CustodyCreate(c) \/ Launch(c) \/ Assign(c)
  \/ RecordAssigned(c) \/ MarkDispatching(c) \/ Send(c) \/ BrokenPipe(c)
  \/ Timeout(c) \/ Collect(c) \/ VerifyAbsence(c)

\* What may happen to a command, and is never owed to it.
Mishap(c) == JobFails(c) \/ AssignFails(c) \/ Fault(c) \/ Crash(c)

Step(c) ==
  \/ CommitInvocation(c) \/ CommitAttempt(c)
  \/ BindCheck(c) \/ DispatchCheck(c) \/ Run(c)
  \/ Accept(c) \/ StoreResult(c) \/ CompleteCheck(c) \/ CandidateCheck(c)
  \/ RecoverInspect(c) \/ RecoverCustody(c) \/ RecoverAbsence(c)
  \/ RecoverUncertain(c) \/ RecoverAbort(c) \/ RecoverAttempt(c)

Environment == \E i \in Invocations, c \in Clients : AdapterEnds(i, c) \/ AdapterWrites(i, c)

Next ==
  \/ \E c \in Clients : Read(c) \/ Step(c) \/ Mishap(c)
  \/ Environment

Spec == Init /\ [][Next]_vars

\* A started command is scheduled until it returns, but for the write that an
\* adapter need never take off its hands; and the operator repeats
\* recover-invocation for as long as it is accepted.
Owed(c) == Step(c) /\ ~Unread(c)

Fairness ==
  /\ \A c \in Clients : WF_vars(Owed(c))
  /\ \A i \in Invocations, k \in Controllers : WF_vars(\E c \in Clients : RecoverRead(c, i, k))

FairSpec == Spec /\ Fairness

-----------------------------------------------------------------------------
(* Properties *)

AttemptRecords ==
  [state : AttemptStates, runtime : Invocations \cup {None},
   candidate : Clients \cup {None, Typed},
   cleanup : {None, "operator", RecoveryOutcome}]

InvocationRecords ==
  [state : InvocationStates, by : Controllers \cup {None}, result : Clients \cup {None}]

CustodyRecords ==
  [state : CustodyStates, owner : Clients \cup {None}, assigned : BOOLEAN,
   sent : BOOLEAN, active : ActiveCounts, failed : BOOLEAN]

ClientStates ==
  [pc : Labels, target : Invocations \cup {None}, inv : InvocationRecords,
   att : AttemptRecords \cup {None}, cus : CustodyRecords]

\* The type invariant.
TypeOK ==
  /\ attempt \in AttemptRecords
  /\ invocation \in [Invocations -> InvocationRecords]
  /\ custody \in [Invocations -> CustodyRecords]
  /\ result \in [Invocations -> Clients \cup {None}]
  /\ workspace \in {"clean", "changed"}
  /\ adapter \in [Invocations -> [Clients -> AdapterStates]]
  /\ sends \in [Invocations -> 0 .. 2]
  /\ cli \in [Clients -> ClientStates]
  /\ crashes \in 0 .. MaxCrashes

\* At most one process ever issues dispatch-invocation at a time.
SingleDispatcher ==
  \A c, d \in Clients : "dispatch" \in May[c] /\ "dispatch" \in May[d] => c = d

\* An ABSENCE_VERIFIED custody record is true: no process of that invocation's
\* job is alive any more, whoever recorded it (the runner or a recovery).
AbsenceProofTrue ==
  \A i \in Invocations : custody[i].state = "ABSENCE_VERIFIED" =>
    \A c \in Clients : adapter[i][c] \notin InJob

\* The request of an invocation is delivered to an adapter at most once,
\* through every crash, retry and recovery.
RequestAtMostOnce == \A i \in Invocations : sends[i] <= 1

\* A stored result rests on a complete verified success: one delivered request
\* and a custody record without failure that proves absence.
ResultHasEvidence ==
  \A i \in Invocations : result[i] # None =>
    VerifiedSuccess(custody[i]) /\ sends[i] = 1

\* What review_candidate demands of a candidate a dispatch recorded: exactly one
\* invocation, COMPLETED, whose digest, stored result and runtime identity agree.
CandidateReviewable ==
  attempt.candidate \in Clients =>
    \E i \in Invocations :
      /\ attempt.runtime = i
      /\ invocation[i].state = "COMPLETED"
      /\ invocation[i].result = attempt.candidate /\ result[i] = attempt.candidate
      /\ custody[i].state = "ABSENCE_VERIFIED"
      /\ \A j \in Invocations \ {i} : invocation[j].state = "MISSING"

\* Recovery ends with the evidence OPERATIONS.md names: terminal records on both
\* sides, proven absence, no result and an unchanged workspace.
RecoveryRetainsEvidence ==
  attempt.cleanup = RecoveryOutcome =>
    \E i \in Invocations :
      /\ attempt.runtime = i
      /\ invocation[i].state = "ABORTED" /\ custody[i].state = "ABSENCE_VERIFIED"
      /\ result[i] = None /\ workspace = "clean"

\* Even while other commands race the dispatch, a recorded candidate is one whose
\* own result is stored behind a verified success, and a recovered attempt is one
\* whose adapter is proven absent.
OutcomeHasEvidence ==
  /\ attempt.candidate \in Clients =>
       \E i \in Invocations : /\ attempt.runtime = i /\ result[i] = attempt.candidate
                             /\ VerifiedSuccess(custody[i])
  /\ attempt.cleanup = RecoveryOutcome =>
       \E i \in Invocations : /\ attempt.runtime = i
                             /\ custody[i].state = "ABSENCE_VERIFIED" /\ custody[i].sent

-----------------------------------------------------------------------------
(* The inductive invariant behind AbsenceProofTrue and RequestAtMostOnce *)

\* A command past its first read works on an invocation; one that goes on to
\* write the attempt holds an attempt record.
HeldOK ==
  \A c \in Clients :
    /\ cli[c].pc \notin {"idle", "save_operator"} => cli[c].target \in Invocations
    /\ cli[c].pc \in DOMAIN AfterAttempt \cup RecoverPC => cli[c].att \in AttemptRecords

\* Only a dispatching slot runs dispatch code or has launched an adapter.
OnlyDispatchers ==
  /\ \A c \in Clients : cli[c].pc \in DispatchPC => "dispatch" \in May[c]
  /\ \A i \in Invocations, c \in Clients : adapter[i][c] # "none" => "dispatch" \in May[c]

\* The state of the custody record where a program counter fixes it.
CustodyAt ==
  [ r_make |-> "MISSING", r_launch |-> "PREPARED", r_assign |-> "PREPARED",
    r_record |-> "PREPARED", r_mark |-> "ASSIGNED", r_send |-> "DISPATCHING" ]

RunnerCustody ==
  \A c \in Clients : cli[c].pc \in DOMAIN CustodyAt =>
    custody[cli[c].target].state = CustodyAt[cli[c].pc]

\* Absence is claimed only on a copy whose outcome counted no active process.
HeldOutcome ==
  \A c \in Clients :
    /\ cli[c].pc = "r_verify" => /\ cli[c].cus.state \in {"EXITED", "TERMINATED"}
                                 /\ cli[c].cus.active = "zero"
    /\ cli[c].pc = "v_absent" => /\ cli[c].cus.state = "TERMINATED"
                                 /\ cli[c].cus.active = "zero"

\* The record says nobody is alive.
ClaimsDead(r) ==
  \/ r.state = "ABSENCE_VERIFIED"
  \/ r.state \in {"EXITED", "TERMINATED"} /\ r.active = "zero"

ZeroMeansDead ==
  \A i \in Invocations : ClaimsDead(custody[i]) =>
    \A c \in Clients : adapter[i][c] \notin InJob

\* No request precedes its durable request_sent.
SentMeansMarked ==
  /\ \A i \in Invocations :
       custody[i].state \in {"MISSING", "PREPARED", "ASSIGNED"} => sends[i] = 0
  /\ \A c \in Clients : cli[c].pc = "r_send" => sends[cli[c].target] = 0
  /\ RequestAtMostOnce

\* The strengthening that every step preserves when there is one dispatcher.
ContainmentInv ==
  /\ OnlyDispatchers /\ RunnerCustody /\ HeldOutcome /\ ZeroMeansDead /\ SentMeansMarked

-----------------------------------------------------------------------------
(* The abstract contract, and what the documentation says *)

Contract == INSTANCE AttemptContract
  WITH attempt <- attempt, invocation <- invocation, custody <- custody, result <- result

\* One command at a time, the records behave as AttemptContract says, whatever
\* the crashes between the accesses.
ImplementsContract == Contract!Spec

\* A cancellation replaces an AUTHORIZED record, never a dispatched or uncertain
\* one (OPERATIONS.md on cancel-invocation).
CancelOnlyBeforeDispatch ==
  [][\A c \in Clients : At(c, "save_cancelled") /\ invocation' # invocation =>
       invocation[Inv(c)].state = "AUTHORIZED"]_vars

\* A recovered attempt keeps the unchanged launch workspace.
RecoveryWorkspaceUnchanged == attempt.cleanup = RecoveryOutcome => workspace = "clean"

\* A recovered attempt's invocation retains no result record.
RecoveryRetainsNoResult ==
  attempt.cleanup = RecoveryOutcome => \A i \in Invocations : result[i] = None

\* Recorded absence means the whole tree is dead, a process that had not yet been
\* assigned to the job included (the comment on the runner's except branch).
FaultKillsTree ==
  \A i \in Invocations : custody[i].state = "ABSENCE_VERIFIED" =>
    \A c \in Clients : adapter[i][c] = "none"

\* No dispatch of i is running, and the records hold all a recovery asks for.
Recoverable(i) ==
  /\ attempt.state = "RUNNING" /\ attempt.runtime = i /\ attempt.candidate = None
  /\ invocation[i].state \in {"DISPATCHING", "UNCERTAIN", "ABORTED"}
  /\ result[i] = None /\ workspace = "clean"
  /\ custody[i].assigned /\ custody[i].sent
  /\ \/ custody[i].state = "ABSENCE_VERIFIED"
     \/ custody[i].state = "TERMINATED" /\ custody[i].active = "zero"
  /\ \A c \in Clients : Inv(c) = i => cli[c].pc \notin DispatchPC

\* Recovery is restart-safe: from any state that holds its evidence, repeated
\* recovery ends with the attempt ABORTED, however its own writes were cut short.
RecoveryCompletes ==
  \A i \in Invocations : Recoverable(i) ~> attempt.state = "ABORTED"

\* Every started command returns whatever its adapter does, unless it waits in the
\* write of the request for an adapter that lives and does not read: every other
\* wait, join and query of the runner has a bound of its own.  (A command passes
\* that write once, so having been there excuses no later wait.)
CommandReturns == \A c \in Clients : ~At(c, "idle") ~> (At(c, "idle") \/ Unread(c))
=============================================================================

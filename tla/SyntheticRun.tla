---------------------------- MODULE SyntheticRun ----------------------------
(* synthetic-read-only drives one attempt through every command in a single    *)
(* process, in a lab directory of its own, and recover-synthetic-read-only     *)
(* closes the lab of a run that stopped.  The process may stop between any two *)
(* steps, any step may raise, which stops it too, and an operator may start    *)
(* the recovery while the run is still alive: the stores take no lock, so a    *)
(* transition is checked against the file and written in two steps.            *)
(*                                                                             *)
(* Between its launch and its assignment to the job the adapter process is     *)
(* outside every job: nothing the run does ends it there.                      *)
EXTENDS LabFiles

CONSTANT MaxRecoveries   \* how often an operator starts the recovery

ASSUME RecoveriesAssumption == MaxRecoveries \in Nat

Commands == {"run", "recover"}

VARIABLES
  receipt,    \* the workspace's receipt
  workspace,  \* its directory
  adapter,    \* the adapter's process tree: not launched, outside the job, in
              \* it without or with its request, or gone
  cli,        \* per command: where it is, the states it has read, how it ended
  recoveries,
  resumes,    \* the run had stopped and left what the recovery accepts
  overlapped  \* a recovery has begun while the run was alive

labVars == <<files, receipt, workspace, adapter, cli, recoveries, resumes, overlapped>>

Ended == {"stopped", "refused", "done"}
InJob == {"waiting", "working"}
Idle == [pc |-> "idle", invocation |-> None]

SyntheticInit ==
  /\ files = [r \in Records |-> None]
  /\ receipt = None
  /\ workspace = "absent"
  /\ adapter = "none"
  /\ cli = [c \in Commands |-> Idle]
  /\ recoveries = 0
  /\ resumes = FALSE
  /\ overlapped = FALSE

At(c, l) == cli[c].pc = l
Goto(c, l) ==
  cli' = [cli EXCEPT ![c] = [pc |-> l, invocation |-> IF l \in Ended THEN None
                                                      ELSE cli[c].invocation]]
Alive(c) == cli[c].pc \notin Ended \cup {"idle"}

(* A step that does no more than write one record. *)
Writes(c, l, record, value, next) ==
  /\ At(c, l) /\ Put(record, value) /\ Goto(c, next)
  /\ UNCHANGED <<receipt, workspace, adapter, recoveries, resumes, overlapped>>

(* A transition out of state from: the record on disk must still be the one it *)
(* was made from, then the new one replaces whatever is there.                 *)
Checks(c, l, record, from, next) ==
  /\ At(c, l)
  /\ Goto(c, IF files[record] = from THEN next ELSE "refused")
  /\ UNCHANGED <<files, receipt, workspace, adapter, recoveries, resumes, overlapped>>

-----------------------------------------------------------------------------
(* run *)

(* The confirmation, the controller, the installation's authority and the new  *)
(* directory are checked before anything is made.                              *)
RunAdmitted ==
  /\ At("run", "idle")
  /\ \E confirmed, enabled \in BOOLEAN :
       Goto("run", IF confirmed /\ enabled THEN "authority" ELSE "refused")
  /\ UNCHANGED <<files, receipt, workspace, adapter, recoveries, resumes, overlapped>>

WriteAuthority == Writes("run", "authority", "definitions", "written", "create")
CreateAttempt == Writes("run", "create", "attempt", "DRAFT", "prepare")

(* prepare_workspace publishes the directory and its receipt, then the READY   *)
(* attempt; module Workspace has its steps and its compensation.               *)
PrepareWorkspace ==
  /\ At("run", "prepare")
  /\ workspace' = "clean" /\ receipt' = "PREPARED"
  /\ Goto("run", "ready")
  /\ UNCHANGED <<files, adapter, recoveries, resumes, overlapped>>

MarkReady == Writes("run", "ready", "attempt", "READY", "seal")
SealPlan == Writes("run", "seal", "plan", "sealed", "invocation")
CreateInvocation == Writes("run", "invocation", "invocation", "PREPARED", "activation")

RecordActivation == Writes("run", "activation", "activation", "ENABLED", "authorization")
RecordAuthorization == Writes("run", "authorization", "authorization", "written", "call")

(* The adapter is called in its prepare mode: nothing executes.                *)
AdapterPrepare ==
  /\ At("run", "call") /\ Goto("run", "authorize")
  /\ UNCHANGED <<files, receipt, workspace, adapter, recoveries, resumes, overlapped>>

AuthorizeCheck == Checks("run", "authorize", "invocation", "PREPARED", "authorized")
AuthorizeWrite == Writes("run", "authorized", "invocation", "AUTHORIZED", "preflight")

AdapterPreflight ==
  /\ At("run", "preflight") /\ Goto("run", "bind")
  /\ UNCHANGED <<files, receipt, workspace, adapter, recoveries, resumes, overlapped>>

(* bind_authorized_invocation reads both records. *)
BindCheck ==
  /\ At("run", "bind")
  /\ Goto("run", IF files["invocation"] = "AUTHORIZED" /\ files["attempt"] = "READY"
                 THEN "bound" ELSE "refused")
  /\ UNCHANGED <<files, receipt, workspace, adapter, recoveries, resumes, overlapped>>

BindWrite == Writes("run", "bound", "attempt", "RUNNING", "dispatch")

DispatchCheck == Checks("run", "dispatch", "invocation", "AUTHORIZED", "dispatched")
DispatchWrite == Writes("run", "dispatched", "invocation", "DISPATCHING", "launch")

(* Mutant: the directory is not looked at before the launch. *)
LaunchUninspected ==
  /\ At("run", "launch") /\ Goto("run", "inspected")
  /\ UNCHANGED <<files, receipt, workspace, adapter, recoveries, resumes, overlapped>>

(* The job runner inspects the workspace before it records a custody. *)
LaunchInspect ==
  /\ At("run", "launch")
  /\ Goto("run", IF workspace = "clean" THEN "inspected" ELSE "refused")
  /\ UNCHANGED <<files, receipt, workspace, adapter, recoveries, resumes, overlapped>>

CreateCustody == Writes("run", "inspected", "custody", "PREPARED", "created")

(* No job, no adapter. *)
JobFails == Writes("run", "created", "custody", "UNCERTAIN", "stopped")

Launch ==
  /\ At("run", "created")
  /\ adapter' = "outside"
  /\ Goto("run", "launched")
  /\ UNCHANGED <<files, receipt, workspace, recoveries, resumes, overlapped>>

Assign ==
  /\ At("run", "launched")
  /\ adapter' = IF adapter = "outside" THEN "waiting" ELSE adapter
  /\ Goto("run", "assigned")
  /\ UNCHANGED <<files, receipt, workspace, recoveries, resumes, overlapped>>

(* The process itself is ended, and the empty job is asked. *)
AssignRefused ==
  /\ At("run", "launched")
  /\ adapter' = "gone"
  /\ \/ Put("custody", "INCOMPLETE") /\ Goto("run", "faulted")
     \/ Put("custody", "UNCERTAIN") /\ Goto("run", "raised")
  /\ UNCHANGED <<receipt, workspace, recoveries, resumes, overlapped>>

RecordAssigned == Writes("run", "assigned", "custody", "ASSIGNED", "marking")
MarkDispatching == Writes("run", "marking", "custody", "DISPATCHING", "sending")

Send ==
  /\ At("run", "sending") /\ adapter = "waiting"
  /\ adapter' = "working"
  /\ Goto("run", "executing")
  /\ UNCHANGED <<files, receipt, workspace, recoveries, resumes, overlapped>>

(* A read-only sandbox is asked for; that the adapter keeps to it is checked.  *)
AdapterWrites ==
  /\ adapter = "working" /\ workspace = "clean"
  /\ workspace' = "changed"
  /\ UNCHANGED <<files, receipt, adapter, cli, recoveries, resumes, overlapped>>

AdapterEnds ==
  /\ adapter \in InJob \cup {"outside"}
  /\ adapter' = "gone"
  /\ UNCHANGED <<files, receipt, workspace, cli, recoveries, resumes, overlapped>>

(* The adapter has exited and its job is found empty ... *)
Collect ==
  /\ adapter = "gone"
  /\ \/ Writes("run", "executing", "custody", "EXITED", "exited")
     \/ Writes("run", "executing", "custody", "TERMINATED", "faulted")

(* ... or some of its tree is still there: no absence is claimed. *)
CollectActive ==
  /\ adapter = "working"
  /\ \E outcome \in {"EXITED", "INCOMPLETE"} :
       Writes("run", "executing", "custody", outcome, "raised")

Contained == {"created", "launched", "assigned", "marking", "sending", "executing"}

(* Any exception from the launch on, the timeout and an exceeded cap: the job   *)
(* is terminated and found empty, which a process outside it also leaves it.    *)
(* An assigned adapter that was sent no request cannot be recorded as absent.   *)
Fault ==
  /\ cli["run"].pc \in Contained
  /\ adapter' = IF adapter \in InJob THEN "gone" ELSE adapter
  /\ Put("custody", IF cli["run"].pc \in {"sending", "executing"} THEN "TERMINATED"
                    ELSE "INCOMPLETE")
  /\ Goto("run", IF At("run", "marking") THEN "raised" ELSE "faulted")
  /\ UNCHANGED <<receipt, workspace, recoveries, resumes, overlapped>>

(* The count is not zero, or the job does not answer. *)
FaultUncertain ==
  \E l \in Contained : Writes("run", l, "custody", "UNCERTAIN", "raised")

ProveAbsence == Writes("run", "exited", "custody", "ABSENCE_VERIFIED", "accept")
FaultAbsence == Writes("run", "faulted", "custody", "ABSENCE_VERIFIED", "stopped")

(* accept_execute_response: the proof of absence, the prepared receipt, and a  *)
(* workspace the sealed tests find clean.                                      *)
Accept ==
  /\ At("run", "accept")
  /\ Goto("run", IF workspace = "clean" /\ receipt = "PREPARED" THEN "result" ELSE "stopped")
  /\ UNCHANGED <<files, receipt, workspace, adapter, recoveries, resumes, overlapped>>

WriteResult == Writes("run", "result", "result", "written", "complete")
CompleteCheck == Checks("run", "complete", "invocation", "DISPATCHING", "completed")
CompleteWrite == Writes("run", "completed", "invocation", "COMPLETED", "candidate")
CandidateCheck == Checks("run", "candidate", "attempt", "RUNNING", "candidated")
CandidateWrite == Writes("run", "candidated", "attempt", "CANDIDATE", "done")

Run ==
  \/ RunAdmitted \/ WriteAuthority \/ CreateAttempt \/ PrepareWorkspace \/ MarkReady
  \/ SealPlan \/ CreateInvocation \/ RecordActivation \/ RecordAuthorization
  \/ AdapterPrepare \/ AuthorizeCheck \/ AuthorizeWrite \/ AdapterPreflight
  \/ BindCheck \/ BindWrite \/ DispatchCheck \/ DispatchWrite \/ LaunchInspect
  \/ CreateCustody \/ JobFails \/ Launch \/ Assign \/ AssignRefused \/ RecordAssigned
  \/ MarkDispatching \/ Send \/ Collect \/ CollectActive \/ Fault \/ FaultUncertain
  \/ ProveAbsence \/ FaultAbsence \/ Accept
  \/ WriteResult \/ CompleteCheck \/ CompleteWrite \/ CandidateCheck \/ CandidateWrite

(* The process stops or a step raises: closing the job kills what is in it. *)
RunStops ==
  /\ Alive("run")
  /\ Goto("run", "stopped")
  /\ adapter' = IF adapter \in InJob THEN "gone" ELSE adapter
  /\ UNCHANGED <<files, receipt, workspace, recoveries, resumes, overlapped>>

-----------------------------------------------------------------------------
(* recover *)

(* What a stopped run may leave that the recovery accepts: the operator's      *)
(* evidence, and either an attempt that was never dispatched, with its         *)
(* workspace, or one whose adapter left no trace and is recorded absent, or    *)
(* was sent its request and seen to end.                                       *)
Resumable ==
  /\ files["activation"] # None /\ files["authorization"] # None
  /\ workspace = "clean"
  /\ \/ /\ files["attempt"] = "READY" /\ receipt = "PREPARED"
        /\ files["invocation"] \in {"PREPARED", "AUTHORIZED"}
     \/ /\ files["attempt"] = "RUNNING"
        /\ files["invocation"] \in {"DISPATCHING", "UNCERTAIN"}
        /\ files["custody"] \in {"TERMINATED", "ABSENCE_VERIFIED"}

RecoverBegin ==
  /\ ~At("run", "idle") /\ ~Alive("recover") /\ recoveries < MaxRecoveries
  /\ recoveries' = recoveries + 1
  /\ overlapped' = (overlapped \/ Alive("run"))
  /\ \E same_controller \in BOOLEAN :
       LET admitted == /\ same_controller
                       /\ files["activation"] # None /\ files["authorization"] # None
                       /\ files["invocation"] # None
       IN  /\ resumes' = (admitted /\ ~Alive("run") /\ Resumable)
           /\ cli' = [cli EXCEPT !["recover"] =
                IF admitted THEN [pc |-> "read", invocation |-> files["invocation"]]
                ELSE [pc |-> "refused", invocation |-> None]]
  /\ UNCHANGED <<files, receipt, workspace, adapter>>

(* The attempt is read after the invocation; its state decides what is left to *)
(* do.                                                                         *)
RecoverAttempt ==
  /\ At("recover", "read")
  /\ Goto("recover",
          CASE files["attempt"] = "READY" -> "verify"
            [] files["attempt"] = "RUNNING" -> "custody"
            [] OTHER -> "refused")
  /\ UNCHANGED <<files, receipt, workspace, adapter, recoveries, resumes, overlapped>>

StoppedState ==
  IF cli["recover"].invocation = "PREPARED" THEN "REJECTED" ELSE "ABORTED"

(* Before dispatch: the workspace is verified, the invocation is stopped, and  *)
(* only then the workspace is discarded.                                       *)
RecoverVerify ==
  /\ At("recover", "verify")
  /\ Goto("recover", IF /\ workspace = "clean" /\ receipt = "PREPARED"
                        /\ cli["recover"].invocation \in {"PREPARED", "AUTHORIZED"}
                     THEN "stop" ELSE "refused")
  /\ UNCHANGED <<files, receipt, workspace, adapter, recoveries, resumes, overlapped>>

StopCheck == Checks("recover", "stop", "invocation", cli["recover"].invocation, "stopping")
StopWrite == Writes("recover", "stopping", "invocation", StoppedState, "discard")

DiscardCheck ==
  /\ At("recover", "discard")
  /\ Goto("recover", IF /\ files["attempt"] = "READY"
                        /\ workspace = "clean" /\ receipt = "PREPARED"
                     THEN "remove" ELSE "refused")
  /\ UNCHANGED <<files, receipt, workspace, adapter, recoveries, resumes, overlapped>>

RemoveWorkspace ==
  /\ At("recover", "remove")
  /\ workspace' = "absent" /\ receipt' = "QUARANTINED"
  /\ Goto("recover", "unready")
  /\ UNCHANGED <<files, adapter, recoveries, resumes, overlapped>>

UnreadyCheck == Checks("recover", "unready", "attempt", "READY", "unreadying")
UnreadyWrite == Writes("recover", "unreadying", "attempt", "ABORTED", "unlink")

Unlink ==
  /\ At("recover", "unlink")
  /\ receipt' = None
  /\ Goto("recover", "evidence")
  /\ UNCHANGED <<files, workspace, adapter, recoveries, resumes, overlapped>>

(* After dispatch: the proof of absence is read, or derived when the recorded  *)
(* controller is gone and had seen the job of a sent request empty; a custody  *)
(* in any other state, INCOMPLETE ones included, is refused.                   *)
RecoverCustody ==
  /\ At("recover", "custody")
  /\ Goto("recover",
          CASE files["custody"] = "ABSENCE_VERIFIED" -> "inspect"
            [] files["custody"] = "TERMINATED" /\ ~Alive("run") -> "prove"
            [] OTHER -> "refused")
  /\ UNCHANGED <<files, receipt, workspace, adapter, recoveries, resumes, overlapped>>

DeriveCheck == Checks("recover", "prove", "custody", "TERMINATED", "proving")
DeriveWrite == Writes("recover", "proving", "custody", "ABSENCE_VERIFIED", "inspect")

(* Mutant: an invocation an earlier recovery left UNCERTAIN is refused. *)
InspectDispatching ==
  /\ At("recover", "inspect")
  /\ Goto("recover", IF workspace = "clean" /\ cli["recover"].invocation = "DISPATCHING"
                     THEN "uncertain" ELSE "refused")
  /\ UNCHANGED <<files, receipt, workspace, adapter, recoveries, resumes, overlapped>>

Inspect ==
  /\ At("recover", "inspect")
  /\ Goto("recover",
          CASE workspace # "clean" -> "refused"
            [] cli["recover"].invocation = "DISPATCHING" -> "uncertain"
            [] cli["recover"].invocation = "UNCERTAIN" -> "abort"
            [] OTHER -> "refused")
  /\ UNCHANGED <<files, receipt, workspace, adapter, recoveries, resumes, overlapped>>

UncertainCheck == Checks("recover", "uncertain", "invocation", "DISPATCHING", "doubting")
UncertainWrite == Writes("recover", "doubting", "invocation", "UNCERTAIN", "abort")
AbortCheck == Checks("recover", "abort", "invocation", "UNCERTAIN", "aborting")
AbortWrite == Writes("recover", "aborting", "invocation", "ABORTED", "end")
EndCheck == Checks("recover", "end", "attempt", "RUNNING", "ending")
EndWrite == Writes("recover", "ending", "attempt", "ABORTED", "evidence")

WriteRecovery == Writes("recover", "evidence", "recovery", StoppedState, "done")

Recover ==
  \/ RecoverBegin \/ RecoverAttempt \/ RecoverVerify \/ StopCheck \/ StopWrite
  \/ DiscardCheck \/ RemoveWorkspace \/ UnreadyCheck \/ UnreadyWrite \/ Unlink
  \/ RecoverCustody \/ DeriveCheck \/ DeriveWrite \/ Inspect
  \/ UncertainCheck \/ UncertainWrite \/ AbortCheck \/ AbortWrite
  \/ EndCheck \/ EndWrite \/ WriteRecovery

RecoverStops ==
  /\ Alive("recover")
  /\ Goto("recover", "stopped")
  /\ UNCHANGED <<files, receipt, workspace, adapter, recoveries, resumes, overlapped>>

LabNext == Run \/ RunStops \/ AdapterWrites \/ AdapterEnds \/ Recover \/ RecoverStops

-----------------------------------------------------------------------------
LabTypeOK ==
  /\ DOMAIN files = Records
  /\ \A r \in Records : files[r] \in Contents[r] \cup {None}
  /\ receipt \in {None, "PREPARED", "QUARANTINED"}
  /\ workspace \in {"absent", "clean", "changed"}
  /\ adapter \in {"none", "outside", "gone"} \cup InJob
  /\ recoveries \in 0..MaxRecoveries
  /\ resumes \in BOOLEAN /\ overlapped \in BOOLEAN
  /\ workspace = "absent" => receipt # "PREPARED"

(* Once a recovery has recorded its outcome no adapter of the run is contained  *)
(* in its job or has its request, although the recovery may have been started   *)
(* while the run was still on its way to a launch, and the record of absence it *)
(* trusts may be one of an empty job.  (A process that a fault left outside the *)
(* job may be there; it was sent nothing.)  And a recovery of a run that had    *)
(* stopped is recorded only behind the transitions it claims, wherever an       *)
(* earlier one was cut short.                                                   *)
RecoveredMeansStopped ==
  files["recovery"] # None =>
    /\ adapter \notin InJob
    /\ overlapped \/ (/\ files["attempt"] = "ABORTED"
                      /\ files["invocation"] = files["recovery"])

(* A lab the recovery accepts is not refused: also not when an earlier         *)
(* recovery stopped half way through the invocation's two transitions.         *)
RecoveryResumes ==
  ~(resumes /\ At("recover", "refused"))
=============================================================================

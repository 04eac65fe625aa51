----------------------------- MODULE Workspace -----------------------------
(***************************************************************************)
(* The disposable workspace of one attempt: prepare-workspace,             *)
(* discard-workspace, the transition-attempt command that may compete with *)
(* them, and the binding by which dispatch-invocation takes the workspace  *)
(* into use (workspace.py, application_service.py).                        *)
(*                                                                         *)
(* As in Dispatch every command is a process of its own, nothing locks the *)
(* files, and one action is one access to what commands share: the attempt *)
(* record, the receipt, and two names in the workspace root.  The clone is *)
(* made and verified in a private mkdtemp directory; it appears here when  *)
(* it is published.                                                        *)
(*                                                                         *)
(* A read, a write, git or a removal may fail (Raises).  prepare-workspace *)
(* answers a failure with re-reads and compensation, so its failures are   *)
(* part of its actions.  In every other command a failure ends the command *)
(* where it is, as a crash does, and Crash stands for both.                *)
(***************************************************************************)
EXTENDS LabRecords, Naturals

CONSTANTS
  Clients,      \* slots in which a command (an OS process) may run
  Stamps,       \* times the clock may show a command, to the second
  Outcomes,     \* cleanup outcomes an operator may type
  Targets,      \* states an operator may name in transition-attempt
  May,          \* the commands the environment issues in each slot
  MaxCrashes,   \* bound: how many commands stop half way
  MaxFaults     \* bound: how many reads, writes, removals or git calls fail

Commands == {"prepare", "discard", "transition", "dispatch"}
Bound    == "bound"       \* the runtime identity of the dispatched invocation
Operator == "operator"    \* a cleanup outcome given to transition-attempt

ASSUME WorkspaceAssumption ==
  /\ May \in [Clients -> SUBSET Commands]
  /\ Targets \subseteq {"READY", "ABORTED"}
  /\ MaxCrashes \in Nat /\ MaxFaults \in Nat
  /\ None \notin Stamps /\ None \notin Outcomes /\ Operator \notin Outcomes
  /\ None # Bound /\ None # Operator

VARIABLES
  attempt,      \* the AttemptRecord; stamp is updated_at
  receipt,      \* state/workspaces/<attempt>.json; stamp is created_at
  final,        \* the directory <root>/<attempt>
  quarantine,   \* the directory <root>/.worker-lab-quarantine-<attempt>
  cli,          \* client -> the command it runs and what that holds in memory
  crashes, faults

dirs   == <<final, quarantine>>
counts == <<crashes, faults>>
vars   == <<attempt, receipt, final, quarantine, cli, crashes, faults>>

\* A directory is the whole checkout, or does not verify (a removal half done,
\* a worker's changes), or is not there.
Directories == {"absent", "whole", "damaged"}

NoReceipt == [state |-> "MISSING", stamp |-> None]

PreparePC == {"p_paths", "p_unclaimed", "p_publish", "p_verify", "p_receipt", "p_stored",
              "p_confirm", "p_ready", "p_commit", "p_reread", "p_again", "c_final",
              "c_receipt"}
DiscardPC == {"x_gone", "x_stale", "x_receipt", "x_verify", "x_rename", "x_mark", "x_write",
              "x_confirm", "x_final", "x_remove", "x_abort", "x_commit", "x_unlink"}
Labels == {"idle", "o_guard", "o_save", "o_commit", "d_bind", "d_commit"}
            \cup PreparePC \cup DiscardPC

IdleClient == [pc |-> "idle", att |-> None, rec |-> NoReceipt, wrote |-> FALSE]

At(c, l)   == cli[c].pc = l
Return(c)  == cli' = [cli EXCEPT ![c] = IdleClient]
Goto(c, l) == IF l = "idle" THEN Return(c) ELSE cli' = [cli EXCEPT ![c].pc = l]

Issue(c, command) == At(c, "idle") /\ command \in May[c]

Works  == UNCHANGED faults
Raises == faults < MaxFaults /\ faults' = faults + 1

\* What shutil.rmtree leaves of a directory, one step on.
RemovalStep(d) == IF d = "whole" THEN "damaged" ELSE "absent"

Clean(state) ==
  /\ attempt.state = state
  /\ attempt.runtime = None /\ attempt.candidate = None /\ attempt.cleanup = None

-----------------------------------------------------------------------------
(* AttemptStore.save_transition of the record in memory: check, then write *)

CheckAttempt(c, l, refused) ==
  /\ \/ Works /\ Goto(c, IF LegalAttemptMove(attempt, cli[c].att) THEN l ELSE refused)
     \/ Raises /\ Goto(c, refused)
  /\ UNCHANGED <<attempt, receipt, dirs, crashes>>

\* A write that raises may have replaced the file before it did.
CommitAttempt(c, l, raised) ==
  /\ \/ Works /\ attempt' = cli[c].att /\ Goto(c, l)
     \/ Raises /\ attempt' \in {attempt, cli[c].att} /\ Goto(c, raised)
  /\ UNCHANGED <<receipt, dirs, crashes>>

-----------------------------------------------------------------------------
(* prepare-workspace *)

PrepareRead(c, s) ==
  /\ Issue(c, "prepare") /\ Clean("DRAFT")
  /\ cli' = [cli EXCEPT ![c] =
               [pc |-> "p_paths", att |-> [attempt EXCEPT !.state = "READY", !.stamp = s],
                rec |-> [state |-> "PREPARED", stamp |-> s], wrote |-> FALSE]]
  /\ UNCHANGED <<attempt, receipt, dirs, counts>>

PreparePaths(c) ==
  /\ At(c, "p_paths")
  /\ Goto(c, IF final = "absent" /\ quarantine = "absent" THEN "p_unclaimed" ELSE "idle")
  /\ UNCHANGED <<attempt, receipt, dirs, counts>>

PrepareUnclaimed(c) ==
  /\ At(c, "p_unclaimed")
  /\ Goto(c, IF receipt.state = "MISSING" THEN "p_publish" ELSE "idle")
  /\ UNCHANGED <<attempt, receipt, dirs, counts>>

\* The verified clone is renamed to its final name, unless that name is taken;
\* a failure up to here removes the private staging directory only.
Publish(c) ==
  /\ At(c, "p_publish")
  /\ \/ Works /\ final = "absent" /\ final' = "whole" /\ Goto(c, "p_verify")
     \/ Works /\ final # "absent" /\ Return(c) /\ UNCHANGED final
     \/ Raises /\ Return(c) /\ UNCHANGED final
  /\ UNCHANGED <<attempt, receipt, quarantine, crashes>>

VerifyPublished(c) ==
  /\ At(c, "p_verify")
  /\ \/ Works /\ Goto(c, IF final = "whole" THEN "p_receipt" ELSE "c_final")
     \/ Raises /\ Goto(c, "c_final")
  /\ UNCHANGED <<attempt, receipt, dirs, crashes>>

ReceiptWritten(c) == cli' = [cli EXCEPT ![c].pc = "p_confirm", ![c].wrote = TRUE]

WriteReceipt(c) ==
  /\ At(c, "p_receipt")
  /\ \/ Works /\ receipt' = cli[c].rec /\ ReceiptWritten(c)
     \/ Raises /\ receipt' \in {receipt, cli[c].rec} /\ Goto(c, "p_stored")
  /\ UNCHANGED <<attempt, dirs, crashes>>

\* After a write that raised, the receipt counts as written if it is there.
ReceiptStored(c) ==
  /\ At(c, "p_stored")
  /\ \/ Works /\ receipt = cli[c].rec /\ ReceiptWritten(c)
     \/ Works /\ receipt # cli[c].rec /\ Goto(c, "c_final")
     \/ Raises /\ Goto(c, "c_final")
  /\ UNCHANGED <<attempt, receipt, dirs, crashes>>

ConfirmReceipt(c) ==
  /\ At(c, "p_confirm")
  /\ \/ Works /\ Goto(c, IF receipt = cli[c].rec THEN "p_ready" ELSE "c_final")
     \/ Raises /\ Goto(c, "c_final")
  /\ UNCHANGED <<attempt, receipt, dirs, crashes>>

ReadyCheck(c)  == At(c, "p_ready") /\ CheckAttempt(c, "p_commit", "p_reread")
ReadyCommit(c) == At(c, "p_commit") /\ CommitAttempt(c, "idle", "p_reread")

\* Mutant: a READY transition that raised is compensated without a second look.
CompensateAtOnce(c) ==
  /\ At(c, "p_reread")
  /\ Works /\ Goto(c, "c_final")
  /\ UNCHANGED <<attempt, receipt, dirs, crashes>>

\* The transition raised: is the attempt READY all the same?  It is read up to
\* twice before the preparation is taken back.
ReadyReread(c) ==
  /\ cli[c].pc \in {"p_reread", "p_again"}
  /\ LET next == IF At(c, "p_reread") THEN "p_again" ELSE "c_final"
     IN \/ Works /\ Goto(c, IF attempt = cli[c].att THEN "idle" ELSE next)
        \/ Raises /\ Goto(c, next)
  /\ UNCHANGED <<attempt, receipt, dirs, crashes>>

\* _compensate_preparation: the published directory, then the receipt if this
\* command wrote one; a failure leaves the rest.
CompensateFinal(c) ==
  /\ At(c, "c_final")
  /\ \/ /\ Works /\ final' = RemovalStep(final)
        /\ Goto(c, IF final = "whole" THEN "c_final" ELSE "c_receipt")
     \/ Raises /\ Return(c) /\ UNCHANGED final
  /\ UNCHANGED <<attempt, receipt, quarantine, crashes>>

\* Mutant: compensation forgets the receipt.
CompensateDirectoryOnly(c) ==
  At(c, "c_receipt") /\ Return(c) /\ UNCHANGED <<attempt, receipt, dirs, counts>>

CompensateReceipt(c) ==
  /\ At(c, "c_receipt")
  /\ \/ Works /\ receipt' = IF cli[c].wrote THEN NoReceipt ELSE receipt
     \/ Raises /\ UNCHANGED receipt
  /\ Return(c)
  /\ UNCHANGED <<attempt, dirs, crashes>>

-----------------------------------------------------------------------------
(* discard-workspace *)

\* A clean READY attempt is to be disposed of; an attempt this command aborted
\* before, with the same outcome, may have left its receipt behind.
DiscardRead(c, o, s) ==
  /\ Issue(c, "discard")
  /\ LET aborted == [attempt EXCEPT !.state = "ABORTED", !.cleanup = o, !.stamp = s]
     IN \/ /\ Clean("READY")
           /\ cli' = [cli EXCEPT ![c] = [IdleClient EXCEPT !.pc = "x_receipt", !.att = aborted]]
        \/ /\ attempt.state = "ABORTED" /\ attempt.cleanup = o
           /\ attempt.runtime = None /\ attempt.candidate = None
           /\ Goto(c, "x_gone")
  /\ UNCHANGED <<attempt, receipt, dirs, counts>>

DiscardGone(c) ==
  /\ At(c, "x_gone")
  /\ Goto(c, IF final = "absent" /\ quarantine = "absent" THEN "x_stale" ELSE "idle")
  /\ UNCHANGED <<attempt, receipt, dirs, counts>>

DiscardStale(c) ==
  /\ At(c, "x_stale")
  /\ Goto(c, IF receipt.state = "QUARANTINED" THEN "x_unlink" ELSE "idle")
  /\ UNCHANGED <<attempt, receipt, dirs, counts>>

\* Mutant: a disposal that stopped after QUARANTINED is not taken up again.
DiscardPreparedOnly(c) ==
  /\ At(c, "x_receipt")
  /\ IF receipt.state = "PREPARED"
     THEN cli' = [cli EXCEPT ![c].pc = "x_verify", ![c].rec = receipt]
     ELSE Return(c)
  /\ UNCHANGED <<attempt, receipt, dirs, counts>>

DiscardReceipt(c) ==
  /\ At(c, "x_receipt")
  /\ IF receipt.state = "MISSING" THEN Return(c)
     ELSE cli' = [cli EXCEPT ![c].rec = receipt,
                    ![c].pc = IF receipt.state = "PREPARED" THEN "x_verify" ELSE "x_final"]
  /\ UNCHANGED <<attempt, receipt, dirs, counts>>

\* PREPARED: exactly one of the two names exists and verifies; under the
\* quarantine name it is what an interrupted disposal left.
DiscardVerify(c) ==
  /\ At(c, "x_verify")
  /\ Goto(c, IF final = "whole" /\ quarantine = "absent" THEN "x_rename"
             ELSE IF final = "absent" /\ quarantine = "whole" THEN "x_mark"
             ELSE "idle")
  /\ UNCHANGED <<attempt, receipt, dirs, counts>>

DiscardRename(c) ==
  /\ At(c, "x_rename")
  /\ IF final # "absent" /\ quarantine = "absent"
     THEN final' = "absent" /\ quarantine' = final /\ Goto(c, "x_mark")
     ELSE Return(c) /\ UNCHANGED dirs
  /\ UNCHANGED <<attempt, receipt, counts>>

\* Mutant: the quarantined directory is removed under a PREPARED receipt.
RemoveUnmarked(c) ==
  /\ At(c, "x_mark")
  /\ Goto(c, IF quarantine # "absent" THEN "x_remove" ELSE "idle")
  /\ UNCHANGED <<attempt, receipt, dirs, counts>>

\* The QUARANTINED receipt is built from the directory as it stands there, ...
DiscardMark(c) ==
  /\ At(c, "x_mark")
  /\ IF quarantine # "absent"
     THEN cli' = [cli EXCEPT ![c].rec.state = "QUARANTINED", ![c].pc = "x_write"]
     ELSE Return(c)
  /\ UNCHANGED <<attempt, receipt, dirs, counts>>

\* ... written, and read back.
DiscardWrite(c) ==
  /\ At(c, "x_write")
  /\ receipt' = cli[c].rec
  /\ Goto(c, "x_confirm")
  /\ UNCHANGED <<attempt, dirs, counts>>

DiscardConfirm(c) ==
  /\ At(c, "x_confirm")
  /\ Goto(c, IF receipt = cli[c].rec THEN "x_remove" ELSE "idle")
  /\ UNCHANGED <<attempt, receipt, dirs, counts>>

DiscardFinal(c) ==
  /\ At(c, "x_final")
  /\ Goto(c, IF final = "absent" THEN "x_remove" ELSE "idle")
  /\ UNCHANGED <<attempt, receipt, dirs, counts>>

\* Mutant: what a removal leaves behind is not looked for.
RemoveUnchecked(c) ==
  /\ At(c, "x_remove")
  /\ quarantine' = RemovalStep(quarantine)
  /\ \E l \in {"x_remove", "x_abort"} : Goto(c, l)
  /\ UNCHANGED <<attempt, receipt, final, counts>>

DiscardRemove(c) ==
  /\ At(c, "x_remove")
  /\ quarantine' = RemovalStep(quarantine)
  /\ Goto(c, IF quarantine = "absent" THEN "x_abort" ELSE "x_remove")
  /\ UNCHANGED <<attempt, receipt, final, counts>>

AbortCheck(c)  == At(c, "x_abort") /\ CheckAttempt(c, "x_commit", "idle")
AbortCommit(c) == At(c, "x_commit") /\ CommitAttempt(c, "x_unlink", "idle")

DiscardUnlink(c) ==
  /\ At(c, "x_unlink")
  /\ receipt' = NoReceipt
  /\ Return(c)
  /\ UNCHANGED <<attempt, dirs, counts>>

-----------------------------------------------------------------------------
(* The other commands that move the attempt *)

\* transition-attempt: only for a READY copy is the receipt looked for; the
\* move is made on the copy, and checked against the record as it is then.
OperatorRead(c, t, s) ==
  LET new == [attempt EXCEPT !.state = t, !.stamp = s,
                !.cleanup = IF t = "ABORTED" THEN Operator ELSE @]
  IN /\ Issue(c, "transition")
     /\ LegalAttemptMove(attempt, new)
     /\ cli' = [cli EXCEPT ![c] = [IdleClient EXCEPT !.att = new,
                  !.pc = IF Clean("READY") THEN "o_guard" ELSE "o_save"]]
     /\ UNCHANGED <<attempt, receipt, dirs, counts>>

OperatorGuard(c) ==
  /\ At(c, "o_guard")
  /\ Goto(c, IF receipt.state = "MISSING" THEN "o_save" ELSE "idle")
  /\ UNCHANGED <<attempt, receipt, dirs, counts>>

OperatorCheck(c)  == At(c, "o_save") /\ CheckAttempt(c, "o_commit", "idle")
OperatorCommit(c) == At(c, "o_commit") /\ CommitAttempt(c, "idle", "idle")

\* Mutant: dispatch takes a READY attempt's workspace on trust.
DispatchUnverified(c) ==
  /\ Issue(c, "dispatch") /\ Clean("READY")
  /\ Goto(c, "d_bind")
  /\ UNCHANGED <<attempt, receipt, dirs, counts>>

\* dispatch-invocation: verify_workspace succeeds ...
DispatchVerify(c) ==
  /\ Issue(c, "dispatch") /\ Clean("READY")
  /\ receipt.state = "PREPARED" /\ final = "whole"
  /\ Goto(c, "d_bind")
  /\ UNCHANGED <<attempt, receipt, dirs, counts>>

\* ... and the attempt, read again, becomes RUNNING.  What follows is Dispatch.
BindCheck(c, s) ==
  /\ At(c, "d_bind")
  /\ IF Clean("READY")
     THEN cli' = [cli EXCEPT ![c].pc = "d_commit",
                    ![c].att = [attempt EXCEPT !.state = "RUNNING", !.runtime = Bound,
                                               !.stamp = s]]
     ELSE Return(c)
  /\ UNCHANGED <<attempt, receipt, dirs, counts>>

BindCommit(c) == At(c, "d_commit") /\ CommitAttempt(c, "idle", "idle")

\* The adapter of a RUNNING attempt works in the directory.
WorkerWrites ==
  /\ attempt.state = "RUNNING" /\ final = "whole"
  /\ final' = "damaged"
  /\ UNCHANGED <<attempt, receipt, quarantine, cli, counts>>

\* A command is killed, interrupted or fails, between any two steps.
Crash(c) ==
  /\ ~At(c, "idle")
  /\ crashes < MaxCrashes
  /\ crashes' = crashes + 1
  /\ Return(c)
  /\ UNCHANGED <<attempt, receipt, dirs, faults>>

-----------------------------------------------------------------------------
Init ==
  /\ \E s \in Stamps :
       attempt = [state |-> "DRAFT", runtime |-> None, candidate |-> None,
                  cleanup |-> None, stamp |-> s]
  /\ receipt = NoReceipt
  /\ final = "absent" /\ quarantine = "absent"
  /\ cli = [c \in Clients |-> IdleClient]
  /\ crashes = 0 /\ faults = 0

Read(c) ==
  \/ \E s \in Stamps :
       \/ PrepareRead(c, s)
       \/ \E o \in Outcomes : DiscardRead(c, o, s)
       \/ \E t \in Targets : OperatorRead(c, t, s)
  \/ DispatchVerify(c)

PrepareStep(c) ==
  \/ PreparePaths(c) \/ PrepareUnclaimed(c) \/ Publish(c) \/ VerifyPublished(c)
  \/ WriteReceipt(c) \/ ReceiptStored(c) \/ ConfirmReceipt(c)
  \/ ReadyCheck(c) \/ ReadyCommit(c) \/ ReadyReread(c)
  \/ CompensateFinal(c) \/ CompensateReceipt(c)

DiscardStep(c) ==
  \/ DiscardGone(c) \/ DiscardStale(c) \/ DiscardReceipt(c) \/ DiscardVerify(c)
  \/ DiscardRename(c) \/ DiscardMark(c) \/ DiscardWrite(c) \/ DiscardConfirm(c)
  \/ DiscardFinal(c) \/ DiscardRemove(c) \/ AbortCheck(c) \/ AbortCommit(c)
  \/ DiscardUnlink(c)

OtherStep(c) ==
  \/ OperatorGuard(c) \/ OperatorCheck(c) \/ OperatorCommit(c)
  \/ \E s \in Stamps : BindCheck(c, s)
  \/ BindCommit(c)

Step(c) == PrepareStep(c) \/ DiscardStep(c) \/ OtherStep(c)

Next ==
  \/ \E c \in Clients : Read(c) \/ Step(c) \/ Crash(c)
  \/ WorkerWrites

Spec == Init /\ [][Next]_vars

\* A started command is scheduled until it ends, and the operator repeats
\* discard-workspace with the same outcome for as long as it is accepted, whatever
\* else is typed in between.
Fairness ==
  /\ \A c \in Clients : WF_vars(Step(c))
  /\ \A o \in Outcomes : SF_vars(\E c \in Clients, s \in Stamps : DiscardRead(c, o, s))

FairSpec == Spec /\ Fairness

-----------------------------------------------------------------------------
(* Properties *)

AttemptRecords ==
  [state : AttemptStates, runtime : {None, Bound}, candidate : {None},
   cleanup : Outcomes \cup {None, Operator}, stamp : Stamps]

Receipts == {NoReceipt} \cup [state : {"PREPARED", "QUARANTINED"}, stamp : Stamps]

\* The type invariant.
TypeOK ==
  /\ attempt \in AttemptRecords
  /\ receipt \in Receipts
  /\ final \in Directories /\ quarantine \in Directories
  /\ cli \in [Clients -> [pc : Labels, att : AttemptRecords \cup {None},
                          rec : Receipts, wrote : BOOLEAN]]
  /\ crashes \in 0 .. MaxCrashes /\ faults \in 0 .. MaxFaults

\* A READY attempt can always be disposed of: its checkout is where the receipt
\* says, or where an interrupted disposal left it, and never half removed under a
\* PREPARED receipt.
ReadyDisposable ==
  attempt.state = "READY" =>
    \/ /\ receipt.state = "PREPARED"
       /\ {final, quarantine} = {"absent", "whole"}
    \/ receipt.state = "QUARANTINED" /\ final = "absent"

\* A dispatched attempt keeps its receipt and its directory, which recovery and
\* review both ask for.
RunningHasWorkspace ==
  attempt.state = "RUNNING" =>
    receipt.state = "PREPARED" /\ final # "absent" /\ quarantine = "absent"

\* Deletion takes only a directory that was renamed and recorded QUARANTINED
\* first; the directory of a READY attempt leaves its name only by that renaming.
RemovesOnlyQuarantined ==
  [][/\ quarantine # "absent" /\ quarantine' # quarantine => receipt.state = "QUARANTINED"
     /\ attempt.state = "READY" /\ final' # final => quarantine' = final]_vars

\* The clock is read to the second, and a command tells its own write by its stamp:
\* two preparations of one second are one command to that test.
SecondsDiffer ==
  \A c, d \in Clients :
    c # d /\ cli[c].pc \in PreparePC /\ cli[d].pc \in PreparePC =>
      cli[c].att.stamp # cli[d].att.stamp

Quiet == crashes = 0 /\ \A c \in Clients : At(c, "idle")

\* However many preparations compete and whichever one call fails, an attempt that
\* is left in DRAFT has no directory and no receipt (P2-C06).
FailedPreparationLeavesNothing ==
  Quiet /\ faults <= 1 /\ attempt.state = "DRAFT" =>
    final = "absent" /\ quarantine = "absent" /\ receipt = NoReceipt

\* While no call fails and one disposal runs at a time, an attempt aborted by
\* disposal has no directory left, even when a preparation that read it in DRAFT
\* finishes late.  (Two disposals and a late preparation may leave one: the second
\* disposal renames what the preparation published, and finds its receipt gone.)
DisposalLeavesNothing ==
  Quiet /\ faults = 0 /\ attempt.cleanup \in Outcomes =>
    final = "absent" /\ quarantine = "absent"

\* Disposal is safe to retry: once READY, repeated discard-workspace ends with the
\* attempt aborted and nothing left, wherever earlier ones stopped, unless the
\* attempt is dispatched first.
DisposalCompletes ==
  attempt.state = "READY" ~>
    \/ /\ attempt.state = "ABORTED" /\ receipt = NoReceipt
       /\ final = "absent" /\ quarantine = "absent"
    \/ attempt.state = "RUNNING"

-----------------------------------------------------------------------------
(* What the documentation says *)

\* The workspace of a RUNNING attempt is not quarantined or deleted
\* (PHASE3_SPEC.md, interruption recovery).
RunningNotQuarantined ==
  [][attempt.state = "RUNNING" /\ final # "absent" => final' # "absent"]_vars

\* Receipt-bound attempts are aborted by discard-workspace only (the message of
\* transition_attempt's guard).
ReceiptBoundUsesDiscard ==
  attempt.state = "ABORTED" /\ attempt.cleanup = Operator /\ attempt.runtime = None =>
    receipt = NoReceipt
=============================================================================

--------------------------- MODULE Workspace_proofs ---------------------------
(* What holds of an attempt's workspace for any clients, clocks and outcomes.   *)
(* A preparation that fails leaves nothing, however many compete; disposal      *)
(* leaves nothing while one runs at a time; and one terminal alone keeps a      *)
(* READY attempt disposable and a RUNNING one in its directory.                 *)
EXTENDS Workspace, TLAPS

-----------------------------------------------------------------------------
(* What holds whatever runs beside what. *)

(* The record a preparation is about to write. *)
Prepared(c) ==
  /\ cli[c].att \in AttemptRecords
  /\ cli[c].att.state = "READY" /\ cli[c].att.runtime = None
  /\ cli[c].att.candidate = None /\ cli[c].att.cleanup = None
  /\ cli[c].rec.state = "PREPARED" /\ cli[c].rec.stamp = cli[c].att.stamp

(* A disposal of a READY attempt, from its first read to its last write. *)
Disposing == DiscardPC \ {"x_gone", "x_stale", "x_unlink"}
Saving == {"o_guard", "o_save", "o_commit"}

(* What a command holds in memory, by where it is. *)
Held(c) ==
  /\ cli[c].pc \in PreparePC => Prepared(c)
  /\ cli[c].pc \in Disposing =>
       /\ cli[c].att \in AttemptRecords /\ cli[c].att.state = "ABORTED"
       /\ cli[c].att.runtime = None
  /\ cli[c].pc \in Disposing \ {"x_receipt"} => cli[c].rec.state # "MISSING"
  /\ cli[c].pc \in Saving =>
       /\ cli[c].att \in AttemptRecords /\ cli[c].att.state \in Targets
       /\ cli[c].att.state = "ABORTED" => cli[c].att.cleanup = Operator
       /\ cli[c].att.state = "READY" => cli[c].att.cleanup = None
  /\ cli[c].pc = "d_commit" =>
       /\ cli[c].att \in AttemptRecords /\ cli[c].att.state = "RUNNING"
       /\ cli[c].att.cleanup = None

HeldInv == \A c \in Clients : Held(c)

Early == PreparePC \cup {"idle", "o_save", "o_commit"}

(* Before an attempt is READY, only preparations and transitions work on it. *)
DraftInv ==
  attempt.state = "DRAFT" =>
    /\ attempt.runtime = None /\ attempt.candidate = None /\ attempt.cleanup = None
    /\ quarantine = "absent" /\ receipt.state # "QUARANTINED"
    /\ \A c \in Clients : cli[c].pc \in Early

(* The steps of a preparation between its publication and its removal. *)
Holding == {"p_verify", "p_receipt", "p_stored", "p_confirm", "p_ready", "p_commit",
            "p_reread", "p_again", "c_final"}
Failing == {"p_stored", "p_reread", "p_again", "c_final", "c_receipt"}

(* Of the preparations of a DRAFT attempt one holds the directory, and a        *)
(* receipt is of one that knows it wrote it.                                    *)
HolderFacts ==
  /\ \A c, d \in Clients : cli[c].pc \in Holding /\ cli[d].pc \in Holding => c = d
  /\ \A c \in Clients : cli[c].pc \in Holding =>
       final = "whole" \/ (cli[c].pc = "c_final" /\ final = "damaged")
  /\ final # "absent" => \E c \in Clients : cli[c].pc \in Holding
  /\ receipt # NoReceipt =>
       \E c \in Clients :
         \/ cli[c].pc \in Holding \cup {"c_receipt"} /\ cli[c].wrote
         \/ cli[c].pc = "p_stored" /\ receipt = cli[c].rec
  /\ \A c \in Clients : cli[c].pc \in Failing => faults = 1
  /\ \A c \in Clients : cli[c].pc = "p_confirm" => receipt = cli[c].rec \/ faults = 1

HolderInv == crashes = 0 /\ faults <= 1 /\ attempt.state = "DRAFT" => HolderFacts

CoreInv == TypeOK /\ HeldInv /\ DraftInv
AnyInv == CoreInv /\ HolderInv

-----------------------------------------------------------------------------
(* What holds while disposals run one at a time.                                 *)
OneDisposal ==
  \A c, d \in Clients : cli[c].pc \in DiscardPC /\ cli[d].pc \in DiscardPC => c = d

(* The steps of a disposal after the directory has left its name, and before.    *)
Removing == {"x_mark", "x_write", "x_confirm", "x_remove", "x_abort", "x_commit"}
Finding  == {"x_receipt", "x_verify", "x_rename"}

(* A directory that was removed comes back only in the hands of a preparation    *)
(* that is going to remove it.                                                   *)
Emptied ==
  attempt.cleanup \in Outcomes \/ (\E c \in Clients : cli[c].pc \in Removing) =>
    final = "absent" \/ \E c \in Clients : cli[c].pc \in Holding

(* While a preparation may still make the attempt READY, nobody disposes of it.  *)
Committing ==
  \A c \in Clients : cli[c].pc = "p_commit" =>
    /\ attempt.state # "READY" /\ attempt.cleanup \notin Outcomes
    /\ \A d \in Clients : cli[d].pc \notin Disposing /\ (cli[d].pc = "p_commit" => d = c)

(* No preparation takes another's READY for its own.                             *)
Stamped ==
  attempt.state = "READY" =>
    \A c \in Clients : cli[c].pc \in PreparePC => cli[c].att.stamp # attempt.stamp

(* What was aborted by a disposal has left both names.                           *)
Finished ==
  /\ attempt.cleanup \in Outcomes =>
       quarantine = "absent" /\ \A c \in Clients : cli[c].pc \notin Finding
  /\ \A c \in Clients : cli[c].pc \in {"x_abort", "x_commit"} => quarantine = "absent"

DisposalFacts == Emptied /\ Committing /\ Stamped /\ Finished
DisposalInv == crashes = 0 /\ faults = 0 => DisposalFacts

-----------------------------------------------------------------------------
(* What holds with one terminal. *)
OneTerminal ==
  /\ \A c, d \in Clients : c = d
  /\ "READY" \notin Targets
  /\ MaxFaults <= 2

(* Where a preparation or a disposal is, the files are what it has made them. *)
Where(c) ==
  LET pc  == cli[c].pc
      rec == cli[c].rec
  IN /\ pc \in PreparePC \ {"p_reread", "p_again"} => attempt.state = "DRAFT"
     /\ pc \in {"p_reread", "p_again"} =>
          /\ attempt.state = "DRAFT" \/ attempt = cli[c].att
          /\ faults >= 1
     /\ pc = "p_again" /\ attempt = cli[c].att => faults = 2
     /\ pc \in {"p_unclaimed", "p_publish"} => final = "absent"
     /\ pc \in {"p_publish", "p_verify", "p_receipt"} => receipt = NoReceipt
     /\ pc \in {"p_verify", "p_receipt", "p_stored", "p_confirm", "p_ready", "p_commit",
                "p_reread", "p_again"} => final = "whole" /\ quarantine = "absent"
     /\ pc \in {"p_ready", "p_commit", "p_reread", "p_again"} => receipt = rec
     /\ pc \in Disposing => attempt.state = "READY"
     /\ pc \in {"x_verify", "x_rename", "x_mark", "x_write"} => receipt.state = "PREPARED"
     /\ pc = "x_rename" => final = "whole" /\ quarantine = "absent"
     /\ pc \in {"x_mark", "x_write"} => final = "absent" /\ quarantine = "whole"
     /\ pc = "x_write" => rec.state = "QUARANTINED"
     /\ pc \in {"x_confirm", "x_final", "x_remove", "x_abort", "x_commit"} =>
          receipt.state = "QUARANTINED"
     /\ pc \in {"x_gone", "x_stale", "x_unlink"} => attempt.state = "ABORTED"
     /\ pc \in {"d_bind", "d_commit"} =>
          attempt.state = "READY" /\ receipt.state = "PREPARED" /\ final = "whole"

ReadyClean == attempt.state = "READY" => attempt.runtime = None /\ attempt.cleanup = None

Standing == ReadyClean /\ ReadyDisposable /\ RunningHasWorkspace
TerminalInv == Standing /\ \A c \in Clients : Where(c)

-----------------------------------------------------------------------------
(* A client that goes on: the others stay where they are, and it keeps what it   *)
(* holds, except that at p_confirm it has written its receipt.                   *)
ClientRecords ==
  [pc : Labels, att : AttemptRecords \cup {None}, rec : Receipts, wrote : BOOLEAN]

Goes(c, l) ==
  /\ cli' \in [Clients -> ClientRecords]
  /\ \A d \in Clients : d # c => cli'[d] = cli[d]
  /\ cli'[c].pc = l
  /\ l # "idle" => /\ cli'[c].att = cli[c].att /\ cli'[c].rec = cli[c].rec
                   /\ cli'[c].wrote = (cli[c].wrote \/ l = "p_confirm")

LEMMA IdleTyped == IdleClient \in ClientRecords /\ IdleClient.pc = "idle"
BY DEF IdleClient, ClientRecords, Labels, Receipts, NoReceipt

LEMMA ClientTyped ==
  ASSUME TypeOK, NEW c \in Clients
  PROVE  /\ cli \in [Clients -> ClientRecords] /\ cli[c] \in ClientRecords
         /\ cli[c].pc \in Labels /\ cli[c].att \in AttemptRecords \cup {None}
         /\ cli[c].rec \in Receipts /\ cli[c].wrote \in BOOLEAN
<1>1. cli \in [Clients -> ClientRecords]
  BY DEF TypeOK, ClientRecords
<1>2. cli[c] \in ClientRecords
  BY <1>1
<1> QED
  BY <1>1, <1>2 DEF ClientRecords

LEMMA ReturnGoes ==
  ASSUME TypeOK, NEW c \in Clients, Return(c)
  PROVE  Goes(c, "idle")
<1>1. cli \in [Clients -> ClientRecords]
  BY ClientTyped
<1> QED
  BY <1>1, IdleTyped DEF Return, Goes

LEMMA GotoGoes ==
  ASSUME TypeOK, NEW c \in Clients, NEW l \in Labels \ {"p_confirm"}, Goto(c, l)
  PROVE  Goes(c, l)
<1>1. CASE l = "idle"
  BY <1>1, ReturnGoes DEF Goto
<1>2. CASE l # "idle"
  <2>1. cli' = [cli EXCEPT ![c].pc = l]
    BY <1>2 DEF Goto
  <2>2. cli \in [Clients -> ClientRecords] /\ cli[c] \in ClientRecords
    BY ClientTyped
  <2>3. [cli[c] EXCEPT !.pc = l] \in ClientRecords
    BY <2>2 DEF ClientRecords
  <2>4. cli' = [cli EXCEPT ![c] = [cli[c] EXCEPT !.pc = l]]
    BY <2>1
  <2>5. cli' \in [Clients -> ClientRecords] /\ \A d \in Clients : d # c => cli'[d] = cli[d]
    BY <2>2, <2>3, <2>4
  <2>6. cli'[c] = [cli[c] EXCEPT !.pc = l]
    BY <2>2, <2>4
  <2>7. /\ cli'[c].pc = l /\ cli'[c].att = cli[c].att /\ cli'[c].rec = cli[c].rec
        /\ cli'[c].wrote = cli[c].wrote /\ cli[c].wrote \in BOOLEAN
    BY <2>2, <2>6 DEF ClientRecords
  <2>8. cli'[c].wrote = (cli[c].wrote \/ l = "p_confirm")
    BY <2>7
  <2> QED
    BY <2>5, <2>7, <2>8 DEF Goes
<1> QED
  BY <1>1, <1>2

LEMMA WrittenGoes ==
  ASSUME TypeOK, NEW c \in Clients, ReceiptWritten(c)
  PROVE  Goes(c, "p_confirm")
<1> DEFINE new == [[cli[c] EXCEPT !.pc = "p_confirm"] EXCEPT !.wrote = TRUE]
<1>1. cli \in [Clients -> ClientRecords] /\ cli[c] \in ClientRecords
  BY ClientTyped
<1>2. new \in ClientRecords /\ new.pc = "p_confirm" /\ new.att = cli[c].att
      /\ new.rec = cli[c].rec /\ new.wrote = TRUE
  BY <1>1 DEF ClientRecords, Labels, PreparePC
<1>3. cli' = [cli EXCEPT ![c] = new]
  BY <1>1 DEF ReceiptWritten
<1> HIDE DEF new
<1>4. cli' \in [Clients -> ClientRecords] /\ cli'[c] = new
      /\ \A d \in Clients : d # c => cli'[d] = cli[d]
  BY <1>1, <1>2, <1>3
<1>5. cli'[c].wrote = (cli[c].wrote \/ "p_confirm" = "p_confirm")
  BY <1>2, <1>4
<1> QED
  BY <1>2, <1>4, <1>5 DEF Goes

LEMMA FilesTyped ==
  ASSUME TypeOK
  PROVE  /\ attempt \in AttemptRecords /\ receipt \in Receipts
         /\ final \in Directories /\ quarantine \in Directories
         /\ crashes \in 0..MaxCrashes /\ faults \in 0..MaxFaults
         /\ MaxCrashes \in Nat /\ MaxFaults \in Nat
         /\ attempt.state \in AttemptStates
BY WorkspaceAssumption DEF TypeOK, AttemptRecords

(* A typed step keeps the type. *)
LEMMA TypeStep ==
  ASSUME attempt' \in AttemptRecords, receipt' \in Receipts,
         final' \in Directories, quarantine' \in Directories,
         cli' \in [Clients -> ClientRecords],
         crashes' \in 0..MaxCrashes, faults' \in 0..MaxFaults
  PROVE  TypeOK'
BY DEF TypeOK, ClientRecords

LEMMA FaultTyped ==
  ASSUME TypeOK, Works \/ Raises
  PROVE  /\ faults' \in 0..MaxFaults
         /\ faults' = faults \/ (Raises /\ faults' = faults + 1)
BY FilesTyped DEF Works, Raises

LEMMA HeldStep ==
  ASSUME HeldInv, NEW c \in Clients, Held(c)',
         \A d \in Clients : d # c => cli'[d] = cli[d]
  PROVE  HeldInv'
<1> SUFFICES ASSUME NEW d \in Clients PROVE Held(d)'
  BY DEF HeldInv
<1>1. CASE d = c
  BY <1>1
<1>2. CASE d # c
  <2>1. cli'[d] = cli[d] /\ Held(d)
    BY <1>2 DEF HeldInv
  <2> QED
    BY <2>1 DEF Held, Prepared
<1> QED
  BY <1>1, <1>2

(* The attempt stands, and a client goes on within one command. *)
LEMMA CoreMove ==
  ASSUME CoreInv, NEW c \in Clients, NEW l \in Labels, Goes(c, l), attempt' = attempt,
         l \in PreparePC => cli[c].pc \in PreparePC,
         l \in DiscardPC => cli[c].pc \in DiscardPC,
         l \in Disposing => cli[c].pc \in Disposing \ {"x_receipt"},
         l \in Saving => cli[c].pc \in Saving,
         l # "d_commit",
         attempt.state = "DRAFT" =>
           l \in Early /\ quarantine' = quarantine /\ receipt'.state # "QUARANTINED",
         receipt' \in Receipts, final' \in Directories, quarantine' \in Directories,
         crashes' \in 0..MaxCrashes, faults' \in 0..MaxFaults
  PROVE  CoreInv'
<1>1. TypeOK'
  BY FilesTyped, TypeStep DEF Goes, CoreInv
<1>2. HeldInv'
  <2>1. Held(c)'
    <3>1. CASE l = "idle"
      BY <3>1 DEF Goes, Held, PreparePC, DiscardPC, Disposing, Saving
    <3>2. CASE l # "idle"
      <4>1. /\ cli'[c].pc = l /\ cli'[c].att = cli[c].att /\ cli'[c].rec = cli[c].rec
            /\ Held(c)
        BY <3>2 DEF Goes, CoreInv, HeldInv
      <4>2. l = "x_receipt" => l \in Disposing
        BY DEF Disposing, DiscardPC
      <4> QED
        BY <4>1, <4>2 DEF Held, Prepared
    <3> QED
      BY <3>1, <3>2
  <2> QED
    BY <2>1, HeldStep DEF Goes, CoreInv
<1>3. DraftInv'
  <2>1. ASSUME attempt.state = "DRAFT", NEW d \in Clients PROVE cli'[d].pc \in Early
    BY <2>1 DEF Goes, CoreInv, DraftInv
  <2> QED
    BY <2>1 DEF CoreInv, DraftInv
<1> QED
  BY <1>1, <1>2, <1>3 DEF CoreInv

(* A record is stored that was held: it is not a DRAFT. *)
LEMMA StoreStep ==
  ASSUME CoreInv, NEW c \in Clients, NEW l \in Labels, Goes(c, l),
         attempt' = cli[c].att, cli[c].pc \in {"p_commit", "x_commit", "o_commit", "d_commit"},
         l \in {"idle", "p_reread", "x_unlink"},
         l = "p_reread" => cli[c].pc = "p_commit", l = "x_unlink" => cli[c].pc = "x_commit",
         receipt' = receipt, final' = final, quarantine' = quarantine,
         crashes' = crashes, faults' \in 0..MaxFaults
  PROVE  CoreInv' /\ attempt'.state # "DRAFT"
<1>1. cli[c].att \in AttemptRecords /\ cli[c].att.state # "DRAFT"
  <2>1. Held(c)
    BY DEF CoreInv, HeldInv
  <2> QED
    BY <2>1, WorkspaceAssumption DEF Held, Prepared, PreparePC, DiscardPC, Disposing, Saving
<1>2. TypeOK'
  BY <1>1, FilesTyped, TypeStep DEF Goes, CoreInv
<1>3. HeldInv'
  <2>1. Held(c)'
    <3>1. CASE l = "idle"
      BY <3>1 DEF Goes, Held, PreparePC, DiscardPC, Disposing, Saving
    <3>2. CASE l # "idle"
      <4>1. /\ cli'[c].pc = l /\ cli'[c].att = cli[c].att /\ cli'[c].rec = cli[c].rec
            /\ Held(c)
        BY <3>2 DEF Goes, CoreInv, HeldInv
      <4> QED
        BY <3>2, <4>1 DEF Held, Prepared, PreparePC, DiscardPC, Disposing, Saving
    <3> QED
      BY <3>1, <3>2
  <2> QED
    BY <2>1, HeldStep DEF Goes, CoreInv
<1> QED
  BY <1>1, <1>2, <1>3 DEF CoreInv, DraftInv

-----------------------------------------------------------------------------
(* What each step does, with Goto and Return spelled out. *)
Files == attempt' = attempt /\ receipt' = receipt /\ final' = final
           /\ quarantine' = quarantine
Still == Files /\ crashes' = crashes /\ faults' = faults
Failed == crashes' = crashes /\ faults' = faults + 1 /\ faults < MaxFaults
Worked == crashes' = crashes /\ faults' = faults

LEMMA LabelsListed ==
  /\ PreparePC \subseteq Labels /\ DiscardPC \subseteq Labels
  /\ {"idle", "o_guard", "o_save", "o_commit", "d_bind", "d_commit"} \subseteq Labels
BY DEF Labels

LEMMA PreparePathsForm ==
  ASSUME TypeOK, NEW c \in Clients, PreparePaths(c)
  PROVE  /\ At(c, "p_paths") /\ Still
         /\ \/ Goes(c, "p_unclaimed") /\ final = "absent" /\ quarantine = "absent"
            \/ Goes(c, "idle")
BY GotoGoes, ReturnGoes, LabelsListed
   DEF PreparePaths, PreparePC, At, Still, Files, Works, Raises, dirs, counts

LEMMA PrepareUnclaimedForm ==
  ASSUME TypeOK, NEW c \in Clients, PrepareUnclaimed(c)
  PROVE  /\ At(c, "p_unclaimed") /\ Still
         /\ \/ Goes(c, "p_publish") /\ receipt.state = "MISSING"
            \/ Goes(c, "idle")
BY GotoGoes, ReturnGoes, LabelsListed
   DEF PrepareUnclaimed, PreparePC, At, Still, Files, Works, Raises, dirs, counts

LEMMA PublishForm ==
  ASSUME TypeOK, NEW c \in Clients, Publish(c)
  PROVE  /\ At(c, "p_publish")
         /\ attempt' = attempt /\ receipt' = receipt /\ quarantine' = quarantine
         /\ \/ Worked /\ final = "absent" /\ final' = "whole" /\ Goes(c, "p_verify")
            \/ (Worked \/ Failed) /\ final' = final /\ Goes(c, "idle")
BY GotoGoes, ReturnGoes, LabelsListed
   DEF Publish, PreparePC, At, Worked, Failed, Works, Raises, dirs, counts

LEMMA VerifyPublishedForm ==
  ASSUME TypeOK, NEW c \in Clients, VerifyPublished(c)
  PROVE  /\ At(c, "p_verify") /\ Files
         /\ \/ Worked /\ final = "whole" /\ Goes(c, "p_receipt")
            \/ Worked /\ final # "whole" /\ Goes(c, "c_final")
            \/ Failed /\ Goes(c, "c_final")
BY GotoGoes, ReturnGoes, LabelsListed
   DEF VerifyPublished, PreparePC, At, Files, Worked, Failed, Works, Raises, dirs, counts

LEMMA WriteReceiptForm ==
  ASSUME TypeOK, NEW c \in Clients, WriteReceipt(c)
  PROVE  /\ At(c, "p_receipt")
         /\ attempt' = attempt /\ final' = final /\ quarantine' = quarantine
         /\ \/ Worked /\ receipt' = cli[c].rec /\ Goes(c, "p_confirm")
            \/ Failed /\ receipt' \in {receipt, cli[c].rec} /\ Goes(c, "p_stored")
BY GotoGoes, ReturnGoes, WrittenGoes, LabelsListed
   DEF WriteReceipt, PreparePC, At, Worked, Failed, Works, Raises, dirs, counts

LEMMA ReceiptStoredForm ==
  ASSUME TypeOK, NEW c \in Clients, ReceiptStored(c)
  PROVE  /\ At(c, "p_stored") /\ Files
         /\ \/ Worked /\ receipt = cli[c].rec /\ Goes(c, "p_confirm")
            \/ Worked /\ receipt # cli[c].rec /\ Goes(c, "c_final")
            \/ Failed /\ Goes(c, "c_final")
BY GotoGoes, ReturnGoes, WrittenGoes, LabelsListed
   DEF ReceiptStored, PreparePC, At, Files, Worked, Failed, Works, Raises, dirs, counts

LEMMA ConfirmReceiptForm ==
  ASSUME TypeOK, NEW c \in Clients, ConfirmReceipt(c)
  PROVE  /\ At(c, "p_confirm") /\ Files
         /\ \/ Worked /\ receipt = cli[c].rec /\ Goes(c, "p_ready")
            \/ Worked /\ receipt # cli[c].rec /\ Goes(c, "c_final")
            \/ Failed /\ Goes(c, "c_final")
BY GotoGoes, ReturnGoes, LabelsListed
   DEF ConfirmReceipt, PreparePC, At, Files, Worked, Failed, Works, Raises, dirs, counts

LEMMA ReadyCheckForm ==
  ASSUME TypeOK, NEW c \in Clients, ReadyCheck(c)
  PROVE  /\ At(c, "p_ready") /\ Files
         /\ \/ Worked /\ LegalAttemptMove(attempt, cli[c].att) /\ Goes(c, "p_commit")
            \/ Worked /\ ~LegalAttemptMove(attempt, cli[c].att) /\ Goes(c, "p_reread")
            \/ Failed /\ Goes(c, "p_reread")
BY GotoGoes, ReturnGoes, LabelsListed
   DEF ReadyCheck, CheckAttempt, PreparePC, At, Files, Worked, Failed, Works, Raises, dirs, counts

LEMMA ReadyCommitForm ==
  ASSUME TypeOK, NEW c \in Clients, ReadyCommit(c)
  PROVE  /\ At(c, "p_commit")
         /\ receipt' = receipt /\ final' = final /\ quarantine' = quarantine
         /\ \/ Worked /\ attempt' = cli[c].att /\ Goes(c, "idle")
            \/ Failed /\ attempt' \in {attempt, cli[c].att} /\ Goes(c, "p_reread")
BY GotoGoes, ReturnGoes, LabelsListed
   DEF ReadyCommit, CommitAttempt, PreparePC, At, Worked, Failed, Works, Raises, dirs, counts

LEMMA ReadyRereadForm ==
  ASSUME TypeOK, NEW c \in Clients, ReadyReread(c)
  PROVE  /\ cli[c].pc \in {"p_reread", "p_again"} /\ Files
         /\ \/ Worked /\ attempt = cli[c].att /\ Goes(c, "idle")
            \/ /\ (Worked /\ attempt # cli[c].att) \/ Failed
               /\ Goes(c, IF At(c, "p_reread") THEN "p_again" ELSE "c_final")
BY GotoGoes, ReturnGoes, LabelsListed
   DEF ReadyReread, PreparePC, At, Files, Worked, Failed, Works, Raises, dirs, counts

LEMMA CompensateFinalForm ==
  ASSUME TypeOK, NEW c \in Clients, CompensateFinal(c)
  PROVE  /\ At(c, "c_final")
         /\ attempt' = attempt /\ receipt' = receipt /\ quarantine' = quarantine
         /\ \/ Worked /\ final = "whole" /\ final' = "damaged" /\ Goes(c, "c_final")
            \/ Worked /\ final # "whole" /\ final' = "absent" /\ Goes(c, "c_receipt")
            \/ Failed /\ final' = final /\ Goes(c, "idle")
BY GotoGoes, ReturnGoes, LabelsListed
   DEF CompensateFinal, RemovalStep, PreparePC, At, Worked, Failed, Works, Raises, dirs, counts

LEMMA CompensateReceiptForm ==
  ASSUME TypeOK, NEW c \in Clients, CompensateReceipt(c)
  PROVE  /\ At(c, "c_receipt") /\ Goes(c, "idle")
         /\ attempt' = attempt /\ final' = final /\ quarantine' = quarantine
         /\ \/ Worked /\ receipt' = IF cli[c].wrote THEN NoReceipt ELSE receipt
            \/ Failed /\ receipt' = receipt
BY GotoGoes, ReturnGoes, LabelsListed
   DEF CompensateReceipt, At, Worked, Failed, Works, Raises, dirs, counts

LEMMA DiscardGoneForm ==
  ASSUME TypeOK, NEW c \in Clients, DiscardGone(c)
  PROVE  /\ At(c, "x_gone") /\ Still
         /\ Goes(c, "x_stale") \/ Goes(c, "idle")
BY GotoGoes, ReturnGoes, LabelsListed
   DEF DiscardGone, DiscardPC, At, Still, Files, Works, Raises, dirs, counts

LEMMA DiscardStaleForm ==
  ASSUME TypeOK, NEW c \in Clients, DiscardStale(c)
  PROVE  /\ At(c, "x_stale") /\ Still
         /\ Goes(c, "x_unlink") \/ Goes(c, "idle")
BY GotoGoes, ReturnGoes, LabelsListed
   DEF DiscardStale, DiscardPC, At, Still, Files, Works, Raises, dirs, counts

LEMMA DiscardVerifyForm ==
  ASSUME TypeOK, NEW c \in Clients, DiscardVerify(c)
  PROVE  /\ At(c, "x_verify") /\ Still
         /\ \/ final = "whole" /\ quarantine = "absent" /\ Goes(c, "x_rename")
            \/ final = "absent" /\ quarantine = "whole" /\ Goes(c, "x_mark")
            \/ Goes(c, "idle")
BY GotoGoes, ReturnGoes, LabelsListed
   DEF DiscardVerify, DiscardPC, At, Still, Files, Works, Raises, dirs, counts

LEMMA DiscardRenameForm ==
  ASSUME TypeOK, NEW c \in Clients, DiscardRename(c)
  PROVE  /\ At(c, "x_rename") /\ attempt' = attempt /\ receipt' = receipt /\ Worked
         /\ \/ /\ final # "absent" /\ quarantine = "absent"
               /\ final' = "absent" /\ quarantine' = final /\ Goes(c, "x_mark")
            \/ final' = final /\ quarantine' = quarantine /\ Goes(c, "idle")
BY GotoGoes, ReturnGoes, LabelsListed
   DEF DiscardRename, DiscardPC, At, Worked, Works, Raises, dirs, counts

LEMMA DiscardWriteForm ==
  ASSUME TypeOK, NEW c \in Clients, DiscardWrite(c)
  PROVE  /\ At(c, "x_write") /\ Goes(c, "x_confirm") /\ Worked
         /\ attempt' = attempt /\ receipt' = cli[c].rec
         /\ final' = final /\ quarantine' = quarantine
BY GotoGoes, ReturnGoes, LabelsListed
   DEF DiscardWrite, DiscardPC, At, Worked, Works, Raises, dirs, counts

LEMMA DiscardConfirmForm ==
  ASSUME TypeOK, NEW c \in Clients, DiscardConfirm(c)
  PROVE  /\ At(c, "x_confirm") /\ Still
         /\ \/ receipt = cli[c].rec /\ Goes(c, "x_remove")
            \/ Goes(c, "idle")
BY GotoGoes, ReturnGoes, LabelsListed
   DEF DiscardConfirm, DiscardPC, At, Still, Files, Works, Raises, dirs, counts

LEMMA DiscardFinalForm ==
  ASSUME TypeOK, NEW c \in Clients, DiscardFinal(c)
  PROVE  /\ At(c, "x_final") /\ Still
         /\ \/ final = "absent" /\ Goes(c, "x_remove")
            \/ Goes(c, "idle")
BY GotoGoes, ReturnGoes, LabelsListed
   DEF DiscardFinal, DiscardPC, At, Still, Files, Works, Raises, dirs, counts

LEMMA DiscardRemoveForm ==
  ASSUME TypeOK, NEW c \in Clients, DiscardRemove(c)
  PROVE  /\ At(c, "x_remove") /\ Worked
         /\ attempt' = attempt /\ receipt' = receipt /\ final' = final
         /\ \/ quarantine = "absent" /\ quarantine' = "absent" /\ Goes(c, "x_abort")
            \/ /\ quarantine # "absent" /\ quarantine' \in {"absent", "damaged"}
               /\ Goes(c, "x_remove")
BY GotoGoes, ReturnGoes, LabelsListed
   DEF DiscardRemove, RemovalStep, DiscardPC, At, Worked, Works, Raises, dirs, counts

LEMMA AbortCheckForm ==
  ASSUME TypeOK, NEW c \in Clients, AbortCheck(c)
  PROVE  /\ At(c, "x_abort") /\ Files
         /\ \/ Worked /\ LegalAttemptMove(attempt, cli[c].att) /\ Goes(c, "x_commit")
            \/ (Worked \/ Failed) /\ Goes(c, "idle")
BY GotoGoes, ReturnGoes, LabelsListed
   DEF AbortCheck, CheckAttempt, DiscardPC, At, Files, Worked, Failed, Works, Raises, dirs, counts

LEMMA AbortCommitForm ==
  ASSUME TypeOK, NEW c \in Clients, AbortCommit(c)
  PROVE  /\ At(c, "x_commit")
         /\ receipt' = receipt /\ final' = final /\ quarantine' = quarantine
         /\ \/ Worked /\ attempt' = cli[c].att /\ Goes(c, "x_unlink")
            \/ Failed /\ attempt' \in {attempt, cli[c].att} /\ Goes(c, "idle")
BY GotoGoes, ReturnGoes, LabelsListed
   DEF AbortCommit, CommitAttempt, DiscardPC, At, Worked, Failed, Works, Raises, dirs, counts

LEMMA DiscardUnlinkForm ==
  ASSUME TypeOK, NEW c \in Clients, DiscardUnlink(c)
  PROVE  /\ At(c, "x_unlink") /\ Goes(c, "idle") /\ Worked
         /\ attempt' = attempt /\ receipt' = NoReceipt
         /\ final' = final /\ quarantine' = quarantine
BY GotoGoes, ReturnGoes, LabelsListed
   DEF DiscardUnlink, At, Worked, Works, Raises, dirs, counts

LEMMA OperatorGuardForm ==
  ASSUME TypeOK, NEW c \in Clients, OperatorGuard(c)
  PROVE  /\ At(c, "o_guard") /\ Still
         /\ \/ receipt.state = "MISSING" /\ Goes(c, "o_save")
            \/ Goes(c, "idle")
BY GotoGoes, ReturnGoes, LabelsListed
   DEF OperatorGuard, At, Still, Files, Works, Raises, dirs, counts

LEMMA OperatorCheckForm ==
  ASSUME TypeOK, NEW c \in Clients, OperatorCheck(c)
  PROVE  /\ At(c, "o_save") /\ Files
         /\ \/ Worked /\ LegalAttemptMove(attempt, cli[c].att) /\ Goes(c, "o_commit")
            \/ (Worked \/ Failed) /\ Goes(c, "idle")
BY GotoGoes, ReturnGoes, LabelsListed
   DEF OperatorCheck, CheckAttempt, At, Files, Worked, Failed, Works, Raises, dirs, counts

LEMMA OperatorCommitForm ==
  ASSUME TypeOK, NEW c \in Clients, OperatorCommit(c)
  PROVE  /\ At(c, "o_commit") /\ Goes(c, "idle")
         /\ receipt' = receipt /\ final' = final /\ quarantine' = quarantine
         /\ \/ Worked /\ attempt' = cli[c].att
            \/ Failed /\ attempt' \in {attempt, cli[c].att}
BY GotoGoes, ReturnGoes, LabelsListed
   DEF OperatorCommit, CommitAttempt, At, Worked, Failed, Works, Raises, dirs, counts

LEMMA BindCommitForm ==
  ASSUME TypeOK, NEW c \in Clients, BindCommit(c)
  PROVE  /\ At(c, "d_commit") /\ Goes(c, "idle")
         /\ receipt' = receipt /\ final' = final /\ quarantine' = quarantine
         /\ \/ Worked /\ attempt' = cli[c].att
            \/ Failed /\ attempt' \in {attempt, cli[c].att}
BY GotoGoes, ReturnGoes, LabelsListed
   DEF BindCommit, CommitAttempt, At, Worked, Failed, Works, Raises, dirs, counts

LEMMA DispatchVerifyForm ==
  ASSUME TypeOK, NEW c \in Clients, DispatchVerify(c)
  PROVE  /\ At(c, "idle") /\ Clean("READY") /\ Still /\ Goes(c, "d_bind")
         /\ receipt.state = "PREPARED" /\ final = "whole"
BY GotoGoes, ReturnGoes, LabelsListed
   DEF DispatchVerify, Issue, At, Still, Files, Works, Raises, dirs, counts

LEMMA CrashForm ==
  ASSUME TypeOK, NEW c \in Clients, Crash(c)
  PROVE  /\ Goes(c, "idle") /\ Files /\ faults' = faults
         /\ crashes' = crashes + 1 /\ crashes < MaxCrashes
BY GotoGoes, ReturnGoes, LabelsListed
   DEF Crash, At, Files, Works, Raises, dirs, counts

(* The steps that fill what the client holds. *)
Enters(c, l) ==
  /\ cli' \in [Clients -> ClientRecords]
  /\ \A d \in Clients : d # c => cli'[d] = cli[d]
  /\ cli'[c].pc = l

LEMMA EntersWith ==
  ASSUME TypeOK, NEW c \in Clients, NEW new \in ClientRecords, cli' = [cli EXCEPT ![c] = new]
  PROVE  Enters(c, new.pc) /\ cli'[c] = new
BY ClientTyped DEF Enters

LEMMA AttemptTyped ==
  ASSUME NEW a \in AttemptRecords
  PROVE  /\ a.state \in AttemptStates /\ a.runtime \in {None, Bound} /\ a.candidate = None
         /\ a.cleanup \in Outcomes \cup {None, Operator} /\ a.stamp \in Stamps
         /\ \A t \in AttemptStates, o \in Outcomes \cup {None, Operator}, s \in Stamps :
              LET b == [a EXCEPT !.state = t, !.cleanup = o, !.stamp = s]
              IN  b \in AttemptRecords /\ b.state = t /\ b.cleanup = o /\ b.stamp = s
                    /\ b.runtime = a.runtime
         /\ \A t \in AttemptStates, s \in Stamps :
              LET b == [a EXCEPT !.state = t, !.stamp = s]
              IN  b \in AttemptRecords /\ b.state = t /\ b.cleanup = a.cleanup /\ b.stamp = s
                    /\ b.runtime = a.runtime
         /\ \A s \in Stamps :
              LET b == [a EXCEPT !.state = "RUNNING", !.runtime = Bound, !.stamp = s]
              IN  b \in AttemptRecords /\ b.state = "RUNNING" /\ b.cleanup = a.cleanup
<1>1. /\ a.state \in AttemptStates /\ a.runtime \in {None, Bound} /\ a.candidate = None
      /\ a.cleanup \in Outcomes \cup {None, Operator} /\ a.stamp \in Stamps
  BY DEF AttemptRecords
<1>2. ASSUME NEW t \in AttemptStates, NEW o \in Outcomes \cup {None, Operator}, NEW s \in Stamps
      PROVE  LET b == [a EXCEPT !.state = t, !.cleanup = o, !.stamp = s]
             IN  b \in AttemptRecords /\ b.state = t /\ b.cleanup = o /\ b.stamp = s
                   /\ b.runtime = a.runtime
  BY DEF AttemptRecords
<1>3. ASSUME NEW t \in AttemptStates, NEW s \in Stamps
      PROVE  LET b == [a EXCEPT !.state = t, !.stamp = s]
             IN  b \in AttemptRecords /\ b.state = t /\ b.cleanup = a.cleanup /\ b.stamp = s
                   /\ b.runtime = a.runtime
  BY DEF AttemptRecords
<1>4. "RUNNING" \in AttemptStates
  BY DEF AttemptStates, AttemptNext
<1>5. ASSUME NEW s \in Stamps
      PROVE  LET b == [a EXCEPT !.state = "RUNNING", !.runtime = Bound, !.stamp = s]
             IN  b \in AttemptRecords /\ b.state = "RUNNING" /\ b.cleanup = a.cleanup
  BY <1>4 DEF AttemptRecords
<1> QED
  BY <1>1, <1>2, <1>3, <1>5

LEMMA ReceiptTyped ==
  /\ NoReceipt \in Receipts /\ NoReceipt.state = "MISSING"
  /\ \A s \in Stamps : [state |-> "PREPARED", stamp |-> s] \in Receipts
  /\ \A r \in Receipts :
       /\ r.state \in {"MISSING", "PREPARED", "QUARANTINED"}
       /\ r.state = "MISSING" <=> r = NoReceipt
       /\ r.state # "MISSING" => r.stamp \in Stamps /\ [r EXCEPT !.state = "QUARANTINED"] \in Receipts
                                  /\ [r EXCEPT !.state = "QUARANTINED"].state = "QUARANTINED"
BY DEF Receipts, NoReceipt

LEMMA PrepareReadForm ==
  ASSUME TypeOK, NEW c \in Clients, NEW s \in Stamps, PrepareRead(c, s)
  PROVE  /\ At(c, "idle") /\ "prepare" \in May[c] /\ Clean("DRAFT") /\ Still
         /\ Enters(c, "p_paths")
         /\ cli'[c].att \in AttemptRecords /\ cli'[c].att.state = "READY"
         /\ cli'[c].att.runtime = None /\ cli'[c].att.cleanup = None
         /\ cli'[c].att.candidate = None
         /\ cli'[c].rec.state = "PREPARED" /\ cli'[c].rec.stamp = cli'[c].att.stamp
<1> DEFINE a == [attempt EXCEPT !.state = "READY", !.stamp = s]
           r == [state |-> "PREPARED", stamp |-> s]
           new == [pc |-> "p_paths", att |-> a, rec |-> r, wrote |-> FALSE]
<1>1. /\ At(c, "idle") /\ "prepare" \in May[c] /\ Clean("DRAFT") /\ Still
      /\ cli' = [cli EXCEPT ![c] = new]
  BY DEF PrepareRead, Issue, Still, Files, dirs, counts
<1>2. "READY" \in AttemptStates /\ "p_paths" \in Labels
  BY DEF AttemptStates, AttemptNext, Labels, PreparePC
<1>3. /\ a \in AttemptRecords /\ a.state = "READY" /\ a.cleanup = attempt.cleanup
      /\ a.stamp = s /\ a.runtime = attempt.runtime /\ a.candidate = None
  <2>1. attempt \in AttemptRecords
    BY FilesTyped
  <2> QED
    BY <1>2, <2>1 DEF AttemptRecords
<1>4. r \in Receipts /\ r.state = "PREPARED" /\ r.stamp = s
  BY ReceiptTyped
<1> HIDE DEF a, r
<1>5. new \in ClientRecords /\ new.pc = "p_paths" /\ new.att = a /\ new.rec = r
  BY <1>2, <1>3, <1>4 DEF ClientRecords
<1> HIDE DEF new
<1>6. Enters(c, "p_paths") /\ cli'[c] = new
  BY <1>1, <1>5, EntersWith
<1> QED
  BY <1>1, <1>3, <1>4, <1>5, <1>6 DEF Clean

LEMMA DiscardReadForm ==
  ASSUME TypeOK, NEW c \in Clients, NEW o \in Outcomes, NEW s \in Stamps, DiscardRead(c, o, s)
  PROVE  /\ At(c, "idle") /\ "discard" \in May[c] /\ Still
         /\ \/ /\ Clean("READY") /\ Enters(c, "x_receipt")
               /\ cli'[c].att \in AttemptRecords /\ cli'[c].att.state = "ABORTED"
               /\ cli'[c].att.runtime = None /\ cli'[c].att.cleanup = o
            \/ attempt.state = "ABORTED" /\ attempt.cleanup = o /\ Goes(c, "x_gone")
<1> DEFINE a == [attempt EXCEPT !.state = "ABORTED", !.cleanup = o, !.stamp = s]
           new == [[IdleClient EXCEPT !.pc = "x_receipt"] EXCEPT !.att = a]
<1>1. /\ At(c, "idle") /\ "discard" \in May[c] /\ Still
      /\ \/ Clean("READY") /\ cli' = [cli EXCEPT ![c] = new]
         \/ attempt.state = "ABORTED" /\ attempt.cleanup = o /\ Goto(c, "x_gone")
  BY DEF DiscardRead, Issue, Still, Files, dirs, counts
<1>2. "ABORTED" \in AttemptStates /\ "x_receipt" \in Labels /\ "x_gone" \in Labels
  BY DEF AttemptStates, AttemptNext, Labels, DiscardPC
<1>3. /\ a \in AttemptRecords /\ a.state = "ABORTED" /\ a.cleanup = o
      /\ a.runtime = attempt.runtime
  <2>1. attempt \in AttemptRecords
    BY FilesTyped
  <2> QED
    BY <1>2, <2>1 DEF AttemptRecords
<1> HIDE DEF a
<1>4. new \in ClientRecords /\ new.pc = "x_receipt" /\ new.att = a
  BY <1>2, <1>3, IdleTyped DEF ClientRecords, IdleClient, Receipts
<1> HIDE DEF new
<1>5. CASE Clean("READY") /\ cli' = [cli EXCEPT ![c] = new]
  <2>1. Enters(c, "x_receipt") /\ cli'[c] = new
    BY <1>4, <1>5, EntersWith
  <2> QED
    BY <1>1, <1>3, <1>4, <1>5, <2>1 DEF Clean
<1>6. CASE attempt.state = "ABORTED" /\ attempt.cleanup = o /\ Goto(c, "x_gone")
  BY <1>1, <1>2, <1>6, GotoGoes
<1> QED
  BY <1>1, <1>5, <1>6

LEMMA DiscardReceiptForm ==
  ASSUME TypeOK, NEW c \in Clients, DiscardReceipt(c)
  PROVE  /\ At(c, "x_receipt") /\ Still
         /\ \/ Goes(c, "idle")
            \/ /\ receipt.state # "MISSING"
               /\ Enters(c, IF receipt.state = "PREPARED" THEN "x_verify" ELSE "x_final")
               /\ cli'[c].rec = receipt /\ cli'[c].att = cli[c].att
<1> DEFINE l == IF receipt.state = "PREPARED" THEN "x_verify" ELSE "x_final"
           new == [[cli[c] EXCEPT !.rec = receipt] EXCEPT !.pc = l]
<1>1. At(c, "x_receipt") /\ Still
  BY DEF DiscardReceipt, Still, Files, dirs, counts
<1>2. cli \in [Clients -> ClientRecords] /\ cli[c] \in ClientRecords /\ receipt \in Receipts
  BY ClientTyped, FilesTyped
<1>3. CASE receipt.state = "MISSING"
  BY <1>1, <1>3, ReturnGoes DEF DiscardReceipt
<1>4. CASE receipt.state # "MISSING"
  <2>1. cli' = [cli EXCEPT ![c] = new]
    BY <1>2, <1>4 DEF DiscardReceipt
  <2>2. l \in Labels
    BY DEF Labels, DiscardPC
  <2> HIDE DEF l
  <2>3. new \in ClientRecords /\ new.pc = l /\ new.rec = receipt /\ new.att = cli[c].att
    BY <1>2, <2>2 DEF ClientRecords
  <2> HIDE DEF new
  <2>4. Enters(c, l) /\ cli'[c] = new
    BY <2>1, <2>3, EntersWith
  <2> QED
    BY <1>1, <1>4, <2>3, <2>4 DEF l
<1> QED
  BY <1>3, <1>4

LEMMA DiscardMarkForm ==
  ASSUME TypeOK, NEW c \in Clients, cli[c].rec.state # "MISSING", DiscardMark(c)
  PROVE  /\ At(c, "x_mark") /\ Still
         /\ \/ Goes(c, "idle")
            \/ /\ quarantine # "absent" /\ Enters(c, "x_write")
               /\ cli'[c].rec.state = "QUARANTINED" /\ cli'[c].att = cli[c].att
<1> DEFINE r == [cli[c].rec EXCEPT !.state = "QUARANTINED"]
           new == [[cli[c] EXCEPT !.rec = r] EXCEPT !.pc = "x_write"]
<1>1. At(c, "x_mark") /\ Still
  BY DEF DiscardMark, Still, Files, dirs, counts
<1>2. cli \in [Clients -> ClientRecords] /\ cli[c] \in ClientRecords /\ cli[c].rec \in Receipts
  BY ClientTyped
<1>3. r \in Receipts /\ r.state = "QUARANTINED"
  BY <1>2, ReceiptTyped
<1>4. CASE quarantine = "absent"
  BY <1>1, <1>4, ReturnGoes DEF DiscardMark
<1>5. CASE quarantine # "absent"
  <2>0. cli' = [cli EXCEPT ![c].rec.state = "QUARANTINED", ![c].pc = "x_write"]
    BY <1>5 DEF DiscardMark
  <2>1. cli' = [cli EXCEPT ![c] = new]
    BY <2>0, <1>2, Zenon
  <2>2. "x_write" \in Labels
    BY DEF Labels, DiscardPC
  <2> HIDE DEF r
  <2>3. new \in ClientRecords /\ new.pc = "x_write" /\ new.rec = r /\ new.att = cli[c].att
    BY <1>2, <1>3, <2>2 DEF ClientRecords
  <2> HIDE DEF new
  <2>4. Enters(c, new.pc) /\ cli'[c] = new
    <3>1. new \in ClientRecords
      BY <2>3
    <3> QED
      BY <2>1, <3>1, EntersWith
  <2> QED
    BY <1>1, <1>3, <1>5, <2>3, <2>4
<1> QED
  BY <1>4, <1>5

LEMMA OperatorReadForm ==
  ASSUME TypeOK, NEW c \in Clients, NEW t \in Targets, NEW s \in Stamps, OperatorRead(c, t, s)
  PROVE  /\ At(c, "idle") /\ "transition" \in May[c] /\ Still
         /\ Enters(c, IF Clean("READY") THEN "o_guard" ELSE "o_save")
         /\ cli'[c].att \in AttemptRecords /\ cli'[c].att.state = t
         /\ t \in AttemptNext[attempt.state]
         /\ t = "ABORTED" => cli'[c].att.cleanup = Operator
         /\ t # "ABORTED" => cli'[c].att.cleanup = attempt.cleanup
<1> DEFINE o == IF t = "ABORTED" THEN Operator ELSE attempt.cleanup
           a == [[[attempt EXCEPT !.state = t] EXCEPT !.stamp = s] EXCEPT !.cleanup = o]
           l == IF Clean("READY") THEN "o_guard" ELSE "o_save"
           new == [[IdleClient EXCEPT !.att = a] EXCEPT !.pc = l]
<1>1. attempt \in AttemptRecords /\ o \in Outcomes \cup {None, Operator}
      /\ t \in AttemptStates
  BY FilesTyped, AttemptTyped, WorkspaceAssumption DEF AttemptStates, AttemptNext
<1>2. /\ At(c, "idle") /\ "transition" \in May[c] /\ Still
      /\ LegalAttemptMove(attempt, a) /\ cli' = [cli EXCEPT ![c] = new]
  BY <1>1 DEF OperatorRead, Issue, Still, Files, dirs, counts, AttemptRecords
<1>3. a \in AttemptRecords /\ a.state = t /\ a.cleanup = o
  BY <1>1 DEF AttemptRecords
<1>4. t \in AttemptNext[attempt.state]
  BY <1>2, <1>3 DEF LegalAttemptMove
<1> HIDE DEF a
<1>5. l \in Labels
  BY DEF Labels
<1> HIDE DEF l
<1>6. new \in ClientRecords /\ new.pc = l /\ new.att = a
  BY <1>3, <1>5, IdleTyped DEF ClientRecords, IdleClient, Receipts
<1> HIDE DEF new
<1>7. Enters(c, l) /\ cli'[c] = new
  BY <1>2, <1>6, EntersWith
<1> QED
  BY <1>2, <1>3, <1>4, <1>6, <1>7 DEF l

LEMMA BindCheckForm ==
  ASSUME TypeOK, NEW c \in Clients, NEW s \in Stamps, BindCheck(c, s)
  PROVE  /\ At(c, "d_bind") /\ Still
         /\ \/ Goes(c, "idle")
            \/ /\ Clean("READY") /\ Enters(c, "d_commit")
               /\ cli'[c].att \in AttemptRecords /\ cli'[c].att.state = "RUNNING"
               /\ cli'[c].att.cleanup = None
<1> DEFINE a == [attempt EXCEPT !.state = "RUNNING", !.runtime = Bound, !.stamp = s]
           new == [[cli[c] EXCEPT !.pc = "d_commit"] EXCEPT !.att = a]
<1>1. At(c, "d_bind") /\ Still
  BY DEF BindCheck, Still, Files, dirs, counts
<1>2. cli \in [Clients -> ClientRecords] /\ cli[c] \in ClientRecords
  BY ClientTyped
<1>3. a \in AttemptRecords /\ a.state = "RUNNING" /\ a.cleanup = attempt.cleanup
  BY FilesTyped, AttemptTyped
<1>4. CASE ~Clean("READY")
  BY <1>1, <1>4, ReturnGoes DEF BindCheck
<1>5. CASE Clean("READY")
  <2>1. cli' = [cli EXCEPT ![c] = new]
    BY <1>2, <1>5 DEF BindCheck
  <2>2. "d_commit" \in Labels
    BY DEF Labels
  <2> HIDE DEF a
  <2>3. new \in ClientRecords /\ new.pc = "d_commit" /\ new.att = a
    BY <1>2, <1>3, <2>2 DEF ClientRecords
  <2> HIDE DEF new
  <2>4. Enters(c, "d_commit") /\ cli'[c] = new
    BY <2>1, <2>3, EntersWith
  <2> QED
    BY <1>1, <1>3, <1>5, <2>3, <2>4 DEF Clean
<1> QED
  BY <1>4, <1>5

-----------------------------------------------------------------------------
(* Every step keeps CoreInv. *)
LEMMA PrepareMove ==
  ASSUME CoreInv, NEW c \in Clients, NEW l \in PreparePC \cup {"idle"}, Goes(c, l),
         cli[c].pc \in PreparePC, attempt' = attempt, quarantine' = quarantine,
         receipt' \in {receipt, cli[c].rec, NoReceipt}, final' \in Directories,
         crashes' = crashes, faults' \in 0..MaxFaults
  PROVE  CoreInv'
<1>1. Held(c) /\ TypeOK /\ DraftInv
  BY DEF CoreInv, HeldInv
<1>2. receipt' \in Receipts /\ cli[c].rec.state = "PREPARED"
  BY <1>1, ClientTyped, FilesTyped, ReceiptTyped DEF Held, Prepared
<1>3. attempt.state = "DRAFT" => receipt'.state # "QUARANTINED"
  BY <1>1, <1>2, ReceiptTyped DEF DraftInv
<1>4. /\ l \in Labels /\ l \in Early /\ l \notin DiscardPC /\ l \notin Disposing /\ l \notin Saving
      /\ l # "d_commit"
  BY DEF Labels, Early, PreparePC, DiscardPC, Disposing, Saving
<1>5. quarantine' \in Directories /\ crashes' \in 0..MaxCrashes
  BY <1>1, FilesTyped
<1> QED
  BY <1>2, <1>3, <1>4, <1>5, CoreMove

LEMMA DiscardMove ==
  ASSUME CoreInv, NEW c \in Clients, NEW l \in DiscardPC \cup {"idle"}, Goes(c, l),
         cli[c].pc \in DiscardPC, l \in Disposing => cli[c].pc \in Disposing \ {"x_receipt"},
         attempt' = attempt,
         receipt' \in {receipt, cli[c].rec, NoReceipt},
         final' \in Directories, quarantine' \in Directories,
         crashes' = crashes, faults' \in 0..MaxFaults
  PROVE  CoreInv'
<1>1. TypeOK /\ DraftInv
  BY DEF CoreInv
<1>2. receipt' \in Receipts
  BY <1>1, ClientTyped, FilesTyped, ReceiptTyped
<1>3. attempt.state # "DRAFT"
  BY <1>1 DEF DraftInv, Early, PreparePC, DiscardPC
<1>4. l \in Labels /\ l \notin PreparePC /\ l \notin Saving /\ l # "d_commit"
  BY DEF Labels, PreparePC, DiscardPC, Saving
<1>5. crashes' \in 0..MaxCrashes
  BY <1>1, FilesTyped
<1> QED
  BY <1>2, <1>3, <1>4, <1>5, CoreMove

LEMMA StillTyped ==
  ASSUME TypeOK
  PROVE  /\ faults \in 0..MaxFaults
         /\ (Worked \/ Failed) => crashes' = crashes /\ faults' \in 0..MaxFaults
         /\ Still => Worked /\ Files
         /\ final \in Directories /\ quarantine \in Directories
         /\ {"absent", "whole", "damaged"} = Directories
BY FilesTyped DEF Worked, Failed, Still, Directories

LEMMA PrepareCore ==
  ASSUME CoreInv, NEW c \in Clients, PrepareStep(c)
  PROVE  CoreInv' /\ (attempt'.state = "DRAFT" => attempt' = attempt)
<1>0. TypeOK
  BY DEF CoreInv
<1>1. CASE PreparePaths(c)
  BY <1>0, <1>1, PreparePathsForm, PrepareMove, StillTyped DEF At, Files, Worked, PreparePC
<1>2. CASE PrepareUnclaimed(c)
  BY <1>0, <1>2, PrepareUnclaimedForm, PrepareMove, StillTyped DEF At, Files, Worked, PreparePC
<1>3. CASE Publish(c)
  BY <1>0, <1>3, PublishForm, PrepareMove, StillTyped DEF At, PreparePC
<1>4. CASE VerifyPublished(c)
  BY <1>0, <1>4, VerifyPublishedForm, PrepareMove, StillTyped DEF At, Files, PreparePC
<1>5. CASE WriteReceipt(c)
  BY <1>0, <1>5, WriteReceiptForm, PrepareMove, StillTyped DEF At, PreparePC
<1>6. CASE ReceiptStored(c)
  BY <1>0, <1>6, ReceiptStoredForm, PrepareMove, StillTyped DEF At, Files, PreparePC
<1>7. CASE ConfirmReceipt(c)
  BY <1>0, <1>7, ConfirmReceiptForm, PrepareMove, StillTyped DEF At, Files, PreparePC
<1>8. CASE ReadyCheck(c)
  BY <1>0, <1>8, ReadyCheckForm, PrepareMove, StillTyped DEF At, Files, PreparePC
<1>9. CASE ReadyCommit(c)
  <2>1. CASE attempt' = cli[c].att
    BY <1>0, <1>9, <2>1, ReadyCommitForm, StoreStep, StillTyped, LabelsListed
       DEF At, PreparePC, Worked, Failed
  <2>2. CASE attempt' = attempt
    BY <1>0, <1>9, <2>1, <2>2, ReadyCommitForm, PrepareMove, StillTyped DEF At, PreparePC
  <2> QED
    BY <1>0, <1>9, <2>1, <2>2, ReadyCommitForm
<1>10. CASE ReadyReread(c)
  BY <1>0, <1>10, ReadyRereadForm, PrepareMove, StillTyped DEF At, Files, PreparePC
<1>11. CASE CompensateFinal(c)
  BY <1>0, <1>11, CompensateFinalForm, PrepareMove, StillTyped DEF At, PreparePC
<1>12. CASE CompensateReceipt(c)
  BY <1>0, <1>12, CompensateReceiptForm, PrepareMove, StillTyped DEF At, PreparePC
<1> QED
  BY <1>1, <1>2, <1>3, <1>4, <1>5, <1>6, <1>7, <1>8, <1>9, <1>10, <1>11, <1>12
     DEF PrepareStep

LEMMA DiscardCore ==
  ASSUME CoreInv, NEW c \in Clients, DiscardStep(c)
  PROVE  CoreInv' /\ attempt.state # "DRAFT" /\ attempt'.state # "DRAFT"
<1>0. TypeOK /\ Held(c)
  BY DEF CoreInv, HeldInv
<1>a. cli[c].pc \in DiscardPC => attempt.state # "DRAFT"
  BY DEF CoreInv, DraftInv, Early, PreparePC, DiscardPC
<1>1. CASE DiscardGone(c)
  BY <1>0, <1>a, <1>1, DiscardGoneForm, DiscardMove, StillTyped
     DEF At, Files, Worked, DiscardPC, Disposing
<1>2. CASE DiscardStale(c)
  BY <1>0, <1>a, <1>2, DiscardStaleForm, DiscardMove, StillTyped
     DEF At, Files, Worked, DiscardPC, Disposing
<1>3. CASE DiscardReceipt(c)
  <2> DEFINE l == IF receipt.state = "PREPARED" THEN "x_verify" ELSE "x_final"
  <2>1. CASE Goes(c, "idle")
    BY <1>0, <1>a, <1>3, <2>1, DiscardReceiptForm, DiscardMove, StillTyped
       DEF At, Files, Worked, DiscardPC, Disposing
  <2>2. CASE /\ receipt.state # "MISSING" /\ Enters(c, l)
             /\ cli'[c].rec = receipt /\ cli'[c].att = cli[c].att
    <3>1. At(c, "x_receipt") /\ Still
      BY <1>0, <1>3, DiscardReceiptForm
    <3>2. /\ attempt.state # "DRAFT" /\ attempt' = attempt
          /\ attempt' \in AttemptRecords /\ receipt' \in Receipts
          /\ final' \in Directories /\ quarantine' \in Directories
          /\ crashes' \in 0..MaxCrashes /\ faults' \in 0..MaxFaults
      BY <1>0, <1>a, <3>1, FilesTyped DEF At, DiscardPC, Still, Files
    <3>3. TypeOK'
      BY <2>2, <3>2, TypeStep DEF Enters
    <3>4. Held(c)'
      <4>1. /\ cli[c].att \in AttemptRecords /\ cli[c].att.state = "ABORTED"
            /\ cli[c].att.runtime = None
        BY <1>0, <3>1 DEF Held, At, DiscardPC, Disposing
      <4>2. cli'[c].pc \in {"x_verify", "x_final"}
        BY <2>2 DEF Enters
      <4> QED
        BY <2>2, <4>1, <4>2 DEF Held, DiscardPC, Disposing, PreparePC, Saving
    <3>5. HeldInv'
      BY <2>2, <3>4, HeldStep DEF Enters, CoreInv
    <3> QED
      BY <3>2, <3>3, <3>5 DEF CoreInv, DraftInv
  <2> QED
    BY <1>0, <1>3, <2>1, <2>2, DiscardReceiptForm
<1>4. CASE DiscardVerify(c)
  BY <1>0, <1>a, <1>4, DiscardVerifyForm, DiscardMove, StillTyped
     DEF At, Files, Worked, DiscardPC, Disposing
<1>5. CASE DiscardRename(c)
  BY <1>0, <1>a, <1>5, DiscardRenameForm, DiscardMove, StillTyped
     DEF At, Worked, DiscardPC, Disposing
<1>6. CASE DiscardMark(c)
  <2>0. cli[c].rec.state # "MISSING"
    BY <1>0, <1>6 DEF DiscardMark, At, Held, Disposing, DiscardPC
  <2>1. CASE Goes(c, "idle")
    BY <1>0, <1>a, <1>6, <2>0, <2>1, DiscardMarkForm, DiscardMove, StillTyped
       DEF At, Files, Worked, DiscardPC, Disposing
  <2>2. CASE /\ quarantine # "absent" /\ Enters(c, "x_write")
             /\ cli'[c].rec.state = "QUARANTINED" /\ cli'[c].att = cli[c].att
    <3>1. At(c, "x_mark") /\ Still
      BY <1>0, <1>6, <2>0, DiscardMarkForm
    <3>2. /\ attempt.state # "DRAFT" /\ attempt' = attempt
          /\ attempt' \in AttemptRecords /\ receipt' \in Receipts
          /\ final' \in Directories /\ quarantine' \in Directories
          /\ crashes' \in 0..MaxCrashes /\ faults' \in 0..MaxFaults
      BY <1>0, <1>a, <3>1, FilesTyped DEF At, DiscardPC, Still, Files
    <3>3. TypeOK'
      BY <2>2, <3>2, TypeStep DEF Enters
    <3>4. Held(c)'
      <4>1. /\ cli[c].att \in AttemptRecords /\ cli[c].att.state = "ABORTED"
            /\ cli[c].att.runtime = None
        BY <1>0, <3>1 DEF Held, At, DiscardPC, Disposing
      <4> QED
        BY <2>2, <4>1 DEF Enters, Held, DiscardPC, Disposing, PreparePC, Saving
    <3>5. HeldInv'
      BY <2>2, <3>4, HeldStep DEF Enters, CoreInv
    <3> QED
      BY <3>2, <3>3, <3>5 DEF CoreInv, DraftInv
  <2> QED
    BY <1>0, <1>6, <2>0, <2>1, <2>2, DiscardMarkForm
<1>7. CASE DiscardWrite(c)
  BY <1>0, <1>a, <1>7, DiscardWriteForm, DiscardMove, StillTyped
     DEF At, Worked, DiscardPC, Disposing
<1>8. CASE DiscardConfirm(c)
  BY <1>0, <1>a, <1>8, DiscardConfirmForm, DiscardMove, StillTyped
     DEF At, Files, Worked, DiscardPC, Disposing
<1>9. CASE DiscardFinal(c)
  BY <1>0, <1>a, <1>9, DiscardFinalForm, DiscardMove, StillTyped
     DEF At, Files, Worked, DiscardPC, Disposing
<1>10. CASE DiscardRemove(c)
  BY <1>0, <1>a, <1>10, DiscardRemoveForm, DiscardMove, StillTyped
     DEF At, Worked, DiscardPC, Disposing
<1>11. CASE AbortCheck(c)
  BY <1>0, <1>a, <1>11, AbortCheckForm, DiscardMove, StillTyped
     DEF At, Files, DiscardPC, Disposing
<1>12. CASE AbortCommit(c)
  <2>1. CASE attempt' = cli[c].att
    BY <1>0, <1>a, <1>12, <2>1, AbortCommitForm, StoreStep, StillTyped, LabelsListed
       DEF At, DiscardPC, Worked, Failed
  <2>2. CASE attempt' = attempt
    BY <1>0, <1>a, <1>12, <2>1, <2>2, AbortCommitForm, DiscardMove, StillTyped
       DEF At, DiscardPC, Disposing
  <2> QED
    BY <1>0, <1>12, <2>1, <2>2, AbortCommitForm
<1>13. CASE DiscardUnlink(c)
  BY <1>0, <1>a, <1>13, DiscardUnlinkForm, DiscardMove, StillTyped
     DEF At, Worked, DiscardPC, Disposing
<1> QED
  BY <1>1, <1>2, <1>3, <1>4, <1>5, <1>6, <1>7, <1>8, <1>9, <1>10, <1>11, <1>12, <1>13
     DEF DiscardStep

LEMMA OtherMove ==
  ASSUME CoreInv, NEW c \in Clients, NEW l \in {"o_save", "o_commit", "idle"}, Goes(c, l), Files,
         l # "idle" => cli[c].pc \in Saving,
         crashes' \in 0..MaxCrashes, faults' \in 0..MaxFaults
  PROVE  CoreInv'
<1>1. TypeOK
  BY DEF CoreInv
<1>2. /\ l \in Labels /\ l \notin PreparePC /\ l \notin DiscardPC /\ l \notin Disposing
      /\ l \in Early /\ l # "d_commit" /\ (l \in Saving => l # "idle")
  BY DEF Labels, PreparePC, DiscardPC, Disposing, Saving, Early
<1>3. receipt' \in Receipts /\ final' \in Directories /\ quarantine' \in Directories
  BY <1>1, FilesTyped DEF Files
<1>4. attempt.state = "DRAFT" => receipt'.state # "QUARANTINED"
  BY DEF Files, CoreInv, DraftInv
<1> QED
  BY <1>2, <1>3, <1>4, CoreMove DEF Files

LEMMA OtherCore ==
  ASSUME CoreInv, NEW c \in Clients, OtherStep(c)
  PROVE  CoreInv' /\ (attempt'.state = "DRAFT" => attempt' = attempt)
<1>0. TypeOK
  BY DEF CoreInv
<1>t. crashes \in 0..MaxCrashes /\ faults \in 0..MaxFaults
  BY <1>0, FilesTyped
<1>1. CASE OperatorGuard(c)
  BY <1>0, <1>t, <1>1, OperatorGuardForm, OtherMove DEF At, Still, Files, Saving
<1>2. CASE OperatorCheck(c)
  BY <1>0, <1>t, <1>2, OperatorCheckForm, OtherMove, StillTyped DEF At, Files, Saving
<1>3. CASE OperatorCommit(c)
  <2>1. CASE attempt' = cli[c].att
    BY <1>0, <1>3, <2>1, OperatorCommitForm, StoreStep, StillTyped, LabelsListed
       DEF At, Worked, Failed
  <2>2. CASE attempt' = attempt
    BY <1>0, <1>t, <1>3, <2>1, <2>2, OperatorCommitForm, OtherMove, StillTyped DEF At, Files
  <2> QED
    BY <1>0, <1>3, <2>1, <2>2, OperatorCommitForm
<1>4. CASE \E s \in Stamps : BindCheck(c, s)
  <2>0. PICK s \in Stamps : BindCheck(c, s)
    BY <1>4
  <2>1. CASE Goes(c, "idle")
    BY <1>0, <1>t, <2>0, <2>1, BindCheckForm, OtherMove, StillTyped DEF At, Still, Files, Saving
  <2>2. CASE /\ Clean("READY") /\ Enters(c, "d_commit")
             /\ cli'[c].att \in AttemptRecords /\ cli'[c].att.state = "RUNNING"
             /\ cli'[c].att.cleanup = None
    <3>1. Still
      BY <1>0, <2>0, BindCheckForm
    <3>2. /\ attempt.state # "DRAFT" /\ attempt' = attempt
          /\ attempt' \in AttemptRecords /\ receipt' \in Receipts
          /\ final' \in Directories /\ quarantine' \in Directories
          /\ crashes' \in 0..MaxCrashes /\ faults' \in 0..MaxFaults
      BY <1>0, <2>2, <3>1, FilesTyped DEF Clean, Still, Files
    <3>3. TypeOK'
      BY <2>2, <3>2, TypeStep DEF Enters
    <3>4. Held(c)'
      BY <2>2 DEF Enters, Held, DiscardPC, Disposing, PreparePC, Saving
    <3>5. HeldInv'
      BY <2>2, <3>4, HeldStep DEF Enters, CoreInv
    <3> QED
      BY <3>2, <3>3, <3>5 DEF CoreInv, DraftInv
  <2> QED
    BY <1>0, <2>0, <2>1, <2>2, BindCheckForm
<1>5. CASE BindCommit(c)
  <2>1. CASE attempt' = cli[c].att
    BY <1>0, <1>5, <2>1, BindCommitForm, StoreStep, StillTyped, LabelsListed
       DEF At, Worked, Failed
  <2>2. CASE attempt' = attempt
    BY <1>0, <1>t, <1>5, <2>1, <2>2, BindCommitForm, OtherMove, StillTyped DEF At, Files
  <2> QED
    BY <1>0, <1>5, <2>1, <2>2, BindCommitForm
<1> QED
  BY <1>1, <1>2, <1>3, <1>4, <1>5 DEF OtherStep

LEMMA ReadCore ==
  ASSUME CoreInv, NEW c \in Clients, Read(c)
  PROVE  CoreInv' /\ attempt' = attempt
<1>0. TypeOK /\ DraftInv
  BY DEF CoreInv
<1>t. ASSUME Still
      PROVE  /\ attempt' = attempt /\ quarantine' = quarantine /\ receipt' = receipt
             /\ attempt' \in AttemptRecords /\ receipt' \in Receipts
             /\ final' \in Directories /\ quarantine' \in Directories
             /\ crashes' \in 0..MaxCrashes /\ faults' \in 0..MaxFaults
  BY <1>0, <1>t, FilesTyped DEF Still, Files
<1>e. ASSUME NEW l \in Labels, Enters(c, l), Still, Held(c)',
             attempt.state = "DRAFT" => l \in Early
      PROVE  CoreInv' /\ attempt' = attempt
  <2>1. TypeOK'
    BY <1>t, <1>e, TypeStep DEF Enters
  <2>2. HeldInv'
    BY <1>e, HeldStep DEF Enters, CoreInv
  <2>3. DraftInv'
    <3>1. ASSUME attempt.state = "DRAFT", NEW d \in Clients PROVE cli'[d].pc \in Early
      BY <1>0, <1>e, <3>1 DEF Enters, DraftInv
    <3> QED
      BY <1>0, <1>t, <1>e, <3>1 DEF DraftInv
  <2> QED
    BY <1>t, <1>e, <2>1, <2>2, <2>3 DEF CoreInv
<1>1. ASSUME NEW s \in Stamps, PrepareRead(c, s)
      PROVE  CoreInv' /\ attempt' = attempt
  <2>1. /\ Still /\ Enters(c, "p_paths")
        /\ cli'[c].att \in AttemptRecords /\ cli'[c].att.state = "READY"
        /\ cli'[c].att.runtime = None /\ cli'[c].att.cleanup = None
        /\ cli'[c].att.candidate = None
        /\ cli'[c].rec.state = "PREPARED" /\ cli'[c].rec.stamp = cli'[c].att.stamp
    BY <1>0, <1>1, PrepareReadForm
  <2>2. Held(c)'
    BY <2>1 DEF Enters, Held, Prepared, PreparePC, DiscardPC, Disposing, Saving
  <2>3. "p_paths" \in Labels /\ "p_paths" \in Early
    BY DEF Labels, Early, PreparePC
  <2> QED
    BY <1>e, <2>1, <2>2, <2>3
<1>2. ASSUME NEW s \in Stamps, NEW o \in Outcomes, DiscardRead(c, o, s)
      PROVE  CoreInv' /\ attempt' = attempt
  <2>1. At(c, "idle") /\ "discard" \in May[c] /\ Still /\ attempt.state # "DRAFT"
    BY <1>0, <1>2, DiscardReadForm DEF Clean
  <2>2. CASE /\ Clean("READY") /\ Enters(c, "x_receipt")
             /\ cli'[c].att \in AttemptRecords /\ cli'[c].att.state = "ABORTED"
             /\ cli'[c].att.runtime = None /\ cli'[c].att.cleanup = o
    <3>1. Held(c)'
      BY <2>1, <2>2 DEF Enters, Held, PreparePC, DiscardPC, Disposing, Saving
    <3>2. "x_receipt" \in Labels
      BY DEF Labels, DiscardPC
    <3> QED
      BY <1>e, <2>1, <2>2, <3>1, <3>2
  <2>3. CASE attempt.state = "ABORTED" /\ attempt.cleanup = o /\ Goes(c, "x_gone")
    <3>1. Held(c)'
      BY <2>1, <2>3 DEF Goes, Held, PreparePC, DiscardPC, Disposing, Saving
    <3>2. Enters(c, "x_gone") /\ "x_gone" \in Labels
      BY <2>3 DEF Goes, Enters, Labels, DiscardPC
    <3> QED
      BY <1>e, <2>1, <3>1, <3>2
  <2> QED
    BY <1>0, <1>2, <2>2, <2>3, DiscardReadForm
<1>3. ASSUME NEW s \in Stamps, NEW t \in Targets, OperatorRead(c, t, s)
      PROVE  CoreInv' /\ attempt' = attempt
  <2> DEFINE l == IF Clean("READY") THEN "o_guard" ELSE "o_save"
  <2>1. /\ Still /\ Enters(c, l)
        /\ cli'[c].att \in AttemptRecords /\ cli'[c].att.state = t
        /\ t \in AttemptNext[attempt.state]
        /\ t = "ABORTED" => cli'[c].att.cleanup = Operator
        /\ t # "ABORTED" => cli'[c].att.cleanup = attempt.cleanup
    BY <1>0, <1>3, OperatorReadForm
  <2>2. l \in Labels /\ l \in Saving /\ (attempt.state = "DRAFT" => l \in Early)
    BY DEF Labels, Saving, Early, Clean
  <2>3. t = "READY" => attempt.cleanup = None
    <3>1. ASSUME t = "READY" PROVE attempt.state = "DRAFT"
      BY <1>0, <2>1, <3>1, FilesTyped DEF AttemptNext, AttemptStates
    <3> QED
      BY <1>0, <3>1 DEF DraftInv
  <2>4. Held(c)'
    <3>1. /\ cli'[c].pc \notin PreparePC /\ cli'[c].pc \notin DiscardPC
          /\ cli'[c].pc \notin Disposing /\ cli'[c].pc # "d_commit"
      BY <2>1 DEF Enters, PreparePC, DiscardPC, Disposing
    <3> HIDE DEF l
    <3> QED
      BY <2>1, <2>3, <3>1 DEF Held
  <2> HIDE DEF l
  <2> QED
    BY <1>e, <2>1, <2>2, <2>4
<1>4. CASE DispatchVerify(c)
  <2>1. Clean("READY") /\ Still /\ Goes(c, "d_bind")
    BY <1>0, <1>4, DispatchVerifyForm
  <2>2. Held(c)'
    BY <2>1 DEF Goes, Held, PreparePC, DiscardPC, Disposing, Saving
  <2>3. Enters(c, "d_bind") /\ "d_bind" \in Labels /\ attempt.state # "DRAFT"
    BY <2>1 DEF Goes, Enters, Labels, Clean
  <2> QED
    BY <1>e, <2>1, <2>2, <2>3
<1> QED
  BY <1>1, <1>2, <1>3, <1>4 DEF Read

LEMMA CrashCore ==
  ASSUME CoreInv, NEW c \in Clients, Crash(c)
  PROVE  CoreInv' /\ attempt' = attempt
<1>1. TypeOK
  BY DEF CoreInv
<1>2. /\ Goes(c, "idle") /\ Files /\ crashes' \in 0..MaxCrashes /\ faults' \in 0..MaxFaults
  BY <1>1, CrashForm, FilesTyped
<1> QED
  BY <1>2, OtherMove DEF Files

LEMMA StandStep ==
  ASSUME CoreInv, attempt' = attempt, cli' = cli, receipt' = receipt,
         quarantine' = quarantine, final' \in Directories,
         crashes' = crashes, faults' = faults
  PROVE  CoreInv'
<1>1. TypeOK'
  BY DEF CoreInv, TypeOK
<1>2. HeldInv'
  <2>1. HeldInv
    BY DEF CoreInv
  <2> QED
    BY <2>1 DEF HeldInv, Held, Prepared
<1>3. DraftInv'
  BY DEF CoreInv, DraftInv
<1> QED
  BY <1>1, <1>2, <1>3 DEF CoreInv

LEMMA WorkerForm ==
  ASSUME WorkerWrites
  PROVE  /\ attempt' = attempt /\ receipt' = receipt /\ quarantine' = quarantine
         /\ cli' = cli /\ crashes' = crashes /\ faults' = faults
         /\ attempt.state = "RUNNING" /\ final = "whole" /\ final' = "damaged"
BY DEF WorkerWrites, counts

LEMMA CoreInit ==
  ASSUME Init
  PROVE  CoreInv
<1>1. TypeOK
  <2>1. cli \in [Clients -> ClientRecords]
    BY IdleTyped DEF Init
  <2>2. attempt \in AttemptRecords
    BY DEF Init, AttemptRecords, AttemptStates, AttemptNext
  <2>3. receipt \in Receipts
    BY DEF Init, Receipts
  <2> QED
    BY <2>1, <2>2, <2>3, WorkspaceAssumption DEF Init, TypeOK, ClientRecords, Directories
<1>2. \A c \in Clients : cli[c].pc = "idle"
  BY DEF Init, IdleClient
<1>3. HeldInv
  BY <1>2 DEF HeldInv, Held, PreparePC, DiscardPC, Disposing, Saving
<1>4. DraftInv
  BY <1>2 DEF Init, DraftInv, Early, NoReceipt
<1> QED
  BY <1>1, <1>3, <1>4 DEF CoreInv

LEMMA CoreStep ==
  ASSUME CoreInv, [Next]_vars
  PROVE  CoreInv' /\ (attempt'.state = "DRAFT" => attempt' = attempt)
<1>1. ASSUME NEW c \in Clients, Read(c) \/ Step(c) \/ Crash(c)
      PROVE  CoreInv' /\ (attempt'.state = "DRAFT" => attempt' = attempt)
  BY <1>1, ReadCore, CrashCore, PrepareCore, DiscardCore, OtherCore DEF Step
<1>2. CASE WorkerWrites
  BY <1>2, WorkerForm, StandStep, StillTyped DEF CoreInv
<1>3. CASE UNCHANGED vars
  <2>1. final' \in Directories
    BY <1>3, FilesTyped DEF CoreInv, vars
  <2> QED
    BY <1>3, <2>1, StandStep DEF vars
<1> QED
  BY <1>1, <1>2, <1>3 DEF Next

-----------------------------------------------------------------------------
(* One preparation holds the directory of a DRAFT attempt. *)
LEMMA HolderQuiet ==
  ASSUME HolderFacts, NEW c \in Clients, NEW l, Enters(c, l),
         l \notin Holding \cup Failing, cli[c].pc \notin Holding \cup Failing,
         final' = final, receipt' = receipt, faults \in Nat, faults' \in {faults, faults + 1},
         faults' <= 1
  PROVE  HolderFacts'
<1>1. /\ \A d \in Clients : d # c => cli'[d] = cli[d]
      /\ cli'[c].pc \notin Holding \cup Failing
  BY DEF Enters
<1>2. "c_receipt" \in Failing /\ "p_stored" \in Failing /\ "p_confirm" \in Holding
  BY DEF Failing, Holding
<1>3. (\A d, e \in Clients : cli[d].pc \in Holding /\ cli[e].pc \in Holding => d = e)'
  BY <1>1 DEF HolderFacts
<1>4. (\A d \in Clients : cli[d].pc \in Holding =>
         final = "whole" \/ (cli[d].pc = "c_final" /\ final = "damaged"))'
  BY <1>1 DEF HolderFacts
<1>5. (final # "absent" => \E d \in Clients : cli[d].pc \in Holding)'
  BY <1>1 DEF HolderFacts
<1>6. (receipt # NoReceipt =>
         \E d \in Clients :
           \/ cli[d].pc \in Holding \cup {"c_receipt"} /\ cli[d].wrote
           \/ cli[d].pc = "p_stored" /\ receipt = cli[d].rec)'
  BY <1>1, <1>2 DEF HolderFacts
<1>7. (\A d \in Clients : cli[d].pc \in Failing => faults = 1)'
  BY <1>1 DEF HolderFacts
<1>8. (\A d \in Clients : cli[d].pc = "p_confirm" => receipt = cli[d].rec \/ faults = 1)'
  BY <1>1, <1>2 DEF HolderFacts
<1> QED
  BY <1>3, <1>4, <1>5, <1>6, <1>7, <1>8 DEF HolderFacts

(* The client that holds the directory goes on holding it. *)
LEMMA HolderGoes ==
  ASSUME HolderFacts, NEW c \in Clients, NEW l, Goes(c, l), l # "idle",
         cli[c].pc \in Holding, l \in Holding,
         final' = final, final = "whole",
         faults \in Nat, faults' \in {faults, faults + 1}, faults' <= 1,
         l \in Failing => faults' = 1,
         \/ receipt' = cli[c].rec /\ l \in {"p_confirm", "p_stored"}
         \/ receipt' = receipt /\ (cli[c].pc = "p_stored" => receipt # cli[c].rec),
         l = "p_confirm" => receipt' = cli[c].rec
  PROVE  HolderFacts'
<1>1. /\ \A d \in Clients : d # c => cli'[d] = cli[d] /\ cli[d].pc \notin Holding
      /\ cli'[c].pc = l /\ cli'[c].rec = cli[c].rec
      /\ cli'[c].wrote = (cli[c].wrote \/ l = "p_confirm")
  BY DEF Goes, HolderFacts
<1>2. "p_stored" \in Holding /\ "p_confirm" \in Holding
  BY DEF Holding
<1>3. (\A d, e \in Clients : cli[d].pc \in Holding /\ cli[e].pc \in Holding => d = e)'
  BY <1>1
<1>4. (\A d \in Clients : cli[d].pc \in Holding =>
         final = "whole" \/ (cli[d].pc = "c_final" /\ final = "damaged"))'
  BY <1>1
<1>5. (final # "absent" => \E d \in Clients : cli[d].pc \in Holding)'
  BY <1>1
<1>6. (receipt # NoReceipt =>
         \E d \in Clients :
           \/ cli[d].pc \in Holding \cup {"c_receipt"} /\ cli[d].wrote
           \/ cli[d].pc = "p_stored" /\ receipt = cli[d].rec)'
  <2>1. CASE receipt' = cli[c].rec /\ l \in {"p_confirm", "p_stored"}
    BY <1>1, <1>2, <2>1
  <2>2. CASE receipt' = receipt /\ (cli[c].pc = "p_stored" => receipt # cli[c].rec)
    <3> SUFFICES ASSUME receipt # NoReceipt
        PROVE \E d \in Clients :
                \/ cli'[d].pc \in Holding \cup {"c_receipt"} /\ cli'[d].wrote
                \/ cli'[d].pc = "p_stored" /\ receipt' = cli'[d].rec
      BY <2>2
    <3>1. PICK d \in Clients :
            \/ cli[d].pc \in Holding \cup {"c_receipt"} /\ cli[d].wrote
            \/ cli[d].pc = "p_stored" /\ receipt = cli[d].rec
      BY DEF HolderFacts
    <3>2. CASE d = c
      <4>1. cli[c].wrote
        BY <2>2, <3>1, <3>2
      <4> QED
        BY <1>1, <4>1
    <3>3. CASE d # c
      BY <1>1, <2>2, <3>1, <3>3
    <3> QED
      BY <3>2, <3>3
  <2> QED
    BY <2>1, <2>2
<1>7. (\A d \in Clients : cli[d].pc \in Failing => faults = 1)'
  BY <1>1 DEF HolderFacts
<1>8. (\A d \in Clients : cli[d].pc = "p_confirm" => receipt = cli[d].rec \/ faults = 1)'
  BY <1>1, <1>2
<1> QED
  BY <1>3, <1>4, <1>5, <1>6, <1>7, <1>8 DEF HolderFacts

LEMMA HolderPrepare ==
  ASSUME CoreInv, HolderFacts, NEW c \in Clients, PrepareStep(c), faults' <= 1,
         attempt.state = "DRAFT", attempt' = attempt
  PROVE  HolderFacts'
<1>0. /\ TypeOK /\ Held(c) /\ faults \in Nat
      /\ attempt.runtime = None /\ attempt.candidate = None /\ attempt.cleanup = None
  BY FilesTyped DEF CoreInv, HeldInv, DraftInv
<1>f. (Worked \/ Failed) => faults' \in {faults, faults + 1}
  BY DEF Worked, Failed
<1>g. Failed => faults' = 1 /\ faults = 0
  BY <1>0 DEF Failed
<1>e. \A l : Goes(c, l) => Enters(c, l)
  BY DEF Goes, Enters
<1>w. cli[c].pc \in Holding => final = "whole" \/ cli[c].pc = "c_final"
  BY DEF HolderFacts
<1>k. cli[c].pc \in Failing => faults = 1
  BY DEF HolderFacts
<1>1. CASE PreparePaths(c)
  BY <1>0, <1>1, <1>e, <1>f, PreparePathsForm, HolderQuiet
     DEF At, Still, Files, Worked, Holding, Failing
<1>2. CASE PrepareUnclaimed(c)
  BY <1>0, <1>2, <1>e, <1>f, PrepareUnclaimedForm, HolderQuiet
     DEF At, Still, Files, Worked, Holding, Failing
<1>3. CASE Publish(c)
  <2>1. CASE final' = final /\ Goes(c, "idle")
    BY <1>0, <1>3, <1>e, <1>f, <2>1, PublishForm, HolderQuiet DEF At, Holding, Failing
  <2>2. CASE /\ Worked /\ final = "absent" /\ final' = "whole" /\ Goes(c, "p_verify")
    <3>1. \A d \in Clients : cli[d].pc \notin Holding
      BY <2>2 DEF HolderFacts
    <3>2. /\ \A d \in Clients : d # c => cli'[d] = cli[d]
          /\ cli'[c].pc = "p_verify" /\ cli[c].pc = "p_publish"
          /\ receipt' = receipt /\ faults' = faults
      BY <1>0, <1>3, <2>2, PublishForm DEF Goes, At, Worked
    <3>3. /\ "p_verify" \in Holding /\ "p_verify" \notin Failing /\ "p_publish" \notin Holding
          /\ "p_stored" \in Failing
      BY DEF Holding, Failing
    <3>4. (receipt # NoReceipt =>
             \E d \in Clients :
               \/ cli[d].pc \in Holding \cup {"c_receipt"} /\ cli[d].wrote
               \/ cli[d].pc = "p_stored" /\ receipt = cli[d].rec)'
      BY <3>2, <3>3 DEF HolderFacts
    <3> QED
      BY <2>2, <3>1, <3>2, <3>3, <3>4 DEF HolderFacts
  <2> QED
    BY <1>0, <1>3, <2>1, <2>2, PublishForm
<1>4. CASE VerifyPublished(c)
  BY <1>0, <1>4, <1>f, <1>g, <1>w, VerifyPublishedForm, HolderGoes
     DEF At, Files, Worked, Holding, Failing
<1>5. CASE WriteReceipt(c)
  BY <1>0, <1>5, <1>f, <1>g, <1>w, WriteReceiptForm, HolderGoes
     DEF At, Worked, Holding, Failing
<1>6. CASE ReceiptStored(c)
  BY <1>0, <1>6, <1>f, <1>g, <1>k, <1>w, ReceiptStoredForm, HolderGoes
     DEF At, Files, Worked, Holding, Failing
<1>7. CASE ConfirmReceipt(c)
  <2>1. cli[c].pc = "p_confirm" => receipt = cli[c].rec \/ faults = 1
    BY DEF HolderFacts
  <2> QED
    BY <1>0, <1>7, <1>f, <1>g, <1>w, <2>1, ConfirmReceiptForm, HolderGoes
       DEF At, Files, Worked, Holding, Failing
<1>8. CASE ReadyCheck(c)
  <2>1. LegalAttemptMove(attempt, cli[c].att)
    BY <1>0, <1>8 DEF ReadyCheck, At, Held, Prepared, PreparePC, LegalAttemptMove, AttemptNext,
                      AttemptTerminal
  <2> QED
    BY <1>0, <1>8, <1>f, <1>g, <1>w, <2>1, ReadyCheckForm, HolderGoes
       DEF At, Files, Worked, Holding, Failing
<1>9. CASE ReadyCommit(c)
  <2>1. attempt # cli[c].att
    BY <1>0, <1>9 DEF ReadyCommit, At, Held, Prepared, PreparePC
  <2> QED
    BY <1>0, <1>9, <1>f, <1>g, <1>w, <2>1, ReadyCommitForm, HolderGoes
       DEF At, Worked, Holding, Failing
<1>10. CASE ReadyReread(c)
  <2>1. attempt # cli[c].att
    BY <1>0, <1>10 DEF ReadyReread, Held, Prepared, PreparePC
  <2> QED
    BY <1>0, <1>10, <1>f, <1>g, <1>k, <1>w, <2>1, ReadyRereadForm, HolderGoes
       DEF At, Files, Worked, Holding, Failing
<1>11. CASE CompensateFinal(c)
  <2>1. /\ cli[c].pc = "c_final" /\ receipt' = receipt
        /\ \/ final = "whole" /\ final' = "damaged" /\ Goes(c, "c_final")
           \/ final # "whole" /\ final' = "absent" /\ Goes(c, "c_receipt")
        /\ faults' = faults /\ faults = 1
    BY <1>0, <1>11, <1>g, <1>k, CompensateFinalForm DEF At, Failing, Worked
  <2>2. /\ \A d \in Clients : d # c => cli'[d] = cli[d] /\ cli[d].pc \notin Holding
        /\ cli'[c].rec = cli[c].rec /\ cli'[c].wrote = cli[c].wrote
        /\ cli'[c].pc \in {"c_final", "c_receipt"}
        /\ cli'[c].pc = "c_final" <=> final' = "damaged"
        /\ final' \in {"damaged", "absent"}
    <3>1. cli[c].wrote \in BOOLEAN
      BY <1>0, ClientTyped
    <3> QED
      BY <2>1, <3>1 DEF Goes, HolderFacts, Holding
  <2>3. /\ "c_final" \in Holding /\ "c_receipt" \notin Holding /\ "p_confirm" \in Holding
    BY DEF Holding
  <2>4. (receipt # NoReceipt =>
           \E d \in Clients :
             \/ cli[d].pc \in Holding \cup {"c_receipt"} /\ cli[d].wrote
             \/ cli[d].pc = "p_stored" /\ receipt = cli[d].rec)'
    BY <2>1, <2>2, <2>3 DEF HolderFacts
  <2>5. (\A d \in Clients : cli[d].pc \in Failing => faults = 1)'
    BY <2>1
  <2>6. (\A d \in Clients : cli[d].pc = "p_confirm" => receipt = cli[d].rec \/ faults = 1)'
    BY <2>1
  <2> QED
    BY <2>1, <2>2, <2>3, <2>4, <2>5, <2>6 DEF HolderFacts
<1>12. CASE CompensateReceipt(c)
  <2>1. /\ cli[c].pc = "c_receipt" /\ cli'[c].pc = "idle" /\ final' = final
        /\ receipt' = (IF cli[c].wrote THEN NoReceipt ELSE receipt)
        /\ \A d \in Clients : d # c => cli'[d] = cli[d]
        /\ faults' = faults /\ faults = 1
    BY <1>0, <1>12, <1>g, <1>k, CompensateReceiptForm DEF At, Failing, Worked, Goes
  <2>2. "c_receipt" \notin Holding /\ "idle" \notin Holding /\ "idle" \notin Failing
    BY DEF Holding, Failing
  <2>3. (receipt # NoReceipt =>
           \E d \in Clients :
             \/ cli[d].pc \in Holding \cup {"c_receipt"} /\ cli[d].wrote
             \/ cli[d].pc = "p_stored" /\ receipt = cli[d].rec)'
    BY <2>1, <2>2 DEF HolderFacts
  <2> QED
    BY <2>1, <2>2, <2>3 DEF HolderFacts
<1> QED
  BY <1>1, <1>2, <1>3, <1>4, <1>5, <1>6, <1>7, <1>8, <1>9, <1>10, <1>11, <1>12
     DEF PrepareStep

LEMMA CountsStep ==
  ASSUME TypeOK, Next
  PROVE  /\ crashes \in Nat /\ faults \in Nat
         /\ crashes' \in {crashes, crashes + 1} /\ faults' \in {faults, faults + 1}
<1>1. crashes \in Nat /\ faults \in Nat
  BY FilesTyped
<1>2. ASSUME NEW c \in Clients, Step(c)
      PROVE  crashes' = crashes /\ faults' \in {faults, faults + 1}
  BY <1>2 DEF Step, PrepareStep, DiscardStep, OtherStep, PreparePaths, PrepareUnclaimed, Publish,
     VerifyPublished, WriteReceipt, ReceiptStored, ConfirmReceipt, ReadyCheck, ReadyCommit,
     ReadyReread, CompensateFinal, CompensateReceipt, DiscardGone, DiscardStale, DiscardReceipt,
     DiscardVerify, DiscardRename, DiscardMark, DiscardWrite, DiscardConfirm, DiscardFinal,
     DiscardRemove, AbortCheck, AbortCommit, DiscardUnlink, OperatorGuard, OperatorCheck,
     OperatorCommit, BindCheck, BindCommit, CheckAttempt, CommitAttempt, Works, Raises, counts
<1>3. ASSUME NEW c \in Clients, Read(c)
      PROVE  crashes' = crashes /\ faults' = faults
  BY <1>3 DEF Read, PrepareRead, DiscardRead, OperatorRead, DispatchVerify, counts
<1>4. ASSUME NEW c \in Clients, Crash(c)
      PROVE  crashes' = crashes + 1 /\ faults' = faults
  BY <1>4 DEF Crash
<1>5. ASSUME WorkerWrites
      PROVE  crashes' = crashes /\ faults' = faults
  BY <1>5, WorkerForm
<1>6. crashes' \in {crashes, crashes + 1} /\ faults' \in {faults, faults + 1}
  <2>1. CASE \E c \in Clients : Read(c) \/ Step(c) \/ Crash(c)
    BY <1>2, <1>3, <1>4, <2>1
  <2>2. CASE WorkerWrites
    BY <1>5, <2>2
  <2> QED
    BY <2>1, <2>2 DEF Next
<1> QED
  BY <1>1, <1>6

LEMMA HolderStep ==
  ASSUME CoreInv, HolderInv, Next
  PROVE  HolderInv'
<1> SUFFICES ASSUME crashes' = 0, faults' <= 1, attempt'.state = "DRAFT"
             PROVE  HolderFacts'
  BY DEF HolderInv
<1>1. TypeOK /\ crashes = 0 /\ faults <= 1 /\ faults \in Nat /\ faults' \in {faults, faults + 1}
  BY CountsStep DEF CoreInv
<1>2. attempt' = attempt /\ attempt.state = "DRAFT"
  BY CoreStep DEF CoreInv
<1>3. HolderFacts
  BY <1>1, <1>2 DEF HolderInv
<1>4. \A c \in Clients : cli[c].pc \in Early
  BY <1>2 DEF CoreInv, DraftInv
<1>5. ~Clean("READY") /\ attempt.state # "ABORTED"
  BY <1>2 DEF Clean
<1>6. ASSUME NEW c \in Clients, Read(c)
      PROVE  HolderFacts'
  <2>1. ASSUME NEW s \in Stamps, PrepareRead(c, s) PROVE HolderFacts'
    BY <1>1, <1>3, <2>1, PrepareReadForm, HolderQuiet DEF At, Still, Files, Holding, Failing
  <2>2. ASSUME NEW s \in Stamps, NEW o \in Outcomes, DiscardRead(c, o, s) PROVE FALSE
    BY <1>1, <1>5, <2>2, DiscardReadForm
  <2>3. ASSUME NEW s \in Stamps, NEW t \in Targets, OperatorRead(c, t, s) PROVE HolderFacts'
    <3>1. At(c, "idle") /\ Still /\ Enters(c, "o_save")
      BY <1>1, <1>5, <2>3, OperatorReadForm
    <3> QED
      BY <1>1, <1>3, <3>1, HolderQuiet DEF At, Still, Files, Holding, Failing
  <2>4. ASSUME DispatchVerify(c) PROVE FALSE
    BY <1>1, <1>5, <2>4, DispatchVerifyForm
  <2> QED
    BY <1>6, <2>1, <2>2, <2>3, <2>4 DEF Read
<1>7. ASSUME NEW c \in Clients, PrepareStep(c)
      PROVE  HolderFacts'
  BY <1>2, <1>3, <1>7, HolderPrepare
<1>8. ASSUME NEW c \in Clients, DiscardStep(c)
      PROVE  FALSE
  BY <1>2, <1>8, DiscardCore
<1>9. ASSUME NEW c \in Clients, OtherStep(c)
      PROVE  HolderFacts'
  <2>e. \A l : Goes(c, l) => Enters(c, l)
    BY DEF Goes, Enters
  <2>1. CASE OperatorGuard(c)
    BY <1>4, <2>1 DEF OperatorGuard, At, Early, PreparePC
  <2>2. CASE OperatorCheck(c)
    BY <1>1, <1>3, <2>2, <2>e, OperatorCheckForm, HolderQuiet DEF At, Files, Holding, Failing
  <2>3. CASE OperatorCommit(c)
    BY <1>1, <1>3, <2>3, <2>e, OperatorCommitForm, HolderQuiet DEF At, Holding, Failing
  <2>4. CASE \E s \in Stamps : BindCheck(c, s)
    BY <1>4, <2>4 DEF BindCheck, At, Early, PreparePC
  <2>5. CASE BindCommit(c)
    BY <1>4, <2>5 DEF BindCommit, At, Early, PreparePC
  <2> QED
    BY <1>9, <2>1, <2>2, <2>3, <2>4, <2>5 DEF OtherStep
<1>10. ASSUME NEW c \in Clients, Crash(c)
       PROVE  FALSE
  BY <1>1, <1>10, CrashForm
<1>11. CASE WorkerWrites
  BY <1>2, <1>11, WorkerForm
<1> QED
  BY <1>6, <1>7, <1>8, <1>9, <1>10, <1>11 DEF Next, Step

(* Every reachable state satisfies what holds whatever runs beside what.        *)
THEOREM WorkspaceCorrect == Spec => []AnyInv
<1>1. Init => AnyInv
  <2> SUFFICES ASSUME Init PROVE AnyInv
    OBVIOUS
  <2>1. CoreInv
    BY CoreInit
  <2>2. \A c \in Clients : cli[c].pc = "idle"
    BY DEF Init, IdleClient
  <2>3. HolderFacts
    BY <2>2 DEF Init, HolderFacts, Holding, Failing
  <2> QED
    BY <2>1, <2>3 DEF AnyInv, HolderInv
<1>2. AnyInv /\ [Next]_vars => AnyInv'
  <2> SUFFICES ASSUME AnyInv, [Next]_vars PROVE AnyInv'
    OBVIOUS
  <2>1. CoreInv'
    BY CoreStep DEF AnyInv
  <2>2. CASE Next
    BY <2>1, <2>2, HolderStep DEF AnyInv
  <2>3. CASE UNCHANGED vars
    <3>1. HolderFacts <=> HolderFacts'
      BY <2>3 DEF vars, HolderFacts
    <3> QED
      BY <2>1, <2>3, <3>1 DEF AnyInv, HolderInv, vars
  <2> QED
    BY <2>2, <2>3
<1> QED
  BY <1>1, <1>2, PTL DEF Spec

(* The attempt's record, its receipt, its two directories and what every        *)
(* command holds have their types.                                              *)
THEOREM WorkspaceTyped == Spec => []TypeOK
<1>1. AnyInv => TypeOK
  BY DEF AnyInv, CoreInv
<1> QED
  BY <1>1, WorkspaceCorrect, PTL

(* However many preparations compete, beside whatever else, and whichever one   *)
(* call of theirs fails, when every command has ended an attempt that is still  *)
(* in DRAFT has neither a directory nor a receipt: the holder of the directory  *)
(* removed it, and the one that wrote the receipt removed that.                 *)
THEOREM PreparationProven == Spec => []FailedPreparationLeavesNothing
<1>1. AnyInv => FailedPreparationLeavesNothing
  <2> SUFFICES ASSUME AnyInv, Quiet, faults <= 1, attempt.state = "DRAFT"
               PROVE  final = "absent" /\ quarantine = "absent" /\ receipt = NoReceipt
    BY DEF FailedPreparationLeavesNothing
  <2>1. HolderFacts /\ quarantine = "absent"
    BY DEF AnyInv, CoreInv, DraftInv, HolderInv, Quiet
  <2>2. \A c \in Clients : cli[c].pc = "idle"
    BY DEF Quiet, At
  <2> QED
    BY <2>1, <2>2 DEF HolderFacts, Holding
<1> QED
  BY <1>1, WorkspaceCorrect, PTL

-----------------------------------------------------------------------------
(* One terminal: every step leaves the files as the next one expects them. *)
LEMMA TerminalPrepare ==
  ASSUME OneTerminal, CoreInv, Standing, NEW c \in Clients, Where(c), PrepareStep(c)
  PROVE  Where(c)' /\ Standing'
<1>0. /\ TypeOK /\ Held(c) /\ faults \in Nat /\ MaxFaults \in Nat /\ faults <= MaxFaults
      /\ MaxFaults <= 2 /\ cli[c].pc \in Labels
      /\ attempt.state = "DRAFT" => quarantine = "absent" /\ attempt.runtime = None
                                      /\ attempt.candidate = None /\ attempt.cleanup = None
  BY FilesTyped, ClientTyped DEF CoreInv, HeldInv, DraftInv, OneTerminal
<1>1. CASE PreparePaths(c)
  BY <1>0, <1>1, PreparePathsForm
     DEF At, Still, Files, Goes, Where, PreparePC, Disposing, DiscardPC, Standing, ReadyClean,
         ReadyDisposable, RunningHasWorkspace
<1>2. CASE PrepareUnclaimed(c)
  BY <1>0, <1>2, PrepareUnclaimedForm, FilesTyped, ReceiptTyped
     DEF At, Still, Files, Goes, Where, PreparePC, Disposing, DiscardPC, Standing, ReadyClean,
         ReadyDisposable, RunningHasWorkspace
<1>3. CASE Publish(c)
  BY <1>0, <1>3, PublishForm
     DEF At, Goes, Where, PreparePC, Disposing, DiscardPC, Standing, ReadyClean,
         ReadyDisposable, RunningHasWorkspace
<1>4. CASE VerifyPublished(c)
  BY <1>0, <1>4, VerifyPublishedForm
     DEF At, Files, Goes, Where, PreparePC, Disposing, DiscardPC, Standing, ReadyClean,
         ReadyDisposable, RunningHasWorkspace
<1>5. CASE WriteReceipt(c)
  BY <1>0, <1>5, WriteReceiptForm
     DEF At, Goes, Where, PreparePC, Disposing, DiscardPC, Standing, ReadyClean,
         ReadyDisposable, RunningHasWorkspace
<1>6. CASE ReceiptStored(c)
  BY <1>0, <1>6, ReceiptStoredForm
     DEF At, Files, Goes, Where, PreparePC, Disposing, DiscardPC, Standing, ReadyClean,
         ReadyDisposable, RunningHasWorkspace
<1>7. CASE ConfirmReceipt(c)
  BY <1>0, <1>7, ConfirmReceiptForm
     DEF At, Files, Goes, Where, PreparePC, Disposing, DiscardPC, Standing, ReadyClean,
         ReadyDisposable, RunningHasWorkspace
<1>8. CASE ReadyCheck(c)
  <2>1. LegalAttemptMove(attempt, cli[c].att)
    BY <1>0, <1>8 DEF ReadyCheck, At, Where, Held, Prepared, PreparePC, LegalAttemptMove,
                      AttemptNext, AttemptTerminal
  <2> QED
    BY <1>0, <1>8, <2>1, ReadyCheckForm
       DEF At, Files, Failed, Goes, Where, PreparePC, Disposing, DiscardPC, Standing, ReadyClean,
           ReadyDisposable, RunningHasWorkspace
<1>9. CASE ReadyCommit(c)
  <2>1. /\ cli[c].att.state = "READY" /\ cli[c].att.runtime = None
        /\ cli[c].att.cleanup = None /\ cli[c].rec.state = "PREPARED"
    BY <1>0, <1>9 DEF ReadyCommit, At, Held, Prepared, PreparePC
  <2>2. CASE Worked /\ attempt' = cli[c].att /\ Goes(c, "idle")
    BY <1>0, <1>9, <2>1, <2>2, ReadyCommitForm
       DEF At, Goes, Where, PreparePC, Disposing, DiscardPC, Standing, ReadyClean,
           ReadyDisposable, RunningHasWorkspace
  <2>3. CASE Failed /\ attempt' \in {attempt, cli[c].att} /\ Goes(c, "p_reread")
    BY <1>0, <1>9, <2>1, <2>3, ReadyCommitForm
       DEF At, Failed, Goes, Where, PreparePC, Disposing, DiscardPC, Standing, ReadyClean,
           ReadyDisposable, RunningHasWorkspace
  <2> QED
    BY <1>0, <1>9, <2>2, <2>3, ReadyCommitForm
<1>10. CASE ReadyReread(c)
  <2>1. cli[c].att.state = "READY"
    BY <1>0, <1>10 DEF ReadyReread, Held, Prepared, PreparePC
  <2> QED
    BY <1>0, <1>10, <2>1, ReadyRereadForm
       DEF At, Files, Worked, Failed, Goes, Where, PreparePC, Disposing, DiscardPC, Standing,
           ReadyClean, ReadyDisposable, RunningHasWorkspace
<1>11. CASE CompensateFinal(c)
  BY <1>0, <1>11, CompensateFinalForm
     DEF At, Goes, Where, PreparePC, Disposing, DiscardPC, Standing, ReadyClean,
         ReadyDisposable, RunningHasWorkspace
<1>12. CASE CompensateReceipt(c)
  BY <1>0, <1>12, CompensateReceiptForm
     DEF At, Goes, Where, PreparePC, Disposing, DiscardPC, Standing, ReadyClean,
         ReadyDisposable, RunningHasWorkspace
<1> QED
  BY <1>1, <1>2, <1>3, <1>4, <1>5, <1>6, <1>7, <1>8, <1>9, <1>10, <1>11, <1>12
     DEF PrepareStep

LEMMA TerminalDiscard ==
  ASSUME OneTerminal, CoreInv, Standing, NEW c \in Clients, Where(c), DiscardStep(c)
  PROVE  Where(c)' /\ Standing'
<1>0. TypeOK /\ Held(c) /\ cli[c].pc \in Labels
  BY ClientTyped DEF CoreInv, HeldInv
<1>1. CASE DiscardGone(c)
  BY <1>0, <1>1, DiscardGoneForm
     DEF At, Still, Files, Goes, Where, PreparePC, Disposing, DiscardPC, Standing, ReadyClean,
         ReadyDisposable, RunningHasWorkspace
<1>2. CASE DiscardStale(c)
  BY <1>0, <1>2, DiscardStaleForm
     DEF At, Still, Files, Goes, Where, PreparePC, Disposing, DiscardPC, Standing, ReadyClean,
         ReadyDisposable, RunningHasWorkspace
<1>3. CASE DiscardReceipt(c)
  BY <1>0, <1>3, DiscardReceiptForm
     DEF At, Still, Files, Goes, Enters, Where, PreparePC, Disposing, DiscardPC, Standing,
         ReadyClean, ReadyDisposable, RunningHasWorkspace
<1>4. CASE DiscardVerify(c)
  BY <1>0, <1>4, DiscardVerifyForm
     DEF At, Still, Files, Goes, Where, PreparePC, Disposing, DiscardPC, Standing, ReadyClean,
         ReadyDisposable, RunningHasWorkspace
<1>5. CASE DiscardRename(c)
  BY <1>0, <1>5, DiscardRenameForm
     DEF At, Goes, Where, PreparePC, Disposing, DiscardPC, Standing, ReadyClean,
         ReadyDisposable, RunningHasWorkspace
<1>6. CASE DiscardMark(c)
  <2>1. cli[c].rec.state # "MISSING"
    BY <1>0, <1>6 DEF DiscardMark, At, Held, Disposing, DiscardPC
  <2> QED
    BY <1>0, <1>6, <2>1, DiscardMarkForm
       DEF At, Still, Files, Goes, Enters, Where, PreparePC, Disposing, DiscardPC, Standing,
           ReadyClean, ReadyDisposable, RunningHasWorkspace
<1>7. CASE DiscardWrite(c)
  BY <1>0, <1>7, DiscardWriteForm
     DEF At, Goes, Where, PreparePC, Disposing, DiscardPC, Standing, ReadyClean,
         ReadyDisposable, RunningHasWorkspace
<1>8. CASE DiscardConfirm(c)
  BY <1>0, <1>8, DiscardConfirmForm
     DEF At, Still, Files, Goes, Where, PreparePC, Disposing, DiscardPC, Standing, ReadyClean,
         ReadyDisposable, RunningHasWorkspace
<1>9. CASE DiscardFinal(c)
  BY <1>0, <1>9, DiscardFinalForm
     DEF At, Still, Files, Goes, Where, PreparePC, Disposing, DiscardPC, Standing, ReadyClean,
         ReadyDisposable, RunningHasWorkspace
<1>10. CASE DiscardRemove(c)
  BY <1>0, <1>10, DiscardRemoveForm
     DEF At, Goes, Where, PreparePC, Disposing, DiscardPC, Standing, ReadyClean,
         ReadyDisposable, RunningHasWorkspace
<1>11. CASE AbortCheck(c)
  BY <1>0, <1>11, AbortCheckForm
     DEF At, Files, Goes, Where, PreparePC, Disposing, DiscardPC, Standing, ReadyClean,
         ReadyDisposable, RunningHasWorkspace
<1>12. CASE AbortCommit(c)
  <2>1. cli[c].att.state = "ABORTED"
    BY <1>0, <1>12 DEF AbortCommit, At, Held, Disposing, DiscardPC
  <2> QED
    BY <1>0, <1>12, <2>1, AbortCommitForm
       DEF At, Goes, Where, PreparePC, Disposing, DiscardPC, Standing, ReadyClean,
           ReadyDisposable, RunningHasWorkspace
<1>13. CASE DiscardUnlink(c)
  BY <1>0, <1>13, DiscardUnlinkForm
     DEF At, Goes, Where, PreparePC, Disposing, DiscardPC, Standing, ReadyClean,
         ReadyDisposable, RunningHasWorkspace
<1> QED
  BY <1>1, <1>2, <1>3, <1>4, <1>5, <1>6, <1>7, <1>8, <1>9, <1>10, <1>11, <1>12, <1>13
     DEF DiscardStep

LEMMA TerminalOther ==
  ASSUME OneTerminal, CoreInv, Standing, NEW c \in Clients, Where(c), OtherStep(c)
  PROVE  Where(c)' /\ Standing'
<1>0. /\ TypeOK /\ Held(c) /\ cli[c].pc \in Labels
      /\ Targets \subseteq {"ABORTED"}
  BY ClientTyped, WorkspaceAssumption DEF CoreInv, HeldInv, OneTerminal
<1>1. CASE OperatorGuard(c)
  BY <1>0, <1>1, OperatorGuardForm
     DEF At, Still, Files, Goes, Where, PreparePC, Disposing, DiscardPC, Standing, ReadyClean,
         ReadyDisposable, RunningHasWorkspace
<1>2. CASE OperatorCheck(c)
  BY <1>0, <1>2, OperatorCheckForm
     DEF At, Files, Goes, Where, PreparePC, Disposing, DiscardPC, Standing, ReadyClean,
         ReadyDisposable, RunningHasWorkspace
<1>3. CASE OperatorCommit(c)
  <2>1. cli[c].att.state = "ABORTED"
    BY <1>0, <1>3 DEF OperatorCommit, At, Held, Saving
  <2> QED
    BY <1>0, <1>3, <2>1, OperatorCommitForm
       DEF At, Goes, Where, PreparePC, Disposing, DiscardPC, Standing, ReadyClean,
           ReadyDisposable, RunningHasWorkspace
<1>4. CASE \E s \in Stamps : BindCheck(c, s)
  BY <1>0, <1>4, BindCheckForm
     DEF At, Still, Files, Goes, Enters, Where, PreparePC, Disposing, DiscardPC, Standing,
         ReadyClean, ReadyDisposable, RunningHasWorkspace
<1>5. CASE BindCommit(c)
  <2>1. cli[c].att.state = "RUNNING"
    BY <1>0, <1>5 DEF BindCommit, At, Held
  <2> QED
    BY <1>0, <1>5, <2>1, BindCommitForm
       DEF At, Goes, Where, PreparePC, Disposing, DiscardPC, Standing, ReadyClean,
           ReadyDisposable, RunningHasWorkspace
<1> QED
  BY <1>1, <1>2, <1>3, <1>4, <1>5 DEF OtherStep

LEMMA TerminalRead ==
  ASSUME CoreInv, Standing, NEW c \in Clients, Read(c)
  PROVE  Where(c)' /\ Standing'
<1>0. TypeOK
  BY DEF CoreInv
<1>1. ASSUME NEW s \in Stamps, PrepareRead(c, s) PROVE Where(c)' /\ Standing'
  BY <1>0, <1>1, PrepareReadForm
     DEF Clean, Still, Files, Enters, Where, PreparePC, Disposing, DiscardPC, Standing, ReadyClean,
         ReadyDisposable, RunningHasWorkspace
<1>2. ASSUME NEW s \in Stamps, NEW o \in Outcomes, DiscardRead(c, o, s)
      PROVE  Where(c)' /\ Standing'
  BY <1>0, <1>2, DiscardReadForm
     DEF Clean, Still, Files, Goes, Enters, Where, PreparePC, Disposing, DiscardPC, Standing,
         ReadyClean, ReadyDisposable, RunningHasWorkspace
<1>3. ASSUME NEW s \in Stamps, NEW t \in Targets, OperatorRead(c, t, s)
      PROVE  Where(c)' /\ Standing'
  <2>1. Still /\ cli'[c].pc \in {"o_guard", "o_save"}
    BY <1>0, <1>3, OperatorReadForm DEF Enters
  <2> QED
    BY <2>1
       DEF Still, Files, Where, PreparePC, Disposing, DiscardPC, Standing, ReadyClean,
           ReadyDisposable, RunningHasWorkspace
<1>4. CASE DispatchVerify(c)
  BY <1>0, <1>4, DispatchVerifyForm
     DEF Clean, Still, Files, Goes, Where, PreparePC, Disposing, DiscardPC, Standing, ReadyClean,
         ReadyDisposable, RunningHasWorkspace
<1> QED
  BY <1>1, <1>2, <1>3, <1>4 DEF Read

LEMMA TerminalCrash ==
  ASSUME CoreInv, Standing, NEW c \in Clients, Crash(c)
  PROVE  Where(c)' /\ Standing'
<1>0. TypeOK
  BY DEF CoreInv
<1> QED
  BY <1>0, CrashForm
     DEF Files, Goes, Where, PreparePC, Disposing, DiscardPC, Standing, ReadyClean,
         ReadyDisposable, RunningHasWorkspace

LEMMA TerminalWorker ==
  ASSUME CoreInv, TerminalInv, WorkerWrites
  PROVE  TerminalInv'
<1>1. Standing'
  BY WorkerForm DEF TerminalInv, Standing, ReadyClean, ReadyDisposable, RunningHasWorkspace
<1>2. ASSUME NEW c \in Clients PROVE Where(c)'
  <2>1. Held(c) /\ Where(c)
    BY DEF CoreInv, HeldInv, TerminalInv
  <2>2. cli[c].pc \notin PreparePC \cup Disposing \cup {"d_bind", "d_commit"}
    <3>1. cli[c].pc \in {"p_reread", "p_again"} => cli[c].att.state = "READY"
      BY <2>1 DEF Held, Prepared, PreparePC
    <3> QED
      BY <2>1, <3>1, WorkerForm DEF Where
  <2> QED
    BY <2>1, <2>2, WorkerForm DEF Where, PreparePC, Disposing, DiscardPC
<1> QED
  BY <1>1, <1>2 DEF TerminalInv

(* With one terminal and at most two failing calls, every step leaves the       *)
(* files as the next expects them.                                              *)
THEOREM TerminalCorrect ==
  ASSUME OneTerminal
  PROVE  Spec => [](AnyInv /\ TerminalInv)
<1>1. Init => TerminalInv
  <2> SUFFICES ASSUME Init PROVE TerminalInv
    OBVIOUS
  <2>1. \A c \in Clients : cli[c].pc = "idle"
    BY DEF Init, IdleClient
  <2> QED
    BY <2>1 DEF Init, TerminalInv, Where, PreparePC, Disposing, DiscardPC, Standing, ReadyClean,
                ReadyDisposable, RunningHasWorkspace
<1>2. AnyInv /\ TerminalInv /\ [Next]_vars => TerminalInv'
  <2> SUFFICES ASSUME AnyInv, TerminalInv, [Next]_vars PROVE TerminalInv'
    OBVIOUS
  <2>0. CoreInv /\ Standing /\ \A c \in Clients : Where(c)
    BY DEF AnyInv, TerminalInv
  <2>1. ASSUME NEW c \in Clients, Read(c) \/ Step(c) \/ Crash(c)
        PROVE  TerminalInv'
    <3>1. Where(c)' /\ Standing'
      BY <2>0, <2>1, TerminalRead, TerminalPrepare, TerminalDiscard, TerminalOther, TerminalCrash
         DEF Step
    <3>2. \A d \in Clients : d = c
      BY DEF OneTerminal
    <3>3. (\A d \in Clients : Where(d))'
      BY <3>1, <3>2
    <3> QED
      BY <3>1, <3>3 DEF TerminalInv
  <2>2. CASE WorkerWrites
    BY <2>0, <2>2, TerminalWorker
  <2>3. CASE UNCHANGED vars
    BY <2>3 DEF vars, TerminalInv, Where, Standing, ReadyClean, ReadyDisposable,
                RunningHasWorkspace
  <2> QED
    BY <2>1, <2>2, <2>3 DEF Next
<1> QED
  BY <1>1, <1>2, WorkspaceCorrect, PTL DEF Spec

(* One terminal: wherever its commands stopped, a READY attempt can be disposed *)
(* of, for its checkout is where the receipt says or where a disposal left it.  *)
THEOREM DisposableProven ==
  ASSUME OneTerminal
  PROVE  Spec => []ReadyDisposable
<1>1. TerminalInv => ReadyDisposable
  BY DEF TerminalInv, Standing
<1> QED
  BY <1>1, TerminalCorrect, PTL

(* One terminal: dispatch takes a workspace into use only with its receipt and  *)
(* its directory, and nothing takes them from a RUNNING attempt.                *)
THEOREM RunningProven ==
  ASSUME OneTerminal
  PROVE  Spec => []RunningHasWorkspace
<1>1. TerminalInv => RunningHasWorkspace
  BY DEF TerminalInv, Standing
<1> QED
  BY <1>1, TerminalCorrect, PTL

(* One terminal: no step removes a directory before its receipt says            *)
(* QUARANTINED, and a READY attempt's directory is only ever renamed.           *)
THEOREM RemovalProven ==
  ASSUME OneTerminal
  PROVE  Spec => RemovesOnlyQuarantined
<1> DEFINE Kept ==
      /\ quarantine # "absent" /\ quarantine' # quarantine => receipt.state = "QUARANTINED"
      /\ attempt.state = "READY" /\ final' # final => quarantine' = final
<1>1. AnyInv /\ TerminalInv /\ [Next]_vars => [Kept]_vars
  <2> SUFFICES ASSUME AnyInv, TerminalInv, Next PROVE Kept
    OBVIOUS
  <2>0. TypeOK
    BY DEF AnyInv, CoreInv
  <2>1. ASSUME NEW c \in Clients, Read(c) PROVE Kept
    BY <2>1 DEF Read, PrepareRead, DiscardRead, OperatorRead, DispatchVerify, dirs
  <2>2. ASSUME NEW c \in Clients, Crash(c) PROVE Kept
    BY <2>2 DEF Crash, dirs
  <2>3. ASSUME NEW c \in Clients, PrepareStep(c) PROVE Kept
    <3>1. cli[c].pc \in {"p_publish", "c_final"} => attempt.state = "DRAFT"
      BY DEF TerminalInv, Where, PreparePC
    <3> QED
      BY <2>3, <3>1 DEF PrepareStep, PreparePaths, PrepareUnclaimed, Publish, VerifyPublished,
         WriteReceipt, ReceiptStored, ConfirmReceipt, ReadyCheck, ReadyCommit, ReadyReread,
         CompensateFinal, CompensateReceipt, CheckAttempt, CommitAttempt, At, dirs
  <2>4. ASSUME NEW c \in Clients, DiscardStep(c) PROVE Kept
    <3>1. cli[c].pc = "x_remove" => receipt.state = "QUARANTINED"
      BY DEF TerminalInv, Where
    <3> QED
      BY <2>4, <3>1 DEF DiscardStep, DiscardGone, DiscardStale, DiscardReceipt, DiscardVerify,
         DiscardRename, DiscardMark, DiscardWrite, DiscardConfirm, DiscardFinal, DiscardRemove,
         AbortCheck, AbortCommit, DiscardUnlink, CheckAttempt, CommitAttempt, At, dirs
  <2>5. ASSUME NEW c \in Clients, OtherStep(c) PROVE Kept
    BY <2>5 DEF OtherStep, OperatorGuard, OperatorCheck, OperatorCommit, BindCheck, BindCommit,
       CheckAttempt, CommitAttempt, dirs
  <2>6. CASE WorkerWrites
    BY <2>6, WorkerForm
  <2> QED
    BY <2>1, <2>2, <2>3, <2>4, <2>5, <2>6 DEF Next, Step
<1> QED
  BY <1>1, TerminalCorrect, PTL DEF Spec, RemovesOnlyQuarantined

-----------------------------------------------------------------------------
(* One disposal at a time, and no failing call. *)
LEMMA DisposalMove ==
  ASSUME DisposalFacts, NEW c \in Clients, NEW l, Enters(c, l), attempt' = attempt,
         l # "p_commit", quarantine = "absent" => quarantine' = "absent",
         l \in PreparePC => \/ attempt.state # "READY"
                            \/ cli[c].pc \in PreparePC /\ cli'[c].att = cli[c].att,
         l \in Disposing => cli[c].pc \in Disposing \/ attempt.state = "READY",
         \/ final' = "absent"
         \/ l \in Holding
         \/ /\ final' = final /\ cli[c].pc \notin Holding
            /\ l \in Removing => cli[c].pc \in Removing \/ final = "absent",
         l \in Finding => cli[c].pc \in Finding \/ attempt.cleanup \notin Outcomes,
         l \in {"x_abort", "x_commit"} =>
           quarantine' = "absent" \/ cli[c].pc \in {"x_abort", "x_commit"}
  PROVE  DisposalFacts'
<1>1. cli'[c].pc = l /\ \A d \in Clients : d # c => cli'[d] = cli[d]
  BY DEF Enters
<1>2. Emptied'
  <2>1. CASE final' = "absent"
    BY <2>1 DEF Emptied
  <2>2. CASE l \in Holding
    BY <1>1, <2>2 DEF Emptied
  <2>3. CASE /\ final' = final /\ cli[c].pc \notin Holding
             /\ l \in Removing => cli[c].pc \in Removing \/ final = "absent"
    <3> SUFFICES ASSUME attempt.cleanup \in Outcomes
                          \/ (\E d \in Clients : cli'[d].pc \in Removing),
                        final # "absent"
                 PROVE  \E d \in Clients : cli'[d].pc \in Holding
      BY <2>3 DEF Emptied
    <3>1. attempt.cleanup \in Outcomes \/ \E d \in Clients : cli[d].pc \in Removing
      BY <1>1, <2>3
    <3>2. PICK d \in Clients : cli[d].pc \in Holding
      BY <3>1 DEF DisposalFacts, Emptied
    <3> QED
      BY <1>1, <2>3, <3>2
  <2> QED
    BY <2>1, <2>2, <2>3
<1>3. Committing'
  <2> SUFFICES ASSUME NEW e \in Clients, cli'[e].pc = "p_commit"
               PROVE  /\ attempt.state # "READY" /\ attempt.cleanup \notin Outcomes
                      /\ \A d \in Clients :
                           cli'[d].pc \notin Disposing /\ (cli'[d].pc = "p_commit" => d = e)
    BY DEF Committing
  <2>1. e # c /\ cli[e].pc = "p_commit"
    BY <1>1
  <2>2. /\ attempt.state # "READY" /\ attempt.cleanup \notin Outcomes
        /\ \A d \in Clients :
             cli[d].pc \notin Disposing /\ (cli[d].pc = "p_commit" => d = e)
    BY <2>1 DEF DisposalFacts, Committing
  <2> QED
    BY <1>1, <2>2
<1>4. Stamped'
  BY <1>1 DEF DisposalFacts, Stamped
<1>5. Finished'
  BY <1>1 DEF DisposalFacts, Finished
<1> QED
  BY <1>2, <1>3, <1>4, <1>5 DEF DisposalFacts

LEMMA DisposalPrepare ==
  ASSUME CoreInv, HolderInv, DisposalFacts, SecondsDiffer, crashes = 0, faults = 0,
         NEW c \in Clients, PrepareStep(c), Worked
  PROVE  DisposalFacts'
<1>0. TypeOK /\ ~Failed /\ (cli[c].pc \in PreparePC => Prepared(c))
  BY DEF CoreInv, HeldInv, Held, Failed, Worked
<1>e. \A l : Goes(c, l) => Enters(c, l) /\ (l # "idle" => cli'[c].att = cli[c].att)
  BY DEF Goes, Enters
<1>1. CASE PreparePaths(c)
  BY <1>0, <1>e, <1>1, PreparePathsForm, DisposalMove
     DEF At, Still, Files, PreparePC, DiscardPC, Disposing, Holding, Removing, Finding
<1>2. CASE PrepareUnclaimed(c)
  BY <1>0, <1>e, <1>2, PrepareUnclaimedForm, DisposalMove
     DEF At, Still, Files, PreparePC, DiscardPC, Disposing, Holding, Removing, Finding
<1>3. CASE Publish(c)
  BY <1>0, <1>e, <1>3, PublishForm, DisposalMove
     DEF At, PreparePC, DiscardPC, Disposing, Holding, Removing, Finding
<1>4. CASE VerifyPublished(c)
  BY <1>0, <1>e, <1>4, VerifyPublishedForm, DisposalMove
     DEF At, Files, PreparePC, DiscardPC, Disposing, Holding, Removing, Finding
<1>5. CASE WriteReceipt(c)
  BY <1>0, <1>e, <1>5, WriteReceiptForm, DisposalMove
     DEF At, PreparePC, DiscardPC, Disposing, Holding, Removing, Finding
<1>6. CASE ReceiptStored(c)
  BY <1>0, <1>e, <1>6, ReceiptStoredForm, DisposalMove
     DEF At, Files, PreparePC, DiscardPC, Disposing, Holding, Removing, Finding
<1>7. CASE ConfirmReceipt(c)
  BY <1>0, <1>e, <1>7, ConfirmReceiptForm, DisposalMove
     DEF At, Files, PreparePC, DiscardPC, Disposing, Holding, Removing, Finding
<1>8. CASE ReadyCheck(c)
  <2>0. At(c, "p_ready") /\ Files
    BY <1>0, <1>8, ReadyCheckForm
  <2>1. CASE LegalAttemptMove(attempt, cli[c].att) /\ Goes(c, "p_commit")
    <3>1. cli[c].att.state = "READY" /\ attempt.state \in AttemptStates
      BY <1>0, <2>0, FilesTyped DEF At, PreparePC, Prepared
    <3>2. attempt.state = "DRAFT"
      BY <2>1, <3>1 DEF LegalAttemptMove, AttemptNext, AttemptStates
    <3>3. attempt.cleanup = None /\ \A d \in Clients : cli[d].pc \in Early
      BY <3>2 DEF CoreInv, DraftInv
    <3>4. \A d \in Clients : cli[d].pc \in Holding => d = c
      BY <2>0, <3>2 DEF HolderInv, HolderFacts, At, Holding
    <3>5. /\ cli'[c].pc = "p_commit" /\ \A d \in Clients : d # c => cli'[d] = cli[d]
          /\ cli'[c].att = cli[c].att
      BY <2>1 DEF Goes
    <3>6. None \notin Outcomes
      BY WorkspaceAssumption
    <3>7. /\ "p_commit" \in Holding /\ "p_commit" \notin Removing /\ "p_commit" \notin Disposing
          /\ "p_commit" \notin {"x_abort", "x_commit"}
          /\ \A l \in Early : l \notin Disposing
      BY DEF Holding, Removing, Disposing, DiscardPC, Early, PreparePC
    <3>8. Emptied'
      BY <3>5, <3>7 DEF Emptied
    <3>9. Committing'
      BY <2>0, <3>2, <3>3, <3>4, <3>5, <3>6, <3>7 DEF Committing, Files
    <3>10. Stamped' /\ Finished'
      BY <2>0, <3>2, <3>3, <3>5, <3>6, <3>7 DEF Stamped, Finished, DisposalFacts, Files
    <3> QED
      BY <3>8, <3>9, <3>10 DEF DisposalFacts
  <2>2. CASE Goes(c, "p_reread")
    BY <1>e, <2>0, <2>2, DisposalMove
       DEF At, Files, PreparePC, DiscardPC, Disposing, Holding, Removing, Finding
  <2> QED
    BY <1>0, <1>8, <2>1, <2>2, ReadyCheckForm
<1>9. CASE ReadyCommit(c)
  <2>1. /\ At(c, "p_commit") /\ attempt' = cli[c].att /\ Goes(c, "idle")
        /\ receipt' = receipt /\ final' = final /\ quarantine' = quarantine
    BY <1>0, <1>9, ReadyCommitForm
  <2>2. cli[c].att.state = "READY" /\ cli[c].att.cleanup = None /\ None \notin Outcomes
    BY <1>0, <2>1, WorkspaceAssumption DEF At, PreparePC, Prepared
  <2>3. \A d \in Clients : cli[d].pc \notin Disposing /\ (cli[d].pc = "p_commit" => d = c)
    BY <2>1 DEF At, DisposalFacts, Committing
  <2>4. cli'[c].pc = "idle" /\ \A d \in Clients : d # c => cli'[d] = cli[d]
    BY <2>1 DEF Goes
  <2>5. /\ Removing \subseteq Disposing /\ "x_abort" \in Removing /\ "x_commit" \in Removing
        /\ "idle" \notin Disposing /\ "idle" \notin PreparePC /\ "p_commit" \in PreparePC
    BY DEF Removing, Disposing, DiscardPC, PreparePC
  <2>6. Emptied'
    BY <2>1, <2>2, <2>3, <2>4, <2>5 DEF Emptied
  <2>7. Committing'
    BY <2>3, <2>4 DEF Committing
  <2>8. Stamped'
    <3>1. ASSUME NEW d \in Clients, cli'[d].pc \in PreparePC
          PROVE  cli'[d].att.stamp # cli[c].att.stamp
      BY <2>1, <2>4, <2>5, <3>1 DEF SecondsDiffer, At
    <3> QED
      BY <2>1, <3>1 DEF Stamped
  <2>9. Finished'
    BY <2>1, <2>2, <2>3, <2>4, <2>5 DEF Finished
  <2> QED
    BY <2>6, <2>7, <2>8, <2>9 DEF DisposalFacts
<1>10. CASE ReadyReread(c)
  <2>1. attempt # cli[c].att
    BY <1>0, <1>10 DEF ReadyReread, DisposalFacts, Stamped, Prepared, PreparePC
  <2> QED
    BY <1>0, <1>e, <1>10, <2>1, ReadyRereadForm, DisposalMove
       DEF At, Files, PreparePC, DiscardPC, Disposing, Holding, Removing, Finding
<1>11. CASE CompensateFinal(c)
  BY <1>0, <1>e, <1>11, CompensateFinalForm, DisposalMove
     DEF At, PreparePC, DiscardPC, Disposing, Holding, Removing, Finding
<1>12. CASE CompensateReceipt(c)
  BY <1>0, <1>e, <1>12, CompensateReceiptForm, DisposalMove
     DEF At, PreparePC, DiscardPC, Disposing, Holding, Removing, Finding
<1> QED
  BY <1>1, <1>2, <1>3, <1>4, <1>5, <1>6, <1>7, <1>8, <1>9, <1>10, <1>11, <1>12
     DEF PrepareStep

(* A record is stored that no disposal made: the files stand. *)
LEMMA DisposalStore ==
  ASSUME DisposalFacts, NEW c \in Clients, Goes(c, "idle"), attempt' = cli[c].att,
         cli[c].pc \in {"o_commit", "d_commit"},
         cli[c].att.state # "READY", cli[c].att.cleanup \notin Outcomes,
         final' = final, quarantine' = quarantine
  PROVE  DisposalFacts'
<1>1. cli'[c].pc = "idle" /\ \A d \in Clients : d # c => cli'[d] = cli[d]
  BY DEF Goes
<1>2. /\ cli[c].pc \notin Holding /\ cli'[c].pc \notin Removing /\ cli'[c].pc \notin Disposing
  BY <1>1 DEF Holding, Removing, Disposing, DiscardPC
<1>3. Emptied'
  BY <1>1, <1>2 DEF DisposalFacts, Emptied
<1>4. Committing'
  BY <1>1, <1>2 DEF DisposalFacts, Committing
<1>5. Stamped' /\ Finished'
  BY <1>1 DEF DisposalFacts, Stamped, Finished
<1> QED
  BY <1>3, <1>4, <1>5 DEF DisposalFacts

LEMMA DisposalDiscard ==
  ASSUME OneDisposal, CoreInv, DisposalFacts, faults = 0,
         NEW c \in Clients, DiscardStep(c), Worked
  PROVE  DisposalFacts'
<1>0. TypeOK /\ ~Failed /\ Held(c)
  BY DEF CoreInv, HeldInv, Failed, Worked
<1>e. \A l : Goes(c, l) => Enters(c, l)
  BY DEF Goes, Enters
<1>s. cli[c].pc \in DiscardPC => \A d \in Clients : cli[d].pc \in DiscardPC => d = c
  BY DEF OneDisposal
<1>1. CASE DiscardGone(c)
  BY <1>0, <1>e, <1>1, DiscardGoneForm, DisposalMove
     DEF At, Still, Files, PreparePC, DiscardPC, Disposing, Holding, Removing, Finding
<1>2. CASE DiscardStale(c)
  BY <1>0, <1>e, <1>2, DiscardStaleForm, DisposalMove
     DEF At, Still, Files, PreparePC, DiscardPC, Disposing, Holding, Removing, Finding
<1>3. CASE DiscardReceipt(c)
  BY <1>0, <1>e, <1>3, DiscardReceiptForm, DisposalMove
     DEF At, Still, Files, PreparePC, DiscardPC, Disposing, Holding, Removing, Finding
<1>4. CASE DiscardVerify(c)
  BY <1>0, <1>e, <1>4, DiscardVerifyForm, DisposalMove
     DEF At, Still, Files, PreparePC, DiscardPC, Disposing, Holding, Removing, Finding
<1>5. CASE DiscardRename(c)
  <2>1. CASE final' = final /\ quarantine' = quarantine /\ Goes(c, "idle")
    BY <1>0, <1>e, <1>5, <2>1, DiscardRenameForm, DisposalMove
       DEF At, PreparePC, DiscardPC, Disposing, Holding, Removing, Finding
  <2>2. CASE final' = "absent" /\ Goes(c, "x_mark")
    <3>1. /\ cli[c].pc = "x_rename" /\ attempt' = attempt
          /\ cli'[c].pc = "x_mark" /\ \A d \in Clients : d # c => cli'[d] = cli[d]
      BY <1>0, <1>5, <2>2, DiscardRenameForm DEF At, Goes
    <3>2. /\ "x_rename" \in DiscardPC /\ "x_abort" \in DiscardPC /\ "x_commit" \in DiscardPC
          /\ "x_rename" \in Finding /\ "x_rename" \in Disposing /\ "x_mark" \notin PreparePC
      BY DEF DiscardPC, Finding, Disposing, PreparePC
    <3>3. Emptied'
      BY <2>2 DEF Emptied
    <3>4. Committing'
      BY <3>1, <3>2 DEF DisposalFacts, Committing
    <3>5. Stamped'
      BY <3>1, <3>2 DEF DisposalFacts, Stamped
    <3>6. Finished'
      BY <1>s, <3>1, <3>2 DEF DisposalFacts, Finished
    <3> QED
      BY <3>3, <3>4, <3>5, <3>6 DEF DisposalFacts
  <2> QED
    BY <1>0, <1>5, <2>1, <2>2, DiscardRenameForm
<1>6. CASE DiscardMark(c)
  <2>1. cli[c].rec.state # "MISSING"
    BY <1>0, <1>6 DEF DiscardMark, At, Held, Disposing, DiscardPC
  <2> QED
    BY <1>0, <1>e, <1>6, <2>1, DiscardMarkForm, DisposalMove
       DEF At, Still, Files, PreparePC, DiscardPC, Disposing, Holding, Removing, Finding
<1>7. CASE DiscardWrite(c)
  BY <1>0, <1>e, <1>7, DiscardWriteForm, DisposalMove
     DEF At, PreparePC, DiscardPC, Disposing, Holding, Removing, Finding
<1>8. CASE DiscardConfirm(c)
  BY <1>0, <1>e, <1>8, DiscardConfirmForm, DisposalMove
     DEF At, Still, Files, PreparePC, DiscardPC, Disposing, Holding, Removing, Finding
<1>9. CASE DiscardFinal(c)
  BY <1>0, <1>e, <1>9, DiscardFinalForm, DisposalMove
     DEF At, Still, Files, PreparePC, DiscardPC, Disposing, Holding, Removing, Finding
<1>10. CASE DiscardRemove(c)
  BY <1>0, <1>e, <1>10, DiscardRemoveForm, DisposalMove
     DEF At, PreparePC, DiscardPC, Disposing, Holding, Removing, Finding
<1>11. CASE AbortCheck(c)
  BY <1>0, <1>e, <1>11, AbortCheckForm, DisposalMove
     DEF At, Files, PreparePC, DiscardPC, Disposing, Holding, Removing, Finding
<1>12. CASE AbortCommit(c)
  <2>1. /\ cli[c].pc = "x_commit" /\ attempt' = cli[c].att /\ cli[c].att.state = "ABORTED"
        /\ final' = final /\ quarantine' = quarantine
        /\ cli'[c].pc = "x_unlink" /\ \A d \in Clients : d # c => cli'[d] = cli[d]
    <3>1. /\ At(c, "x_commit") /\ Goes(c, "x_unlink") /\ attempt' = cli[c].att
          /\ final' = final /\ quarantine' = quarantine
      BY <1>0, <1>12, AbortCommitForm
    <3> QED
      BY <1>0, <3>1 DEF At, Goes, Held, Disposing, DiscardPC
  <2>2. /\ "x_commit" \in DiscardPC /\ "x_commit" \in Removing /\ "x_commit" \in Disposing
        /\ "x_commit" \notin Holding /\ "x_unlink" \notin Removing /\ "x_unlink" \notin Finding
        /\ Finding \subseteq DiscardPC
    BY DEF DiscardPC, Removing, Disposing, Holding, Finding
  <2>3. Emptied'
    BY <2>1, <2>2 DEF DisposalFacts, Emptied
  <2>4. Committing'
    BY <2>1, <2>2 DEF DisposalFacts, Committing
  <2>5. Stamped'
    BY <2>1 DEF Stamped
  <2>6. Finished'
    BY <1>s, <2>1, <2>2 DEF DisposalFacts, Finished
  <2> QED
    BY <2>3, <2>4, <2>5, <2>6 DEF DisposalFacts
<1>13. CASE DiscardUnlink(c)
  BY <1>0, <1>e, <1>13, DiscardUnlinkForm, DisposalMove
     DEF At, PreparePC, DiscardPC, Disposing, Holding, Removing, Finding
<1> QED
  BY <1>1, <1>2, <1>3, <1>4, <1>5, <1>6, <1>7, <1>8, <1>9, <1>10, <1>11, <1>12, <1>13
     DEF DiscardStep

LEMMA DisposalOther ==
  ASSUME "READY" \notin Targets, CoreInv, DisposalFacts, NEW c \in Clients, OtherStep(c), Worked
  PROVE  DisposalFacts'
<1>0. TypeOK /\ ~Failed /\ Held(c) /\ Targets \subseteq {"ABORTED"}
      /\ None \notin Outcomes /\ Operator \notin Outcomes
  BY FilesTyped, WorkspaceAssumption DEF CoreInv, HeldInv, Failed, Worked
<1>e. \A l : Goes(c, l) => Enters(c, l)
  BY DEF Goes, Enters
<1>1. CASE OperatorGuard(c)
  BY <1>0, <1>e, <1>1, OperatorGuardForm, DisposalMove
     DEF At, Still, Files, PreparePC, DiscardPC, Disposing, Holding, Removing, Finding
<1>2. CASE OperatorCheck(c)
  BY <1>0, <1>e, <1>2, OperatorCheckForm, DisposalMove
     DEF At, Files, PreparePC, DiscardPC, Disposing, Holding, Removing, Finding
<1>3. CASE OperatorCommit(c)
  <2>1. cli[c].att.state = "ABORTED" /\ cli[c].att.cleanup = Operator
    BY <1>0, <1>3 DEF OperatorCommit, At, Held, Saving
  <2> QED
    BY <1>0, <1>3, <2>1, OperatorCommitForm, DisposalStore DEF At
<1>4. CASE \E s \in Stamps : BindCheck(c, s)
  BY <1>0, <1>e, <1>4, BindCheckForm, DisposalMove
     DEF At, Still, Files, PreparePC, DiscardPC, Disposing, Holding, Removing, Finding
<1>5. CASE BindCommit(c)
  <2>1. cli[c].att.state = "RUNNING" /\ cli[c].att.cleanup = None
    BY <1>0, <1>5 DEF BindCommit, At, Held
  <2> QED
    BY <1>0, <1>5, <2>1, BindCommitForm, DisposalStore DEF At
<1> QED
  BY <1>1, <1>2, <1>3, <1>4, <1>5 DEF OtherStep

LEMMA DisposalRead ==
  ASSUME CoreInv, DisposalFacts, NEW c \in Clients, Read(c)
  PROVE  DisposalFacts'
<1>0. TypeOK /\ None \notin Outcomes
  BY WorkspaceAssumption DEF CoreInv
<1>e. \A l : Goes(c, l) => Enters(c, l)
  BY DEF Goes, Enters
<1>1. ASSUME NEW s \in Stamps, PrepareRead(c, s) PROVE DisposalFacts'
  BY <1>0, <1>1, PrepareReadForm, DisposalMove
     DEF Clean, At, Still, Files, PreparePC, DiscardPC, Disposing, Holding, Removing, Finding
<1>2. ASSUME NEW s \in Stamps, NEW o \in Outcomes, DiscardRead(c, o, s)
      PROVE  DisposalFacts'
  BY <1>0, <1>e, <1>2, DiscardReadForm, DisposalMove
     DEF Clean, At, Still, Files, PreparePC, DiscardPC, Disposing, Holding, Removing, Finding
<1>3. ASSUME NEW s \in Stamps, NEW t \in Targets, OperatorRead(c, t, s)
      PROVE  DisposalFacts'
  BY <1>0, <1>3, OperatorReadForm, DisposalMove
     DEF At, Still, Files, PreparePC, DiscardPC, Disposing, Holding, Removing, Finding
<1>4. CASE DispatchVerify(c)
  BY <1>0, <1>e, <1>4, DispatchVerifyForm, DisposalMove
     DEF At, Still, Files, PreparePC, DiscardPC, Disposing, Holding, Removing, Finding
<1> QED
  BY <1>1, <1>2, <1>3, <1>4 DEF Read

LEMMA DisposalStep ==
  ASSUME "READY" \notin Targets, AnyInv, SecondsDiffer, OneDisposal, DisposalInv, Next
  PROVE  DisposalInv'
<1> SUFFICES ASSUME crashes' = 0, faults' = 0
             PROVE  DisposalFacts'
  BY DEF DisposalInv
<1>1. CoreInv /\ HolderInv /\ TypeOK /\ crashes = 0 /\ faults = 0 /\ Worked
  BY CountsStep DEF AnyInv, CoreInv, Worked
<1>2. DisposalFacts
  BY <1>1 DEF DisposalInv
<1>3. ASSUME NEW c \in Clients, Read(c) \/ Step(c)
      PROVE  DisposalFacts'
  BY <1>1, <1>2, <1>3, DisposalRead, DisposalPrepare, DisposalDiscard, DisposalOther DEF Step
<1>4. ASSUME NEW c \in Clients, Crash(c)
      PROVE  FALSE
  BY <1>1, <1>4, CrashForm
<1>5. CASE WorkerWrites
  BY <1>2, <1>5, WorkerForm DEF DisposalFacts, Emptied, Committing, Stamped, Finished
<1> QED
  BY <1>3, <1>4, <1>5 DEF Next

(* While disposals run one at a time and preparations differ in their second,   *)
(* a directory that was removed comes back only in the hands of a preparation   *)
(* that removes it.                                                             *)
THEOREM DisposalCorrect ==
  ASSUME "READY" \notin Targets
  PROVE  Spec /\ []SecondsDiffer /\ []OneDisposal => [](AnyInv /\ DisposalInv)
<1>1. Init => DisposalInv
  <2> SUFFICES ASSUME Init PROVE DisposalFacts
    BY DEF DisposalInv
  <2>1. /\ \A c \in Clients : cli[c].pc = "idle"
        /\ attempt.state = "DRAFT" /\ final = "absent" /\ quarantine = "absent"
    BY DEF Init, IdleClient
  <2> QED
    BY <2>1 DEF DisposalFacts, Emptied, Committing, Stamped, Finished, Finding
<1>2. AnyInv /\ SecondsDiffer /\ OneDisposal /\ DisposalInv /\ [Next]_vars => DisposalInv'
  <2> SUFFICES ASSUME AnyInv, SecondsDiffer, OneDisposal, DisposalInv, [Next]_vars
               PROVE  DisposalInv'
    OBVIOUS
  <2>1. CASE Next
    BY <2>1, DisposalStep
  <2>2. CASE UNCHANGED vars
    BY <2>2 DEF vars, DisposalInv, DisposalFacts, Emptied, Committing, Stamped, Finished
  <2> QED
    BY <2>1, <2>2
<1> QED
  BY <1>1, <1>2, WorkspaceCorrect, PTL DEF Spec

(* While no call fails, disposals run one at a time, preparations differ in     *)
(* their second and READY is not typed by hand, an attempt aborted by disposal  *)
(* has no directory left when every command has ended, even if preparations     *)
(* that read it in DRAFT end late.                                              *)
THEOREM DisposalProven ==
  ASSUME "READY" \notin Targets
  PROVE  Spec /\ []SecondsDiffer /\ []OneDisposal => []DisposalLeavesNothing
<1>1. DisposalInv => DisposalLeavesNothing
  <2> SUFFICES ASSUME DisposalInv, Quiet, faults = 0, attempt.cleanup \in Outcomes
               PROVE  final = "absent" /\ quarantine = "absent"
    BY DEF DisposalLeavesNothing
  <2>1. DisposalFacts /\ \A c \in Clients : cli[c].pc = "idle"
    BY DEF DisposalInv, Quiet, At
  <2> QED
    BY <2>1 DEF DisposalFacts, Emptied, Finished, Holding
<1> QED
  BY <1>1, DisposalCorrect, PTL
=============================================================================

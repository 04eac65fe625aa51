-------------------------- MODULE OperatorLab_proofs --------------------------
(* What holds of the lab of a synthetic run, for any number of recoveries and   *)
(* mishaps and however many of its commands are at work: a recovery records its *)
(* outcome only behind a run that can launch nothing more, it is not refused    *)
(* what a run left for it, and a backup holds the records of one instant.       *)
EXTENDS OperatorLab, TLAPS

-----------------------------------------------------------------------------
(* The run. *)

(* The steps of a run before it has recorded its operator's activation, and     *)
(* those before it has recorded a custody.                                      *)
Early  == {"idle", "authority", "create", "prepare", "ready", "seal", "invocation",
           "activation"}
Rising == Early \cup {"authorization", "call", "authorize", "authorized", "preflight",
                      "bind", "bound", "dispatch", "dispatched", "launch", "inspected"}

(* Those from its custody to the end of its launch, or to the exception that    *)
(* leaves the job as it is.                                                     *)
Launching == {"created", "launched", "assigned", "marking", "sending", "executing", "raised"}

run      == cli["run"].pc
recovery == cli["recover"].pc
read     == cli["recover"].invocation

(* What a run at l has in its custody. *)
Fits(l, v) ==
  /\ l \in Rising => v = None
  /\ l \in {"created", "launched", "assigned"} => v = "PREPARED"
  /\ l = "marking" => v = "ASSIGNED"
  /\ l \in {"sending", "executing"} => v = "DISPATCHING"
  /\ l = "exited" => v = "EXITED"
  /\ l = "faulted" => v \in {"TERMINATED", "INCOMPLETE"}
  /\ l = "raised" => v \in {"EXITED", "INCOMPLETE", "UNCERTAIN"}

(* The adapter is in its job only while the run that launched it is there.      *)
AdapterInv ==
  /\ adapter \in InJob => run \in Launching \ {"created", "launched"}
  /\ Fits(run, files["custody"])

(* What the run has in its records while no recovery has overtaken it.          *)
PhaseInv ==
  ~overlapped =>
    /\ run \in {"idle", "authority", "create"} => files["attempt"] = None
    /\ run \in {"prepare", "ready"} => files["attempt"] = "DRAFT"
    /\ run \in {"seal", "invocation", "activation", "authorization", "call", "authorize",
                "authorized", "preflight", "bind", "bound"} => files["attempt"] = "READY"
    /\ run \in {"candidate", "candidated"} =>
         files["attempt"] = "RUNNING" /\ files["invocation"] = "COMPLETED"
    /\ run \in Early \ {"activation"} => files["invocation"] = None
    /\ run \in {"activation", "authorization", "call", "authorize", "authorized"} =>
         files["invocation"] = "PREPARED"
    /\ run \in {"preflight", "bind", "bound", "dispatch", "dispatched"} =>
         files["invocation"] = "AUTHORIZED"
    /\ run \in {"launch", "inspected", "exited", "accept", "result", "complete", "completed"}
               \cup Launching => files["invocation"] = "DISPATCHING"
    /\ run \in {"dispatch", "dispatched", "launch", "inspected", "exited", "accept", "result",
                "complete", "completed"} \cup Launching => files["attempt"] = "RUNNING"

-----------------------------------------------------------------------------
(* The recovery, whatever the run does. *)

(* A run that may still make files has not recorded its activation, without     *)
(* which no recovery goes on.                                                   *)
EarlyInv ==
  /\ run \in Early => files["activation"] = None
  /\ recovery \notin Ended \cup {"idle"} \/ files["recovery"] # None =>
       files["activation"] # None
  /\ run \in {"dispatch", "dispatched", "launch", "inspected"} \cup Launching =>
       files["attempt"] # "READY"

(* The run is in no launch, and what is left of it will not come to one.        *)
Barred ==
  /\ run \notin {"inspected"} \cup Launching
  /\ run \in Rising => workspace = "absent"

GoneInv ==
  /\ recovery \in {"prove", "proving"} => run \in Ended
  /\ recovery \in {"inspect", "uncertain", "doubting", "abort", "aborting", "end", "ending"} =>
       run \notin Rising \cup Launching
  /\ recovery \in {"unready", "unreadying", "unlink"} => workspace = "absent"
  /\ recovery \in {"unreadying", "unlink", "evidence"} \/ files["recovery"] # None => Barred

-----------------------------------------------------------------------------
(* A recovery of a run that had stopped. *)
Behind == resumes \/ ~overlapped

DeadInv ==
  /\ Behind /\ recovery # "idle" => run \in Ended
  /\ recovery = "idle" => files["recovery"] = None /\ ~resumes

(* It is alone, so the records are what it has made of those it read.           *)
TrackInv ==
  Behind =>
    /\ recovery = "read" => read = files["invocation"]
    /\ recovery \in {"verify", "stop", "stopping"} =>
         files["attempt"] = "READY" /\ read = files["invocation"]
    /\ recovery \in {"stop", "stopping", "discard", "remove", "unready", "unreadying"} =>
         files["attempt"] = "READY" /\ read \in {"PREPARED", "AUTHORIZED"}
    /\ recovery \in {"discard", "remove", "unready", "unreadying", "unlink", "evidence"} =>
         files["invocation"] = StoppedState
    /\ recovery \in {"custody", "prove", "proving", "inspect"} =>
         files["attempt"] = "RUNNING" /\ read = files["invocation"]
    /\ recovery \in {"uncertain", "doubting"} =>
         files["invocation"] = "DISPATCHING" /\ read = "DISPATCHING"
    /\ recovery \in {"abort", "aborting"} => files["invocation"] = "UNCERTAIN"
    /\ recovery \in {"end", "ending"} => files["invocation"] = "ABORTED"
    /\ recovery \in {"uncertain", "doubting", "abort", "aborting", "end", "ending"} =>
         files["attempt"] = "RUNNING" /\ read \in {"DISPATCHING", "UNCERTAIN"}
    /\ recovery \in {"unlink", "evidence"} => files["attempt"] = "ABORTED"

RecordedInv ==
  ~overlapped =>
    /\ files["recovery"] # None =>
         files["attempt"] = "ABORTED" /\ files["invocation"] = files["recovery"]
    /\ recovery \in {"unlink", "evidence"} => files["recovery"] = None

(* What a run left for the recovery is still there.                             *)
ResumeInv ==
  resumes =>
    /\ recovery # "refused"
    /\ recovery = "read" => Resumable
    /\ recovery = "verify" => read \in {"PREPARED", "AUTHORIZED"}
    /\ recovery \in {"verify", "stop", "stopping", "discard"} =>
         workspace = "clean" /\ receipt = "PREPARED"
    /\ recovery \in {"custody", "prove", "proving", "inspect"} =>
         workspace = "clean" /\ read \in {"DISPATCHING", "UNCERTAIN"}
    /\ recovery = "custody" => files["custody"] \in {"TERMINATED", "ABSENCE_VERIFIED"}
    /\ recovery = "prove" => files["custody"] = "TERMINATED"

CliInv == DOMAIN cli = Commands

LabInv ==
  /\ LabTypeOK /\ CliInv /\ AdapterInv /\ PhaseInv /\ EarlyInv /\ GoneInv /\ DeadInv
  /\ TrackInv /\ RecordedInv /\ ResumeInv

-----------------------------------------------------------------------------
(* The backup. *)

(* How far a record has come: while no recovery overtakes a run, no record      *)
(* returns to an earlier content.                                               *)
Rank(v) ==
  CASE v = None -> 0
    [] v \in {"written", "sealed", "ENABLED", "DRAFT", "PREPARED"} -> 1
    [] v \in {"READY", "AUTHORIZED", "ASSIGNED"} -> 2
    [] v \in {"RUNNING", "DISPATCHING"} -> 3
    [] v \in {"CANDIDATE", "COMPLETED", "UNCERTAIN", "EXITED", "TERMINATED", "INCOMPLETE"} -> 4
    [] v \in {"REJECTED", "ABSENCE_VERIFIED"} -> 5
    [] OTHER -> 6

Lags(r) == Rank(manifest[r]) < Rank(files[r])

WalkInv ==
  /\ names \subseteq Records /\ DOMAIN manifest \subseteq Records /\ began \subseteq There
  /\ copying \subseteq DOMAIN manifest
  /\ taker = "curricula" => \A r \in began : In[r] = "curricula" => r \in names \cup DOMAIN manifest
  /\ taker = "state" =>
       \A r \in began : r \in names \cup DOMAIN manifest \/ In[r] \in walk
  /\ taker = "copying" => began \subseteq DOMAIN manifest

(* Until the last file is hashed a file may run ahead of the manifest; one that *)
(* had done so by then is ahead of it when it is copied.                        *)
LagInv ==
  ~overlapped =>
    /\ \A r \in DOMAIN manifest : files[r] = manifest[r] \/ Lags(r)
    /\ taker = "copying" /\ ~instant /\ intact => \E r \in copying : Lags(r)

PublishedInv == backup # "none" => taker = "done" /\ complete /\ (overlapped \/ instant)

RestoreInv ==
  /\ restorer \in {"checked", "publishing"} => staging = "whole"
  /\ restorer \in {"verified", "copied", "checked", "refused"} /\ present => target = "empty"
  /\ target \in {"absent", "empty", "whole"}

BackupInv == WalkInv /\ LagInv /\ PublishedInv /\ RestoreInv

IInv == LabInv /\ BackupInv

-----------------------------------------------------------------------------
(* What the operators of the commands do. *)
Goes(c, l) ==
  /\ DOMAIN cli' = Commands
  /\ \A d \in Commands : d # c => cli'[d] = cli[d]
  /\ cli'[c].pc = l
  /\ l \notin Ended => cli'[c].invocation = cli[c].invocation

LEMMA GotoGoes ==
  ASSUME CliInv, NEW c \in Commands, NEW l, Goto(c, l)
  PROVE  Goes(c, l)
BY DEF CliInv, Goto, Goes

LEMMA CommandsListed == "run" \in Commands /\ "recover" \in Commands
BY DEF Commands

LEMMA RecordsListed ==
  Records = {"definitions", "attempt", "plan", "invocation", "activation", "authorization",
             "recovery", "custody", "result"}
BY DEF Records, In

LEMMA PutFiles ==
  ASSUME LabTypeOK, NEW record \in Records, NEW value, Put(record, value)
  PROVE  /\ DOMAIN files' = Records /\ files'[record] = value
         /\ \A r \in Records : r # record => files'[r] = files[r]
BY DEF LabTypeOK, Put

Same == /\ receipt' = receipt /\ workspace' = workspace /\ adapter' = adapter
        /\ recoveries' = recoveries /\ resumes' = resumes /\ overlapped' = overlapped

LEMMA WritesForm ==
  ASSUME LabTypeOK, CliInv, NEW c \in Commands, NEW l, NEW record \in Records, NEW value, NEW next,
         Writes(c, l, record, value, next)
  PROVE  /\ cli[c].pc = l /\ Goes(c, next) /\ Same
         /\ DOMAIN files' = Records /\ files'[record] = value
         /\ \A r \in Records : r # record => files'[r] = files[r]
BY GotoGoes, PutFiles DEF Writes, At, Same

LEMMA ChecksForm ==
  ASSUME CliInv, NEW c \in Commands, NEW l, NEW record, NEW from, NEW next,
         Checks(c, l, record, from, next)
  PROVE  /\ cli[c].pc = l /\ Same /\ files' = files
         /\ \/ files[record] = from /\ Goes(c, next)
            \/ files[record] # from /\ Goes(c, "refused")
BY GotoGoes DEF Checks, At, Same

LEMMA ContentsListed ==
  /\ "written" \in Contents["definitions"] /\ "written" \in Contents["authorization"]
  /\ "written" \in Contents["result"] /\ "sealed" \in Contents["plan"]
  /\ "ENABLED" \in Contents["activation"]
  /\ {"DRAFT", "READY", "RUNNING", "CANDIDATE", "ABORTED"} \subseteq Contents["attempt"]
  /\ {"PREPARED", "AUTHORIZED", "DISPATCHING", "COMPLETED", "UNCERTAIN", "REJECTED", "ABORTED"}
       \subseteq Contents["invocation"]
  /\ Contents["custody"] = {"PREPARED", "ASSIGNED", "DISPATCHING", "EXITED", "TERMINATED",
                            "INCOMPLETE", "UNCERTAIN", "ABSENCE_VERIFIED"}
  /\ {"REJECTED", "ABORTED"} = Contents["recovery"]
BY DEF Contents, CustodyContents, AttemptStates, AttemptNext, InvocationStates, InvocationNext

LEMMA TypedPut ==
  ASSUME LabTypeOK, NEW record \in Records, NEW value \in Contents[record],
         DOMAIN files' = Records, files'[record] = value,
         \A r \in Records : r # record => files'[r] = files[r],
         receipt' \in {None, "PREPARED", "QUARANTINED"},
         workspace' \in {"absent", "clean", "changed"},
         adapter' \in {"none", "outside", "gone"} \cup InJob,
         workspace' = "absent" => receipt' # "PREPARED",
         recoveries' = recoveries, resumes' = resumes, overlapped' = overlapped
  PROVE  LabTypeOK'
<1>1. ASSUME NEW r \in Records PROVE files'[r] \in Contents[r] \cup {None}
  <2>1. files[r] \in Contents[r] \cup {None}
    BY DEF LabTypeOK
  <2> QED
    BY <2>1
<1>2. recoveries \in 0..MaxRecoveries /\ resumes \in BOOLEAN /\ overlapped \in BOOLEAN
  BY DEF LabTypeOK
<1> QED
  BY <1>1, <1>2 DEF LabTypeOK

LEMMA TypedStand ==
  ASSUME LabTypeOK, files' = files,
         receipt' \in {None, "PREPARED", "QUARANTINED"},
         workspace' \in {"absent", "clean", "changed"},
         adapter' \in {"none", "outside", "gone"} \cup InJob,
         workspace' = "absent" => receipt' # "PREPARED",
         recoveries' = recoveries, resumes' = resumes, overlapped' = overlapped
  PROVE  LabTypeOK'
<1>1. /\ DOMAIN files = Records /\ \A r \in Records : files[r] \in Contents[r] \cup {None}
      /\ recoveries \in 0..MaxRecoveries /\ resumes \in BOOLEAN /\ overlapped \in BOOLEAN
  BY DEF LabTypeOK
<1> QED
  BY <1>1 DEF LabTypeOK

LEMMA LabTyped ==
  ASSUME LabTypeOK
  PROVE  /\ receipt \in {None, "PREPARED", "QUARANTINED"}
         /\ workspace \in {"absent", "clean", "changed"}
         /\ adapter \in {"none", "outside", "gone"} \cup InJob
         /\ workspace = "absent" => receipt # "PREPARED"
BY DEF LabTypeOK

(* A step of the run takes nothing from a recovery: there is none, or it has    *)
(* been overtaken.                                                              *)
LEMMA RunQuiet ==
  ASSUME LabInv, run \notin Ended, cli'["recover"] = cli["recover"],
         files'["recovery"] = files["recovery"], resumes' = resumes, overlapped' = overlapped
  PROVE  DeadInv' /\ TrackInv' /\ RecordedInv' /\ ResumeInv'
<1>1. CASE recovery = "idle"
  <2>1. recovery' = "idle" /\ files'["recovery"] = None /\ ~resumes'
    BY <1>1 DEF recovery, LabInv, DeadInv
  <2> QED
    BY <2>1 DEF DeadInv, TrackInv, RecordedInv, ResumeInv
<1>2. CASE recovery # "idle"
  <2>1. ~resumes' /\ overlapped' /\ recovery' # "idle"
    BY <1>2 DEF recovery, LabInv, DeadInv, Behind
  <2> QED
    BY <2>1 DEF DeadInv, TrackInv, RecordedInv, ResumeInv, Behind
<1> QED
  BY <1>1, <1>2

LEMMA RunPut ==
  ASSUME LabInv, NEW record \in Records \ {"recovery"}, NEW value \in Contents[record], NEW l,
         run \notin Ended, Goes("run", l), Same,
         DOMAIN files' = Records, files'[record] = value,
         \A r \in Records : r # record => files'[r] = files[r],
         AdapterInv', PhaseInv', EarlyInv', GoneInv'
  PROVE  LabInv'
<1>1. CliInv' /\ cli'["recover"] = cli["recover"] /\ files'["recovery"] = files["recovery"]
  BY CommandsListed, RecordsListed DEF Goes, CliInv
<1>2. LabTypeOK'
  BY TypedPut, LabTyped DEF Same, LabInv
<1> QED
  BY <1>1, <1>2, RunQuiet DEF Same, LabInv

LEMMA RunStand ==
  ASSUME LabInv, NEW l, run \notin Ended, Goes("run", l), Same, files' = files,
         AdapterInv', PhaseInv', EarlyInv', GoneInv'
  PROVE  LabInv'
<1>1. CliInv' /\ cli'["recover"] = cli["recover"]
  BY CommandsListed DEF Goes, CliInv
<1>2. LabTypeOK'
  BY TypedStand, LabTyped DEF Same, LabInv
<1> QED
  BY <1>1, <1>2, RunQuiet DEF Same, LabInv

LEMMA RunGoes ==
  ASSUME NEW l, Goes("run", l)
  PROVE  run' = l /\ recovery' = recovery /\ read' = read
BY CommandsListed DEF Goes, run, recovery, read

-----------------------------------------------------------------------------
(* The records only move on. *)
LEMMA RankValues ==
  /\ Rank(None) = 0 /\ \A v : Rank(v) \in 0..6
  /\ \A v \in {"written", "sealed", "ENABLED", "DRAFT", "PREPARED"} : Rank(v) = 1
  /\ \A v \in {"READY", "AUTHORIZED", "ASSIGNED"} : Rank(v) = 2
  /\ \A v \in {"RUNNING", "DISPATCHING"} : Rank(v) = 3
  /\ \A v \in {"CANDIDATE", "COMPLETED", "UNCERTAIN", "EXITED", "TERMINATED", "INCOMPLETE"} :
       Rank(v) = 4
  /\ \A v \in {"REJECTED", "ABSENCE_VERIFIED"} : Rank(v) = 5
  /\ Rank("ABORTED") = 6
<1>1. None \notin {"written", "sealed", "ENABLED", "DRAFT", "PREPARED", "READY", "AUTHORIZED",
                  "ASSIGNED", "RUNNING", "DISPATCHING", "CANDIDATE", "COMPLETED", "UNCERTAIN",
                  "EXITED", "TERMINATED", "INCOMPLETE", "REJECTED", "ABSENCE_VERIFIED",
                  "ABORTED"}
  BY ContentsAssumption, ContentsListed, RecordsListed
<1> QED
  BY <1>1 DEF Rank

LEMMA SingleContents ==
  /\ Contents["definitions"] = {"written"} /\ Contents["authorization"] = {"written"}
  /\ Contents["result"] = {"written"} /\ Contents["plan"] = {"sealed"}
  /\ Contents["activation"] = {"ENABLED"}
BY DEF Contents

Grown ==
  /\ \A r \in Records : files[r] # None => files'[r] # None
  /\ overlapped => overlapped'
  /\ ~overlapped' => \A r \in Records : files'[r] = files[r] \/ Rank(files[r]) < Rank(files'[r])

LEMMA GrownPut ==
  ASSUME NEW record \in Records, NEW value \in Contents[record], overlapped' = overlapped,
         files'[record] = value, \A r \in Records : r # record => files'[r] = files[r],
         ~overlapped => files[record] = value \/ Rank(files[record]) < Rank(value)
  PROVE  Grown
BY ContentsAssumption DEF Grown

-----------------------------------------------------------------------------
(* From the custody to the end of the launch. *)
Containing ==
  \/ CreateCustody \/ JobFails \/ Launch \/ Assign \/ AssignRefused \/ RecordAssigned
  \/ MarkDispatching \/ Send \/ Collect \/ CollectActive \/ Fault \/ FaultUncertain

LEMMA ContainedPut ==
  ASSUME LabInv, NEW from \in {"inspected"} \cup Contained,
         NEW l \in Contained \cup {"exited", "faulted", "raised", "stopped"},
         NEW value \in Contents["custody"], run = from, Goes("run", l),
         receipt' = receipt, workspace' = workspace,
         adapter' \in {"none", "outside", "gone"} \cup InJob,
         recoveries' = recoveries, resumes' = resumes, overlapped' = overlapped,
         DOMAIN files' = Records, files'["custody"] = value,
         \A r \in Records : r # "custody" => files'[r] = files[r],
         adapter' \in InJob => l \in Launching \ {"created", "launched"}, Fits(l, value),
         files["custody"] = value \/ Rank(files["custody"]) < Rank(value)
  PROVE  LabInv' /\ Grown
<1>1. /\ run' = l /\ recovery' = recovery /\ read' = read
      /\ CliInv' /\ cli'["recover"] = cli["recover"]
  BY RunGoes, CommandsListed DEF Goes, CliInv
<1>2. "custody" \in Records /\ files'["recovery"] = files["recovery"]
      /\ files'["attempt"] = files["attempt"] /\ files'["invocation"] = files["invocation"]
      /\ files'["activation"] = files["activation"]
  BY RecordsListed
<1>3. LabTypeOK'
  BY <1>2, TypedPut, LabTyped DEF LabInv
<1>4. AdapterInv'
  BY <1>1 DEF AdapterInv
<1>5. PhaseInv' /\ EarlyInv' /\ GoneInv'
  BY <1>1, <1>2
     DEF LabInv, PhaseInv, EarlyInv, GoneInv, Barred, Rising, Early, Launching, Contained, Ended
<1>6. DeadInv' /\ TrackInv' /\ RecordedInv' /\ ResumeInv'
  BY <1>1, <1>2, RunQuiet DEF Contained, Ended
<1>7. Grown
  BY <1>2, GrownPut
<1> QED
  BY <1>1, <1>3, <1>4, <1>5, <1>6, <1>7 DEF LabInv

LEMMA ContainedWrites ==
  ASSUME LabInv, NEW from \in {"inspected"} \cup Contained,
         NEW l \in Contained \cup {"exited", "faulted", "raised", "stopped"},
         NEW value \in Contents["custody"], Writes("run", from, "custody", value, l),
         adapter \in InJob => l \in Launching \ {"created", "launched"}, Fits(l, value),
         files["custody"] = value \/ Rank(files["custody"]) < Rank(value)
  PROVE  LabInv' /\ Grown
<1>1. LabTypeOK /\ CliInv /\ "run" \in Commands /\ "custody" \in Records
  BY CommandsListed, RecordsListed DEF LabInv
<1>2. /\ run = from /\ Goes("run", l) /\ Same
      /\ DOMAIN files' = Records /\ files'["custody"] = value
      /\ \A r \in Records : r # "custody" => files'[r] = files[r]
  BY <1>1, WritesForm DEF run
<1> QED
  BY <1>1, <1>2, LabTyped, ContainedPut DEF Same

(* What the custody is before each of them. *)
LEMMA ContainedRanks ==
  ASSUME LabInv
  PROVE  /\ run = "inspected" => Rank(files["custody"]) = 0
         /\ run \in {"inspected", "created", "launched"} => adapter \notin InJob
         /\ run \in {"created", "launched", "assigned"} =>
              files["custody"] = "PREPARED" /\ Rank(files["custody"]) = 1
         /\ run = "marking" => Rank(files["custody"]) = 2
         /\ run \in {"sending", "executing"} =>
              files["custody"] = "DISPATCHING" /\ Rank(files["custody"]) = 3
BY RankValues DEF LabInv, AdapterInv, Fits, Rising, Launching

LEMMA ContainingStep ==
  ASSUME LabInv, Containing
  PROVE  LabInv' /\ Grown
<1>0. /\ LabTypeOK /\ CliInv /\ "run" \in Commands /\ "custody" \in Records
      /\ DOMAIN files = Records /\ files["custody"] \in Contents["custody"] \cup {None}
  BY CommandsListed, RecordsListed DEF LabInv, LabTypeOK
<1> USE RankValues, ContainedRanks, ContentsListed DEF Contained, Launching, Fits, Rising, Early
<1>1. CASE CreateCustody
  <2>1. Writes("run", "inspected", "custody", "PREPARED", "created") /\ run = "inspected"
    BY <1>1 DEF CreateCustody, Writes, At, run
  <2>2. /\ "PREPARED" \in Contents["custody"] /\ Fits("created", "PREPARED")
        /\ Rank(files["custody"]) < Rank("PREPARED")
        /\ adapter \in InJob => "created" \in Launching \ {"created", "launched"}
    BY <2>1
  <2> QED
    BY <2>1, <2>2, ContainedWrites
<1>2. CASE JobFails
  <2>1. Writes("run", "created", "custody", "UNCERTAIN", "stopped") /\ run = "created"
    BY <1>2 DEF JobFails, Writes, At, run
  <2> QED
    BY <2>1, ContainedWrites
<1>3. CASE RecordAssigned
  <2>1. Writes("run", "assigned", "custody", "ASSIGNED", "marking") /\ run = "assigned"
    BY <1>3 DEF RecordAssigned, Writes, At, run
  <2>2. /\ "ASSIGNED" \in Contents["custody"] /\ Fits("marking", "ASSIGNED")
        /\ Rank(files["custody"]) < Rank("ASSIGNED")
        /\ adapter \in InJob => "marking" \in Launching \ {"created", "launched"}
    BY <2>1
  <2> QED
    BY <2>1, <2>2, ContainedWrites
<1>4. CASE MarkDispatching
  <2>1. Writes("run", "marking", "custody", "DISPATCHING", "sending") /\ run = "marking"
    BY <1>4 DEF MarkDispatching, Writes, At, run
  <2>2. /\ "DISPATCHING" \in Contents["custody"] /\ Fits("sending", "DISPATCHING")
        /\ Rank(files["custody"]) < Rank("DISPATCHING")
        /\ adapter \in InJob => "sending" \in Launching \ {"created", "launched"}
    BY <2>1
  <2> QED
    BY <2>1, <2>2, ContainedWrites
<1>5. CASE Launch
  <2>1. /\ run = "created" /\ Goes("run", "launched") /\ adapter' = "outside" /\ files' = files
        /\ receipt' = receipt /\ workspace' = workspace
        /\ recoveries' = recoveries /\ resumes' = resumes /\ overlapped' = overlapped
    BY <1>0, <1>5, GotoGoes DEF Launch, At, run
  <2>2. "outside" \notin InJob /\ files["custody"] = "PREPARED"
    BY <2>1 DEF InJob
  <2> QED
    BY <1>0, <2>1, <2>2, ContainedPut
<1>6. CASE Assign
  <2>1. /\ run = "launched" /\ Goes("run", "assigned") /\ files' = files
        /\ adapter' \in {adapter, "waiting"}
        /\ receipt' = receipt /\ workspace' = workspace
        /\ recoveries' = recoveries /\ resumes' = resumes /\ overlapped' = overlapped
    BY <1>0, <1>6, GotoGoes DEF Assign, At, run
  <2>2. adapter' \in {"none", "outside", "gone"} \cup InJob
    BY <1>0, <2>1, LabTyped DEF InJob
  <2> QED
    BY <1>0, <2>1, <2>2, ContainedPut
<1>7. CASE AssignRefused
  <2>1. PICK value \in {"INCOMPLETE", "UNCERTAIN"}, l \in {"faulted", "raised"} :
          /\ Put("custody", value) /\ Goto("run", l)
          /\ value = "INCOMPLETE" <=> l = "faulted"
    BY <1>7 DEF AssignRefused
  <2>2. /\ run = "launched" /\ Goes("run", l) /\ adapter' = "gone"
        /\ receipt' = receipt /\ workspace' = workspace
        /\ recoveries' = recoveries /\ resumes' = resumes /\ overlapped' = overlapped
        /\ DOMAIN files' = Records /\ files'["custody"] = value
        /\ \A r \in Records : r # "custody" => files'[r] = files[r]
    BY <1>0, <1>7, <2>1, GotoGoes, PutFiles DEF AssignRefused, At, run
  <2>3. Fits(l, value) /\ "gone" \notin InJob /\ value \in Contents["custody"]
    BY <2>1 DEF InJob
  <2>4. Rank(files["custody"]) < Rank(value)
    BY <2>1, <2>2
  <2> QED
    BY <2>2, <2>3, <2>4, ContainedPut
<1>8. CASE Send
  <2>1. /\ run = "sending" /\ Goes("run", "executing") /\ adapter' = "working" /\ files' = files
        /\ receipt' = receipt /\ workspace' = workspace
        /\ recoveries' = recoveries /\ resumes' = resumes /\ overlapped' = overlapped
    BY <1>0, <1>8, GotoGoes DEF Send, At, run
  <2>2. "working" \in InJob
    BY DEF InJob
  <2> QED
    BY <1>0, <2>1, <2>2, ContainedPut
<1>9. CASE Collect
  <2>1. PICK value \in {"EXITED", "TERMINATED"}, l \in {"exited", "faulted"} :
          /\ Writes("run", "executing", "custody", value, l)
          /\ value = "EXITED" <=> l = "exited"
    BY <1>9 DEF Collect
  <2>2. run = "executing" /\ adapter \notin InJob
    BY <1>9, <2>1 DEF Collect, Writes, At, run, InJob
  <2>3. Fits(l, value) /\ Rank(files["custody"]) < Rank(value) /\ value \in Contents["custody"]
    BY <2>1, <2>2
  <2> QED
    BY <2>1, <2>2, <2>3, ContainedWrites
<1>10. CASE CollectActive
  <2>1. PICK value \in {"EXITED", "INCOMPLETE"} :
          Writes("run", "executing", "custody", value, "raised")
    BY <1>10 DEF CollectActive
  <2>2. run = "executing"
    BY <2>1 DEF Writes, At, run
  <2>3. /\ Fits("raised", value) /\ Rank(files["custody"]) < Rank(value)
        /\ value \in Contents["custody"]
    BY <2>1, <2>2
  <2> QED
    BY <2>1, <2>3, ContainedWrites
<1>11. CASE Fault
  <2> DEFINE value == IF run \in {"sending", "executing"} THEN "TERMINATED" ELSE "INCOMPLETE"
             l     == IF run = "marking" THEN "raised" ELSE "faulted"
  <2>1. /\ run \in Contained /\ Goes("run", l) /\ files'["custody"] = value
        /\ adapter' = IF adapter \in InJob THEN "gone" ELSE adapter
        /\ receipt' = receipt /\ workspace' = workspace
        /\ recoveries' = recoveries /\ resumes' = resumes /\ overlapped' = overlapped
        /\ DOMAIN files' = Records
        /\ \A r \in Records : r # "custody" => files'[r] = files[r]
    <3>1. Put("custody", value) /\ Goto("run", l)
      BY <1>11 DEF Fault, At, run
    <3>2. Goes("run", l)
      BY <1>0, <3>1, GotoGoes
    <3>3. /\ DOMAIN files' = Records /\ files'["custody"] = value
          /\ \A r \in Records : r # "custody" => files'[r] = files[r]
      BY <1>0, <3>1, PutFiles
    <3> QED
      BY <1>11, <3>2, <3>3 DEF Fault, run
  <2>2. adapter' \notin InJob /\ adapter' \in {"none", "outside", "gone"}
    BY <1>0, <2>1, LabTyped DEF InJob
  <2>3. /\ Fits(l, value) /\ Rank(files["custody"]) < Rank(value)
        /\ value \in Contents["custody"] /\ l \in {"faulted", "raised"}
    BY <2>1
  <2> HIDE DEF value, l
  <2> QED
    BY <2>1, <2>2, <2>3, ContainedPut
<1>12. CASE FaultUncertain
  <2>1. PICK from \in Contained : Writes("run", from, "custody", "UNCERTAIN", "raised")
    BY <1>12 DEF FaultUncertain
  <2>2. run = from
    BY <2>1 DEF Writes, At, run
  <2>3. Fits("raised", "UNCERTAIN") /\ Rank(files["custody"]) < Rank("UNCERTAIN")
    BY <2>1, <2>2
  <2> QED
    BY <2>1, <2>3, ContainedWrites
<1> QED
  BY <1>1, <1>2, <1>3, <1>4, <1>5, <1>6, <1>7, <1>8, <1>9, <1>10, <1>11, <1>12 DEF Containing

-----------------------------------------------------------------------------
(* Every step of the run keeps the invariant. *)
LEMMA RunWrites ==
  ASSUME LabInv, NEW record \in Records \ {"recovery"}, NEW value \in Contents[record],
         NEW from, NEW l, from \notin Ended, Writes("run", from, record, value, l),
         AdapterInv', PhaseInv', EarlyInv', GoneInv'
  PROVE  LabInv'
<1>1. LabTypeOK /\ CliInv
  BY DEF LabInv
<1>2. /\ run = from /\ Goes("run", l) /\ Same
      /\ DOMAIN files' = Records /\ files'[record] = value
      /\ \A r \in Records : r # record => files'[r] = files[r]
  BY <1>1, WritesForm, CommandsListed DEF run
<1> QED
  BY <1>2, RunPut

LEMMA RunStep ==
  ASSUME LabInv, Run
  PROVE  LabInv'
<1>0. LabTypeOK /\ CliInv
  BY DEF LabInv
<1>1. CASE WriteAuthority
  <2>1. /\ run = "authority" /\ Goes("run", "create") /\ Same
        /\ files'["definitions"] = "written"
        /\ \A r \in Records : r # "definitions" => files'[r] = files[r]
    <3>1. /\ Writes("run", "authority", "definitions", "written", "create")
          /\ "definitions" \in Records /\ "run" \in Commands
      BY <1>1, RecordsListed, CommandsListed DEF WriteAuthority
    <3> QED
      BY <1>0, <3>1, WritesForm DEF run
  <2>2. run' = "create" /\ recovery' = recovery /\ read' = read
    BY <2>1, RunGoes
  <2>3. AdapterInv' /\ PhaseInv' /\ EarlyInv' /\ GoneInv'
    BY <2>1, <2>2, RecordsListed, ContentsAssumption, ContentsListed
       DEF AdapterInv, Fits, PhaseInv, EarlyInv, GoneInv, Barred, Rising, Early, Launching,
           Ended, Same, LabInv
  <2> QED
    BY <1>1, <2>3, RunWrites, RecordsListed, ContentsListed DEF WriteAuthority, Ended
<1>2. CASE CreateAttempt
  <2>1. /\ run = "create" /\ Goes("run", "prepare") /\ Same
        /\ files'["attempt"] = "DRAFT"
        /\ \A r \in Records : r # "attempt" => files'[r] = files[r]
    <3>1. /\ Writes("run", "create", "attempt", "DRAFT", "prepare")
          /\ "attempt" \in Records /\ "run" \in Commands
      BY <1>2, RecordsListed, CommandsListed DEF CreateAttempt
    <3> QED
      BY <1>0, <3>1, WritesForm DEF run
  <2>2. run' = "prepare" /\ recovery' = recovery /\ read' = read
    BY <2>1, RunGoes
  <2>3. AdapterInv' /\ PhaseInv' /\ EarlyInv' /\ GoneInv'
    BY <2>1, <2>2, RecordsListed, ContentsAssumption, ContentsListed
       DEF AdapterInv, Fits, PhaseInv, EarlyInv, GoneInv, Barred, Rising, Early, Launching,
           Ended, Same, LabInv
  <2> QED
    BY <1>2, <2>3, RunWrites, RecordsListed, ContentsListed DEF CreateAttempt, Ended
<1>3. CASE MarkReady
  <2>1. /\ run = "ready" /\ Goes("run", "seal") /\ Same
        /\ files'["attempt"] = "READY"
        /\ \A r \in Records : r # "attempt" => files'[r] = files[r]
    <3>1. /\ Writes("run", "ready", "attempt", "READY", "seal")
          /\ "attempt" \in Records /\ "run" \in Commands
      BY <1>3, RecordsListed, CommandsListed DEF MarkReady
    <3> QED
      BY <1>0, <3>1, WritesForm DEF run
  <2>2. run' = "seal" /\ recovery' = recovery /\ read' = read
    BY <2>1, RunGoes
  <2>3. AdapterInv' /\ PhaseInv' /\ EarlyInv' /\ GoneInv'
    BY <2>1, <2>2, RecordsListed, ContentsAssumption, ContentsListed
       DEF AdapterInv, Fits, PhaseInv, EarlyInv, GoneInv, Barred, Rising, Early, Launching,
           Ended, Same, LabInv
  <2> QED
    BY <1>3, <2>3, RunWrites, RecordsListed, ContentsListed DEF MarkReady, Ended
<1>4. CASE SealPlan
  <2>1. /\ run = "seal" /\ Goes("run", "invocation") /\ Same
        /\ files'["plan"] = "sealed"
        /\ \A r \in Records : r # "plan" => files'[r] = files[r]
    <3>1. /\ Writes("run", "seal", "plan", "sealed", "invocation")
          /\ "plan" \in Records /\ "run" \in Commands
      BY <1>4, RecordsListed, CommandsListed DEF SealPlan
    <3> QED
      BY <1>0, <3>1, WritesForm DEF run
  <2>2. run' = "invocation" /\ recovery' = recovery /\ read' = read
    BY <2>1, RunGoes
  <2>3. AdapterInv' /\ PhaseInv' /\ EarlyInv' /\ GoneInv'
    BY <2>1, <2>2, RecordsListed, ContentsAssumption, ContentsListed
       DEF AdapterInv, Fits, PhaseInv, EarlyInv, GoneInv, Barred, Rising, Early, Launching,
           Ended, Same, LabInv
  <2> QED
    BY <1>4, <2>3, RunWrites, RecordsListed, ContentsListed DEF SealPlan, Ended
<1>5. CASE CreateInvocation
  <2>1. /\ run = "invocation" /\ Goes("run", "activation") /\ Same
        /\ files'["invocation"] = "PREPARED"
        /\ \A r \in Records : r # "invocation" => files'[r] = files[r]
    <3>1. /\ Writes("run", "invocation", "invocation", "PREPARED", "activation")
          /\ "invocation" \in Records /\ "run" \in Commands
      BY <1>5, RecordsListed, CommandsListed DEF CreateInvocation
    <3> QED
      BY <1>0, <3>1, WritesForm DEF run
  <2>2. run' = "activation" /\ recovery' = recovery /\ read' = read
    BY <2>1, RunGoes
  <2>3. AdapterInv' /\ PhaseInv' /\ EarlyInv' /\ GoneInv'
    BY <2>1, <2>2, RecordsListed, ContentsAssumption, ContentsListed
       DEF AdapterInv, Fits, PhaseInv, EarlyInv, GoneInv, Barred, Rising, Early, Launching,
           Ended, Same, LabInv
  <2> QED
    BY <1>5, <2>3, RunWrites, RecordsListed, ContentsListed DEF CreateInvocation, Ended
<1>6. CASE RecordActivation
  <2>1. /\ run = "activation" /\ Goes("run", "authorization") /\ Same
        /\ files'["activation"] = "ENABLED"
        /\ \A r \in Records : r # "activation" => files'[r] = files[r]
    <3>1. /\ Writes("run", "activation", "activation", "ENABLED", "authorization")
          /\ "activation" \in Records /\ "run" \in Commands
      BY <1>6, RecordsListed, CommandsListed DEF RecordActivation
    <3> QED
      BY <1>0, <3>1, WritesForm DEF run
  <2>2. run' = "authorization" /\ recovery' = recovery /\ read' = read
    BY <2>1, RunGoes
  <2>3. AdapterInv' /\ PhaseInv' /\ EarlyInv' /\ GoneInv'
    BY <2>1, <2>2, RecordsListed, ContentsAssumption, ContentsListed
       DEF AdapterInv, Fits, PhaseInv, EarlyInv, GoneInv, Barred, Rising, Early, Launching,
           Ended, Same, LabInv
  <2> QED
    BY <1>6, <2>3, RunWrites, RecordsListed, ContentsListed DEF RecordActivation, Ended
<1>7. CASE RecordAuthorization
  <2>1. /\ run = "authorization" /\ Goes("run", "call") /\ Same
        /\ files'["authorization"] = "written"
        /\ \A r \in Records : r # "authorization" => files'[r] = files[r]
    <3>1. /\ Writes("run", "authorization", "authorization", "written", "call")
          /\ "authorization" \in Records /\ "run" \in Commands
      BY <1>7, RecordsListed, CommandsListed DEF RecordAuthorization
    <3> QED
      BY <1>0, <3>1, WritesForm DEF run
  <2>2. run' = "call" /\ recovery' = recovery /\ read' = read
    BY <2>1, RunGoes
  <2>3. AdapterInv' /\ PhaseInv' /\ EarlyInv' /\ GoneInv'
    BY <2>1, <2>2, RecordsListed, ContentsAssumption, ContentsListed
       DEF AdapterInv, Fits, PhaseInv, EarlyInv, GoneInv, Barred, Rising, Early, Launching,
           Ended, Same, LabInv
  <2> QED
    BY <1>7, <2>3, RunWrites, RecordsListed, ContentsListed DEF RecordAuthorization, Ended
<1>8. CASE AuthorizeWrite
  <2>1. /\ run = "authorized" /\ Goes("run", "preflight") /\ Same
        /\ files'["invocation"] = "AUTHORIZED"
        /\ \A r \in Records : r # "invocation" => files'[r] = files[r]
    <3>1. /\ Writes("run", "authorized", "invocation", "AUTHORIZED", "preflight")
          /\ "invocation" \in Records /\ "run" \in Commands
      BY <1>8, RecordsListed, CommandsListed DEF AuthorizeWrite
    <3> QED
      BY <1>0, <3>1, WritesForm DEF run
  <2>2. run' = "preflight" /\ recovery' = recovery /\ read' = read
    BY <2>1, RunGoes
  <2>3. AdapterInv' /\ PhaseInv' /\ EarlyInv' /\ GoneInv'
    BY <2>1, <2>2, RecordsListed, ContentsAssumption, ContentsListed
       DEF AdapterInv, Fits, PhaseInv, EarlyInv, GoneInv, Barred, Rising, Early, Launching,
           Ended, Same, LabInv
  <2> QED
    BY <1>8, <2>3, RunWrites, RecordsListed, ContentsListed DEF AuthorizeWrite, Ended
<1>9. CASE BindWrite
  <2>1. /\ run = "bound" /\ Goes("run", "dispatch") /\ Same
        /\ files'["attempt"] = "RUNNING"
        /\ \A r \in Records : r # "attempt" => files'[r] = files[r]
    <3>1. /\ Writes("run", "bound", "attempt", "RUNNING", "dispatch")
          /\ "attempt" \in Records /\ "run" \in Commands
      BY <1>9, RecordsListed, CommandsListed DEF BindWrite
    <3> QED
      BY <1>0, <3>1, WritesForm DEF run
  <2>2. run' = "dispatch" /\ recovery' = recovery /\ read' = read
    BY <2>1, RunGoes
  <2>3. AdapterInv' /\ PhaseInv' /\ EarlyInv' /\ GoneInv'
    BY <2>1, <2>2, RecordsListed, ContentsAssumption, ContentsListed
       DEF AdapterInv, Fits, PhaseInv, EarlyInv, GoneInv, Barred, Rising, Early, Launching,
           Ended, Same, LabInv
  <2> QED
    BY <1>9, <2>3, RunWrites, RecordsListed, ContentsListed DEF BindWrite, Ended
<1>10. CASE DispatchWrite
  <2>1. /\ run = "dispatched" /\ Goes("run", "launch") /\ Same
        /\ files'["invocation"] = "DISPATCHING"
        /\ \A r \in Records : r # "invocation" => files'[r] = files[r]
    <3>1. /\ Writes("run", "dispatched", "invocation", "DISPATCHING", "launch")
          /\ "invocation" \in Records /\ "run" \in Commands
      BY <1>10, RecordsListed, CommandsListed DEF DispatchWrite
    <3> QED
      BY <1>0, <3>1, WritesForm DEF run
  <2>2. run' = "launch" /\ recovery' = recovery /\ read' = read
    BY <2>1, RunGoes
  <2>3. AdapterInv' /\ PhaseInv' /\ EarlyInv' /\ GoneInv'
    BY <2>1, <2>2, RecordsListed, ContentsAssumption, ContentsListed
       DEF AdapterInv, Fits, PhaseInv, EarlyInv, GoneInv, Barred, Rising, Early, Launching,
           Ended, Same, LabInv
  <2> QED
    BY <1>10, <2>3, RunWrites, RecordsListed, ContentsListed DEF DispatchWrite, Ended
<1>11. CASE ProveAbsence
  <2>1. /\ run = "exited" /\ Goes("run", "accept") /\ Same
        /\ files'["custody"] = "ABSENCE_VERIFIED"
        /\ \A r \in Records : r # "custody" => files'[r] = files[r]
    <3>1. /\ Writes("run", "exited", "custody", "ABSENCE_VERIFIED", "accept")
          /\ "custody" \in Records /\ "run" \in Commands
      BY <1>11, RecordsListed, CommandsListed DEF ProveAbsence
    <3> QED
      BY <1>0, <3>1, WritesForm DEF run
  <2>2. run' = "accept" /\ recovery' = recovery /\ read' = read
    BY <2>1, RunGoes
  <2>3. AdapterInv' /\ PhaseInv' /\ EarlyInv' /\ GoneInv'
    BY <2>1, <2>2, RecordsListed, ContentsAssumption, ContentsListed
       DEF AdapterInv, Fits, PhaseInv, EarlyInv, GoneInv, Barred, Rising, Early, Launching,
           Ended, Same, LabInv
  <2> QED
    BY <1>11, <2>3, RunWrites, RecordsListed, ContentsListed DEF ProveAbsence, Ended
<1>12. CASE FaultAbsence
  <2>1. /\ run = "faulted" /\ Goes("run", "stopped") /\ Same
        /\ files'["custody"] = "ABSENCE_VERIFIED"
        /\ \A r \in Records : r # "custody" => files'[r] = files[r]
    <3>1. /\ Writes("run", "faulted", "custody", "ABSENCE_VERIFIED", "stopped")
          /\ "custody" \in Records /\ "run" \in Commands
      BY <1>12, RecordsListed, CommandsListed DEF FaultAbsence
    <3> QED
      BY <1>0, <3>1, WritesForm DEF run
  <2>2. run' = "stopped" /\ recovery' = recovery /\ read' = read
    BY <2>1, RunGoes
  <2>3. AdapterInv' /\ PhaseInv' /\ EarlyInv' /\ GoneInv'
    BY <2>1, <2>2, RecordsListed, ContentsAssumption, ContentsListed
       DEF AdapterInv, Fits, PhaseInv, EarlyInv, GoneInv, Barred, Rising, Early, Launching,
           Ended, Same, LabInv
  <2> QED
    BY <1>12, <2>3, RunWrites, RecordsListed, ContentsListed DEF FaultAbsence, Ended
<1>13. CASE WriteResult
  <2>1. /\ run = "result" /\ Goes("run", "complete") /\ Same
        /\ files'["result"] = "written"
        /\ \A r \in Records : r # "result" => files'[r] = files[r]
    <3>1. /\ Writes("run", "result", "result", "written", "complete")
          /\ "result" \in Records /\ "run" \in Commands
      BY <1>13, RecordsListed, CommandsListed DEF WriteResult
    <3> QED
      BY <1>0, <3>1, WritesForm DEF run
  <2>2. run' = "complete" /\ recovery' = recovery /\ read' = read
    BY <2>1, RunGoes
  <2>3. AdapterInv' /\ PhaseInv' /\ EarlyInv' /\ GoneInv'
    BY <2>1, <2>2, RecordsListed, ContentsAssumption, ContentsListed
       DEF AdapterInv, Fits, PhaseInv, EarlyInv, GoneInv, Barred, Rising, Early, Launching,
           Ended, Same, LabInv
  <2> QED
    BY <1>13, <2>3, RunWrites, RecordsListed, ContentsListed DEF WriteResult, Ended
<1>14. CASE CompleteWrite
  <2>1. /\ run = "completed" /\ Goes("run", "candidate") /\ Same
        /\ files'["invocation"] = "COMPLETED"
        /\ \A r \in Records : r # "invocation" => files'[r] = files[r]
    <3>1. /\ Writes("run", "completed", "invocation", "COMPLETED", "candidate")
          /\ "invocation" \in Records /\ "run" \in Commands
      BY <1>14, RecordsListed, CommandsListed DEF CompleteWrite
    <3> QED
      BY <1>0, <3>1, WritesForm DEF run
  <2>2. run' = "candidate" /\ recovery' = recovery /\ read' = read
    BY <2>1, RunGoes
  <2>3. AdapterInv' /\ PhaseInv' /\ EarlyInv' /\ GoneInv'
    BY <2>1, <2>2, RecordsListed, ContentsAssumption, ContentsListed
       DEF AdapterInv, Fits, PhaseInv, EarlyInv, GoneInv, Barred, Rising, Early, Launching,
           Ended, Same, LabInv
  <2> QED
    BY <1>14, <2>3, RunWrites, RecordsListed, ContentsListed DEF CompleteWrite, Ended
<1>15. CASE CandidateWrite
  <2>1. /\ run = "candidated" /\ Goes("run", "done") /\ Same
        /\ files'["attempt"] = "CANDIDATE"
        /\ \A r \in Records : r # "attempt" => files'[r] = files[r]
    <3>1. /\ Writes("run", "candidated", "attempt", "CANDIDATE", "done")
          /\ "attempt" \in Records /\ "run" \in Commands
      BY <1>15, RecordsListed, CommandsListed DEF CandidateWrite
    <3> QED
      BY <1>0, <3>1, WritesForm DEF run
  <2>2. run' = "done" /\ recovery' = recovery /\ read' = read
    BY <2>1, RunGoes
  <2>3. AdapterInv' /\ PhaseInv' /\ EarlyInv' /\ GoneInv'
    BY <2>1, <2>2, RecordsListed, ContentsAssumption, ContentsListed
       DEF AdapterInv, Fits, PhaseInv, EarlyInv, GoneInv, Barred, Rising, Early, Launching,
           Ended, Same, LabInv
  <2> QED
    BY <1>15, <2>3, RunWrites, RecordsListed, ContentsListed DEF CandidateWrite, Ended
<1>16. CASE AuthorizeCheck
  <2>1. /\ run = "authorize" /\ Same /\ files' = files
        /\ \/ files["invocation"] = "PREPARED" /\ Goes("run", "authorized")
           \/ Goes("run", "refused")
    BY <1>0, <1>16, ChecksForm, CommandsListed DEF AuthorizeCheck, run
  <2>2. PICK l \in {"authorized", "refused"} :
          Goes("run", l) /\ (l = "authorized" => files["invocation"] = "PREPARED")
    BY <2>1
  <2>3. run' = l /\ recovery' = recovery /\ read' = read
    BY <2>2, RunGoes
  <2>4. AdapterInv' /\ PhaseInv' /\ EarlyInv' /\ GoneInv'
    BY <2>1, <2>2, <2>3
       DEF AdapterInv, Fits, PhaseInv, EarlyInv, GoneInv, Barred, Rising, Early, Launching,
           Ended, Same, LabInv
  <2> QED
    BY <2>1, <2>2, <2>4, RunStand DEF Ended
<1>17. CASE DispatchCheck
  <2>1. /\ run = "dispatch" /\ Same /\ files' = files
        /\ \/ files["invocation"] = "AUTHORIZED" /\ Goes("run", "dispatched")
           \/ Goes("run", "refused")
    BY <1>0, <1>17, ChecksForm, CommandsListed DEF DispatchCheck, run
  <2>2. PICK l \in {"dispatched", "refused"} :
          Goes("run", l) /\ (l = "dispatched" => files["invocation"] = "AUTHORIZED")
    BY <2>1
  <2>3. run' = l /\ recovery' = recovery /\ read' = read
    BY <2>2, RunGoes
  <2>4. AdapterInv' /\ PhaseInv' /\ EarlyInv' /\ GoneInv'
    BY <2>1, <2>2, <2>3
       DEF AdapterInv, Fits, PhaseInv, EarlyInv, GoneInv, Barred, Rising, Early, Launching,
           Ended, Same, LabInv
  <2> QED
    BY <2>1, <2>2, <2>4, RunStand DEF Ended
<1>18. CASE CompleteCheck
  <2>1. /\ run = "complete" /\ Same /\ files' = files
        /\ \/ files["invocation"] = "DISPATCHING" /\ Goes("run", "completed")
           \/ Goes("run", "refused")
    BY <1>0, <1>18, ChecksForm, CommandsListed DEF CompleteCheck, run
  <2>2. PICK l \in {"completed", "refused"} :
          Goes("run", l) /\ (l = "completed" => files["invocation"] = "DISPATCHING")
    BY <2>1
  <2>3. run' = l /\ recovery' = recovery /\ read' = read
    BY <2>2, RunGoes
  <2>4. AdapterInv' /\ PhaseInv' /\ EarlyInv' /\ GoneInv'
    BY <2>1, <2>2, <2>3
       DEF AdapterInv, Fits, PhaseInv, EarlyInv, GoneInv, Barred, Rising, Early, Launching,
           Ended, Same, LabInv
  <2> QED
    BY <2>1, <2>2, <2>4, RunStand DEF Ended
<1>19. CASE CandidateCheck
  <2>1. /\ run = "candidate" /\ Same /\ files' = files
        /\ \/ files["attempt"] = "RUNNING" /\ Goes("run", "candidated")
           \/ Goes("run", "refused")
    BY <1>0, <1>19, ChecksForm, CommandsListed DEF CandidateCheck, run
  <2>2. PICK l \in {"candidated", "refused"} :
          Goes("run", l) /\ (l = "candidated" => files["attempt"] = "RUNNING")
    BY <2>1
  <2>3. run' = l /\ recovery' = recovery /\ read' = read
    BY <2>2, RunGoes
  <2>4. AdapterInv' /\ PhaseInv' /\ EarlyInv' /\ GoneInv'
    BY <2>1, <2>2, <2>3
       DEF AdapterInv, Fits, PhaseInv, EarlyInv, GoneInv, Barred, Rising, Early, Launching,
           Ended, Same, LabInv
  <2> QED
    BY <2>1, <2>2, <2>4, RunStand DEF Ended
<1>20. CASE AdapterPrepare
  <2>1. /\ run = "call" /\ Same /\ files' = files
        /\ \E l \in {"authorize"} : Goes("run", l)
    BY <1>0, <1>20, GotoGoes, CommandsListed DEF AdapterPrepare, run, At, Same
  <2>2. PICK l \in {"authorize"} : Goes("run", l)
    BY <2>1
  <2>3. run' = l /\ recovery' = recovery /\ read' = read
    BY <2>2, RunGoes
  <2>4. AdapterInv' /\ PhaseInv' /\ EarlyInv' /\ GoneInv'
    BY <2>1, <2>2, <2>3
       DEF AdapterInv, Fits, PhaseInv, EarlyInv, GoneInv, Barred, Rising, Early, Launching,
           Ended, Same, LabInv
  <2> QED
    BY <2>1, <2>2, <2>4, RunStand DEF Ended
<1>21. CASE AdapterPreflight
  <2>1. /\ run = "preflight" /\ Same /\ files' = files
        /\ \E l \in {"bind"} : Goes("run", l)
    BY <1>0, <1>21, GotoGoes, CommandsListed DEF AdapterPreflight, run, At, Same
  <2>2. PICK l \in {"bind"} : Goes("run", l)
    BY <2>1
  <2>3. run' = l /\ recovery' = recovery /\ read' = read
    BY <2>2, RunGoes
  <2>4. AdapterInv' /\ PhaseInv' /\ EarlyInv' /\ GoneInv'
    BY <2>1, <2>2, <2>3
       DEF AdapterInv, Fits, PhaseInv, EarlyInv, GoneInv, Barred, Rising, Early, Launching,
           Ended, Same, LabInv
  <2> QED
    BY <2>1, <2>2, <2>4, RunStand DEF Ended
<1>22. CASE RunAdmitted
  <2>1. /\ run = "idle" /\ Same /\ files' = files
        /\ \E l \in {"authority", "refused"} : Goes("run", l)
    BY <1>0, <1>22, GotoGoes, CommandsListed DEF RunAdmitted, run, At, Same
  <2>2. PICK l \in {"authority", "refused"} : Goes("run", l)
    BY <2>1
  <2>3. run' = l /\ recovery' = recovery /\ read' = read
    BY <2>2, RunGoes
  <2>4. AdapterInv' /\ PhaseInv' /\ EarlyInv' /\ GoneInv'
    BY <2>1, <2>2, <2>3
       DEF AdapterInv, Fits, PhaseInv, EarlyInv, GoneInv, Barred, Rising, Early, Launching,
           Ended, Same, LabInv
  <2> QED
    BY <2>1, <2>2, <2>4, RunStand DEF Ended
<1>23. CASE BindCheck
  <2>1. /\ run = "bind" /\ Same /\ files' = files
        /\ \E l \in {"bound", "refused"} :
             /\ Goes("run", l)
             /\ (l = "bound" => files["invocation"] = "AUTHORIZED" /\ files["attempt"] = "READY")
    BY <1>0, <1>23, GotoGoes, CommandsListed DEF BindCheck, run, At, Same
  <2>2. PICK l \in {"bound", "refused"} :
          /\ Goes("run", l)
          /\ (l = "bound" => files["invocation"] = "AUTHORIZED" /\ files["attempt"] = "READY")
    BY <2>1
  <2>3. run' = l /\ recovery' = recovery /\ read' = read
    BY <2>2, RunGoes
  <2>4. AdapterInv' /\ PhaseInv' /\ EarlyInv' /\ GoneInv'
    BY <2>1, <2>2, <2>3
       DEF AdapterInv, Fits, PhaseInv, EarlyInv, GoneInv, Barred, Rising, Early, Launching,
           Ended, Same, LabInv
  <2> QED
    BY <2>1, <2>2, <2>4, RunStand DEF Ended
<1>24. CASE LaunchInspect
  <2>1. /\ run = "launch" /\ Same /\ files' = files
        /\ \E l \in {"inspected", "refused"} :
             /\ Goes("run", l)
             /\ (l = "inspected" => workspace = "clean")
    BY <1>0, <1>24, GotoGoes, CommandsListed DEF LaunchInspect, run, At, Same
  <2>2. PICK l \in {"inspected", "refused"} :
          /\ Goes("run", l)
          /\ (l = "inspected" => workspace = "clean")
    BY <2>1
  <2>3. run' = l /\ recovery' = recovery /\ read' = read
    BY <2>2, RunGoes
  <2>4. AdapterInv' /\ PhaseInv' /\ EarlyInv' /\ GoneInv'
    BY <2>1, <2>2, <2>3
       DEF AdapterInv, Fits, PhaseInv, EarlyInv, GoneInv, Barred, Rising, Early, Launching,
           Ended, Same, LabInv
  <2> QED
    BY <2>1, <2>2, <2>4, RunStand DEF Ended
<1>25. CASE Accept
  <2>1. /\ run = "accept" /\ Same /\ files' = files
        /\ \E l \in {"result", "stopped"} : Goes("run", l)
    BY <1>0, <1>25, GotoGoes, CommandsListed DEF Accept, run, At, Same
  <2>2. PICK l \in {"result", "stopped"} : Goes("run", l)
    BY <2>1
  <2>3. run' = l /\ recovery' = recovery /\ read' = read
    BY <2>2, RunGoes
  <2>4. AdapterInv' /\ PhaseInv' /\ EarlyInv' /\ GoneInv'
    BY <2>1, <2>2, <2>3
       DEF AdapterInv, Fits, PhaseInv, EarlyInv, GoneInv, Barred, Rising, Early, Launching,
           Ended, Same, LabInv
  <2> QED
    BY <2>1, <2>2, <2>4, RunStand DEF Ended
<1>26. CASE PrepareWorkspace
  <2>1. /\ run = "prepare" /\ Goes("run", "ready")
        /\ workspace' = "clean" /\ receipt' = "PREPARED" /\ adapter' = adapter
        /\ recoveries' = recoveries /\ resumes' = resumes /\ overlapped' = overlapped
        /\ files' = files
    BY <1>0, <1>26, GotoGoes, CommandsListed, RecordsListed DEF PrepareWorkspace, run, At
  <2>2. /\ run' = "ready" /\ recovery' = recovery /\ read' = read
        /\ CliInv' /\ cli'["recover"] = cli["recover"]
    BY <2>1, RunGoes, CommandsListed DEF Goes, CliInv
  <2>3. AdapterInv' /\ PhaseInv' /\ EarlyInv' /\ GoneInv'
    BY <2>1, <2>2, RecordsListed, ContentsAssumption, ContentsListed
       DEF AdapterInv, Fits, PhaseInv, EarlyInv, GoneInv, Barred, Rising, Early, Launching,
           Ended, Same, LabInv
  <2>4. LabTypeOK'
    BY <1>0, <2>1, TypedStand, LabTyped, RecordsListed, ContentsListed
  <2>5. DeadInv' /\ TrackInv' /\ RecordedInv' /\ ResumeInv'
    BY <2>1, <2>2, RunQuiet, RecordsListed DEF Ended
  <2> QED
    BY <2>2, <2>3, <2>4, <2>5 DEF LabInv
<1>27. CASE Containing
  BY <1>27, ContainingStep
<1> QED
  BY <1>1, <1>2, <1>3, <1>4, <1>5, <1>6, <1>7, <1>8, <1>9, <1>10, <1>11, <1>12, <1>13,
     <1>14, <1>15, <1>16, <1>17, <1>18, <1>19, <1>20, <1>21, <1>22, <1>23, <1>24, <1>25,
     <1>26, <1>27
     DEF Run, Containing

-----------------------------------------------------------------------------
LEMMA RunStopsStep ==
  ASSUME LabInv, RunStops
  PROVE  LabInv'
<1>0. LabTypeOK /\ CliInv
  BY DEF LabInv
<1>1. /\ run \notin Ended /\ Goes("run", "stopped")
      /\ workspace' = workspace /\ receipt' = receipt /\ files' = files
      /\ adapter' = IF adapter \in InJob THEN "gone" ELSE adapter
      /\ recoveries' = recoveries /\ resumes' = resumes /\ overlapped' = overlapped
  BY <1>0, GotoGoes, CommandsListed DEF RunStops, Alive, run
<1>2. /\ run' = "stopped" /\ recovery' = recovery /\ read' = read
      /\ CliInv' /\ cli'["recover"] = cli["recover"]
  BY <1>1, RunGoes, CommandsListed DEF Goes, CliInv
<1>3. AdapterInv' /\ PhaseInv' /\ EarlyInv' /\ GoneInv'
  BY <1>1, <1>2
     DEF AdapterInv, Fits, PhaseInv, EarlyInv, GoneInv, Barred, Rising, Early, Launching, InJob,
         Ended, LabInv
<1>4. LabTypeOK'
  BY <1>0, <1>1, TypedStand, LabTyped
<1> QED
  BY <1>1, <1>2, <1>3, <1>4, RunQuiet DEF LabInv

LEMMA AdapterStep ==
  ASSUME LabInv, AdapterWrites
  PROVE  LabInv'
<1>0. LabTypeOK /\ CliInv
  BY DEF LabInv
<1>1. /\ adapter = "working" /\ workspace = "clean" /\ workspace' = "changed"
      /\ files' = files /\ receipt' = receipt /\ adapter' = adapter /\ cli' = cli
      /\ recoveries' = recoveries /\ resumes' = resumes /\ overlapped' = overlapped
  BY DEF AdapterWrites
<1>2. run' = run /\ recovery' = recovery /\ read' = read /\ CliInv' /\ run \in Launching
  BY <1>0, <1>1 DEF run, recovery, read, CliInv, LabInv, AdapterInv, InJob
<1>3. AdapterInv' /\ PhaseInv' /\ EarlyInv' /\ GoneInv'
  BY <1>1, <1>2
     DEF AdapterInv, PhaseInv, EarlyInv, GoneInv, Barred, Rising, Early, Launching, LabInv
<1>4. LabTypeOK'
  BY <1>0, <1>1, TypedStand, LabTyped
<1> QED
  BY <1>1, <1>2, <1>3, <1>4, RunQuiet DEF LabInv, Launching, Ended

LEMMA AdapterEndsStep ==
  ASSUME LabInv, AdapterEnds
  PROVE  LabInv'
<1>1. /\ files' = files /\ receipt' = receipt /\ workspace' = workspace /\ adapter' = "gone"
      /\ cli' = cli /\ recoveries' = recoveries /\ resumes' = resumes
      /\ overlapped' = overlapped
  BY DEF AdapterEnds
<1>2. run' = run /\ recovery' = recovery /\ read' = read
  BY <1>1 DEF run, recovery, read
<1>3. LabTypeOK' /\ CliInv' /\ PhaseInv' /\ EarlyInv'
  BY <1>1, <1>2 DEF LabInv, LabTypeOK, CliInv, PhaseInv, EarlyInv
<1>4. AdapterInv' /\ GoneInv' /\ DeadInv' /\ RecordedInv'
  BY <1>1, <1>2 DEF LabInv, AdapterInv, InJob, GoneInv, Barred, DeadInv, Behind, RecordedInv
<1>5. TrackInv'
  BY <1>1, <1>2 DEF LabInv, TrackInv, Behind, StoppedState, read
<1>6. ResumeInv'
  BY <1>1, <1>2 DEF LabInv, ResumeInv, Resumable
<1> QED
  BY <1>3, <1>4, <1>5, <1>6 DEF LabInv

-----------------------------------------------------------------------------
(* The steps of the recovery. *)
LEMMA RecoverGoes ==
  ASSUME NEW l, Goes("recover", l)
  PROVE  run' = run /\ recovery' = l /\ (l \notin Ended => read' = read)
BY CommandsListed DEF Goes, run, recovery, read

(* What a step of the recovery owes the run, if it leaves the activation alone, *)
(* the attempt as it is or ABORTED, and a custody to a run that may write it.   *)
LEMMA RecoverQuiet ==
  ASSUME LabInv, NEW l, l # "idle", recovery \notin Ended \cup {"idle"}, Goes("recover", l),
         adapter' = adapter, resumes' = resumes, overlapped' = overlapped,
         files'["activation"] = files["activation"],
         files'["attempt"] \in {files["attempt"], "ABORTED"},
         files'["custody"] = files["custody"] \/ run \in Ended
  PROVE  AdapterInv' /\ PhaseInv' /\ EarlyInv' /\ DeadInv' /\ CliInv'
<1>1. run' = run /\ recovery' = l /\ CliInv'
  BY RecoverGoes DEF Goes, CliInv
<1>2. ~overlapped' => run \in Ended
  BY DEF LabInv, DeadInv, Behind
<1>3. AdapterInv'
  BY <1>1 DEF LabInv, AdapterInv, Fits, Ended, Rising, Early
<1>4. PhaseInv'
  BY <1>1, <1>2 DEF PhaseInv, Ended, Early, Launching
<1>5. EarlyInv'
  BY <1>1 DEF LabInv, EarlyInv
<1>6. DeadInv'
  BY <1>1 DEF LabInv, DeadInv, Behind
<1> QED
  BY <1>1, <1>3, <1>4, <1>5, <1>6

LEMMA RecoverPut ==
  ASSUME LabInv, NEW record \in Records, NEW value \in Contents[record], NEW l, l # "idle",
         recovery \notin Ended \cup {"idle"}, Goes("recover", l), Same,
         DOMAIN files' = Records, files'[record] = value,
         \A r \in Records : r # record => files'[r] = files[r],
         record \in {"invocation", "recovery"} \/ (record = "attempt" /\ value = "ABORTED")
           \/ (record = "custody" /\ run \in Ended),
         GoneInv', TrackInv', RecordedInv', ResumeInv'
  PROVE  LabInv'
<1>1. /\ files'["activation"] = files["activation"]
      /\ files'["attempt"] \in {files["attempt"], "ABORTED"}
      /\ files'["custody"] = files["custody"] \/ run \in Ended
  BY RecordsListed
<1>2. LabTypeOK'
  BY TypedPut, LabTyped DEF Same, LabInv
<1>3. adapter' = adapter /\ resumes' = resumes /\ overlapped' = overlapped
  BY DEF Same
<1>4. AdapterInv' /\ PhaseInv' /\ EarlyInv' /\ DeadInv' /\ CliInv'
  BY <1>1, <1>3, RecoverQuiet
<1> QED
  BY <1>2, <1>4 DEF LabInv

LEMMA RecoverStand ==
  ASSUME LabInv, NEW l, l # "idle", recovery \notin Ended \cup {"idle"}, Goes("recover", l),
         receipt' \in {None, "PREPARED", "QUARANTINED"},
         workspace' \in {"absent", "clean", "changed"},
         workspace' = "absent" => receipt' # "PREPARED",
         adapter' = adapter, recoveries' = recoveries, resumes' = resumes,
         overlapped' = overlapped, files' = files, GoneInv', TrackInv', RecordedInv', ResumeInv'
  PROVE  LabInv'
<1>1. LabTypeOK'
  BY TypedStand, LabTyped DEF LabInv
<1>2. AdapterInv' /\ PhaseInv' /\ EarlyInv' /\ DeadInv' /\ CliInv'
  BY RecoverQuiet
<1> QED
  BY <1>1, <1>2 DEF LabInv

LEMMA RecoverStep ==
  ASSUME LabInv, Recover
  PROVE  LabInv'
<1>0. LabTypeOK /\ CliInv
  BY DEF LabInv
<1>1. CASE StopWrite
  <2>1. /\ recovery = "stopping" /\ Goes("recover", "discard") /\ Same
        /\ DOMAIN files' = Records /\ files'["invocation"] = StoppedState
        /\ \A r \in Records : r # "invocation" => files'[r] = files[r]
    <3>1. /\ Writes("recover", "stopping", "invocation", StoppedState, "discard")
          /\ "invocation" \in Records /\ "recover" \in Commands
      BY <1>1, RecordsListed, CommandsListed DEF StopWrite
    <3> QED
      BY <1>0, <3>1, WritesForm DEF recovery
  <2>2. run' = run /\ recovery' = "discard" /\ read' = read
    BY <2>1, RecoverGoes DEF Ended
  <2>3. StoppedState \in Contents["invocation"]
    BY ContentsListed DEF StoppedState
  <2>4. GoneInv'
    BY <2>1, <2>2, RecordsListed, ContentsAssumption, ContentsListed
       DEF GoneInv, Barred, LabInv, AdapterInv, Fits, EarlyInv, Rising, Early, Launching, Ended, Same
  <2>5. TrackInv'
    BY <2>1, <2>2, RecordsListed, ContentsAssumption, ContentsListed
       DEF TrackInv, StoppedState, Behind, LabInv, read, Same
  <2>6. RecordedInv'
    BY <2>1, <2>2, RecordsListed, ContentsAssumption, ContentsListed
       DEF RecordedInv, TrackInv, StoppedState, Behind, LabInv, read, Same
  <2>7. ResumeInv'
    BY <2>1, <2>2, RecordsListed, ContentsAssumption, ContentsListed
       DEF ResumeInv, TrackInv, Behind, LabInv, DeadInv, Ended, Same
  <2> QED
    BY <2>1, <2>3, <2>4, <2>5, <2>6, <2>7, RecoverPut, RecordsListed DEF Ended
<1>2. CASE UnreadyWrite
  <2>1. /\ recovery = "unreadying" /\ Goes("recover", "unlink") /\ Same
        /\ DOMAIN files' = Records /\ files'["attempt"] = "ABORTED"
        /\ \A r \in Records : r # "attempt" => files'[r] = files[r]
    <3>1. /\ Writes("recover", "unreadying", "attempt", "ABORTED", "unlink")
          /\ "attempt" \in Records /\ "recover" \in Commands
      BY <1>2, RecordsListed, CommandsListed DEF UnreadyWrite
    <3> QED
      BY <1>0, <3>1, WritesForm DEF recovery
  <2>2. run' = run /\ recovery' = "unlink" /\ read' = read
    BY <2>1, RecoverGoes DEF Ended
  <2>3. "ABORTED" \in Contents["attempt"]
    BY ContentsListed DEF StoppedState
  <2>4. GoneInv'
    BY <2>1, <2>2, RecordsListed, ContentsAssumption, ContentsListed
       DEF GoneInv, Barred, LabInv, AdapterInv, Fits, EarlyInv, Rising, Early, Launching, Ended, Same
  <2>5. TrackInv'
    BY <2>1, <2>2, RecordsListed, ContentsAssumption, ContentsListed
       DEF TrackInv, StoppedState, Behind, LabInv, read, Same
  <2>6. RecordedInv'
    BY <2>1, <2>2, RecordsListed, ContentsAssumption, ContentsListed
       DEF RecordedInv, TrackInv, StoppedState, Behind, LabInv, read, Same
  <2>7. ResumeInv'
    BY <2>1, <2>2, RecordsListed, ContentsAssumption, ContentsListed
       DEF ResumeInv, TrackInv, Behind, LabInv, DeadInv, Ended, Same
  <2> QED
    BY <2>1, <2>3, <2>4, <2>5, <2>6, <2>7, RecoverPut, RecordsListed DEF Ended
<1>3. CASE DeriveWrite
  <2>1. /\ recovery = "proving" /\ Goes("recover", "inspect") /\ Same
        /\ DOMAIN files' = Records /\ files'["custody"] = "ABSENCE_VERIFIED"
        /\ \A r \in Records : r # "custody" => files'[r] = files[r]
    <3>1. /\ Writes("recover", "proving", "custody", "ABSENCE_VERIFIED", "inspect")
          /\ "custody" \in Records /\ "recover" \in Commands
      BY <1>3, RecordsListed, CommandsListed DEF DeriveWrite
    <3> QED
      BY <1>0, <3>1, WritesForm DEF recovery
  <2>2. run' = run /\ recovery' = "inspect" /\ read' = read
    BY <2>1, RecoverGoes DEF Ended
  <2>3. "ABSENCE_VERIFIED" \in Contents["custody"]
    BY ContentsListed DEF StoppedState
  <2>4. GoneInv'
    BY <2>1, <2>2, RecordsListed, ContentsAssumption, ContentsListed
       DEF GoneInv, Barred, LabInv, AdapterInv, Fits, EarlyInv, Rising, Early, Launching, Ended, Same
  <2>5. TrackInv'
    BY <2>1, <2>2, RecordsListed, ContentsAssumption, ContentsListed
       DEF TrackInv, StoppedState, Behind, LabInv, read, Same
  <2>6. RecordedInv'
    BY <2>1, <2>2, RecordsListed, ContentsAssumption, ContentsListed
       DEF RecordedInv, TrackInv, StoppedState, Behind, LabInv, read, Same
  <2>7. ResumeInv'
    BY <2>1, <2>2, RecordsListed, ContentsAssumption, ContentsListed
       DEF ResumeInv, TrackInv, Behind, LabInv, DeadInv, Ended, Same
  <2> QED
    BY <2>1, <2>3, <2>4, <2>5, <2>6, <2>7, RecoverPut, RecordsListed DEF Ended, LabInv, GoneInv
<1>4. CASE UncertainWrite
  <2>1. /\ recovery = "doubting" /\ Goes("recover", "abort") /\ Same
        /\ DOMAIN files' = Records /\ files'["invocation"] = "UNCERTAIN"
        /\ \A r \in Records : r # "invocation" => files'[r] = files[r]
    <3>1. /\ Writes("recover", "doubting", "invocation", "UNCERTAIN", "abort")
          /\ "invocation" \in Records /\ "recover" \in Commands
      BY <1>4, RecordsListed, CommandsListed DEF UncertainWrite
    <3> QED
      BY <1>0, <3>1, WritesForm DEF recovery
  <2>2. run' = run /\ recovery' = "abort" /\ read' = read
    BY <2>1, RecoverGoes DEF Ended
  <2>3. "UNCERTAIN" \in Contents["invocation"]
    BY ContentsListed DEF StoppedState
  <2>4. GoneInv'
    BY <2>1, <2>2, RecordsListed, ContentsAssumption, ContentsListed
       DEF GoneInv, Barred, LabInv, AdapterInv, Fits, EarlyInv, Rising, Early, Launching, Ended, Same
  <2>5. TrackInv'
    BY <2>1, <2>2, RecordsListed, ContentsAssumption, ContentsListed
       DEF TrackInv, StoppedState, Behind, LabInv, read, Same
  <2>6. RecordedInv'
    BY <2>1, <2>2, RecordsListed, ContentsAssumption, ContentsListed
       DEF RecordedInv, TrackInv, StoppedState, Behind, LabInv, read, Same
  <2>7. ResumeInv'
    BY <2>1, <2>2, RecordsListed, ContentsAssumption, ContentsListed
       DEF ResumeInv, TrackInv, Behind, LabInv, DeadInv, Ended, Same
  <2> QED
    BY <2>1, <2>3, <2>4, <2>5, <2>6, <2>7, RecoverPut, RecordsListed DEF Ended
<1>5. CASE AbortWrite
  <2>1. /\ recovery = "aborting" /\ Goes("recover", "end") /\ Same
        /\ DOMAIN files' = Records /\ files'["invocation"] = "ABORTED"
        /\ \A r \in Records : r # "invocation" => files'[r] = files[r]
    <3>1. /\ Writes("recover", "aborting", "invocation", "ABORTED", "end")
          /\ "invocation" \in Records /\ "recover" \in Commands
      BY <1>5, RecordsListed, CommandsListed DEF AbortWrite
    <3> QED
      BY <1>0, <3>1, WritesForm DEF recovery
  <2>2. run' = run /\ recovery' = "end" /\ read' = read
    BY <2>1, RecoverGoes DEF Ended
  <2>3. "ABORTED" \in Contents["invocation"]
    BY ContentsListed DEF StoppedState
  <2>4. GoneInv'
    BY <2>1, <2>2, RecordsListed, ContentsAssumption, ContentsListed
       DEF GoneInv, Barred, LabInv, AdapterInv, Fits, EarlyInv, Rising, Early, Launching, Ended, Same
  <2>5. TrackInv'
    BY <2>1, <2>2, RecordsListed, ContentsAssumption, ContentsListed
       DEF TrackInv, StoppedState, Behind, LabInv, read, Same
  <2>6. RecordedInv'
    BY <2>1, <2>2, RecordsListed, ContentsAssumption, ContentsListed
       DEF RecordedInv, TrackInv, StoppedState, Behind, LabInv, read, Same
  <2>7. ResumeInv'
    BY <2>1, <2>2, RecordsListed, ContentsAssumption, ContentsListed
       DEF ResumeInv, TrackInv, Behind, LabInv, DeadInv, Ended, Same
  <2> QED
    BY <2>1, <2>3, <2>4, <2>5, <2>6, <2>7, RecoverPut, RecordsListed DEF Ended
<1>6. CASE EndWrite
  <2>1. /\ recovery = "ending" /\ Goes("recover", "evidence") /\ Same
        /\ DOMAIN files' = Records /\ files'["attempt"] = "ABORTED"
        /\ \A r \in Records : r # "attempt" => files'[r] = files[r]
    <3>1. /\ Writes("recover", "ending", "attempt", "ABORTED", "evidence")
          /\ "attempt" \in Records /\ "recover" \in Commands
      BY <1>6, RecordsListed, CommandsListed DEF EndWrite
    <3> QED
      BY <1>0, <3>1, WritesForm DEF recovery
  <2>2. run' = run /\ recovery' = "evidence" /\ read' = read
    BY <2>1, RecoverGoes DEF Ended
  <2>3. "ABORTED" \in Contents["attempt"]
    BY ContentsListed DEF StoppedState
  <2>4. GoneInv'
    BY <2>1, <2>2, RecordsListed, ContentsAssumption, ContentsListed
       DEF GoneInv, Barred, LabInv, AdapterInv, Fits, EarlyInv, Rising, Early, Launching, Ended, Same
  <2>5. TrackInv'
    BY <2>1, <2>2, RecordsListed, ContentsAssumption, ContentsListed
       DEF TrackInv, StoppedState, Behind, LabInv, read, Same
  <2>6. RecordedInv'
    BY <2>1, <2>2, RecordsListed, ContentsAssumption, ContentsListed
       DEF RecordedInv, TrackInv, StoppedState, Behind, LabInv, read, Same
  <2>7. ResumeInv'
    BY <2>1, <2>2, RecordsListed, ContentsAssumption, ContentsListed
       DEF ResumeInv, TrackInv, Behind, LabInv, DeadInv, Ended, Same
  <2> QED
    BY <2>1, <2>3, <2>4, <2>5, <2>6, <2>7, RecoverPut, RecordsListed DEF Ended
<1>7. CASE WriteRecovery
  <2>1. /\ recovery = "evidence" /\ Goes("recover", "done") /\ Same
        /\ DOMAIN files' = Records /\ files'["recovery"] = StoppedState
        /\ \A r \in Records : r # "recovery" => files'[r] = files[r]
    <3>1. /\ Writes("recover", "evidence", "recovery", StoppedState, "done")
          /\ "recovery" \in Records /\ "recover" \in Commands
      BY <1>7, RecordsListed, CommandsListed DEF WriteRecovery
    <3> QED
      BY <1>0, <3>1, WritesForm DEF recovery
  <2>2. run' = run /\ recovery' = "done"
    BY <2>1, RecoverGoes DEF Ended
  <2>3. StoppedState \in Contents["recovery"]
    BY ContentsListed DEF StoppedState
  <2>4. GoneInv'
    BY <2>1, <2>2, RecordsListed, ContentsAssumption, ContentsListed
       DEF GoneInv, Barred, LabInv, AdapterInv, Fits, EarlyInv, Rising, Early, Launching, Ended, Same
  <2>5. TrackInv'
    BY <2>1, <2>2, RecordsListed, ContentsAssumption, ContentsListed
       DEF TrackInv, StoppedState, Behind, LabInv, read, Same
  <2>6. RecordedInv'
    BY <2>1, <2>2, RecordsListed, ContentsAssumption, ContentsListed
       DEF RecordedInv, TrackInv, StoppedState, Behind, LabInv, read, Same
  <2>7. ResumeInv'
    BY <2>1, <2>2, RecordsListed, ContentsAssumption, ContentsListed
       DEF ResumeInv, TrackInv, Behind, LabInv, DeadInv, Ended, Same
  <2> QED
    BY <2>1, <2>3, <2>4, <2>5, <2>6, <2>7, RecoverPut, RecordsListed DEF Ended
<1>8. CASE StopCheck
  <2>1. PICK l \in {"stopping", "refused"} :
          /\ recovery = "stop" /\ Goes("recover", l) /\ Same /\ files' = files
          /\ (l = "stopping") <=> (files["invocation"] = read)
    <3>1. Checks("recover", "stop", "invocation", read, "stopping") /\ "recover" \in Commands
      BY <1>8, CommandsListed DEF StopCheck, read
    <3> QED
      BY <1>0, <3>1, ChecksForm DEF recovery
  <2>2. run' = run /\ recovery' = l /\ (l = "stopping" => read' = read)
    BY <2>1, RecoverGoes DEF Ended
  <2>4. GoneInv'
    BY <2>1, <2>2, RecordsListed, ContentsAssumption, ContentsListed
       DEF GoneInv, Barred, LabInv, AdapterInv, Fits, EarlyInv, Rising, Early, Launching, Ended, Same
  <2>5. TrackInv'
    BY <2>1, <2>2, RecordsListed, ContentsAssumption, ContentsListed
       DEF TrackInv, StoppedState, Behind, LabInv, read, Same
  <2>6. RecordedInv'
    BY <2>1, <2>2, RecordsListed, ContentsAssumption, ContentsListed
       DEF RecordedInv, TrackInv, StoppedState, Behind, LabInv, read, Same
  <2>7. ResumeInv'
    BY <2>1, <2>2, RecordsListed, ContentsAssumption, ContentsListed
       DEF ResumeInv, TrackInv, Behind, LabInv, DeadInv, Ended, Same
  <2> QED
    BY <1>0, <2>1, <2>4, <2>5, <2>6, <2>7, RecoverStand, LabTyped DEF Ended, Same
<1>9. CASE UnreadyCheck
  <2>1. PICK l \in {"unreadying", "refused"} :
          /\ recovery = "unready" /\ Goes("recover", l) /\ Same /\ files' = files
          /\ (l = "unreadying") <=> (files["attempt"] = "READY")
    <3>1. Checks("recover", "unready", "attempt", "READY", "unreadying") /\ "recover" \in Commands
      BY <1>9, CommandsListed DEF UnreadyCheck, read
    <3> QED
      BY <1>0, <3>1, ChecksForm DEF recovery
  <2>2. run' = run /\ recovery' = l /\ (l = "unreadying" => read' = read)
    BY <2>1, RecoverGoes DEF Ended
  <2>4. GoneInv'
    BY <2>1, <2>2, RecordsListed, ContentsAssumption, ContentsListed
       DEF GoneInv, Barred, LabInv, AdapterInv, Fits, EarlyInv, Rising, Early, Launching, Ended, Same
  <2>5. TrackInv'
    BY <2>1, <2>2, RecordsListed, ContentsAssumption, ContentsListed
       DEF TrackInv, StoppedState, Behind, LabInv, read, Same
  <2>6. RecordedInv'
    BY <2>1, <2>2, RecordsListed, ContentsAssumption, ContentsListed
       DEF RecordedInv, TrackInv, StoppedState, Behind, LabInv, read, Same
  <2>7. ResumeInv'
    BY <2>1, <2>2, RecordsListed, ContentsAssumption, ContentsListed
       DEF ResumeInv, TrackInv, Behind, LabInv, DeadInv, Ended, Same
  <2> QED
    BY <1>0, <2>1, <2>4, <2>5, <2>6, <2>7, RecoverStand, LabTyped DEF Ended, Same
<1>10. CASE DeriveCheck
  <2>1. PICK l \in {"proving", "refused"} :
          /\ recovery = "prove" /\ Goes("recover", l) /\ Same /\ files' = files
          /\ (l = "proving") <=> (files["custody"] = "TERMINATED")
    <3>1. Checks("recover", "prove", "custody", "TERMINATED", "proving") /\ "recover" \in Commands
      BY <1>10, CommandsListed DEF DeriveCheck, read
    <3> QED
      BY <1>0, <3>1, ChecksForm DEF recovery
  <2>2. run' = run /\ recovery' = l /\ (l = "proving" => read' = read)
    BY <2>1, RecoverGoes DEF Ended
  <2>4. GoneInv'
    BY <2>1, <2>2, RecordsListed, ContentsAssumption, ContentsListed
       DEF GoneInv, Barred, LabInv, AdapterInv, Fits, EarlyInv, Rising, Early, Launching, Ended, Same
  <2>5. TrackInv'
    BY <2>1, <2>2, RecordsListed, ContentsAssumption, ContentsListed
       DEF TrackInv, StoppedState, Behind, LabInv, read, Same
  <2>6. RecordedInv'
    BY <2>1, <2>2, RecordsListed, ContentsAssumption, ContentsListed
       DEF RecordedInv, TrackInv, StoppedState, Behind, LabInv, read, Same
  <2>7. ResumeInv'
    BY <2>1, <2>2, RecordsListed, ContentsAssumption, ContentsListed
       DEF ResumeInv, TrackInv, Behind, LabInv, DeadInv, Ended, Same
  <2> QED
    BY <1>0, <2>1, <2>4, <2>5, <2>6, <2>7, RecoverStand, LabTyped DEF Ended, Same
<1>11. CASE UncertainCheck
  <2>1. PICK l \in {"doubting", "refused"} :
          /\ recovery = "uncertain" /\ Goes("recover", l) /\ Same /\ files' = files
          /\ (l = "doubting") <=> (files["invocation"] = "DISPATCHING")
    <3>1. Checks("recover", "uncertain", "invocation", "DISPATCHING", "doubting") /\ "recover" \in Commands
      BY <1>11, CommandsListed DEF UncertainCheck, read
    <3> QED
      BY <1>0, <3>1, ChecksForm DEF recovery
  <2>2. run' = run /\ recovery' = l /\ (l = "doubting" => read' = read)
    BY <2>1, RecoverGoes DEF Ended
  <2>4. GoneInv'
    BY <2>1, <2>2, RecordsListed, ContentsAssumption, ContentsListed
       DEF GoneInv, Barred, LabInv, AdapterInv, Fits, EarlyInv, Rising, Early, Launching, Ended, Same
  <2>5. TrackInv'
    BY <2>1, <2>2, RecordsListed, ContentsAssumption, ContentsListed
       DEF TrackInv, StoppedState, Behind, LabInv, read, Same
  <2>6. RecordedInv'
    BY <2>1, <2>2, RecordsListed, ContentsAssumption, ContentsListed
       DEF RecordedInv, TrackInv, StoppedState, Behind, LabInv, read, Same
  <2>7. ResumeInv'
    BY <2>1, <2>2, RecordsListed, ContentsAssumption, ContentsListed
       DEF ResumeInv, TrackInv, Behind, LabInv, DeadInv, Ended, Same
  <2> QED
    BY <1>0, <2>1, <2>4, <2>5, <2>6, <2>7, RecoverStand, LabTyped DEF Ended, Same
<1>12. CASE AbortCheck
  <2>1. PICK l \in {"aborting", "refused"} :
          /\ recovery = "abort" /\ Goes("recover", l) /\ Same /\ files' = files
          /\ (l = "aborting") <=> (files["invocation"] = "UNCERTAIN")
    <3>1. Checks("recover", "abort", "invocation", "UNCERTAIN", "aborting") /\ "recover" \in Commands
      BY <1>12, CommandsListed DEF AbortCheck, read
    <3> QED
      BY <1>0, <3>1, ChecksForm DEF recovery
  <2>2. run' = run /\ recovery' = l /\ (l = "aborting" => read' = read)
    BY <2>1, RecoverGoes DEF Ended
  <2>4. GoneInv'
    BY <2>1, <2>2, RecordsListed, ContentsAssumption, ContentsListed
       DEF GoneInv, Barred, LabInv, AdapterInv, Fits, EarlyInv, Rising, Early, Launching, Ended, Same
  <2>5. TrackInv'
    BY <2>1, <2>2, RecordsListed, ContentsAssumption, ContentsListed
       DEF TrackInv, StoppedState, Behind, LabInv, read, Same
  <2>6. RecordedInv'
    BY <2>1, <2>2, RecordsListed, ContentsAssumption, ContentsListed
       DEF RecordedInv, TrackInv, StoppedState, Behind, LabInv, read, Same
  <2>7. ResumeInv'
    BY <2>1, <2>2, RecordsListed, ContentsAssumption, ContentsListed
       DEF ResumeInv, TrackInv, Behind, LabInv, DeadInv, Ended, Same
  <2> QED
    BY <1>0, <2>1, <2>4, <2>5, <2>6, <2>7, RecoverStand, LabTyped DEF Ended, Same
<1>13. CASE EndCheck
  <2>1. PICK l \in {"ending", "refused"} :
          /\ recovery = "end" /\ Goes("recover", l) /\ Same /\ files' = files
          /\ (l = "ending") <=> (files["attempt"] = "RUNNING")
    <3>1. Checks("recover", "end", "attempt", "RUNNING", "ending") /\ "recover" \in Commands
      BY <1>13, CommandsListed DEF EndCheck, read
    <3> QED
      BY <1>0, <3>1, ChecksForm DEF recovery
  <2>2. run' = run /\ recovery' = l /\ (l = "ending" => read' = read)
    BY <2>1, RecoverGoes DEF Ended
  <2>4. GoneInv'
    BY <2>1, <2>2, RecordsListed, ContentsAssumption, ContentsListed
       DEF GoneInv, Barred, LabInv, AdapterInv, Fits, EarlyInv, Rising, Early, Launching, Ended, Same
  <2>5. TrackInv'
    BY <2>1, <2>2, RecordsListed, ContentsAssumption, ContentsListed
       DEF TrackInv, StoppedState, Behind, LabInv, read, Same
  <2>6. RecordedInv'
    BY <2>1, <2>2, RecordsListed, ContentsAssumption, ContentsListed
       DEF RecordedInv, TrackInv, StoppedState, Behind, LabInv, read, Same
  <2>7. ResumeInv'
    BY <2>1, <2>2, RecordsListed, ContentsAssumption, ContentsListed
       DEF ResumeInv, TrackInv, Behind, LabInv, DeadInv, Ended, Same
  <2> QED
    BY <1>0, <2>1, <2>4, <2>5, <2>6, <2>7, RecoverStand, LabTyped DEF Ended, Same
<1>14. CASE RecoverAttempt
  <2>1. PICK l \in {"verify", "custody", "refused"} :
          /\ recovery = "read" /\ Goes("recover", l) /\ Same /\ files' = files
          /\ l = "verify" => files["attempt"] = "READY"
          /\ l = "custody" => files["attempt"] = "RUNNING"
          /\ l = "refused" => files["attempt"] \notin {"READY", "RUNNING"}
    BY <1>0, <1>14, GotoGoes, CommandsListed DEF RecoverAttempt, recovery, run, read, At, Same
  <2>2. run' = run /\ recovery' = l /\ (l # "refused" => read' = read)
    BY <2>1, RecoverGoes DEF Ended
  <2>4. GoneInv'
    BY <2>1, <2>2, RecordsListed, ContentsAssumption, ContentsListed
       DEF GoneInv, Barred, LabInv, AdapterInv, Fits, EarlyInv, Rising, Early, Launching, Ended, Same, Resumable
  <2>5. TrackInv'
    BY <2>1, <2>2, RecordsListed, ContentsAssumption, ContentsListed
       DEF TrackInv, StoppedState, Behind, LabInv, read, Same, Resumable
  <2>6. RecordedInv'
    BY <2>1, <2>2, RecordsListed, ContentsAssumption, ContentsListed
       DEF RecordedInv, TrackInv, StoppedState, Behind, LabInv, read, Same, Resumable
  <2>7. ResumeInv'
    BY <2>1, <2>2, RecordsListed, ContentsAssumption, ContentsListed
       DEF ResumeInv, TrackInv, Behind, LabInv, DeadInv, Ended, Same, Resumable
  <2> QED
    BY <1>0, <2>1, <2>4, <2>5, <2>6, <2>7, RecoverStand, LabTyped DEF Ended, Same
<1>15. CASE RecoverVerify
  <2>1. PICK l \in {"stop", "refused"} :
          /\ recovery = "verify" /\ Goes("recover", l) /\ Same /\ files' = files
          /\ l = "stop" => read \in {"PREPARED", "AUTHORIZED"}
          /\ l = "refused" => ~(workspace = "clean" /\ receipt = "PREPARED" /\ read \in {"PREPARED", "AUTHORIZED"})
    BY <1>0, <1>15, GotoGoes, CommandsListed DEF RecoverVerify, recovery, run, read, At, Same
  <2>2. run' = run /\ recovery' = l /\ (l # "refused" => read' = read)
    BY <2>1, RecoverGoes DEF Ended
  <2>4. GoneInv'
    BY <2>1, <2>2, RecordsListed, ContentsAssumption, ContentsListed
       DEF GoneInv, Barred, LabInv, AdapterInv, Fits, EarlyInv, Rising, Early, Launching, Ended, Same, Resumable
  <2>5. TrackInv'
    BY <2>1, <2>2, RecordsListed, ContentsAssumption, ContentsListed
       DEF TrackInv, StoppedState, Behind, LabInv, read, Same, Resumable
  <2>6. RecordedInv'
    BY <2>1, <2>2, RecordsListed, ContentsAssumption, ContentsListed
       DEF RecordedInv, TrackInv, StoppedState, Behind, LabInv, read, Same, Resumable
  <2>7. ResumeInv'
    BY <2>1, <2>2, RecordsListed, ContentsAssumption, ContentsListed
       DEF ResumeInv, TrackInv, Behind, LabInv, DeadInv, Ended, Same, Resumable
  <2> QED
    BY <1>0, <2>1, <2>4, <2>5, <2>6, <2>7, RecoverStand, LabTyped DEF Ended, Same
<1>16. CASE DiscardCheck
  <2>1. PICK l \in {"remove", "refused"} :
          /\ recovery = "discard" /\ Goes("recover", l) /\ Same /\ files' = files
          /\ l = "refused" => ~(files["attempt"] = "READY" /\ workspace = "clean" /\ receipt = "PREPARED")
    BY <1>0, <1>16, GotoGoes, CommandsListed DEF DiscardCheck, recovery, run, read, At, Same
  <2>2. run' = run /\ recovery' = l /\ (l # "refused" => read' = read)
    BY <2>1, RecoverGoes DEF Ended
  <2>4. GoneInv'
    BY <2>1, <2>2, RecordsListed, ContentsAssumption, ContentsListed
       DEF GoneInv, Barred, LabInv, AdapterInv, Fits, EarlyInv, Rising, Early, Launching, Ended, Same, Resumable
  <2>5. TrackInv'
    BY <2>1, <2>2, RecordsListed, ContentsAssumption, ContentsListed
       DEF TrackInv, StoppedState, Behind, LabInv, read, Same, Resumable
  <2>6. RecordedInv'
    BY <2>1, <2>2, RecordsListed, ContentsAssumption, ContentsListed
       DEF RecordedInv, TrackInv, StoppedState, Behind, LabInv, read, Same, Resumable
  <2>7. ResumeInv'
    BY <2>1, <2>2, RecordsListed, ContentsAssumption, ContentsListed
       DEF ResumeInv, TrackInv, Behind, LabInv, DeadInv, Ended, Same, Resumable
  <2> QED
    BY <1>0, <2>1, <2>4, <2>5, <2>6, <2>7, RecoverStand, LabTyped DEF Ended, Same
<1>17. CASE RecoverCustody
  <2>1. PICK l \in {"inspect", "prove", "refused"} :
          /\ recovery = "custody" /\ Goes("recover", l) /\ Same /\ files' = files
          /\ l = "inspect" => files["custody"] = "ABSENCE_VERIFIED"
          /\ l = "prove" => files["custody"] = "TERMINATED" /\ run \in Ended \cup {"idle"}
          /\ l = "refused" => files["custody"] # "ABSENCE_VERIFIED" /\ (files["custody"] = "TERMINATED" => run \notin Ended)
    BY <1>0, <1>17, GotoGoes, CommandsListed
       DEF RecoverCustody, recovery, run, read, At, Same, Alive, Ended
  <2>2. run' = run /\ recovery' = l /\ (l # "refused" => read' = read)
    BY <2>1, RecoverGoes DEF Ended
  <2>4. GoneInv'
    BY <2>1, <2>2, RecordsListed, ContentsAssumption, ContentsListed
       DEF GoneInv, Barred, LabInv, AdapterInv, Fits, EarlyInv, Rising, Early, Launching, Ended, Same, Resumable
  <2>5. TrackInv'
    BY <2>1, <2>2, RecordsListed, ContentsAssumption, ContentsListed
       DEF TrackInv, StoppedState, Behind, LabInv, read, Same, Resumable
  <2>6. RecordedInv'
    BY <2>1, <2>2, RecordsListed, ContentsAssumption, ContentsListed
       DEF RecordedInv, TrackInv, StoppedState, Behind, LabInv, read, Same, Resumable
  <2>7. ResumeInv'
    BY <2>1, <2>2, RecordsListed, ContentsAssumption, ContentsListed
       DEF ResumeInv, TrackInv, Behind, LabInv, DeadInv, Ended, Same, Resumable
  <2> QED
    BY <1>0, <2>1, <2>4, <2>5, <2>6, <2>7, RecoverStand, LabTyped DEF Ended, Same
<1>18. CASE Inspect
  <2>1. PICK l \in {"uncertain", "abort", "refused"} :
          /\ recovery = "inspect" /\ Goes("recover", l) /\ Same /\ files' = files
          /\ l = "uncertain" => read = "DISPATCHING"
          /\ l = "abort" => read = "UNCERTAIN"
          /\ l = "refused" => ~(workspace = "clean" /\ read \in {"DISPATCHING", "UNCERTAIN"})
    BY <1>0, <1>18, GotoGoes, CommandsListed DEF Inspect, recovery, run, read, At, Same
  <2>2. run' = run /\ recovery' = l /\ (l # "refused" => read' = read)
    BY <2>1, RecoverGoes DEF Ended
  <2>4. GoneInv'
    BY <2>1, <2>2, RecordsListed, ContentsAssumption, ContentsListed
       DEF GoneInv, Barred, LabInv, AdapterInv, Fits, EarlyInv, Rising, Early, Launching, Ended, Same, Resumable
  <2>5. TrackInv'
    BY <2>1, <2>2, RecordsListed, ContentsAssumption, ContentsListed
       DEF TrackInv, StoppedState, Behind, LabInv, read, Same, Resumable
  <2>6. RecordedInv'
    BY <2>1, <2>2, RecordsListed, ContentsAssumption, ContentsListed
       DEF RecordedInv, TrackInv, StoppedState, Behind, LabInv, read, Same, Resumable
  <2>7. ResumeInv'
    BY <2>1, <2>2, RecordsListed, ContentsAssumption, ContentsListed
       DEF ResumeInv, TrackInv, Behind, LabInv, DeadInv, Ended, Same, Resumable
  <2> QED
    BY <1>0, <2>1, <2>4, <2>5, <2>6, <2>7, RecoverStand, LabTyped DEF Ended, Same
<1>19. CASE RemoveWorkspace
  <2>1. /\ recovery = "remove" /\ Goes("recover", "unready") /\ files' = files
        /\ workspace' = "absent" /\ receipt' = "QUARANTINED" /\ adapter' = adapter
        /\ recoveries' = recoveries /\ resumes' = resumes /\ overlapped' = overlapped
    BY <1>0, <1>19, GotoGoes, CommandsListed DEF RemoveWorkspace, recovery, At
  <2>2. run' = run /\ recovery' = "unready" /\ read' = read
    BY <2>1, RecoverGoes DEF Ended
  <2>4. GoneInv'
    BY <2>1, <2>2, RecordsListed, ContentsAssumption, ContentsListed
       DEF GoneInv, Barred, LabInv, AdapterInv, Fits, EarlyInv, Rising, Early, Launching, Ended
  <2>5. TrackInv'
    BY <2>1, <2>2, RecordsListed, ContentsAssumption, ContentsListed
       DEF TrackInv, StoppedState, Behind, LabInv, read
  <2>6. RecordedInv'
    BY <2>1, <2>2, RecordsListed, ContentsAssumption, ContentsListed
       DEF RecordedInv, TrackInv, StoppedState, Behind, LabInv, read
  <2>7. ResumeInv'
    BY <2>1, <2>2, RecordsListed, ContentsAssumption, ContentsListed
       DEF ResumeInv, TrackInv, Behind, LabInv, DeadInv, Ended
  <2> QED
    BY <1>0, <2>1, <2>4, <2>5, <2>6, <2>7, RecoverStand, LabTyped, ContentsAssumption,
       RecordsListed, ContentsListed DEF Ended
<1>20. CASE Unlink
  <2>1. /\ recovery = "unlink" /\ Goes("recover", "evidence") /\ files' = files
        /\ workspace' = workspace /\ receipt' = None /\ adapter' = adapter
        /\ recoveries' = recoveries /\ resumes' = resumes /\ overlapped' = overlapped
    BY <1>0, <1>20, GotoGoes, CommandsListed DEF Unlink, recovery, At
  <2>2. run' = run /\ recovery' = "evidence" /\ read' = read
    BY <2>1, RecoverGoes DEF Ended
  <2>4. GoneInv'
    BY <2>1, <2>2, RecordsListed, ContentsAssumption, ContentsListed
       DEF GoneInv, Barred, LabInv, AdapterInv, Fits, EarlyInv, Rising, Early, Launching, Ended
  <2>5. TrackInv'
    BY <2>1, <2>2, RecordsListed, ContentsAssumption, ContentsListed
       DEF TrackInv, StoppedState, Behind, LabInv, read
  <2>6. RecordedInv'
    BY <2>1, <2>2, RecordsListed, ContentsAssumption, ContentsListed
       DEF RecordedInv, TrackInv, StoppedState, Behind, LabInv, read
  <2>7. ResumeInv'
    BY <2>1, <2>2, RecordsListed, ContentsAssumption, ContentsListed
       DEF ResumeInv, TrackInv, Behind, LabInv, DeadInv, Ended
  <2> QED
    BY <1>0, <2>1, <2>4, <2>5, <2>6, <2>7, RecoverStand, LabTyped, ContentsAssumption,
       RecordsListed, ContentsListed DEF Ended
<1>21. CASE RecoverBegin
  <2>1. PICK admitted \in BOOLEAN :
          /\ run # "idle" /\ recovery \in Ended \cup {"idle"} /\ recoveries < MaxRecoveries
          /\ recoveries' = recoveries + 1
          /\ overlapped' = (overlapped \/ run \notin Ended \cup {"idle"})
          /\ admitted => files["activation"] # None
          /\ resumes' = (admitted /\ run \in Ended \cup {"idle"} /\ Resumable)
          /\ cli' = [cli EXCEPT !["recover"] =
                IF admitted THEN [pc |-> "read", invocation |-> files["invocation"]]
                ELSE [pc |-> "refused", invocation |-> None]]
          /\ files' = files /\ receipt' = receipt /\ workspace' = workspace
          /\ adapter' = adapter
    BY <1>21 DEF RecoverBegin, Alive, At, run, recovery
  <2>2. /\ CliInv' /\ run' = run /\ recovery' = (IF admitted THEN "read" ELSE "refused")
        /\ admitted => read' = files["invocation"]
    BY <1>0, <2>1 DEF CliInv, Commands, run, recovery, read
  <2>3. LabTypeOK'
    BY <1>0, <2>1, RecoveriesAssumption DEF LabTypeOK
  <2>4. run \in Ended \/ (overlapped' /\ ~resumes')
    BY <2>1
  <2>5. AdapterInv' /\ PhaseInv' /\ EarlyInv' /\ GoneInv'
    BY <2>1, <2>2, <2>4 DEF LabInv, AdapterInv, PhaseInv, EarlyInv, GoneInv, Barred, Ended,
       Rising, Early, Launching
  <2>6. DeadInv' /\ TrackInv' /\ RecordedInv'
    BY <2>1, <2>2, <2>4 DEF LabInv, DeadInv, TrackInv, RecordedInv, Behind
  <2>7. ResumeInv'
    BY <2>1, <2>2 DEF ResumeInv, Resumable
  <2> QED
    BY <2>2, <2>3, <2>5, <2>6, <2>7 DEF LabInv
<1> QED
  BY <1>1, <1>2, <1>3, <1>4, <1>5, <1>6, <1>7, <1>8, <1>9, <1>10, <1>11, <1>12, <1>13,
     <1>14, <1>15, <1>16, <1>17, <1>18, <1>19, <1>20, <1>21
     DEF Recover

LEMMA RecoverStopsStep ==
  ASSUME LabInv, RecoverStops
  PROVE  LabInv'
<1>0. LabTypeOK /\ CliInv
  BY DEF LabInv
<1>1. /\ recovery \notin Ended \cup {"idle"} /\ Goes("recover", "stopped") /\ Same
      /\ files' = files
  BY <1>0, GotoGoes, CommandsListed DEF RecoverStops, Alive, recovery, Same
<1>2. run' = run /\ recovery' = "stopped"
  BY <1>1, RecoverGoes
<1>3. GoneInv' /\ TrackInv' /\ RecordedInv' /\ ResumeInv'
  BY <1>1, <1>2 DEF LabInv, GoneInv, Barred, TrackInv, RecordedInv, ResumeInv, Same
<1> QED
  BY <1>0, <1>1, <1>3, RecoverStand, LabTyped DEF Same

-----------------------------------------------------------------------------
LEMMA LabGrows ==
  ASSUME LabInv, LabNext
  PROVE  Grown
<1>0. LabTypeOK /\ CliInv
  BY DEF LabInv
<1>1. CASE WriteAuthority
  <2>1. /\ run = "authority" /\ overlapped' = overlapped /\ files'["definitions"] = "written"
        /\ \A r \in Records : r # "definitions" => files'[r] = files[r]
    <3>1. PICK next : Writes("run", "authority", "definitions", "written", next)
      BY <1>1 DEF WriteAuthority
    <3>2. "run" \in Commands /\ "definitions" \in Records
      BY CommandsListed, RecordsListed
    <3> QED
      BY <1>0, <3>1, <3>2, WritesForm DEF run, Same
  <2>2. "written" \in Contents["definitions"] /\ "definitions" \in Records
    BY ContentsListed, RecordsListed
  <2>3. ~overlapped =>
          files["definitions"] = "written" \/ Rank(files["definitions"]) < Rank("written")
    BY <2>1, SingleContents, LabTyped, RankValues, RecordsListed, ContentsListed
       DEF LabInv, LabTypeOK
  <2> QED
    BY <2>1, <2>2, <2>3, GrownPut
<1>2. CASE CreateAttempt
  <2>1. /\ run = "create" /\ overlapped' = overlapped /\ files'["attempt"] = "DRAFT"
        /\ \A r \in Records : r # "attempt" => files'[r] = files[r]
    <3>1. PICK next : Writes("run", "create", "attempt", "DRAFT", next)
      BY <1>2 DEF CreateAttempt
    <3>2. "run" \in Commands /\ "attempt" \in Records
      BY CommandsListed, RecordsListed
    <3> QED
      BY <1>0, <3>1, <3>2, WritesForm DEF run, Same
  <2>2. "DRAFT" \in Contents["attempt"] /\ "attempt" \in Records
    BY ContentsListed, RecordsListed
  <2>3. ~overlapped =>
          files["attempt"] = "DRAFT" \/ Rank(files["attempt"]) < Rank("DRAFT")
    BY <2>1, SingleContents, LabTyped, RankValues, RecordsListed, ContentsListed
       DEF LabInv, PhaseInv, Early, Ended
  <2> QED
    BY <2>1, <2>2, <2>3, GrownPut
<1>3. CASE MarkReady
  <2>1. /\ run = "ready" /\ overlapped' = overlapped /\ files'["attempt"] = "READY"
        /\ \A r \in Records : r # "attempt" => files'[r] = files[r]
    <3>1. PICK next : Writes("run", "ready", "attempt", "READY", next)
      BY <1>3 DEF MarkReady
    <3>2. "run" \in Commands /\ "attempt" \in Records
      BY CommandsListed, RecordsListed
    <3> QED
      BY <1>0, <3>1, <3>2, WritesForm DEF run, Same
  <2>2. "READY" \in Contents["attempt"] /\ "attempt" \in Records
    BY ContentsListed, RecordsListed
  <2>3. ~overlapped =>
          files["attempt"] = "READY" \/ Rank(files["attempt"]) < Rank("READY")
    BY <2>1, SingleContents, LabTyped, RankValues, RecordsListed, ContentsListed
       DEF LabInv, PhaseInv, Early, Ended
  <2> QED
    BY <2>1, <2>2, <2>3, GrownPut
<1>4. CASE SealPlan
  <2>1. /\ run = "seal" /\ overlapped' = overlapped /\ files'["plan"] = "sealed"
        /\ \A r \in Records : r # "plan" => files'[r] = files[r]
    <3>1. PICK next : Writes("run", "seal", "plan", "sealed", next)
      BY <1>4 DEF SealPlan
    <3>2. "run" \in Commands /\ "plan" \in Records
      BY CommandsListed, RecordsListed
    <3> QED
      BY <1>0, <3>1, <3>2, WritesForm DEF run, Same
  <2>2. "sealed" \in Contents["plan"] /\ "plan" \in Records
    BY ContentsListed, RecordsListed
  <2>3. ~overlapped => files["plan"] = "sealed" \/ Rank(files["plan"]) < Rank("sealed")
    BY <2>1, SingleContents, LabTyped, RankValues, RecordsListed, ContentsListed
       DEF LabInv, LabTypeOK
  <2> QED
    BY <2>1, <2>2, <2>3, GrownPut
<1>5. CASE CreateInvocation
  <2>1. /\ run = "invocation" /\ overlapped' = overlapped /\ files'["invocation"] = "PREPARED"
        /\ \A r \in Records : r # "invocation" => files'[r] = files[r]
    <3>1. PICK next : Writes("run", "invocation", "invocation", "PREPARED", next)
      BY <1>5 DEF CreateInvocation
    <3>2. "run" \in Commands /\ "invocation" \in Records
      BY CommandsListed, RecordsListed
    <3> QED
      BY <1>0, <3>1, <3>2, WritesForm DEF run, Same
  <2>2. "PREPARED" \in Contents["invocation"] /\ "invocation" \in Records
    BY ContentsListed, RecordsListed
  <2>3. ~overlapped =>
          files["invocation"] = "PREPARED" \/ Rank(files["invocation"]) < Rank("PREPARED")
    BY <2>1, SingleContents, LabTyped, RankValues, RecordsListed, ContentsListed
       DEF LabInv, PhaseInv, Early, Ended
  <2> QED
    BY <2>1, <2>2, <2>3, GrownPut
<1>6. CASE RecordActivation
  <2>1. /\ run = "activation" /\ overlapped' = overlapped /\ files'["activation"] = "ENABLED"
        /\ \A r \in Records : r # "activation" => files'[r] = files[r]
    <3>1. PICK next : Writes("run", "activation", "activation", "ENABLED", next)
      BY <1>6 DEF RecordActivation
    <3>2. "run" \in Commands /\ "activation" \in Records
      BY CommandsListed, RecordsListed
    <3> QED
      BY <1>0, <3>1, <3>2, WritesForm DEF run, Same
  <2>2. "ENABLED" \in Contents["activation"] /\ "activation" \in Records
    BY ContentsListed, RecordsListed
  <2>3. ~overlapped =>
          files["activation"] = "ENABLED" \/ Rank(files["activation"]) < Rank("ENABLED")
    BY <2>1, SingleContents, LabTyped, RankValues, RecordsListed, ContentsListed
       DEF LabInv, LabTypeOK
  <2> QED
    BY <2>1, <2>2, <2>3, GrownPut
<1>7. CASE RecordAuthorization
  <2>1. /\ run = "authorization" /\ overlapped' = overlapped /\ files'["authorization"] = "written"
        /\ \A r \in Records : r # "authorization" => files'[r] = files[r]
    <3>1. PICK next : Writes("run", "authorization", "authorization", "written", next)
      BY <1>7 DEF RecordAuthorization
    <3>2. "run" \in Commands /\ "authorization" \in Records
      BY CommandsListed, RecordsListed
    <3> QED
      BY <1>0, <3>1, <3>2, WritesForm DEF run, Same
  <2>2. "written" \in Contents["authorization"] /\ "authorization" \in Records
    BY ContentsListed, RecordsListed
  <2>3. ~overlapped =>
          files["authorization"] = "written" \/ Rank(files["authorization"]) < Rank("written")
    BY <2>1, SingleContents, LabTyped, RankValues, RecordsListed, ContentsListed
       DEF LabInv, LabTypeOK
  <2> QED
    BY <2>1, <2>2, <2>3, GrownPut
<1>8. CASE AuthorizeWrite
  <2>1. /\ run = "authorized" /\ overlapped' = overlapped /\ files'["invocation"] = "AUTHORIZED"
        /\ \A r \in Records : r # "invocation" => files'[r] = files[r]
    <3>1. PICK next : Writes("run", "authorized", "invocation", "AUTHORIZED", next)
      BY <1>8 DEF AuthorizeWrite
    <3>2. "run" \in Commands /\ "invocation" \in Records
      BY CommandsListed, RecordsListed
    <3> QED
      BY <1>0, <3>1, <3>2, WritesForm DEF run, Same
  <2>2. "AUTHORIZED" \in Contents["invocation"] /\ "invocation" \in Records
    BY ContentsListed, RecordsListed
  <2>3. ~overlapped =>
          files["invocation"] = "AUTHORIZED" \/ Rank(files["invocation"]) < Rank("AUTHORIZED")
    BY <2>1, SingleContents, LabTyped, RankValues, RecordsListed, ContentsListed
       DEF LabInv, PhaseInv, Early, Ended
  <2> QED
    BY <2>1, <2>2, <2>3, GrownPut
<1>9. CASE BindWrite
  <2>1. /\ run = "bound" /\ overlapped' = overlapped /\ files'["attempt"] = "RUNNING"
        /\ \A r \in Records : r # "attempt" => files'[r] = files[r]
    <3>1. PICK next : Writes("run", "bound", "attempt", "RUNNING", next)
      BY <1>9 DEF BindWrite
    <3>2. "run" \in Commands /\ "attempt" \in Records
      BY CommandsListed, RecordsListed
    <3> QED
      BY <1>0, <3>1, <3>2, WritesForm DEF run, Same
  <2>2. "RUNNING" \in Contents["attempt"] /\ "attempt" \in Records
    BY ContentsListed, RecordsListed
  <2>3. ~overlapped =>
          files["attempt"] = "RUNNING" \/ Rank(files["attempt"]) < Rank("RUNNING")
    BY <2>1, SingleContents, LabTyped, RankValues, RecordsListed, ContentsListed
       DEF LabInv, PhaseInv, Early, Ended
  <2> QED
    BY <2>1, <2>2, <2>3, GrownPut
<1>10. CASE DispatchWrite
  <2>1. /\ run = "dispatched" /\ overlapped' = overlapped /\ files'["invocation"] = "DISPATCHING"
        /\ \A r \in Records : r # "invocation" => files'[r] = files[r]
    <3>1. PICK next : Writes("run", "dispatched", "invocation", "DISPATCHING", next)
      BY <1>10 DEF DispatchWrite
    <3>2. "run" \in Commands /\ "invocation" \in Records
      BY CommandsListed, RecordsListed
    <3> QED
      BY <1>0, <3>1, <3>2, WritesForm DEF run, Same
  <2>2. "DISPATCHING" \in Contents["invocation"] /\ "invocation" \in Records
    BY ContentsListed, RecordsListed
  <2>3. ~overlapped =>
          files["invocation"] = "DISPATCHING" \/ Rank(files["invocation"]) < Rank("DISPATCHING")
    BY <2>1, SingleContents, LabTyped, RankValues, RecordsListed, ContentsListed
       DEF LabInv, PhaseInv, Early, Ended
  <2> QED
    BY <2>1, <2>2, <2>3, GrownPut
<1>11. CASE Containing
  BY <1>11, ContainingStep
<1>12. CASE ProveAbsence
  <2>1. /\ run = "exited" /\ overlapped' = overlapped /\ files'["custody"] = "ABSENCE_VERIFIED"
        /\ \A r \in Records : r # "custody" => files'[r] = files[r]
    <3>1. PICK next : Writes("run", "exited", "custody", "ABSENCE_VERIFIED", next)
      BY <1>12 DEF ProveAbsence
    <3>2. "run" \in Commands /\ "custody" \in Records
      BY CommandsListed, RecordsListed
    <3> QED
      BY <1>0, <3>1, <3>2, WritesForm DEF run, Same
  <2>2. "ABSENCE_VERIFIED" \in Contents["custody"] /\ "custody" \in Records
    BY ContentsListed, RecordsListed
  <2>3. ~overlapped =>
          files["custody"] = "ABSENCE_VERIFIED" \/ Rank(files["custody"]) < Rank("ABSENCE_VERIFIED")
    BY <2>1, SingleContents, LabTyped, RankValues, RecordsListed, ContentsListed
       DEF LabInv, LabTypeOK, AdapterInv, Fits, Rising, Early
  <2> QED
    BY <2>1, <2>2, <2>3, GrownPut
<1>13. CASE FaultAbsence
  <2>1. /\ run = "faulted" /\ overlapped' = overlapped /\ files'["custody"] = "ABSENCE_VERIFIED"
        /\ \A r \in Records : r # "custody" => files'[r] = files[r]
    <3>1. PICK next : Writes("run", "faulted", "custody", "ABSENCE_VERIFIED", next)
      BY <1>13 DEF FaultAbsence
    <3>2. "run" \in Commands /\ "custody" \in Records
      BY CommandsListed, RecordsListed
    <3> QED
      BY <1>0, <3>1, <3>2, WritesForm DEF run, Same
  <2>2. "ABSENCE_VERIFIED" \in Contents["custody"] /\ "custody" \in Records
    BY ContentsListed, RecordsListed
  <2>3. ~overlapped =>
          files["custody"] = "ABSENCE_VERIFIED" \/ Rank(files["custody"]) < Rank("ABSENCE_VERIFIED")
    BY <2>1, SingleContents, LabTyped, RankValues, RecordsListed, ContentsListed
       DEF LabInv, LabTypeOK, AdapterInv, Fits, Rising, Early
  <2> QED
    BY <2>1, <2>2, <2>3, GrownPut
<1>14. CASE WriteResult
  <2>1. /\ run = "result" /\ overlapped' = overlapped /\ files'["result"] = "written"
        /\ \A r \in Records : r # "result" => files'[r] = files[r]
    <3>1. PICK next : Writes("run", "result", "result", "written", next)
      BY <1>14 DEF WriteResult
    <3>2. "run" \in Commands /\ "result" \in Records
      BY CommandsListed, RecordsListed
    <3> QED
      BY <1>0, <3>1, <3>2, WritesForm DEF run, Same
  <2>2. "written" \in Contents["result"] /\ "result" \in Records
    BY ContentsListed, RecordsListed
  <2>3. ~overlapped =>
          files["result"] = "written" \/ Rank(files["result"]) < Rank("written")
    BY <2>1, SingleContents, LabTyped, RankValues, RecordsListed, ContentsListed
       DEF LabInv, LabTypeOK
  <2> QED
    BY <2>1, <2>2, <2>3, GrownPut
<1>15. CASE CompleteWrite
  <2>1. /\ run = "completed" /\ overlapped' = overlapped /\ files'["invocation"] = "COMPLETED"
        /\ \A r \in Records : r # "invocation" => files'[r] = files[r]
    <3>1. PICK next : Writes("run", "completed", "invocation", "COMPLETED", next)
      BY <1>15 DEF CompleteWrite
    <3>2. "run" \in Commands /\ "invocation" \in Records
      BY CommandsListed, RecordsListed
    <3> QED
      BY <1>0, <3>1, <3>2, WritesForm DEF run, Same
  <2>2. "COMPLETED" \in Contents["invocation"] /\ "invocation" \in Records
    BY ContentsListed, RecordsListed
  <2>3. ~overlapped =>
          files["invocation"] = "COMPLETED" \/ Rank(files["invocation"]) < Rank("COMPLETED")
    BY <2>1, SingleContents, LabTyped, RankValues, RecordsListed, ContentsListed
       DEF LabInv, PhaseInv, Early, Ended
  <2> QED
    BY <2>1, <2>2, <2>3, GrownPut
<1>16. CASE CandidateWrite
  <2>1. /\ run = "candidated" /\ overlapped' = overlapped /\ files'["attempt"] = "CANDIDATE"
        /\ \A r \in Records : r # "attempt" => files'[r] = files[r]
    <3>1. PICK next : Writes("run", "candidated", "attempt", "CANDIDATE", next)
      BY <1>16 DEF CandidateWrite
    <3>2. "run" \in Commands /\ "attempt" \in Records
      BY CommandsListed, RecordsListed
    <3> QED
      BY <1>0, <3>1, <3>2, WritesForm DEF run, Same
  <2>2. "CANDIDATE" \in Contents["attempt"] /\ "attempt" \in Records
    BY ContentsListed, RecordsListed
  <2>3. ~overlapped =>
          files["attempt"] = "CANDIDATE" \/ Rank(files["attempt"]) < Rank("CANDIDATE")
    BY <2>1, SingleContents, LabTyped, RankValues, RecordsListed, ContentsListed
       DEF LabInv, PhaseInv, Early, Ended
  <2> QED
    BY <2>1, <2>2, <2>3, GrownPut
<1>17. CASE StopWrite
  <2>1. /\ recovery = "stopping" /\ overlapped' = overlapped /\ files'["invocation"] = StoppedState
        /\ \A r \in Records : r # "invocation" => files'[r] = files[r]
    <3>1. PICK next : Writes("recover", "stopping", "invocation", StoppedState, next)
      BY <1>17 DEF StopWrite
    <3>2. "recover" \in Commands /\ "invocation" \in Records
      BY CommandsListed, RecordsListed
    <3> QED
      BY <1>0, <3>1, <3>2, WritesForm DEF recovery, Same
  <2>2. StoppedState \in Contents["invocation"] /\ "invocation" \in Records
    BY ContentsListed, RecordsListed DEF StoppedState
  <2>3. ~overlapped =>
          files["invocation"] = StoppedState \/ Rank(files["invocation"]) < Rank(StoppedState)
    BY <2>1, RankValues, RecordsListed, ContentsListed
       DEF LabInv, TrackInv, RecordedInv, Behind, StoppedState, read
  <2> QED
    BY <2>1, <2>2, <2>3, GrownPut
<1>18. CASE UnreadyWrite
  <2>1. /\ recovery = "unreadying" /\ overlapped' = overlapped /\ files'["attempt"] = "ABORTED"
        /\ \A r \in Records : r # "attempt" => files'[r] = files[r]
    <3>1. PICK next : Writes("recover", "unreadying", "attempt", "ABORTED", next)
      BY <1>18 DEF UnreadyWrite
    <3>2. "recover" \in Commands /\ "attempt" \in Records
      BY CommandsListed, RecordsListed
    <3> QED
      BY <1>0, <3>1, <3>2, WritesForm DEF recovery, Same
  <2>2. "ABORTED" \in Contents["attempt"] /\ "attempt" \in Records
    BY ContentsListed, RecordsListed
  <2>3. ~overlapped =>
          files["attempt"] = "ABORTED" \/ Rank(files["attempt"]) < Rank("ABORTED")
    BY <2>1, RankValues, RecordsListed, ContentsListed
       DEF LabInv, TrackInv, RecordedInv, Behind, StoppedState, read
  <2> QED
    BY <2>1, <2>2, <2>3, GrownPut
<1>19. CASE DeriveWrite
  <2>1. /\ recovery = "proving" /\ overlapped' = overlapped /\ files'["custody"] = "ABSENCE_VERIFIED"
        /\ \A r \in Records : r # "custody" => files'[r] = files[r]
    <3>1. PICK next : Writes("recover", "proving", "custody", "ABSENCE_VERIFIED", next)
      BY <1>19 DEF DeriveWrite
    <3>2. "recover" \in Commands /\ "custody" \in Records
      BY CommandsListed, RecordsListed
    <3> QED
      BY <1>0, <3>1, <3>2, WritesForm DEF recovery, Same
  <2>2. "ABSENCE_VERIFIED" \in Contents["custody"] /\ "custody" \in Records
    BY ContentsListed, RecordsListed
  <2>3. ~overlapped =>
          files["custody"] = "ABSENCE_VERIFIED" \/ Rank(files["custody"]) < Rank("ABSENCE_VERIFIED")
    BY <2>1, RankValues, RecordsListed, ContentsListed DEF LabInv, LabTypeOK
  <2> QED
    BY <2>1, <2>2, <2>3, GrownPut
<1>20. CASE UncertainWrite
  <2>1. /\ recovery = "doubting" /\ overlapped' = overlapped /\ files'["invocation"] = "UNCERTAIN"
        /\ \A r \in Records : r # "invocation" => files'[r] = files[r]
    <3>1. PICK next : Writes("recover", "doubting", "invocation", "UNCERTAIN", next)
      BY <1>20 DEF UncertainWrite
    <3>2. "recover" \in Commands /\ "invocation" \in Records
      BY CommandsListed, RecordsListed
    <3> QED
      BY <1>0, <3>1, <3>2, WritesForm DEF recovery, Same
  <2>2. "UNCERTAIN" \in Contents["invocation"] /\ "invocation" \in Records
    BY ContentsListed, RecordsListed
  <2>3. ~overlapped =>
          files["invocation"] = "UNCERTAIN" \/ Rank(files["invocation"]) < Rank("UNCERTAIN")
    BY <2>1, RankValues, RecordsListed, ContentsListed
       DEF LabInv, TrackInv, RecordedInv, Behind, StoppedState, read
  <2> QED
    BY <2>1, <2>2, <2>3, GrownPut
<1>21. CASE AbortWrite
  <2>1. /\ recovery = "aborting" /\ overlapped' = overlapped /\ files'["invocation"] = "ABORTED"
        /\ \A r \in Records : r # "invocation" => files'[r] = files[r]
    <3>1. PICK next : Writes("recover", "aborting", "invocation", "ABORTED", next)
      BY <1>21 DEF AbortWrite
    <3>2. "recover" \in Commands /\ "invocation" \in Records
      BY CommandsListed, RecordsListed
    <3> QED
      BY <1>0, <3>1, <3>2, WritesForm DEF recovery, Same
  <2>2. "ABORTED" \in Contents["invocation"] /\ "invocation" \in Records
    BY ContentsListed, RecordsListed
  <2>3. ~overlapped =>
          files["invocation"] = "ABORTED" \/ Rank(files["invocation"]) < Rank("ABORTED")
    BY <2>1, RankValues, RecordsListed, ContentsListed
       DEF LabInv, TrackInv, RecordedInv, Behind, StoppedState, read
  <2> QED
    BY <2>1, <2>2, <2>3, GrownPut
<1>22. CASE EndWrite
  <2>1. /\ recovery = "ending" /\ overlapped' = overlapped /\ files'["attempt"] = "ABORTED"
        /\ \A r \in Records : r # "attempt" => files'[r] = files[r]
    <3>1. PICK next : Writes("recover", "ending", "attempt", "ABORTED", next)
      BY <1>22 DEF EndWrite
    <3>2. "recover" \in Commands /\ "attempt" \in Records
      BY CommandsListed, RecordsListed
    <3> QED
      BY <1>0, <3>1, <3>2, WritesForm DEF recovery, Same
  <2>2. "ABORTED" \in Contents["attempt"] /\ "attempt" \in Records
    BY ContentsListed, RecordsListed
  <2>3. ~overlapped =>
          files["attempt"] = "ABORTED" \/ Rank(files["attempt"]) < Rank("ABORTED")
    BY <2>1, RankValues, RecordsListed, ContentsListed
       DEF LabInv, TrackInv, RecordedInv, Behind, StoppedState, read
  <2> QED
    BY <2>1, <2>2, <2>3, GrownPut
<1>23. CASE WriteRecovery
  <2>1. /\ recovery = "evidence" /\ overlapped' = overlapped /\ files'["recovery"] = StoppedState
        /\ \A r \in Records : r # "recovery" => files'[r] = files[r]
    <3>1. PICK next : Writes("recover", "evidence", "recovery", StoppedState, next)
      BY <1>23 DEF WriteRecovery
    <3>2. "recover" \in Commands /\ "recovery" \in Records
      BY CommandsListed, RecordsListed
    <3> QED
      BY <1>0, <3>1, <3>2, WritesForm DEF recovery, Same
  <2>2. StoppedState \in Contents["recovery"] /\ "recovery" \in Records
    BY ContentsListed, RecordsListed DEF StoppedState
  <2>3. ~overlapped =>
          files["recovery"] = StoppedState \/ Rank(files["recovery"]) < Rank(StoppedState)
    BY <2>1, RankValues, RecordsListed, ContentsListed
       DEF LabInv, TrackInv, RecordedInv, Behind, StoppedState, read
  <2> QED
    BY <2>1, <2>2, <2>3, GrownPut
<1>24. ASSUME files' = files, overlapped => overlapped'
      PROVE  Grown
  BY <1>24 DEF Grown
<1>25. CASE RecoverBegin
  BY <1>25, <1>24 DEF RecoverBegin
<1>26. CASE RunStops \/ RecoverStops \/ AdapterWrites \/ AdapterEnds
  BY <1>26, <1>24 DEF RunStops, RecoverStops, AdapterWrites, AdapterEnds
<1>27. CASE RunAdmitted \/ PrepareWorkspace \/ AdapterPrepare \/ AuthorizeCheck \/
        AdapterPreflight \/ BindCheck \/ DispatchCheck \/ LaunchInspect \/
        Accept \/ CompleteCheck \/ CandidateCheck
  BY <1>27, <1>24
     DEF RunAdmitted, PrepareWorkspace, AdapterPrepare, AuthorizeCheck, AdapterPreflight,
     BindCheck, DispatchCheck, LaunchInspect, Accept, CompleteCheck,
     CandidateCheck, Checks
<1>28. CASE RecoverAttempt \/ RecoverVerify \/ StopCheck \/ DiscardCheck \/ RemoveWorkspace \/
        UnreadyCheck \/ Unlink \/ RecoverCustody \/ DeriveCheck \/ Inspect \/
        UncertainCheck \/ AbortCheck \/ EndCheck
  BY <1>28, <1>24 DEF RecoverAttempt, RecoverVerify, StopCheck, DiscardCheck, RemoveWorkspace,
     UnreadyCheck, Unlink, RecoverCustody, DeriveCheck, Inspect, UncertainCheck,
     AbortCheck, EndCheck, Checks
<1> QED
  BY <1>1, <1>2, <1>3, <1>4, <1>5, <1>6, <1>7, <1>8, <1>9, <1>10, <1>11,
     <1>12, <1>13, <1>14, <1>15, <1>16, <1>17, <1>18, <1>19, <1>20, <1>21, <1>22, <1>23,
     <1>25, <1>26, <1>27, <1>28
     DEF LabNext, Run, Containing, Recover

LEMMA LabStep ==
  ASSUME LabInv, LabNext
  PROVE  LabInv'
BY RunStep, RunStopsStep, AdapterStep, AdapterEndsStep, RecoverStep, RecoverStopsStep DEF LabNext

LEMMA LabStands ==
  ASSUME LabInv, UNCHANGED labVars
  PROVE  LabInv'
<1>1. /\ files' = files /\ receipt' = receipt /\ workspace' = workspace /\ adapter' = adapter
      /\ cli' = cli /\ recoveries' = recoveries /\ resumes' = resumes
      /\ overlapped' = overlapped
  BY DEF labVars
<1>2. run' = run /\ recovery' = recovery /\ read' = read
  BY <1>1 DEF run, recovery, read
<1>3. LabTypeOK' /\ CliInv' /\ AdapterInv' /\ PhaseInv' /\ EarlyInv'
  BY <1>1, <1>2 DEF LabInv, LabTypeOK, CliInv, AdapterInv, Fits, PhaseInv, EarlyInv
<1>4. GoneInv' /\ DeadInv' /\ RecordedInv'
  BY <1>1, <1>2 DEF LabInv, GoneInv, Barred, DeadInv, Behind, RecordedInv
<1>5. TrackInv'
  BY <1>1, <1>2 DEF LabInv, TrackInv, Behind, StoppedState, read
<1>6. ResumeInv'
  BY <1>1, <1>2 DEF LabInv, ResumeInv, Resumable
<1> QED
  BY <1>3, <1>4, <1>5, <1>6 DEF LabInv

-----------------------------------------------------------------------------
(* The backup while the commands are at work. *)
LEMMA BackupStands ==
  ASSUME BackupInv, Grown, UNCHANGED backupVars
  PROVE  BackupInv'
<1>1. /\ taker' = taker /\ walk' = walk /\ names' = names /\ manifest' = manifest
      /\ copying' = copying /\ intact' = intact /\ began' = began /\ instant' = instant
      /\ complete' = complete /\ backup' = backup
      /\ restorer' = restorer /\ staging' = staging /\ present' = present /\ target' = target
  BY DEF backupVars, takerVars, restoreVars
<1>2. WalkInv'
  BY <1>1 DEF BackupInv, WalkInv, There, Grown
<1>3. ASSUME ~overlapped', NEW r \in DOMAIN manifest
      PROVE  /\ files'[r] = manifest[r] \/ Lags(r)'
             /\ Lags(r) => Lags(r)'
  <2>1. ~overlapped /\ r \in Records /\ (files[r] = manifest[r] \/ Lags(r))
    BY <1>3 DEF BackupInv, LagInv, WalkInv, Grown
  <2>2. files'[r] = files[r] \/ Rank(files[r]) < Rank(files'[r])
    BY <1>3, <2>1 DEF Grown
  <2>3. Rank(files[r]) \in 0..6 /\ Rank(files'[r]) \in 0..6 /\ Rank(manifest[r]) \in 0..6
    BY RankValues
  <2>4. Lags(r)' <=> Rank(manifest[r]) < Rank(files'[r])
    BY <1>1 DEF Lags
  <2> QED
    BY <2>1, <2>2, <2>3, <2>4 DEF Lags
<1>4. LagInv'
  <2>1. SUFFICES ASSUME ~overlapped'
                 PROVE  /\ \A r \in DOMAIN manifest : files'[r] = manifest[r] \/ Lags(r)'
                        /\ taker = "copying" /\ ~instant /\ intact =>
                             \E r \in copying : Lags(r)'
    BY <1>1 DEF LagInv
  <2>2. ~overlapped /\ copying \subseteq DOMAIN manifest
    BY <2>1 DEF Grown, BackupInv, WalkInv
  <2>3. taker = "copying" /\ ~instant /\ intact => \E r \in copying : Lags(r)
    BY <2>2 DEF BackupInv, LagInv
  <2> QED
    BY <1>3, <2>1, <2>2, <2>3
<1>5. PublishedInv' /\ RestoreInv'
  BY <1>1 DEF BackupInv, PublishedInv, RestoreInv, Grown
<1> QED
  BY <1>2, <1>4, <1>5 DEF BackupInv

LEMMA DirectoriesListed ==
  \A r \in Records : In[r] # "curricula" => In[r] \in StateDirectories
<1>1. DOMAIN Directories = 1..6
  BY DEF Directories
<1>2. \A i \in 1..6 : Directories[i] \in StateDirectories
  BY <1>1 DEF StateDirectories
<1>3. /\ Directories[1] = "attempts" /\ Directories[2] = "evaluation-plans"
      /\ Directories[3] = "invocations" /\ Directories[4] = "operator"
      /\ Directories[5] = "process-custody" /\ Directories[6] = "results"
  BY DEF Directories
<1>4. {"attempts", "evaluation-plans", "invocations", "operator", "process-custody", "results"}
        \subseteq StateDirectories
  BY <1>2, <1>3
<1> QED
  BY <1>4, RecordsListed DEF In

(* A step of the backup or of the restore leaves the records alone. *)
LEMMA BackupReads ==
  ASSUME BackupNext
  PROVE  files' = files
BY DEF BackupNext, BackupBegin, HashFile, ListState, ListDirectory, Hashed, CopyFile,
       PublishBackup, BackupFails, Damage, RestoreVerify, RestoreCopy, RestoreCheck,
       RestoreMakeRoom, RestorePublish, RestoreFails

LEMMA TakerStep ==
  ASSUME BackupInv, overlapped' = overlapped,
         \/ BackupBegin \/ HashFile \/ ListState \/ ListDirectory \/ Hashed
         \/ CopyFile \/ PublishBackup \/ BackupFails
  PROVE  BackupInv'
<1>0. /\ files' = files /\ restorer' = restorer /\ staging' = staging
      /\ present' = present /\ target' = target
  BY DEF BackupBegin, HashFile, ListState, ListDirectory, Hashed, CopyFile, PublishBackup,
         BackupFails, restoreVars
<1>1. RestoreInv'
  BY <1>0 DEF BackupInv, RestoreInv
<1>2. There' = There /\ \A d : Listed(d)' = Listed(d)
  BY <1>0 DEF There, Listed
<1>3. \A r : Rank(files[r]) \in 0..6
  BY RankValues
<1>4. WalkInv /\ LagInv /\ PublishedInv
  BY DEF BackupInv
<1>5. CASE BackupBegin
  <2>1. /\ taker = "idle" /\ taker' = "curricula" /\ names' = Listed("curricula")
        /\ began' = There /\ manifest' = manifest /\ copying' = copying /\ backup' = backup
    BY <1>5 DEF BackupBegin
  <2>2. WalkInv'
    BY <1>2, <1>4, <2>1 DEF WalkInv, Listed, There
  <2>3. LagInv' /\ PublishedInv'
    BY <1>0, <1>4, <2>1 DEF LagInv, PublishedInv, Lags
  <2> QED
    BY <1>1, <2>2, <2>3 DEF BackupInv
<1>6. CASE HashFile
  <2>1. PICK f \in names :
          /\ taker \in {"curricula", "state"} /\ taker' = taker
          /\ manifest' = [r \in {f} \cup DOMAIN manifest |->
                            IF r = f THEN files[r] ELSE manifest[r]]
          /\ names' = names \ {f} /\ walk' = walk /\ copying' = copying /\ intact' = intact
          /\ began' = began /\ instant' = instant /\ complete' = complete /\ backup' = backup
    BY <1>6 DEF HashFile
  <2>2. /\ DOMAIN manifest' = {f} \cup DOMAIN manifest
        /\ \A r \in DOMAIN manifest' :
             manifest'[r] = IF r = f THEN files[r] ELSE manifest[r]
    BY <2>1
  <2>3. WalkInv'
    <3>1. /\ names' \subseteq Records /\ DOMAIN manifest' \subseteq Records
          /\ began' \subseteq There' /\ copying' \subseteq DOMAIN manifest'
      BY <1>2, <1>4, <2>1, <2>2 DEF WalkInv
    <3>2. names' \cup DOMAIN manifest' = names \cup DOMAIN manifest
      BY <2>1, <2>2
    <3>3. taker = "curricula" =>
            \A r \in began : In[r] = "curricula" => r \in names' \cup DOMAIN manifest'
      BY <1>4, <3>2 DEF WalkInv
    <3>4. taker = "state" =>
            \A r \in began : r \in names' \cup DOMAIN manifest' \/ In[r] \in walk
      BY <1>4, <3>2 DEF WalkInv
    <3> QED
      BY <2>1, <3>1, <3>3, <3>4 DEF WalkInv
  <2>4. LagInv'
    <3>1. \A r \in DOMAIN manifest' : ~overlapped => files[r] = manifest'[r] \/ Lags(r)'
      BY <1>0, <1>4, <2>2 DEF LagInv, Lags
    <3> QED
      BY <1>0, <2>1, <3>1 DEF LagInv
  <2>5. PublishedInv'
    BY <1>4, <2>1 DEF PublishedInv
  <2> QED
    BY <1>1, <2>3, <2>4, <2>5 DEF BackupInv
<1>7. CASE ListState
  <2>1. /\ taker = "curricula" /\ taker' = "state" /\ names = {} /\ names' = names
        /\ walk' = {d \in StateDirectories : Listed(d) # {}}
        /\ manifest' = manifest /\ copying' = copying /\ began' = began /\ backup' = backup
    BY <1>7 DEF ListState
  <2>2. ASSUME NEW r \in began, r \notin DOMAIN manifest
        PROVE  In[r] \in walk'
    <3>1. r \in There /\ r \in Records /\ In[r] # "curricula"
      BY <1>4, <2>1, <2>2 DEF WalkInv, There
    <3>2. r \in Listed(In[r])
      BY <3>1 DEF Listed
    <3> QED
      BY <2>1, <3>1, <3>2, DirectoriesListed
  <2>3. WalkInv'
    BY <1>2, <1>4, <2>1, <2>2 DEF WalkInv
  <2>4. LagInv' /\ PublishedInv'
    BY <1>0, <1>4, <2>1 DEF LagInv, PublishedInv, Lags
  <2> QED
    BY <1>1, <2>3, <2>4 DEF BackupInv
<1>8. CASE ListDirectory
  <2>1. PICK d \in walk :
          /\ taker = "state" /\ taker' = taker /\ names = {}
          /\ names' = Listed(d) /\ walk' = walk \ {d}
          /\ manifest' = manifest /\ copying' = copying /\ began' = began /\ backup' = backup
    BY <1>8 DEF ListDirectory
  <2>2. ASSUME NEW r \in began, r \notin DOMAIN manifest, In[r] \notin walk'
        PROVE  r \in names'
    <3>1. r \in There /\ r \in Records /\ In[r] = d
      BY <1>4, <2>1, <2>2 DEF WalkInv, There
    <3> QED
      BY <2>1, <3>1 DEF Listed
  <2>3. names' \subseteq Records
    BY <2>1 DEF Listed, There
  <2>4. WalkInv'
    BY <1>2, <1>4, <2>1, <2>2, <2>3 DEF WalkInv
  <2>5. LagInv' /\ PublishedInv'
    BY <1>0, <1>4, <2>1 DEF LagInv, PublishedInv, Lags
  <2> QED
    BY <1>1, <2>4, <2>5 DEF BackupInv
<1>9. CASE Hashed
  <2>1. /\ taker = "state" /\ taker' = "copying" /\ names = {} /\ walk = {}
        /\ copying' = DOMAIN manifest
        /\ instant' = (\A r \in DOMAIN manifest : files[r] = manifest[r])
        /\ names' = names /\ manifest' = manifest /\ intact' = intact /\ began' = began
        /\ complete' = complete /\ backup' = backup
    BY <1>9 DEF Hashed
  <2>2. WalkInv'
    BY <1>2, <1>4, <2>1 DEF WalkInv
  <2>3. LagInv'
    <3>1. ~overlapped => \A r \in DOMAIN manifest : files[r] = manifest[r] \/ Lags(r)
      BY <1>4 DEF LagInv
    <3>2. ~overlapped /\ ~instant' => \E r \in copying' : Lags(r)
      BY <2>1, <3>1
    <3>3. \A r : Lags(r)' <=> Lags(r)
      BY <1>0, <2>1 DEF Lags
    <3> QED
      BY <1>0, <2>1, <3>1, <3>2, <3>3 DEF LagInv
  <2>4. PublishedInv'
    BY <1>4, <2>1 DEF PublishedInv
  <2> QED
    BY <1>1, <2>2, <2>3, <2>4 DEF BackupInv
<1>10. CASE CopyFile
  <2>1. PICK f \in copying :
          /\ taker = "copying" /\ taker' = taker /\ copying' = copying \ {f}
          /\ intact' => intact /\ files[f] = manifest[f]
          /\ names' = names /\ walk' = walk /\ manifest' = manifest /\ began' = began
          /\ instant' = instant /\ complete' = complete /\ backup' = backup
    BY <1>10 DEF CopyFile
  <2>2. WalkInv'
    BY <1>2, <1>4, <2>1 DEF WalkInv
  <2>3. LagInv'
    <3>1. ~overlapped /\ ~instant /\ intact => \E r \in copying : Lags(r)
      BY <1>4, <2>1 DEF LagInv
    <3>2. files[f] = manifest[f] => ~Lags(f)
      <4>1. Rank(files[f]) \in 0..6
        BY <1>3
      <4> QED
        BY <4>1 DEF Lags
    <3>3. \A r : Lags(r)' <=> Lags(r)
      BY <1>0, <2>1 DEF Lags
    <3>4. ~overlapped /\ ~instant /\ intact' => \E r \in copying' : Lags(r)'
      BY <2>1, <3>1, <3>2, <3>3
    <3> QED
      BY <1>0, <1>4, <2>1, <3>3, <3>4 DEF LagInv
  <2>4. PublishedInv'
    BY <1>4, <2>1 DEF PublishedInv
  <2> QED
    BY <1>1, <2>2, <2>3, <2>4 DEF BackupInv
<1>11. ASSUME NEW how \in {"done", "refused"}, Ends(how)
       PROVE  WalkInv' /\ LagInv'
  <2>1. /\ taker' = how /\ walk' = {} /\ names' = {} /\ manifest' = NoFiles
        /\ copying' = {} /\ began' = {} /\ DOMAIN manifest' = {}
    BY <1>11 DEF Ends, NoFiles
  <2> QED
    BY <2>1 DEF WalkInv, LagInv
<1>12. CASE PublishBackup
  <2>1. taker = "copying" /\ copying = {}
    BY <1>12 DEF PublishBackup
  <2>2. CASE intact /\ Published
    <3>1. /\ Ends("done") /\ taker' = "done" /\ instant' = instant
          /\ complete' = (began \subseteq DOMAIN manifest)
      BY <2>2 DEF Published, Ends
    <3>2. complete' /\ (overlapped \/ instant)
      BY <1>4, <2>1, <2>2, <3>1 DEF WalkInv, LagInv
    <3>3. PublishedInv'
      BY <3>1, <3>2 DEF PublishedInv
    <3> QED
      BY <1>1, <1>11, <3>1, <3>3 DEF BackupInv
  <2>3. CASE Ends("refused") /\ backup' = backup
    <3>1. PublishedInv'
      BY <1>4, <2>1, <2>3 DEF PublishedInv
    <3> QED
      BY <1>1, <1>11, <2>3, <3>1 DEF BackupInv
  <2> QED
    BY <1>12, <2>2, <2>3 DEF PublishBackup
<1>13. CASE BackupFails
  <2>1. taker \in {"curricula", "state", "copying"} /\ Ends("refused") /\ backup' = backup
    BY <1>13 DEF BackupFails
  <2>2. PublishedInv'
    BY <1>4, <2>1 DEF PublishedInv
  <2> QED
    BY <1>1, <1>11, <2>1, <2>2 DEF BackupInv
<1> QED
  BY <1>5, <1>6, <1>7, <1>8, <1>9, <1>10, <1>12, <1>13

LEMMA RestoreStep ==
  ASSUME BackupInv, overlapped' = overlapped,
         \/ Damage \/ RestoreVerify \/ RestoreCopy \/ RestoreCheck \/ RestoreMakeRoom
         \/ RestorePublish \/ RestoreFails
  PROVE  BackupInv'
<1>1. /\ files' = files /\ taker' = taker /\ walk' = walk /\ names' = names
      /\ manifest' = manifest /\ copying' = copying /\ intact' = intact /\ began' = began
      /\ instant' = instant /\ complete' = complete
      /\ backup' = backup \/ backup = "whole"
  BY DEF Damage, RestoreVerify, RestoreCopy, RestoreCheck, RestoreMakeRoom, RestorePublish,
         RestoreFails, takerVars
<1>2. WalkInv' /\ LagInv' /\ PublishedInv'
  BY <1>1 DEF BackupInv, WalkInv, LagInv, PublishedInv, There, Lags
<1>3. RestoreInv'
  <2>0. RestoreInv
    BY DEF BackupInv
  <2>1. CASE Damage
    BY <2>0, <2>1 DEF Damage, RestoreInv, restoreVars
  <2>2. CASE RestoreVerify
    <3>1. restorer' \in {"verified", "refused"} /\ target' \in {"absent", "empty"}
          /\ (present' => target' = "empty")
      BY <2>2 DEF RestoreVerify
    <3> QED
      BY <3>1 DEF RestoreInv
  <2>3. CASE RestoreCopy
    BY <2>0, <2>3 DEF RestoreCopy, RestoreInv
  <2>4. CASE RestoreCheck
    BY <2>0, <2>4 DEF RestoreCheck, RestoreInv
  <2>5. CASE RestoreMakeRoom
    BY <2>0, <2>5 DEF RestoreMakeRoom, RestoreInv
  <2>6. CASE RestorePublish
    BY <2>0, <2>6 DEF RestorePublish, RestoreInv
  <2>7. CASE RestoreFails
    BY <2>0, <2>7 DEF RestoreFails, RestoreInv
  <2> QED
    BY <2>1, <2>2, <2>3, <2>4, <2>5, <2>6, <2>7
<1> QED
  BY <1>2, <1>3 DEF BackupInv

-----------------------------------------------------------------------------
LEMMA InitCorrect == Init => IInv
<1> SUFFICES ASSUME Init
             PROVE  IInv
  OBVIOUS
<1>1. /\ files = [r \in Records |-> None] /\ receipt = None /\ workspace = "absent"
      /\ adapter = "none" /\ cli = [c \in Commands |-> Idle] /\ recoveries = 0
      /\ resumes = FALSE /\ overlapped = FALSE
  BY DEF Init, SyntheticInit
<1>2. run = "idle" /\ recovery = "idle" /\ CliInv
  BY <1>1 DEF run, recovery, CliInv, Commands, Idle
<1>3. \A r \in Records : files[r] = None
  BY <1>1
<1>4. None # "PREPARED"
  BY ContentsAssumption, ContentsListed, RecordsListed
<1>5. LabTypeOK
  <2>1. DOMAIN files = Records /\ \A r \in Records : files[r] \in Contents[r] \cup {None}
    BY <1>1, <1>3
  <2>2. recoveries \in 0..MaxRecoveries
    BY <1>1, RecoveriesAssumption
  <2> QED
    BY <1>1, <1>4, <2>1, <2>2 DEF LabTypeOK
<1>6. AdapterInv /\ PhaseInv /\ EarlyInv /\ GoneInv /\ DeadInv /\ TrackInv /\ RecordedInv /\ ResumeInv
  BY <1>1, <1>2, <1>3, RecordsListed
     DEF AdapterInv, Fits, InJob, PhaseInv, EarlyInv, GoneInv, Barred, DeadInv, TrackInv,
         RecordedInv, ResumeInv, Ended, Rising, Early, Launching
<1>7. BackupInv
  BY DEF Init, BackupInit, BackupInv, WalkInv, LagInv, PublishedInv, RestoreInv, NoFiles
<1> QED
  BY <1>2, <1>5, <1>6, <1>7 DEF IInv, LabInv

LEMMA StepCorrect == IInv /\ [Next]_vars => IInv'
<1> SUFFICES ASSUME IInv, [Next]_vars
             PROVE  IInv'
  OBVIOUS
<1>0. LabInv /\ BackupInv
  BY DEF IInv
<1>1. CASE LabNext /\ UNCHANGED backupVars
  BY <1>0, <1>1, LabStep, LabGrows, BackupStands DEF IInv
<1>2. CASE BackupNext /\ UNCHANGED <<receipt, workspace, adapter, cli, recoveries, resumes, overlapped>>
  <2>1. UNCHANGED labVars
    BY <1>2, BackupReads DEF labVars
  <2>2. BackupInv'
    BY <1>0, <1>2, TakerStep, RestoreStep DEF BackupNext
  <2> QED
    BY <1>0, <2>1, <2>2, LabStands DEF IInv
<1>3. CASE UNCHANGED vars
  <2>1. UNCHANGED labVars /\ UNCHANGED backupVars
    BY <1>3 DEF vars
  <2>2. Grown
    BY <2>1 DEF labVars, Grown
  <2> QED
    BY <1>0, <2>1, <2>2, LabStands, BackupStands DEF IInv
<1> QED
  BY <1>1, <1>2, <1>3 DEF Next

(* The inductive invariant of the lab and of the backups taken of it.           *)
THEOREM LabCorrect == Spec => []IInv
BY InitCorrect, StepCorrect, PTL DEF Spec

(* The records, the workspace and the commands keep their types.                *)
THEOREM LabTypeCorrect == Spec => []LabTypeOK
<1>1. IInv => LabTypeOK
  BY DEF IInv, LabInv
<1> QED
  BY <1>1, LabCorrect, PTL

(* Behind a recovery's record of its outcome no adapter of the run is in its    *)
(* job, with its request or without, however the two commands were interleaved, *)
(* wherever the launch faulted and whatever stopped; and if the run had stopped *)
(* when each recovery began, the attempt is ABORTED and the invocation in the   *)
(* state the record names.                                                      *)
THEOREM StoppedProven == Spec => []RecoveredMeansStopped
<1>1. IInv => RecoveredMeansStopped
  BY DEF IInv, LabInv, GoneInv, Barred, AdapterInv, RecordedInv, RecoveredMeansStopped
<1> QED
  BY <1>1, LabCorrect, PTL

(* A recovery of a stopped run that left what the recovery accepts is never     *)
(* refused, whichever of its transitions an earlier recovery had made.          *)
THEOREM ResumptionProven == Spec => []RecoveryResumes
<1>1. IInv => RecoveryResumes
  BY DEF IInv, LabInv, ResumeInv, RecoveryResumes, At, recovery
<1> QED
  BY <1>1, LabCorrect, PTL

(* A published backup has every file that was there when its walk began, and    *)
(* while no recovery overtakes a live run its files are those of one instant:   *)
(* the moment the last one was hashed.                                          *)
THEOREM InstantProven == Spec => []BackupHoldsInstant
<1>1. IInv => BackupHoldsInstant
  BY DEF IInv, BackupInv, PublishedInv, BackupHoldsInstant
<1> QED
  BY <1>1, LabCorrect, PTL

(* A destination is absent, empty or the whole backup, and a restore that was   *)
(* refused leaves the empty directory it found.                                 *)
THEOREM RestoreProven == Spec => []RestoreWhole
<1>1. IInv => RestoreWhole
  BY DEF IInv, BackupInv, RestoreInv, RestoreWhole
<1> QED
  BY <1>1, LabCorrect, PTL
=============================================================================

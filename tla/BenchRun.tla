------------------------------ MODULE BenchRun ------------------------------
(* One benchmark run directory of local-model-bench: BenchmarkRunner.run with   *)
(* its checkpoints, resumption, the re-run of failed cases, the conversations   *)
(* that preserve-mode cases share, the managed model server, and evaluation.    *)
(* A process may be killed between any two writes; only the files survive.      *)
EXTENDS Naturals, Sequences, FiniteSets, SequencesExt

CONSTANTS
  None,
  Models,          \* how many models the configuration lists
  Inputs,          \* contents of the configuration and suites a command may be given
  Key,             \* Key[c]: the (suite, group) whose conversation case c joins, or None
  Retries,         \* run.retries
  Names,           \* snapshot names
  MaxRuns,         \* bound: processes started on the directory
  MaxMishaps       \* bound: kills, interrupts and failed writes, together

Cases == DOMAIN Key
Keys == {Key[c] : c \in Cases} \ {None}

Final == {"completed", "completed_with_errors", "interrupted", "failed"}

\* What manifest.json and a case file hold.
ManifestFile == [status : Final \cup {"running"}, inputs : Inputs]
CaseFile ==
  [status : {"success", "error"}, turns : Seq(Cases \X (1 .. MaxRuns)),
   answer : (1 .. MaxRuns) \cup {None}, inputs : Inputs]

ASSUME BenchAssumption ==
  /\ Models \in Nat \ {0} /\ Retries \in Nat /\ MaxRuns \in Nat /\ MaxMishaps \in Nat
  /\ IsFiniteSet(Cases) /\ Cases = 1 .. Cardinality(Cases)
  /\ None \notin ManifestFile /\ None \notin CaseFile /\ None \notin {"interrupted", "failed", "success"}

VARIABLES
  dir,          \* the run directory exists
  manifest,     \* manifest.json, or None
  checkpoint,   \* the status and the subject in checkpoint.json, or None
  record,       \* record[m][c]: the case file, or None
  summary,      \* summary.csv: the statuses it lists, or None
  snapshots,    \* snapshots[n]: the case files an evaluation snapshot scored, or None
  server,       \* the process that started the live llama-server, or None
  orphaned,     \* a kill or an interrupt of the stop may have left a server alive
  reran,        \* some process was given --rerun-errors
  run,          \* processes started so far
  proc,         \* the runner process
  mishaps

files == <<dir, manifest, checkpoint, record, summary, snapshots>>
vars == <<files, server, orphaned, reran, run, proc, mishaps>>

NoCases == [c \in Cases |-> None]
Statuses == [m \in 1 .. Models |->
               [c \in Cases |-> IF record[m][c] = None THEN None ELSE record[m][c].status]]
NoTalk == [k \in Keys |-> <<>>]
Idle == [pc |-> "idle", m |-> 0, c |-> 0, talk |-> NoTalk, rerun |-> FALSE,
         tries |-> 0, answer |-> None, outcome |-> None, inputs |-> None]

At(l) == proc.pc = l
Go(l) == proc' = [proc EXCEPT !.pc = l]

\* manifest.json, checkpoint.json and the case files are replaced whole.
WriteManifest(status) == manifest' = [manifest EXCEPT !.status = status]
WriteCheckpoint(status, about) == checkpoint' = [status |-> status, about |-> about]

-----------------------------------------------------------------------------
(* Starting and resuming *)

\* run without --resume: refused when the directory exists.
StartRun(v) ==
  /\ At("idle") /\ run < MaxRuns /\ ~dir
  /\ run' = run + 1
  /\ dir' = TRUE
  /\ proc' = [Idle EXCEPT !.pc = "manifest", !.inputs = v]
  /\ UNCHANGED <<manifest, checkpoint, record, summary, snapshots, server, orphaned, reran, mishaps>>

\* Mutant: the manifest is first written at the end of the run.
ManifestDeferred ==
  /\ At("manifest")
  /\ Go("announce")
  /\ UNCHANGED <<files, server, orphaned, reran, run, mishaps>>

\* The first manifest is written after the directory and its copies of the inputs.
FirstManifest ==
  /\ At("manifest")
  /\ manifest' = [status |-> "running", inputs |-> proc.inputs]
  /\ Go("announce")
  /\ UNCHANGED <<dir, checkpoint, record, summary, snapshots, server, orphaned, reran, run, mishaps>>

\* Mutant: the resumed inputs are not compared with the manifest's.
ResumeUnchecked(v, rerun) ==
  /\ At("idle") /\ run < MaxRuns /\ manifest # None
  /\ run' = run + 1
  /\ WriteManifest("running")
  /\ proc' = [Idle EXCEPT !.pc = "announce", !.rerun = rerun, !.inputs = v]
  /\ reran' = (reran \/ rerun)
  /\ UNCHANGED <<dir, checkpoint, record, summary, snapshots, server, orphaned, mishaps>>

\* --resume: a manifest, of the same configuration and suites.
ResumeRun(v, rerun) ==
  /\ At("idle") /\ run < MaxRuns
  /\ manifest # None /\ manifest.inputs = v
  /\ run' = run + 1
  /\ WriteManifest("running")
  /\ proc' = [Idle EXCEPT !.pc = "announce", !.rerun = rerun, !.inputs = v]
  /\ reran' = (reran \/ rerun)
  /\ UNCHANGED <<dir, checkpoint, record, summary, snapshots, server, orphaned, mishaps>>

Announce ==
  /\ At("announce")
  /\ WriteCheckpoint("running", None)
  /\ proc' = [proc EXCEPT !.pc = "model", !.m = 1]
  /\ UNCHANGED <<dir, manifest, record, summary, snapshots, server, orphaned, reran, run, mishaps>>

-----------------------------------------------------------------------------
(* One model *)

\* The managed server is started for the metadata and reused; a port already
\* taken, a start that fails or a wrong model file is an error of every request.
ServerMayAnswer == server \in {None, run}

\* Whatever the metadata requests raise, an interrupt included, is recorded in
\* model.json and the cases are run.
ModelMetadata ==
  /\ At("model")
  /\ server' \in IF server = None THEN {None, run} ELSE {server}
  /\ proc' = [proc EXCEPT !.pc = "next", !.c = 1, !.talk = NoTalk]
  /\ UNCHANGED <<files, orphaned, reran, run, mishaps>>

\* Mutant: --rerun-errors executes every case again.
KeptUnlessRerun(r) == r # None /\ ~proc.rerun

\* The case file of an earlier process that is not executed again.
Kept(r) == r # None /\ r.status \in {"success", "error"} /\ ~(proc.rerun /\ r.status = "error")

\* Mutant: a failed case joins the conversation too.
RestoredAlways(talk, c, r) ==
  IF Key[c] # None THEN [talk EXCEPT ![Key[c]] = Append(r.turns, <<c, r.answer>>)] ELSE talk

\* A successful preserve-mode case replaces its group's conversation by the
\* messages it sent followed by its answer.
Restored(talk, c, r) ==
  IF Key[c] # None /\ r.status = "success"
  THEN [talk EXCEPT ![Key[c]] = Append(r.turns, <<c, r.answer>>)]
  ELSE talk

SkipCase ==
  /\ At("next") /\ proc.c \in Cases
  /\ Kept(record[proc.m][proc.c])
  /\ proc' = [proc EXCEPT !.c = @ + 1,
                          !.talk = Restored(@, proc.c, record[proc.m][proc.c])]
  /\ UNCHANGED <<files, server, orphaned, reran, run, mishaps>>

BeginCase ==
  /\ At("next") /\ proc.c \in Cases
  /\ ~Kept(record[proc.m][proc.c])
  /\ WriteCheckpoint("running", <<proc.m, proc.c>>)
  /\ proc' = [proc EXCEPT !.pc = "chat", !.tries = 0]
  /\ UNCHANGED <<dir, manifest, record, summary, snapshots, server, orphaned, reran, run, mishaps>>

ChatSucceeds ==
  /\ At("chat") /\ ServerMayAnswer
  /\ server' = run
  /\ proc' = [proc EXCEPT !.pc = "save", !.answer = run]
  /\ UNCHANGED <<files, orphaned, reran, run, mishaps>>

\* A failed request is repeated until the retries are used up.
ChatFails ==
  /\ At("chat")
  /\ server' \in IF server = None THEN {None, run} ELSE {server}
  /\ proc' = IF proc.tries < Retries THEN [proc EXCEPT !.tries = @ + 1]
             ELSE [proc EXCEPT !.pc = "save", !.answer = None]
  /\ UNCHANGED <<files, orphaned, reran, run, mishaps>>

\* What a case sends before its own messages.
CaseTurns(talk, c) == IF Key[c] = None THEN <<>> ELSE talk[Key[c]]

CaseRecord ==
  [ status |-> IF proc.answer = None THEN "error" ELSE "success",
    turns  |-> CaseTurns(proc.talk, proc.c),
    answer |-> proc.answer, inputs |-> proc.inputs ]

SaveCase ==
  /\ At("save")
  /\ record' = [record EXCEPT ![proc.m][proc.c] = CaseRecord]
  /\ proc' = [proc EXCEPT !.pc = "saved", !.talk = Restored(@, proc.c, CaseRecord)]
  /\ UNCHANGED <<dir, manifest, checkpoint, summary, snapshots, server, orphaned, reran, run, mishaps>>

EndCase ==
  /\ At("saved")
  /\ WriteCheckpoint(record[proc.m][proc.c].status, <<proc.m, proc.c>>)
  /\ proc' = [proc EXCEPT !.pc = "next", !.c = @ + 1, !.answer = None]
  /\ UNCHANGED <<dir, manifest, record, summary, snapshots, server, orphaned, reran, run, mishaps>>

EndCases ==
  /\ At("next") /\ proc.c \notin Cases
  /\ Go("unload")
  /\ UNCHANGED <<files, server, orphaned, reran, run, mishaps>>

\* Mutant: only a model whose cases all ran is unloaded.
UnloadUnlessFailed ==
  /\ At("unload")
  /\ server' = IF server = run /\ proc.outcome = None THEN None ELSE server
  /\ proc' = IF proc.outcome = None /\ proc.m < Models
             THEN [proc EXCEPT !.pc = "model", !.m = @ + 1] ELSE [proc EXCEPT !.pc = "finish"]
  /\ UNCHANGED <<files, orphaned, reran, run, mishaps>>

\* The finally branch: the managed server is stopped whatever the settings say.
\* An exception of the stop is recorded, not raised.
Unload ==
  /\ At("unload")
  /\ server' = IF server = run THEN None ELSE server
  /\ proc' = IF proc.outcome = None /\ proc.m < Models
             THEN [proc EXCEPT !.pc = "model", !.m = @ + 1] ELSE [proc EXCEPT !.pc = "finish"]
  /\ UNCHANGED <<files, orphaned, reran, run, mishaps>>

-----------------------------------------------------------------------------
(* The end of the run: manifest, then summary, then checkpoint *)

Verdict ==
  IF proc.outcome # None THEN proc.outcome
  ELSE IF \E m \in 1 .. Models, c \in Cases : Statuses[m][c] = "error"
       THEN "completed_with_errors" ELSE "completed"

\* Mutant: the checkpoint is written with the manifest, before the summary.
FinishWithCheckpoint ==
  /\ At("finish")
  /\ WriteManifest(Verdict)
  /\ WriteCheckpoint(Verdict, None)
  /\ Go("summarise")
  /\ UNCHANGED <<dir, record, summary, snapshots, server, orphaned, reran, run, mishaps>>

FinishManifest ==
  /\ At("finish")
  /\ WriteManifest(Verdict)
  /\ Go("summarise")
  /\ UNCHANGED <<dir, checkpoint, record, summary, snapshots, server, orphaned, reran, run, mishaps>>

WriteSummary ==
  /\ At("summarise")
  /\ summary' = Statuses
  /\ Go("close")
  /\ UNCHANGED <<dir, manifest, checkpoint, record, snapshots, server, orphaned, reran, run, mishaps>>

Close ==
  /\ At("close")
  /\ WriteCheckpoint(manifest.status, None)
  /\ proc' = Idle
  /\ UNCHANGED <<dir, manifest, record, summary, snapshots, server, orphaned, reran, run, mishaps>>

\* evaluate --snapshot: any time a manifest exists, into a directory that is new.
Snapshot(n) ==
  /\ manifest # None /\ snapshots[n] = None
  /\ snapshots' = [snapshots EXCEPT ![n] = record]
  /\ UNCHANGED <<dir, manifest, checkpoint, record, summary, server, orphaned, reran, run, proc, mishaps>>

-----------------------------------------------------------------------------
(* Mishaps *)

Mishap == mishaps < MaxMishaps /\ mishaps' = mishaps + 1

\* Ctrl-C while the cases run, or a write that fails: the model's and the run's finally
\* branches follow.
Interrupt ==
  /\ proc.pc \in {"next", "chat", "save", "saved"} /\ Mishap
  /\ proc' = [proc EXCEPT !.pc = "unload", !.outcome = "interrupted"]
  /\ UNCHANGED <<files, server, orphaned, reran, run>>

WriteFails ==
  /\ proc.pc \in {"next", "save", "saved"} /\ Mishap
  /\ At("next") => proc.c \in Cases
  /\ proc' = [proc EXCEPT !.pc = "unload", !.outcome = "failed"]
  /\ UNCHANGED <<files, server, orphaned, reran, run>>

\* model.json is written outside the try whose finally branch stops the server.
MetadataWriteFails ==
  /\ At("model") /\ Mishap
  /\ server' \in IF server = None THEN {None, run} ELSE {server}
  /\ orphaned' = (orphaned \/ server' = run)
  /\ proc' = [proc EXCEPT !.pc = "finish", !.outcome = "failed"]
  /\ UNCHANGED <<files, reran, run>>

\* Whatever the stop of the server raises counts as its answer, a Ctrl-C in it or
\* its own TimeoutExpired when the killed server does not go within its second
\* wait: the server may outlive it and the run goes on.
UnloadCut ==
  /\ At("unload") /\ server = run /\ Mishap
  /\ orphaned' = TRUE
  /\ proc' = IF proc.outcome = None /\ proc.m < Models
             THEN [proc EXCEPT !.pc = "model", !.m = @ + 1] ELSE [proc EXCEPT !.pc = "finish"]
  /\ UNCHANGED <<files, server, reran, run>>

\* The process is gone: killed, or a write of prepare or of the end fails.
Kill ==
  /\ ~At("idle") /\ Mishap
  /\ proc' = Idle
  /\ orphaned' = (orphaned \/ server = run)
  /\ UNCHANGED <<files, server, reran, run>>

\* The operator ends a server that was left behind.
EndOrphan ==
  /\ At("idle") /\ server # None
  /\ server' = None /\ orphaned' = FALSE
  /\ UNCHANGED <<files, reran, run, proc, mishaps>>

-----------------------------------------------------------------------------
Init ==
  /\ dir = FALSE /\ manifest = None /\ checkpoint = None
  /\ record = [m \in 1 .. Models |-> NoCases]
  /\ summary = None
  /\ snapshots = [n \in Names |-> None]
  /\ server = None /\ orphaned = FALSE /\ reran = FALSE
  /\ run = 0 /\ proc = Idle /\ mishaps = 0

Step ==
  \/ FirstManifest \/ Announce \/ ModelMetadata \/ SkipCase \/ BeginCase
  \/ ChatSucceeds \/ ChatFails \/ SaveCase \/ EndCase \/ EndCases \/ Unload
  \/ FinishManifest \/ WriteSummary \/ Close

Operator ==
  \/ \E v \in Inputs : StartRun(v) \/ \E rerun \in BOOLEAN : ResumeRun(v, rerun)
  \/ \E n \in Names : Snapshot(n)
  \/ EndOrphan

Next ==
  \/ Step \/ Operator
  \/ Interrupt \/ WriteFails \/ MetadataWriteFails \/ UnloadCut \/ Kill

Spec == Init /\ [][Next]_vars

-----------------------------------------------------------------------------
(* Properties *)

\* The type invariant.
TypeOK ==
  /\ dir \in BOOLEAN /\ orphaned \in BOOLEAN /\ reran \in BOOLEAN
  /\ manifest = None \/ manifest \in ManifestFile
  /\ \A m \in 1 .. Models, c \in Cases : record[m][c] = None \/ record[m][c] \in CaseFile
  /\ server \in (1 .. MaxRuns) \cup {None}
  /\ run \in 0 .. MaxRuns /\ mishaps \in 0 .. MaxMishaps
  /\ proc.m \in 0 .. Models /\ proc.tries \in 0 .. Retries
  /\ \A k \in Keys : proc.talk[k] \in Seq(Cases \X (1 .. MaxRuns))

\* The turns are of earlier successful cases of the conversation k, in file order,
\* each with the answer its case file holds.
TrueTurns(m, c, k, turns) ==
  /\ \A i \in DOMAIN turns :
       /\ turns[i][1] < c /\ Key[turns[i][1]] = k
       /\ Statuses[m][turns[i][1]] = "success"
       /\ turns[i][2] = record[m][turns[i][1]].answer
  /\ \A i, j \in DOMAIN turns : i < j => turns[i][1] < turns[j][1]

\* Every earlier successful case of the conversation k is among the turns.
AllTurns(m, c, k, turns) ==
  \A e \in Cases : e < c /\ Key[e] = k /\ Statuses[m][e] = "success" =>
    \E i \in DOMAIN turns : turns[i][1] = e

Succeeded == {mc \in (1 .. Models) \X Cases : Statuses[mc[1]][mc[2]] = "success"}

\* However often the run was cut short and resumed, a preserve-mode case was asked
\* after turns that are true, in file order and each with the answer its case file
\* holds, and after all the successful turns before it ("later preserved-context
\* cases rebuild from the last successful turn") as long as no failed case was
\* re-run: a turn re-run later may be missing.
ConversationTrue ==
  \A mc \in Succeeded :
    LET m == mc[1] c == mc[2] turns == record[m][c].turns
    IN IF Key[c] = None THEN turns = <<>>
       ELSE TrueTurns(m, c, Key[c], turns) /\ (~reran => AllTurns(m, c, Key[c], turns))

\* All case files of a run come from the inputs its manifest names.
OneInput ==
  \A m \in 1 .. Models, c \in Cases :
    record[m][c] # None => manifest # None /\ record[m][c].inputs = manifest.inputs

\* A checkpoint that reports the run complete is the last write: the summary lists
\* every case, none is missing, and "completed" means that none failed.
CheckpointLast ==
  (checkpoint # None /\ checkpoint.about = None
     /\ checkpoint.status \in {"completed", "completed_with_errors"}) =>
    /\ summary = Statuses
    /\ \A m \in 1 .. Models, c \in Cases : record[m][c] # None
    /\ checkpoint.status = "completed" => Cardinality(Succeeded) = Models * Cardinality(Cases)

\* A successful answer a snapshot scored is never asked for again: the case file
\* it was scored from stands through every resumption.
SnapshotStands ==
  \A n \in Names : snapshots[n] # None =>
    \A m \in 1 .. Models, c \in Cases :
      LET r == snapshots[n][m][c]
      IN r # None /\ r.status = "success" => record[m][c] = r

\* A directory whose manifest was never written, which can be neither started nor
\* resumed, holds no result that would be lost with it.
RefusedHoldsNothing ==
  dir /\ manifest = None => checkpoint = None /\ \A m \in 1 .. Models : record[m] = NoCases

\* No path through the finally branches leaves a managed server alive: one is
\* left only by a kill, a stop that is itself interrupted or times out, or a
\* model.json not written.
ServerStopped == At("idle") /\ ~orphaned => server = None
=============================================================================

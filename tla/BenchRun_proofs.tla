-------------------------- MODULE BenchRun_proofs --------------------------
(* What holds of a benchmark directory for every number of models, cases,       *)
(* retries, snapshots, processes and mishaps: one input, a checkpoint that is   *)
(* the last write, snapshots that stand, conversations asked after true turns,  *)
(* no stopped run with a live server.                                           *)
EXTENDS BenchRun, TLAPS, FiniteSetTheorems

Labels ==
  {"idle", "manifest", "announce", "model", "next", "chat", "save", "saved",
   "unload", "finish", "summarise", "close"}

Turn == Cases \X (1 .. MaxRuns)

\* A case file whose status is "success" holds an answer.
SoundFile == {f \in CaseFile : f.status = "success" => f.answer # None}
Records == [1 .. Models -> [Cases -> SoundFile \cup {None}]]

Process ==
  [pc : Labels, m : 0 .. Models, c : Nat, talk : [Keys -> Seq(Turn)], rerun : BOOLEAN,
   tries : 0 .. Retries, answer : (1 .. MaxRuns) \cup {None},
   outcome : {None, "interrupted", "failed"}, inputs : Inputs \cup {None}]

\* The runner is between the metadata of a model and the end of its unload.
Running == {"next", "chat", "save", "saved", "unload"}

TypeInv ==
  /\ dir \in BOOLEAN /\ orphaned \in BOOLEAN /\ reran \in BOOLEAN
  /\ manifest \in ManifestFile \cup {None}
  /\ record \in Records
  /\ snapshots \in [Names -> Records \cup {None}]
  /\ server \in (1 .. MaxRuns) \cup {None}
  /\ run \in 0 .. MaxRuns /\ mishaps \in 0 .. MaxMishaps
  /\ proc \in Process

\* The model and the case the process is at exist, and it was started with inputs.
PlaceInv ==
  /\ proc.pc \in {"model"} \cup Running => proc.m \in 1 .. Models
  /\ proc.pc \in {"chat", "save", "saved"} => proc.c \in Cases
  /\ proc.pc = "next" => proc.c >= 1
  /\ proc.pc # "idle" => run \in 1 .. MaxRuns /\ proc.inputs \in Inputs

\* The manifest comes first, and names the inputs of the process that runs.
InputInv ==
  /\ ~dir => manifest = None /\ proc.pc = "idle"
  /\ proc.pc = "manifest" => manifest = None
  /\ manifest = None => checkpoint = None
  /\ proc.pc \notin {"idle", "manifest"} => manifest # None /\ proc.inputs = manifest.inputs
  /\ OneInput

\* A server that no mishap orphaned is the running process's own.
ServerInv ==
  server # None /\ ~orphaned => server = run /\ proc.pc \in Running

\* A case is asked only while it has no successful case file.
SnapshotInv ==
  /\ proc.pc \in {"chat", "save"} =>
       \/ record[proc.m][proc.c] = None
       \/ record[proc.m][proc.c].status # "success"
  /\ SnapshotStands

\* A process that was not cut short leaves no case behind it without a case file.
ProgressInv ==
  /\ proc.pc \in {"manifest", "announce", "model", "next", "chat", "save", "saved"} =>
       proc.outcome = None
  /\ proc.pc \in {"model"} \cup Running =>
       (proc.outcome = None =>
          \A m \in 1 .. Models, c \in Cases : m < proc.m => record[m][c] # None)
  /\ proc.pc \in {"next", "chat", "save", "saved"} =>
       \A c \in Cases : c < proc.c => record[proc.m][c] # None
  /\ proc.pc = "saved" => record[proc.m][proc.c] # None
  /\ proc.pc = "unload" =>
       (proc.outcome = None => \A c \in Cases : record[proc.m][c] # None)
  /\ proc.pc = "finish" =>
       (proc.outcome = None => \A m \in 1 .. Models, c \in Cases : record[m][c] # None)

AllPresent == \A m \in 1 .. Models, c \in Cases : record[m][c] # None
AllSucceeded ==
  \A m \in 1 .. Models, c \in Cases : record[m][c] # None /\ record[m][c].status = "success"

\* The closing files: what the manifest says of a finished run is true when it is
\* written, and the checkpoint repeats it only at the very end.
ClosingInv ==
  /\ proc.pc \in {"summarise", "close"} =>
       /\ manifest.status \in {"completed", "completed_with_errors"} => AllPresent
       /\ manifest.status = "completed" => AllSucceeded
  /\ proc.pc = "close" => summary = Statuses
  /\ proc.pc \notin {"idle", "manifest", "announce"} =>
       checkpoint.status \in {"running", "success", "error"}
  /\ CheckpointLast

\* TrueTurns and AllTurns over the case files R.
TrueIn(R, m, c, k, turns) ==
  /\ \A i \in DOMAIN turns :
       /\ turns[i][1] < c /\ Key[turns[i][1]] = k
       /\ R[m][turns[i][1]] # None /\ R[m][turns[i][1]].status = "success"
       /\ turns[i][2] = R[m][turns[i][1]].answer
  /\ \A i, j \in DOMAIN turns : i < j => turns[i][1] < turns[j][1]
AllIn(R, m, c, k, turns) ==
  \A e \in Cases : e < c /\ Key[e] = k /\ R[m][e] # None /\ R[m][e].status = "success" =>
    \E i \in DOMAIN turns : turns[i][1] = e

\* The first case whose case file the process has not dealt with.
Done == IF proc.pc = "saved" THEN proc.c + 1 ELSE proc.c

\* The conversations the process carries hold what the case files behind it say. A
\* case file is never missing before another; until some failed case is re-run, a
\* case is asked only when it has no case file at all.
TalkInv ==
  proc.pc \in {"next", "chat", "save", "saved"} => \A k \in Keys :
    /\ TrueIn(record, proc.m, Done, k, proc.talk[k])
    /\ ~reran => AllIn(record, proc.m, Done, k, proc.talk[k])
OrderInv ==
  /\ \A m \in 1 .. Models : \A c, e \in Cases :
       record[m][c] # None /\ e < c => record[m][e] # None
  /\ proc.rerun => reran
  /\ proc.pc \in {"chat", "save"} => (~reran => record[proc.m][proc.c] = None)
TurnsInv ==
  \A m \in 1 .. Models, c \in Cases :
    record[m][c] # None /\ record[m][c].status = "success" =>
      IF Key[c] = None THEN record[m][c].turns = <<>>
      ELSE /\ TrueIn(record, m, c, Key[c], record[m][c].turns)
           /\ ~reran => AllIn(record, m, c, Key[c], record[m][c].turns)

IInv ==
  /\ TypeInv /\ PlaceInv /\ InputInv /\ ServerInv /\ SnapshotInv /\ ProgressInv /\ ClosingInv
  /\ TalkInv /\ OrderInv /\ TurnsInv

-----------------------------------------------------------------------------
(* Types *)

\* A conversation extended by the turn of a case file is a sequence of turns.
LEMMA RestoredType ==
  ASSUME NEW talk \in [Keys -> Seq(Turn)], NEW c \in Cases, NEW r \in SoundFile
  PROVE  Restored(talk, c, r) \in [Keys -> Seq(Turn)]
<1> CASE Key[c] # None /\ r.status = "success"
  <2>1. r.answer \in 1 .. MaxRuns /\ r.turns \in Seq(Turn)
    BY DEF SoundFile, CaseFile, Turn
  <2>2. <<c, r.answer>> \in Turn
    BY <2>1 DEF Turn
  <2>3. Append(r.turns, <<c, r.answer>>) \in Seq(Turn)
    BY <2>1, <2>2
  <2> QED BY <2>3 DEF Restored
<1> CASE ~(Key[c] # None /\ r.status = "success")
  BY DEF Restored
<1> QED OBVIOUS

\* The case file a process writes is sound.
LEMMA RecordType ==
  ASSUME TypeInv, PlaceInv, At("save")
  PROVE  CaseRecord \in SoundFile
<1>1. proc \in Process /\ proc.c \in Cases /\ proc.inputs \in Inputs
  BY DEF TypeInv, PlaceInv, At
<1>2. CaseTurns(proc.talk, proc.c) \in Seq(Turn)
  <2>1. Key[proc.c] # None => Key[proc.c] \in Keys
    BY <1>1 DEF Keys
  <2>2. <<>> \in Seq(Turn) /\ proc.talk \in [Keys -> Seq(Turn)]
    BY <1>1 DEF Process
  <2> QED BY <2>1, <2>2 DEF CaseTurns
<1>3. proc.answer \in (1 .. MaxRuns) \cup {None}
  BY <1>1 DEF Process
<1> QED BY <1>1, <1>2, <1>3 DEF CaseRecord, SoundFile, CaseFile, Turn

LEMMA TypeStep == ASSUME TypeInv, PlaceInv, InputInv, [Next]_vars PROVE TypeInv'
<1> USE BenchAssumption
<1>1. proc \in Process /\ record \in Records /\ run \in 0 .. MaxRuns
  BY DEF TypeInv
<1>2. Idle \in Process
  BY DEF Idle, Process, Labels, NoTalk
<1>3. manifest \in ManifestFile => \A s \in Final \cup {"running"} : [manifest EXCEPT !.status = s] \in ManifestFile
  BY DEF ManifestFile
<1>4. Verdict \in Final
  BY <1>1 DEF Verdict, Final, Process
<1>a. CASE \E v \in Inputs : StartRun(v)
  <2> PICK v \in Inputs : StartRun(v) BY <1>a
  <2>1. [Idle EXCEPT !.pc = "manifest", !.inputs = v] \in Process
    BY <1>2 DEF Process, Labels
  <2>2. run + 1 \in 0 .. MaxRuns
    BY <1>1 DEF StartRun
  <2> QED BY <2>1, <2>2 DEF StartRun, TypeInv
<1>b. CASE \E v \in Inputs, rerun \in BOOLEAN : ResumeRun(v, rerun)
  <2> PICK v \in Inputs, rerun \in BOOLEAN : ResumeRun(v, rerun) BY <1>b
  <2>1. [Idle EXCEPT !.pc = "announce", !.rerun = rerun, !.inputs = v] \in Process
    BY <1>2 DEF Process, Labels
  <2>2. run + 1 \in 0 .. MaxRuns
    BY <1>1 DEF ResumeRun
  <2>3. manifest' \in ManifestFile
    BY <1>3 DEF ResumeRun, TypeInv, WriteManifest
  <2> QED BY <2>1, <2>2, <2>3 DEF ResumeRun, TypeInv
<1>c. CASE FirstManifest
  <2>1. manifest' \in ManifestFile
    BY <1>c DEF FirstManifest, PlaceInv, At, ManifestFile
  <2>2. proc' \in Process
    BY <1>1, <1>c DEF FirstManifest, Go, Process, Labels
  <2> QED BY <1>c, <2>1, <2>2 DEF FirstManifest, TypeInv
<1>d. CASE Announce
  <2>1. proc' \in Process
    <3>1. proc' = [proc EXCEPT !.pc = "model", !.m = 1] /\ 1 \in 0 .. Models /\ "model" \in Labels
      BY <1>d DEF Announce, Labels
    <3> QED BY <1>1, <3>1, Zenon DEF Process
  <2> QED BY <1>d, <2>1 DEF Announce, TypeInv
<1>e. CASE ModelMetadata \/ MetadataWriteFails \/ ChatFails \/ ChatSucceeds
  <2>1. run \in 1 .. MaxRuns
    BY <1>e DEF PlaceInv, ModelMetadata, MetadataWriteFails, ChatFails, ChatSucceeds, At
  <2>2. NoTalk \in [Keys -> Seq(Turn)]
    BY DEF NoTalk
  <2>3. CASE ModelMetadata
    <3>1. proc' = [proc EXCEPT !.pc = "next", !.c = 1, !.talk = NoTalk] /\ 1 \in Nat /\ "next" \in Labels
      BY <2>3 DEF ModelMetadata, Labels
    <3>2. proc' \in Process
      BY <1>1, <2>2, <3>1, Zenon DEF Process
    <3> QED BY <2>1, <2>3, <3>2 DEF ModelMetadata, TypeInv, files
  <2>4. CASE MetadataWriteFails
    <3>1. proc' = [proc EXCEPT !.pc = "finish", !.outcome = "failed"] /\ "finish" \in Labels
      BY <2>4 DEF MetadataWriteFails, Labels
    <3>2. proc' \in Process
      BY <1>1, <3>1, Zenon DEF Process
    <3> QED BY <2>1, <2>4, <3>2 DEF MetadataWriteFails, TypeInv, files, Mishap
  <2>5. CASE ChatFails
    <3>1. proc' \in Process
      <4>1. /\ proc.tries \in 0 .. Retries /\ "save" \in Labels
            /\ proc.tries < Retries => proc.tries + 1 \in 0 .. Retries
        BY <1>1 DEF Process, Labels
      <4>2. CASE proc.tries < Retries
        <5>1. proc' = [proc EXCEPT !.tries = proc.tries + 1]
          BY <2>5, <4>2 DEF ChatFails
        <5> QED BY <1>1, <4>1, <4>2, <5>1, Zenon DEF Process
      <4>3. CASE ~(proc.tries < Retries)
        <5>1. proc' = [proc EXCEPT !.pc = "save", !.answer = None]
          BY <2>5, <4>3 DEF ChatFails
        <5>2. None \in (1 .. MaxRuns) \cup {None}
          OBVIOUS
        <5> QED BY <1>1, <4>1, <5>1, <5>2, Zenon DEF Process
      <4> QED BY <4>2, <4>3
    <3> QED BY <2>1, <2>5, <3>1 DEF ChatFails, TypeInv, files
  <2>6. CASE ChatSucceeds
    <3>1. /\ proc' = [proc EXCEPT !.pc = "save", !.answer = run]
          /\ run \in (1 .. MaxRuns) \cup {None} /\ "save" \in Labels
      BY <2>1, <2>6 DEF ChatSucceeds, Labels
    <3>2. proc' \in Process
      BY <1>1, <3>1, Zenon DEF Process
    <3> QED BY <2>1, <2>6, <3>2 DEF ChatSucceeds, TypeInv, files
  <2> QED BY <1>e, <2>3, <2>4, <2>5, <2>6
<1>f. CASE SkipCase
  <2>1. /\ proc.m \in 1 .. Models /\ proc.c \in Cases
        /\ record[proc.m][proc.c] # None
    BY <1>f DEF SkipCase, Kept, PlaceInv, At, Running
  <2>2. record[proc.m][proc.c] \in SoundFile
    BY <1>1, <2>1 DEF Records
  <2>3. Restored(proc.talk, proc.c, record[proc.m][proc.c]) \in [Keys -> Seq(Turn)]
    BY <1>1, <2>1, <2>2, RestoredType DEF Process
  <2>4. proc' \in Process
    <3>1. /\ proc' = [proc EXCEPT !.c = proc.c + 1,
                          !.talk = Restored(proc.talk, proc.c, record[proc.m][proc.c])]
          /\ proc.c + 1 \in Nat
      BY <1>1, <1>f DEF SkipCase, Process
    <3> QED BY <1>1, <2>3, <3>1, Zenon DEF Process
  <2> QED BY <1>f, <2>4 DEF SkipCase, TypeInv, files
<1>g. CASE BeginCase
  <2>1. proc' \in Process
    <3>1. proc' = [proc EXCEPT !.pc = "chat", !.tries = 0] /\ 0 \in 0 .. Retries /\ "chat" \in Labels
      BY <1>g DEF BeginCase, Labels
    <3> QED BY <1>1, <3>1, Zenon DEF Process
  <2> QED BY <1>g, <2>1 DEF BeginCase, TypeInv
<1>h. CASE SaveCase
  <2>1. CaseRecord \in SoundFile
    BY <1>h, RecordType DEF SaveCase
  <2>2. proc.m \in 1 .. Models /\ proc.c \in Cases
    BY <1>h DEF SaveCase, PlaceInv, At, Running
  <2>3. Restored(proc.talk, proc.c, CaseRecord) \in [Keys -> Seq(Turn)]
    BY <1>1, <2>1, <2>2, RestoredType DEF Process
  <2>4. proc' \in Process
    <3>1. /\ proc' = [proc EXCEPT !.pc = "saved",
                          !.talk = Restored(proc.talk, proc.c, CaseRecord)]
          /\ "saved" \in Labels
      BY <1>h DEF SaveCase, Labels
    <3> QED BY <1>1, <2>3, <3>1, Zenon DEF Process
  <2>5. record' \in Records
    BY <1>1, <1>h, <2>1 DEF SaveCase, Records
  <2> QED BY <1>h, <2>4, <2>5 DEF SaveCase, TypeInv
<1>i. CASE EndCase
  <2>1. proc' \in Process
    <3>1. /\ proc' = [proc EXCEPT !.pc = "next", !.c = proc.c + 1, !.answer = None]
          /\ "next" \in Labels /\ proc.c + 1 \in Nat /\ None \in (1 .. MaxRuns) \cup {None}
      BY <1>1, <1>i DEF EndCase, Labels, Process
    <3> QED BY <1>1, <3>1, Zenon DEF Process
  <2> QED BY <1>i, <2>1 DEF EndCase, TypeInv
<1>j. CASE EndCases
  <2>1. proc' \in Process
    BY <1>1, <1>j DEF EndCases, Go, Process, Labels
  <2> QED BY <1>j, <2>1 DEF EndCases, TypeInv, files
<1>k. CASE Unload \/ UnloadCut
  <2>1. proc' \in Process
    <3>1. \/ proc' = [proc EXCEPT !.pc = "finish"]
          \/ proc' = [proc EXCEPT !.pc = "model", !.m = proc.m + 1] /\ proc.m < Models
      BY <1>k DEF Unload, UnloadCut
    <3>2. "finish" \in Labels /\ "model" \in Labels
      BY DEF Labels
    <3>3. proc.m < Models => proc.m + 1 \in 0 .. Models
      BY <1>1 DEF Process
    <3> QED BY <1>1, <3>1, <3>2, <3>3, Zenon DEF Process
  <2>2. CASE Unload
    BY <2>1, <2>2 DEF Unload, TypeInv, files
  <2>3. CASE UnloadCut
    BY <2>1, <2>3 DEF UnloadCut, TypeInv, files, Mishap
  <2> QED BY <1>k, <2>2, <2>3
<1>l. CASE FinishManifest
  <2>1. proc' \in Process
    BY <1>1, <1>l DEF FinishManifest, Go, Process, Labels
  <2>2. manifest' \in ManifestFile \cup {None}
    BY <1>3, <1>4, <1>l DEF FinishManifest, TypeInv, InputInv, WriteManifest, At
  <2> QED BY <1>l, <2>1, <2>2 DEF FinishManifest, TypeInv
<1>m. CASE WriteSummary \/ Close
  <2>1. proc' \in Process
    BY <1>1, <1>2, <1>m DEF WriteSummary, Close, Go, Process, Labels
  <2> QED BY <1>m, <2>1 DEF WriteSummary, Close, TypeInv
<1>n. CASE \E n \in Names : Snapshot(n)
  BY <1>1, <1>n DEF Snapshot, TypeInv
<1>o. CASE EndOrphan
  BY <1>o DEF EndOrphan, TypeInv, files
<1>p. CASE Interrupt \/ WriteFails
  <2>1. proc' \in Process
    <3>1. /\ \/ proc' = [proc EXCEPT !.pc = "unload", !.outcome = "interrupted"]
             \/ proc' = [proc EXCEPT !.pc = "unload", !.outcome = "failed"]
          /\ "unload" \in Labels
      BY <1>p DEF Interrupt, WriteFails, Labels
    <3> QED BY <1>1, <3>1, Zenon DEF Process
  <2> QED BY <1>p, <2>1 DEF Interrupt, WriteFails, TypeInv, files, Mishap
<1>q. CASE Kill
  BY <1>2, <1>q DEF Kill, TypeInv, files, Mishap
<1>r. CASE UNCHANGED vars
  BY <1>r DEF vars, files, TypeInv
<1> QED
  BY <1>a, <1>b, <1>c, <1>d, <1>e, <1>f, <1>g, <1>h, <1>i, <1>j, <1>k, <1>l, <1>m, <1>n, <1>o,
     <1>p, <1>q, <1>r DEF Next, Step, Operator

-----------------------------------------------------------------------------
(* What each action does to the runner, field by field *)

\* The runner after an action has the given place, conversations and verdict and,
\* always, the arguments it was started with.
Moves(l, m, c, talk, outcome) ==
  /\ proc'.pc = l /\ proc'.m = m /\ proc'.c = c /\ proc'.talk = talk
  /\ proc'.outcome = outcome /\ proc'.rerun = proc.rerun /\ proc'.inputs = proc.inputs

LEMMA Moved ==
  ASSUME TypeInv
  PROVE
    /\ FirstManifest => Moves("announce", proc.m, proc.c, proc.talk, proc.outcome)
    /\ Announce => Moves("model", 1, proc.c, proc.talk, proc.outcome)
    /\ ModelMetadata => Moves("next", proc.m, 1, NoTalk, proc.outcome)
    /\ SkipCase => Moves(proc.pc, proc.m, proc.c + 1, Restored(proc.talk, proc.c, record[proc.m][proc.c]), proc.outcome)
    /\ BeginCase => Moves("chat", proc.m, proc.c, proc.talk, proc.outcome)
    /\ ChatSucceeds => Moves("save", proc.m, proc.c, proc.talk, proc.outcome)
    /\ SaveCase => Moves("saved", proc.m, proc.c, Restored(proc.talk, proc.c, CaseRecord), proc.outcome)
    /\ EndCase => Moves("next", proc.m, proc.c + 1, proc.talk, proc.outcome)
    /\ EndCases => Moves("unload", proc.m, proc.c, proc.talk, proc.outcome)
    /\ FinishManifest => Moves("summarise", proc.m, proc.c, proc.talk, proc.outcome)
    /\ WriteSummary => Moves("close", proc.m, proc.c, proc.talk, proc.outcome)
    /\ Interrupt => Moves("unload", proc.m, proc.c, proc.talk, "interrupted")
    /\ WriteFails => Moves("unload", proc.m, proc.c, proc.talk, "failed")
    /\ MetadataWriteFails => Moves("finish", proc.m, proc.c, proc.talk, "failed")
    /\ ChatFails => \E l \in {"chat", "save"} : Moves(l, proc.m, proc.c, proc.talk, proc.outcome)
    /\ Unload \/ UnloadCut =>
         IF proc.outcome = None /\ proc.m < Models
         THEN Moves("model", proc.m + 1, proc.c, proc.talk, proc.outcome)
         ELSE Moves("finish", proc.m, proc.c, proc.talk, proc.outcome)
<1>1. proc \in Process
  BY DEF TypeInv
<1>2. FirstManifest => Moves("announce", proc.m, proc.c, proc.talk, proc.outcome)
  BY <1>1 DEF FirstManifest, Go, At, Process, Moves
<1>3. Announce => Moves("model", 1, proc.c, proc.talk, proc.outcome)
  BY <1>1 DEF Announce, At, Process, Moves
<1>4. ModelMetadata => Moves("next", proc.m, 1, NoTalk, proc.outcome)
  BY <1>1 DEF ModelMetadata, At, Process, Moves
<1>5. SkipCase => Moves(proc.pc, proc.m, proc.c + 1, Restored(proc.talk, proc.c, record[proc.m][proc.c]), proc.outcome)
  BY <1>1 DEF SkipCase, At, Process, Moves
<1>6. BeginCase => Moves("chat", proc.m, proc.c, proc.talk, proc.outcome)
  BY <1>1 DEF BeginCase, At, Process, Moves
<1>7. ChatSucceeds => Moves("save", proc.m, proc.c, proc.talk, proc.outcome)
  BY <1>1 DEF ChatSucceeds, At, Process, Moves
<1>8. SaveCase => Moves("saved", proc.m, proc.c, Restored(proc.talk, proc.c, CaseRecord), proc.outcome)
  BY <1>1 DEF SaveCase, At, Process, Moves
<1>9. EndCase => Moves("next", proc.m, proc.c + 1, proc.talk, proc.outcome)
  BY <1>1 DEF EndCase, At, Process, Moves
<1>10. EndCases => Moves("unload", proc.m, proc.c, proc.talk, proc.outcome)
  BY <1>1 DEF EndCases, Go, At, Process, Moves
<1>11. FinishManifest => Moves("summarise", proc.m, proc.c, proc.talk, proc.outcome)
  BY <1>1 DEF FinishManifest, Go, At, Process, Moves
<1>12. WriteSummary => Moves("close", proc.m, proc.c, proc.talk, proc.outcome)
  BY <1>1 DEF WriteSummary, Go, At, Process, Moves
<1>13. Interrupt => Moves("unload", proc.m, proc.c, proc.talk, "interrupted")
  BY <1>1 DEF Interrupt, At, Process, Moves
<1>14. WriteFails => Moves("unload", proc.m, proc.c, proc.talk, "failed")
  BY <1>1 DEF WriteFails, At, Process, Moves
<1>15. MetadataWriteFails => Moves("finish", proc.m, proc.c, proc.talk, "failed")
  BY <1>1 DEF MetadataWriteFails, At, Process, Moves
<1>16. ChatFails => \E l \in {"chat", "save"} : Moves(l, proc.m, proc.c, proc.talk, proc.outcome)
  <2> SUFFICES ASSUME ChatFails
               PROVE  \E l \in {"chat", "save"} : Moves(l, proc.m, proc.c, proc.talk, proc.outcome)
    OBVIOUS
  <2>1. CASE proc.tries < Retries
    <3>1. Moves("chat", proc.m, proc.c, proc.talk, proc.outcome)
      BY <1>1, <2>1 DEF ChatFails, At, Process, Moves
    <3> QED BY <3>1
  <2>2. CASE ~(proc.tries < Retries)
    <3>1. Moves("save", proc.m, proc.c, proc.talk, proc.outcome)
      BY <1>1, <2>2 DEF ChatFails, At, Process, Moves
    <3> QED BY <3>1
  <2> QED BY <2>1, <2>2
<1>17. Unload \/ UnloadCut =>
       IF proc.outcome = None /\ proc.m < Models
       THEN Moves("model", proc.m + 1, proc.c, proc.talk, proc.outcome)
       ELSE Moves("finish", proc.m, proc.c, proc.talk, proc.outcome)
  <2>1. CASE proc.outcome = None /\ proc.m < Models
    BY <1>1, <2>1 DEF Unload, UnloadCut, At, Process, Moves
  <2>2. CASE ~(proc.outcome = None /\ proc.m < Models)
    BY <1>1, <2>2 DEF Unload, UnloadCut, At, Process, Moves
  <2> QED BY <2>1, <2>2
<1> QED
  BY <1>2, <1>3, <1>4, <1>5, <1>6, <1>7, <1>8, <1>9, <1>10, <1>11, <1>12, <1>13, <1>14, <1>15, <1>16, <1>17

\* A new process, and the idle runner that ends one.
LEMMA Started ==
  /\ \A v \in Inputs : StartRun(v) =>
       /\ proc'.pc = "manifest" /\ proc'.inputs = v /\ proc'.outcome = None /\ proc'.rerun = FALSE
  /\ \A v \in Inputs, rerun \in BOOLEAN : ResumeRun(v, rerun) =>
       /\ proc'.pc = "announce" /\ proc'.inputs = v /\ proc'.outcome = None /\ proc'.rerun = rerun
  /\ Close \/ Kill => proc'.pc = "idle" /\ proc'.outcome = None /\ proc'.rerun = FALSE
<1>1. ASSUME NEW v \in Inputs, StartRun(v)
      PROVE  /\ proc'.pc = "manifest" /\ proc'.inputs = v /\ proc'.outcome = None
             /\ proc'.rerun = FALSE
  BY <1>1 DEF StartRun, Idle
<1>2. ASSUME NEW v \in Inputs, NEW rerun \in BOOLEAN, ResumeRun(v, rerun)
      PROVE  /\ proc'.pc = "announce" /\ proc'.inputs = v /\ proc'.outcome = None
             /\ proc'.rerun = rerun
  BY <1>2 DEF ResumeRun, Idle
<1>3. Close \/ Kill => proc'.pc = "idle" /\ proc'.outcome = None /\ proc'.rerun = FALSE
  BY DEF Close, Kill, Idle
<1> QED BY <1>1, <1>2, <1>3

-----------------------------------------------------------------------------
(* The place of the process *)

LEMMA PlaceStep == ASSUME TypeInv, PlaceInv, [Next]_vars PROVE PlaceInv'
<1> USE BenchAssumption
<1>1. /\ proc.m \in 0 .. Models /\ proc.c \in Nat /\ run \in 0 .. MaxRuns
  BY DEF TypeInv, Process
<1>a. CASE \E v \in Inputs : StartRun(v)
  <2> PICK v \in Inputs : StartRun(v) BY <1>a
  <2>1. proc'.pc = "manifest" /\ proc'.inputs = v
    BY Started
  <2>2. run' \in 1 .. MaxRuns
    BY <1>1 DEF StartRun
  <2> QED BY <2>1, <2>2 DEF PlaceInv, Running
<1>b. CASE \E v \in Inputs, rerun \in BOOLEAN : ResumeRun(v, rerun)
  <2> PICK v \in Inputs, rerun \in BOOLEAN : ResumeRun(v, rerun) BY <1>b
  <2>1. proc'.pc = "announce" /\ proc'.inputs = v
    BY Started
  <2>2. run' \in 1 .. MaxRuns
    BY <1>1 DEF ResumeRun
  <2> QED BY <2>1, <2>2 DEF PlaceInv, Running
<1>c. CASE FirstManifest \/ FinishManifest \/ WriteSummary
  <2>1. /\ proc'.pc \in {"announce", "summarise", "close"} /\ proc'.inputs = proc.inputs
        /\ run' = run /\ proc.pc # "idle"
    BY <1>c, Moved DEF Moves, FirstManifest, FinishManifest, WriteSummary, At
  <2> QED BY <2>1 DEF PlaceInv, Running
<1>d. CASE Announce
  <2>1. Moves("model", 1, proc.c, proc.talk, proc.outcome) /\ run' = run /\ proc.pc # "idle"
    BY <1>d, Moved DEF Announce, At
  <2> QED BY <2>1 DEF PlaceInv, Running, Moves
<1>e. CASE ModelMetadata
  <2>1. Moves("next", proc.m, 1, NoTalk, proc.outcome) /\ run' = run /\ proc.pc = "model"
    BY <1>e, Moved DEF ModelMetadata, At
  <2> QED BY <2>1 DEF PlaceInv, Running, Moves
<1>f. CASE SkipCase \/ EndCase
  <2>1. /\ proc'.pc = "next" /\ proc'.m = proc.m /\ proc'.c = proc.c + 1 /\ run' = run
        /\ proc'.inputs = proc.inputs /\ proc.pc \in {"next", "saved"}
    BY <1>f, Moved DEF Moves, SkipCase, EndCase, At
  <2> QED BY <1>1, <2>1 DEF PlaceInv, Running
<1>g. CASE BeginCase
  <2>1. Moves("chat", proc.m, proc.c, proc.talk, proc.outcome) /\ run' = run
    BY <1>g, Moved DEF BeginCase
  <2>2. proc.c \in Cases /\ proc.pc = "next"
    BY <1>g DEF BeginCase, At
  <2> QED BY <2>1, <2>2 DEF PlaceInv, Running, Moves
<1>h. CASE ChatSucceeds \/ ChatFails \/ SaveCase
  <2>1. /\ proc'.pc \in {"chat", "save", "saved"} /\ proc'.m = proc.m /\ proc'.c = proc.c /\ run' = run
        /\ proc'.inputs = proc.inputs /\ proc.pc \in {"chat", "save"}
    BY <1>h, Moved DEF Moves, ChatSucceeds, ChatFails, SaveCase, At
  <2> QED BY <2>1 DEF PlaceInv, Running
<1>i. CASE EndCases \/ Interrupt \/ WriteFails
  <2>1. /\ proc'.pc = "unload" /\ proc'.m = proc.m /\ run' = run /\ proc'.inputs = proc.inputs
        /\ proc.pc \in {"next", "chat", "save", "saved"}
    BY <1>i, Moved DEF Moves, EndCases, Interrupt, WriteFails, At
  <2> QED BY <2>1 DEF PlaceInv, Running
<1>j. CASE Unload \/ UnloadCut
  <2>1. run' = run /\ proc.pc = "unload"
    BY <1>j DEF Unload, UnloadCut, At
  <2>2. \/ Moves("model", proc.m + 1, proc.c, proc.talk, proc.outcome) /\ proc.m < Models
        \/ Moves("finish", proc.m, proc.c, proc.talk, proc.outcome)
    BY <1>j, Moved
  <2> QED BY <1>1, <2>1, <2>2 DEF PlaceInv, Running, Moves
<1>k. CASE MetadataWriteFails
  <2>1. Moves("finish", proc.m, proc.c, proc.talk, "failed") /\ run' = run /\ proc.pc # "idle"
    BY <1>k, Moved DEF MetadataWriteFails, At
  <2> QED BY <2>1 DEF PlaceInv, Running, Moves
<1>l. CASE Close \/ Kill
  BY <1>l, Started DEF PlaceInv, Running
<1>m. CASE (\E n \in Names : Snapshot(n)) \/ EndOrphan \/ UNCHANGED vars
  BY <1>m DEF Snapshot, EndOrphan, vars, PlaceInv
<1> QED
  BY <1>a, <1>b, <1>c, <1>d, <1>e, <1>f, <1>g, <1>h, <1>i, <1>j, <1>k, <1>l, <1>m
     DEF Next, Step, Operator

-----------------------------------------------------------------------------
(* One input *)

\* Every action but these leaves the manifest alone.
LEMMA ManifestFrame ==
  ASSUME [Next]_vars
  PROVE  \/ manifest' = manifest \/ FirstManifest \/ FinishManifest
         \/ \E v \in Inputs, rerun \in BOOLEAN : ResumeRun(v, rerun)
<1> QED
  BY DEF Next, Step, Operator, vars, files, StartRun, Announce, ModelMetadata, SkipCase, BeginCase,
         ChatSucceeds, ChatFails, SaveCase, EndCase, EndCases, Unload, WriteSummary, Close, Snapshot,
         EndOrphan, Interrupt, WriteFails, MetadataWriteFails, UnloadCut, Kill

\* Only the save of a case changes a case file.
LEMMA RecordFrame ==
  ASSUME [Next]_vars
  PROVE  record' = record \/ SaveCase
<1> QED
  BY DEF Next, Step, Operator, vars, files, StartRun, ResumeRun, FirstManifest, Announce, ModelMetadata,
         SkipCase, BeginCase, ChatSucceeds, ChatFails, EndCase, EndCases, Unload, FinishManifest,
         WriteSummary, Close, Snapshot, EndOrphan, Interrupt, WriteFails, MetadataWriteFails,
         UnloadCut, Kill

LEMMA CheckpointFrame ==
  ASSUME [Next]_vars
  PROVE  checkpoint' = checkpoint \/ Announce \/ BeginCase \/ EndCase \/ Close
<1> QED
  BY DEF Next, Step, Operator, vars, files, StartRun, ResumeRun, FirstManifest, ModelMetadata,
         SkipCase, ChatSucceeds, ChatFails, SaveCase, EndCases, Unload, FinishManifest,
         WriteSummary, Snapshot, EndOrphan, Interrupt, WriteFails, MetadataWriteFails,
         UnloadCut, Kill

\* A process that is past its first manifest goes on with the inputs it was started with.
LEMMA PlaceFrame ==
  ASSUME TypeInv, [Next]_vars
  PROVE  \/ proc'.pc \in {"idle", "manifest", "announce"}
         \/ /\ proc.pc \notin {"idle", "manifest"}
            /\ proc'.inputs = proc.inputs /\ proc'.rerun = proc.rerun
<1>1. CASE (\E v \in Inputs : StartRun(v) \/ \E rerun \in BOOLEAN : ResumeRun(v, rerun)) \/ Close \/ Kill
  BY <1>1, Started
<1>2. CASE FirstManifest
  BY <1>2, Moved DEF Moves
<1>3. CASE Announce \/ ModelMetadata \/ SkipCase \/ BeginCase \/ ChatSucceeds \/ SaveCase \/ EndCase
           \/ EndCases \/ FinishManifest \/ WriteSummary \/ Interrupt \/ WriteFails \/ MetadataWriteFails
  <2>1. proc'.inputs = proc.inputs /\ proc'.rerun = proc.rerun
    BY <1>3, Moved DEF Moves
  <2>2. proc.pc \notin {"idle", "manifest"}
    BY <1>3 DEF Announce, ModelMetadata, SkipCase, BeginCase, ChatSucceeds, SaveCase, EndCase,
                EndCases, FinishManifest, WriteSummary, Interrupt, WriteFails, MetadataWriteFails, At
  <2> QED BY <2>1, <2>2
<1>4. CASE ChatFails
  BY <1>4, Moved DEF Moves, ChatFails, At
<1>5. CASE Unload \/ UnloadCut
  BY <1>5, Moved DEF Moves, Unload, UnloadCut, At
<1>6. CASE (\E n \in Names : Snapshot(n)) \/ EndOrphan \/ UNCHANGED vars
  BY <1>6 DEF Snapshot, EndOrphan, vars
<1> QED BY <1>1, <1>2, <1>3, <1>4, <1>5, <1>6 DEF Next, Step, Operator

\* A manifest, once written, stays one of the same inputs.
LEMMA ManifestKept ==
  ASSUME TypeInv, PlaceInv, InputInv, [Next]_vars
  PROVE  /\ manifest # None => manifest' # None /\ manifest'.inputs = manifest.inputs
         /\ manifest' # manifest => manifest' \in ManifestFile
<1>1. ASSUME manifest # None, NEW s \in Final \cup {"running"}
      PROVE  /\ [manifest EXCEPT !.status = s] \in ManifestFile
             /\ [manifest EXCEPT !.status = s].inputs = manifest.inputs
  BY <1>1 DEF TypeInv, ManifestFile
<1>2. Verdict \in Final
  BY DEF TypeInv, Process, Verdict, Final
<1>3. None \notin ManifestFile
  BY BenchAssumption
<1>a. CASE manifest' = manifest
  BY <1>a
<1>b. CASE FirstManifest
  <2>1. manifest = None
    BY <1>b DEF FirstManifest, InputInv, At
  <2>2. manifest' \in ManifestFile
    BY <1>b DEF FirstManifest, PlaceInv, At, ManifestFile
  <2> QED BY <2>1, <2>2
<1>c. CASE FinishManifest
  <2>1. manifest # None /\ manifest' = [manifest EXCEPT !.status = Verdict]
    BY <1>c DEF FinishManifest, InputInv, At, WriteManifest
  <2> QED BY <1>1, <1>2, <1>3, <2>1
<1>d. CASE \E v \in Inputs, rerun \in BOOLEAN : ResumeRun(v, rerun)
  <2>1. manifest # None /\ manifest' = [manifest EXCEPT !.status = "running"]
    BY <1>d DEF ResumeRun, WriteManifest
  <2> QED BY <1>1, <1>3, <2>1
<1> QED BY <1>a, <1>b, <1>c, <1>d, ManifestFrame

LEMMA InputStep ==
  ASSUME TypeInv, PlaceInv, InputInv, [Next]_vars
  PROVE  InputInv'
<1>1. None \notin ManifestFile
  BY BenchAssumption
<1>2. (~dir)' => ~dir /\ manifest' = manifest /\ proc' = proc
  <2>1. dir' = TRUE \/ dir' = dir
    BY DEF Next, Step, Operator, vars, files, StartRun, ResumeRun, FirstManifest, Announce, ModelMetadata,
           SkipCase, BeginCase, ChatSucceeds, ChatFails, SaveCase, EndCase, EndCases, Unload,
           FinishManifest, WriteSummary, Close, Snapshot, EndOrphan, Interrupt, WriteFails,
           MetadataWriteFails, UnloadCut, Kill
  <2>2. SUFFICES ASSUME (~dir)', ~dir PROVE manifest' = manifest /\ proc' = proc
    BY <2>1
  <2>3. manifest = None /\ proc.pc = "idle"
    BY <2>2 DEF InputInv
  <2>4. ~\E v \in Inputs : StartRun(v)
    BY <2>2 DEF StartRun
  <2> QED
    BY <2>3, <2>4 DEF Next, Step, Operator, vars, files, ResumeRun, FirstManifest, Announce,
           ModelMetadata, SkipCase, BeginCase, ChatSucceeds, ChatFails, SaveCase, EndCase, EndCases,
           Unload, FinishManifest, WriteSummary, Close, Snapshot, EndOrphan, Interrupt, WriteFails,
           MetadataWriteFails, UnloadCut, Kill, At
<1>3. proc'.pc = "manifest" => manifest' = None
  <2>1. CASE \E v \in Inputs : StartRun(v)
    BY <2>1 DEF StartRun, InputInv
  <2>2. proc'.pc = "manifest" => proc.pc = "manifest" \/ \E v \in Inputs : StartRun(v)
    BY Moved, Started DEF Next, Step, Operator, vars, Moves, SkipCase, Snapshot, EndOrphan
  <2>3. ASSUME proc.pc = "manifest", proc'.pc = "manifest"
        PROVE  manifest' = manifest
    <3>1. ~FirstManifest
      BY <2>3, Moved DEF Moves
    <3> QED BY <2>3, <3>1, ManifestFrame DEF FinishManifest, ResumeRun, At
  <2> QED BY <2>1, <2>2, <2>3 DEF InputInv
<1>4. manifest' = None => checkpoint' = None
  <2> SUFFICES ASSUME manifest' = None PROVE checkpoint' = None
    OBVIOUS
  <2>1. manifest = None /\ checkpoint = None
    BY ManifestKept DEF InputInv
  <2>2. proc.pc \in {"idle", "manifest"}
    BY <2>1 DEF InputInv
  <2> QED
    BY <2>1, <2>2, CheckpointFrame DEF Announce, BeginCase, EndCase, Close, At
<1>5. proc'.pc \notin {"idle", "manifest"} => manifest' # None /\ proc'.inputs = manifest'.inputs
  <2>1. CASE \E v \in Inputs, rerun \in BOOLEAN : ResumeRun(v, rerun)
    <3> PICK v \in Inputs, rerun \in BOOLEAN : ResumeRun(v, rerun) BY <2>1
    <3>1. proc'.inputs = v /\ manifest # None /\ manifest.inputs = v
      BY Started DEF ResumeRun
    <3> QED BY <3>1, ManifestKept
  <2>2. CASE FirstManifest
    <3>1. proc'.inputs = proc.inputs
      BY <2>2, Moved DEF Moves
    <3>2. manifest'.inputs = proc.inputs /\ manifest' \in ManifestFile
      BY <2>2 DEF FirstManifest, PlaceInv, At, ManifestFile
    <3> QED BY <1>1, <3>1, <3>2
  <2>3. CASE \E v \in Inputs : StartRun(v)
    BY <2>3, Started
  <2>4. CASE proc.pc \notin {"idle", "manifest"} /\ proc'.inputs = proc.inputs
    BY <2>4, ManifestKept DEF InputInv
  <2>5. CASE proc' = proc
    BY <2>5, ManifestKept DEF InputInv
  <2>6. CASE proc'.pc \in {"idle", "manifest"}
    BY <2>6
  <2>7. proc'.pc = "announce" =>
          \/ FirstManifest \/ proc' = proc
          \/ \E v \in Inputs, rerun \in BOOLEAN : ResumeRun(v, rerun)
          \/ \E v \in Inputs : StartRun(v)
    BY Moved, Started DEF Next, Step, Operator, vars, Moves, SkipCase, Snapshot, EndOrphan, At
  <2> QED BY <2>1, <2>2, <2>3, <2>4, <2>5, <2>6, <2>7, PlaceFrame
<1>6. OneInput'
  <2> SUFFICES ASSUME NEW m \in 1 .. Models, NEW c \in Cases, record[m][c]' # None
               PROVE  manifest' # None /\ record[m][c]'.inputs = manifest'.inputs
    BY DEF OneInput
  <2>1. CASE record' = record
    BY <2>1, ManifestKept DEF InputInv, OneInput
  <2>2. CASE SaveCase
    <3>1. manifest # None /\ proc.inputs = manifest.inputs
      BY <2>2 DEF SaveCase, InputInv, At
    <3>2. \/ record[m][c]' = CaseRecord
          \/ record[m][c]' = record[m][c]
      BY <2>2 DEF SaveCase, TypeInv, Records
    <3>3. CaseRecord.inputs = proc.inputs
      BY DEF CaseRecord
    <3> QED BY <3>1, <3>2, <3>3, ManifestKept DEF InputInv, OneInput
  <2> QED BY <2>1, <2>2, RecordFrame
<1> QED
  BY <1>2, <1>3, <1>4, <1>5, <1>6 DEF InputInv

-----------------------------------------------------------------------------
(* The managed server *)

LEMMA ServerStep ==
  ASSUME TypeInv, PlaceInv, ServerInv, [Next]_vars
  PROVE  ServerInv'
<1> USE DEF ServerInv
<1>1. CASE (\E v \in Inputs : StartRun(v) \/ \E rerun \in BOOLEAN : ResumeRun(v, rerun))
  <2>1. proc.pc = "idle" /\ server' = server /\ orphaned' = orphaned
    BY <1>1 DEF StartRun, ResumeRun, At
  <2> QED BY <2>1 DEF Running
<1>2. CASE FirstManifest \/ Announce \/ FinishManifest \/ WriteSummary \/ Close
  <2>1. /\ proc.pc \in {"manifest", "announce", "finish", "summarise", "close"}
        /\ server' = server /\ orphaned' = orphaned
    BY <1>2 DEF FirstManifest, Announce, FinishManifest, WriteSummary, Close, At
  <2> QED BY <2>1 DEF Running
<1>3. CASE ModelMetadata
  <2>1. proc.pc = "model" /\ orphaned' = orphaned /\ run' = run
    BY <1>3 DEF ModelMetadata, At
  <2>2. proc'.pc = "next"
    BY <1>3, Moved DEF Moves
  <2>3. server = None \/ orphaned
    BY <2>1 DEF Running
  <2>4. server = None => server' \in {None, run}
    BY <1>3 DEF ModelMetadata
  <2> QED BY <2>1, <2>2, <2>3, <2>4 DEF Running
<1>4. CASE ChatSucceeds \/ ChatFails
  <2>1. proc.pc = "chat" /\ orphaned' = orphaned /\ run' = run
    BY <1>4 DEF ChatSucceeds, ChatFails, At
  <2>2. proc'.pc \in {"chat", "save"}
    BY <1>4, Moved DEF Moves
  <2>3. server' \in {server, None, run}
    BY <1>4 DEF ChatSucceeds, ChatFails
  <2> QED BY <2>1, <2>2, <2>3 DEF Running
<1>5. CASE SkipCase \/ BeginCase \/ SaveCase \/ EndCase \/ EndCases \/ Interrupt \/ WriteFails
  <2>1. /\ proc.pc \in Running /\ server' = server /\ orphaned' = orphaned /\ run' = run
    BY <1>5 DEF SkipCase, BeginCase, SaveCase, EndCase, EndCases, Interrupt, WriteFails, At, Running
  <2>2. proc'.pc \in Running
    BY <1>5, <2>1, Moved DEF Moves, Running
  <2> QED BY <2>1, <2>2
<1>6. CASE Unload
  <2>1. (server' = None \/ (server' = server /\ server # run)) /\ orphaned' = orphaned
    BY <1>6 DEF Unload
  <2> QED BY <2>1
<1>7. CASE MetadataWriteFails
  <2>1. server = None \/ orphaned
    BY <1>7 DEF MetadataWriteFails, At, Running
  <2>2. server' = server \/ (server' \in {None, run})
    BY <1>7 DEF MetadataWriteFails
  <2> QED BY <1>7, <2>1, <2>2 DEF MetadataWriteFails
<1>8. CASE UnloadCut
  BY <1>8 DEF UnloadCut
<1>9. CASE Kill
  BY <1>9 DEF Kill
<1>10. CASE EndOrphan
  BY <1>10 DEF EndOrphan
<1>11. CASE (\E n \in Names : Snapshot(n)) \/ UNCHANGED vars
  BY <1>11 DEF Snapshot, vars
<1> QED
  BY <1>1, <1>2, <1>3, <1>4, <1>5, <1>6, <1>7, <1>8, <1>9, <1>10, <1>11 DEF Next, Step, Operator

-----------------------------------------------------------------------------
(* Case files and snapshots *)

\* A save replaces the case file of the process's place by a sound one.
LEMMA Saved ==
  ASSUME TypeInv, PlaceInv, SaveCase
  PROVE  /\ \A m \in 1 .. Models, c \in Cases :
              record'[m][c] = IF m = proc.m /\ c = proc.c THEN CaseRecord ELSE record[m][c]
         /\ CaseRecord \in SoundFile /\ CaseRecord # None
         /\ proc.m \in 1 .. Models /\ proc.c \in Cases
<1>1. CaseRecord \in SoundFile
  BY RecordType DEF SaveCase
<1>2. CaseRecord # None
  BY <1>1, BenchAssumption DEF SoundFile
<1>3. proc.m \in 1 .. Models /\ proc.c \in Cases
  BY DEF SaveCase, PlaceInv, At, Running
<1>4. ASSUME NEW m \in 1 .. Models, NEW c \in Cases
      PROVE  record'[m][c] = IF m = proc.m /\ c = proc.c THEN CaseRecord ELSE record[m][c]
  BY <1>3 DEF SaveCase, TypeInv, Records
<1> QED BY <1>1, <1>2, <1>3, <1>4

\* A case file is never removed, and one of a success never replaced.
LEMMA RecordKept ==
  ASSUME TypeInv, PlaceInv, SnapshotInv, [Next]_vars,
         NEW m \in 1 .. Models, NEW c \in Cases, record[m][c] # None
  PROVE  /\ record'[m][c] # None
         /\ record[m][c].status = "success" => record'[m][c] = record[m][c]
<1>1. CASE record' = record
  BY <1>1
<1>2. CASE SaveCase
  <2>1. m = proc.m /\ c = proc.c => record[m][c].status # "success"
    BY <1>2 DEF SaveCase, SnapshotInv, At
  <2> QED BY <1>2, <2>1, Saved
<1> QED BY <1>1, <1>2, RecordFrame

\* A case is asked, and its answer awaits its file, where BeginCase put the process.
LEMMA ChatFrame ==
  ASSUME TypeInv, [Next]_vars, proc'.pc \in {"chat", "save"}
  PROVE  /\ record' = record /\ reran' = reran
         /\ proc'.m = proc.m /\ proc'.c = proc.c /\ proc'.talk = proc.talk
         /\ proc'.outcome = proc.outcome /\ proc'.rerun = proc.rerun
         /\ BeginCase \/ proc.pc \in {"chat", "save"}
<1>1. CASE BeginCase
  BY <1>1, Moved DEF BeginCase, Moves
<1>2. CASE ChatSucceeds
  BY <1>2, Moved DEF ChatSucceeds, Moves, At, files
<1>3. CASE ChatFails
  BY <1>3, Moved DEF ChatFails, Moves, At, files
<1>4. CASE (\E n \in Names : Snapshot(n)) \/ EndOrphan \/ UNCHANGED vars
  BY <1>4 DEF Snapshot, EndOrphan, vars, files
<1>5. ~(FirstManifest \/ Announce \/ ModelMetadata \/ SkipCase \/ SaveCase \/ EndCase \/ EndCases
          \/ Unload \/ FinishManifest \/ WriteSummary \/ Interrupt \/ WriteFails
          \/ MetadataWriteFails \/ UnloadCut)
  <2>1. SkipCase => proc'.pc = "next"
    BY Moved DEF SkipCase, Moves, At
  <2> QED BY <2>1, Moved DEF Moves
<1>6. ~(\E v \in Inputs : StartRun(v) \/ \E rerun \in BOOLEAN : ResumeRun(v, rerun)) /\ ~Close /\ ~Kill
  BY Started
<1> QED BY <1>1, <1>2, <1>3, <1>4, <1>5, <1>6 DEF Next, Step, Operator

LEMMA SnapshotStep ==
  ASSUME TypeInv, PlaceInv, SnapshotInv, [Next]_vars
  PROVE  SnapshotInv'
<1>1. ASSUME proc'.pc \in {"chat", "save"}
      PROVE  \/ record'[proc'.m][proc'.c] = None
             \/ record'[proc'.m][proc'.c].status # "success"
  <2>1. CASE BeginCase
    <3>1. ~Kept(record[proc.m][proc.c])
      BY <2>1 DEF BeginCase
    <3> QED BY <1>1, <3>1, ChatFrame DEF Kept
  <2>2. CASE proc.pc \in {"chat", "save"}
    BY <1>1, <2>2, ChatFrame DEF SnapshotInv
  <2> QED BY <1>1, <2>1, <2>2, ChatFrame
<1>2. SnapshotStands'
  <2> SUFFICES ASSUME NEW n \in Names, snapshots'[n] # None,
                      NEW m \in 1 .. Models, NEW c \in Cases,
                      snapshots'[n][m][c] # None, snapshots'[n][m][c].status = "success"
               PROVE  record'[m][c] = snapshots'[n][m][c]
    BY DEF SnapshotStands
  <2>1. CASE snapshots' = snapshots
    <3>1. record[m][c] = snapshots[n][m][c]
      BY <2>1 DEF SnapshotInv, SnapshotStands
    <3> QED BY <2>1, <3>1, RecordKept
  <2>2. CASE \E k \in Names : Snapshot(k)
    <3> PICK k \in Names : Snapshot(k) BY <2>2
    <3>1. record' = record /\ snapshots' = [snapshots EXCEPT ![k] = record]
      BY DEF Snapshot
    <3>2. snapshots'[n] = IF n = k THEN record ELSE snapshots[n]
      BY <3>1 DEF TypeInv
    <3>3. CASE n = k
      BY <3>1, <3>2, <3>3
    <3>4. CASE n # k
      BY <3>1, <3>2, <3>4 DEF SnapshotInv, SnapshotStands
    <3> QED BY <3>3, <3>4
  <2>3. snapshots' = snapshots \/ \E k \in Names : Snapshot(k)
    BY DEF Next, Step, Operator, vars, files, StartRun, ResumeRun, FirstManifest, Announce, ModelMetadata,
           SkipCase, BeginCase, ChatSucceeds, ChatFails, SaveCase, EndCase, EndCases, Unload,
           FinishManifest, WriteSummary, Close, EndOrphan, Interrupt, WriteFails,
           MetadataWriteFails, UnloadCut, Kill
  <2> QED BY <2>1, <2>2, <2>3
<1> QED BY <1>1, <1>2 DEF SnapshotInv

-----------------------------------------------------------------------------
(* What a process leaves behind it *)

\* Cases are numbered from one, without a gap.
LEMMA CaseNumbers ==
  /\ \A c \in Cases : c \in Nat /\ c >= 1
  /\ \A c \in Cases, n \in Nat : n >= 1 /\ n \notin Cases => c < n
<1>1. Cardinality(Cases) \in Nat
  BY BenchAssumption, FS_CardinalityType
<1> QED BY <1>1, BenchAssumption

LEMMA ProgressStep ==
  ASSUME TypeInv, PlaceInv, SnapshotInv, ProgressInv, [Next]_vars
  PROVE  ProgressInv'
<1> USE BenchAssumption
<1>1. /\ proc.m \in 0 .. Models /\ proc.c \in Nat
      /\ proc.outcome \in {None, "interrupted", "failed"}
  BY DEF TypeInv, Process
<1>2. \A m \in 1 .. Models, c \in Cases : record[m][c] # None => record'[m][c] # None
  BY RecordKept
<1>3. \A c \in Cases : c \in Nat /\ c >= 1
  BY CaseNumbers
<1>a. CASE \E v \in Inputs : StartRun(v) \/ \E rerun \in BOOLEAN : ResumeRun(v, rerun)
  BY <1>a, Started DEF ProgressInv, Running
<1>b. CASE FirstManifest \/ FinishManifest \/ WriteSummary
  BY <1>b, Moved DEF Moves, FirstManifest, At, ProgressInv, Running
<1>c. CASE Announce
  <2>1. Moves("model", 1, proc.c, proc.talk, proc.outcome)
    BY <1>c, Moved
  <2>2. proc.outcome = None
    BY <1>c DEF Announce, At, ProgressInv
  <2> QED BY <2>1, <2>2 DEF ProgressInv, Running, Moves
<1>d. CASE ModelMetadata
  <2>1. Moves("next", proc.m, 1, NoTalk, proc.outcome) /\ record' = record /\ proc.pc = "model"
    BY <1>d, Moved DEF ModelMetadata, At, files
  <2> QED BY <1>3, <2>1 DEF ProgressInv, Running, Moves
<1>e. CASE SkipCase \/ EndCase
  <2>1. /\ proc'.pc = "next" /\ proc'.m = proc.m /\ proc'.c = proc.c + 1 /\ record' = record
        /\ proc'.outcome = proc.outcome /\ proc.pc \in {"next", "saved"}
    BY <1>e, Moved DEF Moves, SkipCase, EndCase, At, files
  <2>2. record[proc.m][proc.c] # None
    BY <1>e DEF SkipCase, Kept, EndCase, At, ProgressInv
  <2>3. \A c \in Cases : c < proc.c + 1 => c < proc.c \/ c = proc.c
    BY <1>1, <1>3
  <2> QED BY <2>1, <2>2, <2>3 DEF ProgressInv, Running
<1>f. CASE BeginCase \/ ChatSucceeds \/ ChatFails
  <2>1. /\ proc'.pc \in {"chat", "save"} /\ proc'.m = proc.m /\ proc'.c = proc.c /\ record' = record
        /\ proc'.outcome = proc.outcome /\ proc.pc \in {"next", "chat"}
    BY <1>f, Moved DEF Moves, BeginCase, ChatSucceeds, ChatFails, At, files
  <2> QED BY <2>1 DEF ProgressInv, Running
<1>g. CASE SaveCase
  <2>1. /\ proc'.pc = "saved" /\ proc'.m = proc.m /\ proc'.c = proc.c
        /\ proc'.outcome = proc.outcome /\ proc.pc = "save"
    BY <1>g, Moved DEF Moves, SaveCase, At
  <2>2. record'[proc.m][proc.c] # None
    BY <1>g, Saved
  <2>3. proc.m \in 1 .. Models
    BY <2>1 DEF PlaceInv, Running
  <2> QED BY <1>2, <2>1, <2>2, <2>3 DEF ProgressInv, Running
<1>h. CASE EndCases
  <2>1. Moves("unload", proc.m, proc.c, proc.talk, proc.outcome) /\ record' = record /\ proc.pc = "next"
    BY <1>h, Moved DEF EndCases, At, files
  <2>2. \A c \in Cases : c < proc.c
    <3>1. proc.c \notin Cases /\ proc.c >= 1
      BY <1>h, <2>1 DEF EndCases, PlaceInv
    <3> QED BY <1>1, <3>1, CaseNumbers
  <2> QED BY <2>1, <2>2 DEF ProgressInv, Running, Moves
<1>i. CASE Interrupt \/ WriteFails
  <2>1. proc'.pc = "unload" /\ proc'.outcome \in {"interrupted", "failed"}
    BY <1>i, Moved DEF Moves
  <2> QED BY <2>1 DEF ProgressInv, Running
<1>j. CASE Unload \/ UnloadCut
  <2>1. record' = record /\ proc.pc = "unload"
    BY <1>j DEF Unload, UnloadCut, At, files
  <2>2. \/ Moves("model", proc.m + 1, proc.c, proc.talk, proc.outcome) /\ proc.m < Models /\ proc.outcome = None
        \/ Moves("finish", proc.m, proc.c, proc.talk, proc.outcome) /\ (proc.outcome # None \/ proc.m = Models)
    BY <1>1, <1>j, Moved
  <2>3. proc.outcome = None =>
          \A m \in 1 .. Models, c \in Cases : m < proc.m + 1 => record[m][c] # None
    BY <1>1, <2>1 DEF ProgressInv, Running
  <2> QED BY <1>1, <2>1, <2>2, <2>3 DEF ProgressInv, Running, Moves
<1>k. CASE MetadataWriteFails
  <2>1. proc'.pc = "finish" /\ proc'.outcome = "failed"
    BY <1>k, Moved DEF Moves
  <2> QED BY <2>1 DEF ProgressInv, Running
<1>l. CASE Close \/ Kill
  BY <1>l, Started DEF ProgressInv, Running
<1>m. CASE (\E n \in Names : Snapshot(n)) \/ EndOrphan \/ UNCHANGED vars
  BY <1>m DEF Snapshot, EndOrphan, vars, files, ProgressInv
<1> QED
  BY <1>a, <1>b, <1>c, <1>d, <1>e, <1>f, <1>g, <1>h, <1>i, <1>j, <1>k, <1>l, <1>m
     DEF Next, Step, Operator

-----------------------------------------------------------------------------
(* The closing files *)

\* When every case file is there and of a success, they are as many as the cases.
LEMMA AllCounted ==
  ASSUME TypeInv, AllSucceeded
  PROVE  Cardinality(Succeeded) = Models * Cardinality(Cases)
<1> USE BenchAssumption
<1>1. Succeeded = (1 .. Models) \X Cases
  <2>1. ASSUME NEW mc \in (1 .. Models) \X Cases
        PROVE  Statuses[mc[1]][mc[2]] = "success"
    BY DEF AllSucceeded, Statuses
  <2> QED BY <2>1 DEF Succeeded
<1>2. IsFiniteSet(1 .. Models) /\ Cardinality(1 .. Models) = Models
  BY FS_Interval
<1>3. Cardinality((1 .. Models) \X Cases) = Cardinality(1 .. Models) * Cardinality(Cases)
  BY <1>2, FS_Product
<1> QED BY <1>1, <1>2, <1>3

\* A process past its first checkpoint, and one before its last, got there step by step.
LEMMA ClosingFrame ==
  ASSUME TypeInv, [Next]_vars
  PROVE  /\ proc'.pc \notin {"idle", "manifest", "announce"} =>
              Announce \/ proc.pc \notin {"idle", "manifest", "announce"}
         /\ proc'.pc \in {"summarise", "close"} =>
              /\ record' = record
              /\ FinishManifest \/ (manifest' = manifest /\ proc.pc \in {"summarise", "close"})
         /\ proc'.pc = "close" => WriteSummary \/ (summary' = summary /\ proc.pc = "close")
         /\ summary' = summary \/ WriteSummary
<1>a. CASE (\E v \in Inputs : StartRun(v) \/ \E rerun \in BOOLEAN : ResumeRun(v, rerun)) \/ Close \/ Kill
  BY <1>a, Started DEF StartRun, ResumeRun, Close, Kill, files
<1>b. CASE FirstManifest
  BY <1>b, Moved DEF FirstManifest, Moves
<1>c. CASE Announce \/ ModelMetadata \/ SkipCase \/ BeginCase \/ ChatSucceeds \/ ChatFails \/ SaveCase
           \/ EndCase \/ EndCases \/ Unload \/ Interrupt \/ WriteFails \/ MetadataWriteFails \/ UnloadCut
  <2>1. proc'.pc \in {"model", "next", "chat", "save", "saved", "unload", "finish"} /\ summary' = summary
    BY <1>c, Moved DEF Announce, ModelMetadata, SkipCase, BeginCase, ChatSucceeds, ChatFails, SaveCase,
         EndCase, EndCases, Unload, Interrupt, WriteFails, MetadataWriteFails, UnloadCut, Moves, At, files
  <2>2. Announce \/ proc.pc \notin {"idle", "manifest", "announce"}
    BY <1>c DEF ModelMetadata, SkipCase, BeginCase, ChatSucceeds, ChatFails, SaveCase, EndCase,
         EndCases, Unload, Interrupt, WriteFails, MetadataWriteFails, UnloadCut, At
  <2> QED BY <2>1, <2>2
<1>d. CASE FinishManifest \/ WriteSummary
  BY <1>d, Moved DEF FinishManifest, WriteSummary, Moves, At
<1>e. CASE (\E n \in Names : Snapshot(n)) \/ EndOrphan \/ UNCHANGED vars
  BY <1>e DEF Snapshot, EndOrphan, vars, files
<1> QED BY <1>a, <1>b, <1>c, <1>d, <1>e DEF Next, Step, Operator

\* What the manifest says when the run finishes is true.
LEMMA VerdictTrue ==
  ASSUME TypeInv, ProgressInv, At("finish")
  PROVE  /\ Verdict \in {"completed", "completed_with_errors"} => AllPresent
         /\ Verdict = "completed" => AllSucceeded
<1>1. proc.outcome \in {None, "interrupted", "failed"} /\ record \in Records
  BY DEF TypeInv, Process
<1>2. Verdict \in {"completed", "completed_with_errors"} => proc.outcome = None
  BY <1>1 DEF Verdict
<1>3. proc.outcome = None => AllPresent
  BY DEF ProgressInv, At, AllPresent
<1>4. ASSUME Verdict = "completed", NEW m \in 1 .. Models, NEW c \in Cases
      PROVE  record[m][c] # None /\ record[m][c].status = "success"
  <2>1. record[m][c] # None /\ record[m][c] \in SoundFile
    BY <1>1, <1>2, <1>3, <1>4 DEF AllPresent, Records
  <2>2. Statuses[m][c] # "error"
    BY <1>2, <1>4 DEF Verdict
  <2>3. record[m][c].status # "error"
    BY <2>1, <2>2 DEF Statuses
  <2> QED BY <2>1, <2>3 DEF SoundFile, CaseFile
<1> QED BY <1>2, <1>3, <1>4 DEF AllSucceeded

LEMMA ClosingStep ==
  ASSUME TypeInv, PlaceInv, InputInv, ProgressInv, ClosingInv, [Next]_vars
  PROVE  ClosingInv'
<1>1. ASSUME proc'.pc \in {"summarise", "close"}
      PROVE  /\ manifest'.status \in {"completed", "completed_with_errors"} => AllPresent'
             /\ manifest'.status = "completed" => AllSucceeded'
  <2>1. record' = record
    BY <1>1, ClosingFrame
  <2>2. CASE FinishManifest
    <3>1. manifest \in ManifestFile
      BY <2>2 DEF FinishManifest, InputInv, TypeInv, At
    <3>2. manifest'.status = Verdict
      BY <2>2, <3>1 DEF FinishManifest, WriteManifest, ManifestFile
    <3>3. /\ Verdict \in {"completed", "completed_with_errors"} => AllPresent
          /\ Verdict = "completed" => AllSucceeded
      BY <2>2, VerdictTrue DEF FinishManifest
    <3> QED BY <2>1, <3>2, <3>3 DEF AllPresent, AllSucceeded
  <2>3. CASE manifest' = manifest /\ proc.pc \in {"summarise", "close"}
    BY <2>1, <2>3 DEF ClosingInv, AllPresent, AllSucceeded
  <2> QED BY <1>1, <2>2, <2>3, ClosingFrame
<1>2. proc'.pc = "close" => summary' = Statuses'
  <2> SUFFICES ASSUME proc'.pc = "close" PROVE summary' = Statuses'
    OBVIOUS
  <2>1. record' = record
    BY ClosingFrame
  <2>2. Statuses' = Statuses
    BY <2>1 DEF Statuses
  <2>3. CASE WriteSummary
    BY <2>2, <2>3 DEF WriteSummary
  <2>4. CASE summary' = summary /\ proc.pc = "close"
    BY <2>2, <2>4 DEF ClosingInv
  <2> QED BY <2>3, <2>4, ClosingFrame
<1>3. EndCase => checkpoint'.status \in {"success", "error"}
  <2> SUFFICES ASSUME EndCase PROVE checkpoint'.status \in {"success", "error"}
    OBVIOUS
  <2>1. record[proc.m][proc.c] # None /\ proc.m \in 1 .. Models /\ proc.c \in Cases
    BY DEF EndCase, At, ProgressInv, PlaceInv, Running
  <2>2. record[proc.m][proc.c] \in SoundFile
    BY <2>1 DEF TypeInv, Records
  <2> QED BY <2>2 DEF EndCase, WriteCheckpoint, SoundFile, CaseFile
<1>4. ASSUME proc'.pc \notin {"idle", "manifest", "announce"}
      PROVE  checkpoint'.status \in {"running", "success", "error"}
  <2>1. CASE Announce \/ BeginCase
    BY <2>1 DEF Announce, BeginCase, WriteCheckpoint
  <2>2. CASE EndCase
    BY <1>3, <2>2
  <2>3. CASE Close
    BY <1>4, <2>3, Started
  <2>4. CASE ~Announce /\ checkpoint' = checkpoint
    BY <1>4, <2>4, ClosingFrame DEF ClosingInv
  <2> QED BY <2>1, <2>2, <2>3, <2>4, CheckpointFrame
<1>5. CheckpointLast'
  <2>1. CASE Announce \/ BeginCase
    BY <2>1 DEF Announce, BeginCase, WriteCheckpoint, CheckpointLast
  <2>2. CASE EndCase
    BY <1>3, <2>2 DEF CheckpointLast
  <2>3. CASE Close
    <3>1. /\ checkpoint'.status = manifest.status /\ summary' = summary /\ record' = record
          /\ summary = Statuses
      BY <2>3 DEF Close, WriteCheckpoint, ClosingInv, At
    <3>2. /\ manifest.status \in {"completed", "completed_with_errors"} => AllPresent
          /\ manifest.status = "completed" => AllSucceeded
      BY <2>3 DEF Close, ClosingInv, At
    <3>3. Statuses' = Statuses /\ Succeeded' = Succeeded
      BY <3>1 DEF Statuses, Succeeded
    <3>4. AllSucceeded => Cardinality(Succeeded) = Models * Cardinality(Cases)
      BY AllCounted
    <3> QED BY <3>1, <3>2, <3>3, <3>4 DEF CheckpointLast, AllPresent
  <2>4. CASE checkpoint' = checkpoint /\ (SaveCase \/ WriteSummary)
    <3>1. proc.pc \in {"save", "summarise"}
      BY <2>4 DEF SaveCase, WriteSummary, At
    <3>2. checkpoint'.status \in {"running", "success", "error"}
      BY <2>4, <3>1 DEF ClosingInv
    <3> QED BY <3>2 DEF CheckpointLast
  <2>5. CASE checkpoint' = checkpoint /\ record' = record /\ summary' = summary
    <3>1. Statuses' = Statuses /\ Succeeded' = Succeeded
      BY <2>5 DEF Statuses, Succeeded
    <3> QED BY <2>5, <3>1 DEF ClosingInv, CheckpointLast
  <2> QED BY <2>1, <2>2, <2>3, <2>4, <2>5, CheckpointFrame, RecordFrame, ClosingFrame
<1> QED BY <1>1, <1>2, <1>4, <1>5 DEF ClosingInv

-----------------------------------------------------------------------------
(* Conversations *)

\* Only a resumption sets reran, and no action clears it.
LEMMA RerunFrame ==
  ASSUME TypeInv, OrderInv, [Next]_vars
  PROVE  /\ reran => reran'
         /\ proc'.rerun => reran'
         /\ reran' = reran \/ (proc'.pc = "announce" /\ record' = record)
<1>1. CASE \E v \in Inputs : StartRun(v) \/ \E rerun \in BOOLEAN : ResumeRun(v, rerun)
  <2> PICK v \in Inputs : StartRun(v) \/ \E rerun \in BOOLEAN : ResumeRun(v, rerun)
    BY <1>1
  <2>1. CASE StartRun(v)
    BY <2>1, Started DEF StartRun
  <2>2. ASSUME NEW rerun \in BOOLEAN, ResumeRun(v, rerun)
        PROVE  /\ reran => reran'
               /\ proc'.rerun => reran'
               /\ proc'.pc = "announce" /\ record' = record
    BY <2>2, Started DEF ResumeRun
  <2> QED BY <2>1, <2>2
<1>2. CASE FirstManifest \/ Announce \/ ModelMetadata \/ SkipCase \/ BeginCase \/ ChatSucceeds \/ ChatFails
           \/ SaveCase \/ EndCase \/ EndCases \/ Unload \/ FinishManifest \/ WriteSummary \/ Interrupt
           \/ WriteFails \/ MetadataWriteFails \/ UnloadCut
  <2>1. proc'.rerun = proc.rerun
    BY <1>2, Moved DEF Moves
  <2>2. reran' = reran
    BY <1>2 DEF FirstManifest, Announce, ModelMetadata, SkipCase, BeginCase, ChatSucceeds, ChatFails,
         SaveCase, EndCase, EndCases, Unload, FinishManifest, WriteSummary, Interrupt, WriteFails,
         MetadataWriteFails, UnloadCut
  <2> QED BY <2>1, <2>2 DEF OrderInv
<1>3. CASE Close \/ Kill
  BY <1>3, Started DEF Close, Kill
<1>4. CASE (\E n \in Names : Snapshot(n)) \/ EndOrphan \/ UNCHANGED vars
  BY <1>4 DEF Snapshot, EndOrphan, vars, OrderInv
<1> QED BY <1>1, <1>2, <1>3, <1>4 DEF Next, Step, Operator

\* Turns stay true of case files in which every success stands.
LEMMA TrueKept ==
  ASSUME NEW R, NEW S, NEW m, NEW c, NEW k, NEW turns \in Seq(Turn),
         \A e \in Cases : R[m][e] # None /\ R[m][e].status = "success" => S[m][e] = R[m][e],
         TrueIn(R, m, c, k, turns)
  PROVE  TrueIn(S, m, c, k, turns)
<1>1. \A i \in DOMAIN turns : turns[i][1] \in Cases
  BY DEF Turn
<1> QED BY <1>1 DEF TrueIn

\* A case that is no success of the conversation adds nothing to it.
LEMMA Passed ==
  ASSUME NEW R, NEW m, NEW c \in Cases, NEW k, NEW turns \in Seq(Turn)
  PROVE  /\ TrueIn(R, m, c, k, turns) => TrueIn(R, m, c + 1, k, turns)
         /\ ~(Key[c] = k /\ R[m][c] # None /\ R[m][c].status = "success") =>
              (AllIn(R, m, c, k, turns) => AllIn(R, m, c + 1, k, turns))
<1>1. \A e \in Cases : e \in Nat /\ (e < c + 1 => e < c \/ e = c)
  BY CaseNumbers
<1>2. \A i \in DOMAIN turns : turns[i][1] \in Cases
  BY DEF Turn
<1>3. TrueIn(R, m, c, k, turns) => TrueIn(R, m, c + 1, k, turns)
  BY <1>1, <1>2 DEF TrueIn
<1>4. ~(Key[c] = k /\ R[m][c] # None /\ R[m][c].status = "success") =>
        (AllIn(R, m, c, k, turns) => AllIn(R, m, c + 1, k, turns))
  BY <1>1 DEF AllIn
<1> QED BY <1>3, <1>4

\* The turn of a successful case extends the turns before it.
LEMMA Extended ==
  ASSUME NEW R, NEW m, NEW c \in Cases, NEW turns \in Seq(Turn), NEW a \in 1 .. MaxRuns,
         R[m][c] # None, R[m][c].status = "success", a = R[m][c].answer
  PROVE  /\ TrueIn(R, m, c, Key[c], turns) => TrueIn(R, m, c + 1, Key[c], Append(turns, <<c, a>>))
         /\ AllIn(R, m, c, Key[c], turns) => AllIn(R, m, c + 1, Key[c], Append(turns, <<c, a>>))
<1> DEFINE more == Append(turns, <<c, a>>)
<1>1. \A e \in Cases : e \in Nat /\ (e < c + 1 <=> e < c \/ e = c)
  BY CaseNumbers
<1>2. /\ DOMAIN turns = 1 .. Len(turns) /\ Len(turns) \in Nat
      /\ DOMAIN more = 1 .. Len(turns) + 1
      /\ more[Len(turns) + 1] = <<c, a>>
      /\ \A i \in DOMAIN turns : more[i] = turns[i] /\ turns[i][1] \in Cases
  BY DEF Turn
<1>3. \A i \in DOMAIN more : i \in DOMAIN turns \/ i = Len(turns) + 1
  BY <1>2
<1> HIDE DEF more
<1>4. ASSUME TrueIn(R, m, c, Key[c], turns) PROVE TrueIn(R, m, c + 1, Key[c], more)
  <2>1. ASSUME NEW i \in DOMAIN more
        PROVE  /\ more[i][1] < c + 1 /\ Key[more[i][1]] = Key[c]
               /\ R[m][more[i][1]] # None /\ R[m][more[i][1]].status = "success"
               /\ more[i][2] = R[m][more[i][1]].answer
    <3>1. CASE i \in DOMAIN turns
      BY <1>1, <1>2, <1>4, <3>1 DEF TrueIn
    <3>2. CASE i = Len(turns) + 1
      BY <1>1, <1>2, <3>2
    <3> QED BY <1>3, <3>1, <3>2
  <2>2. ASSUME NEW i \in DOMAIN more, NEW j \in DOMAIN more, i < j
        PROVE  more[i][1] < more[j][1]
    <3>1. i \in DOMAIN turns
      BY <1>2, <2>2
    <3>2. CASE j \in DOMAIN turns
      BY <1>2, <1>4, <2>2, <3>1, <3>2 DEF TrueIn
    <3>3. CASE j = Len(turns) + 1
      BY <1>2, <1>4, <3>1, <3>3 DEF TrueIn
    <3> QED BY <1>3, <3>2, <3>3
  <2> QED BY <2>1, <2>2 DEF TrueIn
<1>5. ASSUME AllIn(R, m, c, Key[c], turns) PROVE AllIn(R, m, c + 1, Key[c], more)
  <2> SUFFICES ASSUME NEW e \in Cases, e < c + 1, Key[e] = Key[c], R[m][e] # None,
                      R[m][e].status = "success"
               PROVE  \E i \in DOMAIN more : more[i][1] = e
    BY DEF AllIn
  <2>1. CASE e < c
    <3>1. PICK i \in DOMAIN turns : turns[i][1] = e
      BY <1>5, <2>1 DEF AllIn
    <3> QED BY <1>2, <3>1
  <2>2. CASE e = c
    BY <1>2, <2>2
  <2> QED BY <1>1, <2>1, <2>2
<1> QED BY <1>4, <1>5 DEF more

LEMMA TalkStep ==
  ASSUME TypeInv, PlaceInv, SnapshotInv, OrderInv, TurnsInv, TalkInv, [Next]_vars
  PROVE  TalkInv'
<1> USE BenchAssumption
<1>1. /\ proc.m \in 0 .. Models /\ proc.c \in Nat /\ record \in Records
      /\ proc.talk \in [Keys -> Seq(Turn)]
  BY DEF TypeInv, Process
<1>2. \A k \in Keys : k # None
  BY DEF Keys
<1>a. CASE proc'.pc \notin {"next", "chat", "save", "saved"}
  BY <1>a DEF TalkInv
<1>b. CASE ModelMetadata
  <2>1. Moves("next", proc.m, 1, NoTalk, proc.outcome)
    BY <1>b, Moved
  <2>2. \A k \in Keys : proc'.talk[k] = <<>>
    BY <2>1 DEF Moves, NoTalk
  <2>3. ASSUME NEW k PROVE TrueIn(record', proc.m, 1, k, <<>>)
    BY DEF TrueIn
  <2>4. ASSUME NEW k PROVE AllIn(record', proc.m, 1, k, <<>>)
    BY CaseNumbers DEF AllIn
  <2> QED BY <2>1, <2>2, <2>3, <2>4 DEF TalkInv, Done, Moves
<1>c. CASE SkipCase
  <2> DEFINE r == record[proc.m][proc.c]
  <2>1. /\ proc'.pc = "next" /\ proc'.m = proc.m /\ proc'.c = proc.c + 1
        /\ proc'.talk = Restored(proc.talk, proc.c, r) /\ record' = record /\ reran' = reran
        /\ proc.pc = "next"
    BY <1>c, Moved DEF SkipCase, Moves, At, files
  <2>2. proc.m \in 1 .. Models /\ proc.c \in Cases /\ r # None
    BY <1>c, <2>1 DEF SkipCase, PlaceInv, Running, Kept
  <2>3. r \in SoundFile
    BY <1>1, <2>2 DEF Records
  <2>4. ASSUME NEW k \in Keys
        PROVE  /\ TrueIn(record, proc.m, proc.c + 1, k, proc'.talk[k])
               /\ ~reran => AllIn(record, proc.m, proc.c + 1, k, proc'.talk[k])
    <3>1. CASE Key[proc.c] = k /\ r.status = "success"
      <4>1. proc'.talk[k] = Append(r.turns, <<proc.c, r.answer>>)
        BY <1>1, <1>2, <2>1, <3>1 DEF Restored
      <4>2. r.turns \in Seq(Turn) /\ r.answer \in 1 .. MaxRuns
        BY <2>3, <3>1 DEF SoundFile, CaseFile, Turn
      <4>3. /\ TrueIn(record, proc.m, proc.c, Key[proc.c], r.turns)
            /\ ~reran => AllIn(record, proc.m, proc.c, Key[proc.c], r.turns)
        BY <1>2, <2>2, <3>1 DEF TurnsInv
      <4>4. /\ TrueIn(record, proc.m, proc.c, Key[proc.c], r.turns) =>
                  TrueIn(record, proc.m, proc.c + 1, Key[proc.c], Append(r.turns, <<proc.c, r.answer>>))
            /\ AllIn(record, proc.m, proc.c, Key[proc.c], r.turns) =>
                  AllIn(record, proc.m, proc.c + 1, Key[proc.c], Append(r.turns, <<proc.c, r.answer>>))
        BY <2>2, <3>1, <4>2, Extended
      <4> QED BY <3>1, <4>1, <4>3, <4>4
    <3>2. CASE ~(Key[proc.c] = k /\ r.status = "success")
      <4>1. proc'.talk[k] = proc.talk[k] /\ proc.talk[k] \in Seq(Turn)
        BY <1>1, <2>1, <3>2 DEF Restored
      <4>2. /\ TrueIn(record, proc.m, proc.c, k, proc.talk[k])
            /\ ~reran => AllIn(record, proc.m, proc.c, k, proc.talk[k])
        BY <2>1 DEF TalkInv, Done
      <4>3. /\ TrueIn(record, proc.m, proc.c, k, proc.talk[k]) => TrueIn(record, proc.m, proc.c + 1, k, proc.talk[k])
            /\ AllIn(record, proc.m, proc.c, k, proc.talk[k]) => AllIn(record, proc.m, proc.c + 1, k, proc.talk[k])
        BY <2>2, <3>2, <4>1, Passed
      <4> QED BY <4>1, <4>2, <4>3
    <3> QED BY <3>1, <3>2
  <2> HIDE DEF r
  <2> QED BY <2>1, <2>4 DEF TalkInv, Done
<1>d. CASE proc'.pc \in {"chat", "save"}
  <2>1. /\ record' = record /\ reran' = reran /\ proc'.m = proc.m /\ proc'.c = proc.c /\ proc'.talk = proc.talk
        /\ proc.pc \in {"next", "chat", "save"}
    BY <1>d, ChatFrame DEF BeginCase, At
  <2> QED BY <1>d, <2>1 DEF TalkInv, Done
<1>e. CASE EndCase
  <2>1. /\ proc'.pc = "next" /\ proc'.m = proc.m /\ proc'.c = proc.c + 1 /\ proc'.talk = proc.talk
        /\ record' = record /\ reran' = reran /\ proc.pc = "saved"
    BY <1>e, Moved DEF EndCase, Moves, At
  <2> QED BY <2>1 DEF TalkInv, Done
<1>f. CASE SaveCase
  <2> DEFINE r == CaseRecord
  <2>1. /\ proc'.pc = "saved" /\ proc'.m = proc.m /\ proc'.c = proc.c /\ reran' = reran
        /\ proc'.talk = Restored(proc.talk, proc.c, r) /\ proc.pc = "save"
    BY <1>f, Moved DEF SaveCase, Moves, At
  <2>2. /\ proc.m \in 1 .. Models /\ proc.c \in Cases /\ r # None /\ r \in SoundFile
        /\ record'[proc.m][proc.c] = r
        /\ \A e \in Cases : e < proc.c => record'[proc.m][e] = record[proc.m][e]
    <3>1. \A e \in Cases : e < proc.c => e # proc.c
      BY CaseNumbers
    <3> QED BY <1>f, <3>1, Saved
  <2>3. r.turns = CaseTurns(proc.talk, proc.c)
    BY DEF CaseRecord
  <2> HIDE DEF r
  <2>4. ASSUME NEW k \in Keys
        PROVE  /\ TrueIn(record', proc.m, proc.c + 1, k, proc'.talk[k])
               /\ ~reran => AllIn(record', proc.m, proc.c + 1, k, proc'.talk[k])
    <3>0. proc.talk[k] \in Seq(Turn)
      BY <1>1
    <3>1. TrueIn(record', proc.m, proc.c, k, proc.talk[k])
      <4>1. TrueIn(record, proc.m, proc.c, k, proc.talk[k])
        BY <2>1 DEF TalkInv, Done
      <4>2. \A e \in Cases : record[proc.m][e] # None /\ record[proc.m][e].status = "success" =>
              record'[proc.m][e] = record[proc.m][e]
        BY <2>2, RecordKept
      <4> QED BY <3>0, <4>1, <4>2, TrueKept
    <3>2. ~reran => AllIn(record', proc.m, proc.c, k, proc.talk[k])
      <4>1. ~reran => AllIn(record, proc.m, proc.c, k, proc.talk[k])
        BY <2>1 DEF TalkInv, Done
      <4> QED BY <2>2, <4>1 DEF AllIn
    <3>3. CASE Key[proc.c] = k /\ r.status = "success"
      <4>1. r.turns = proc.talk[k]
        BY <1>2, <2>3, <3>3 DEF CaseTurns
      <4>2. proc'.talk[k] = Append(proc.talk[k], <<proc.c, r.answer>>)
        BY <1>1, <1>2, <2>1, <3>3, <4>1 DEF Restored
      <4>3. r.answer \in 1 .. MaxRuns
        BY <2>2, <3>3 DEF SoundFile, CaseFile
      <4>4. /\ TrueIn(record', proc.m, proc.c, Key[proc.c], proc.talk[k]) =>
                  TrueIn(record', proc.m, proc.c + 1, Key[proc.c], Append(proc.talk[k], <<proc.c, r.answer>>))
            /\ AllIn(record', proc.m, proc.c, Key[proc.c], proc.talk[k]) =>
                  AllIn(record', proc.m, proc.c + 1, Key[proc.c], Append(proc.talk[k], <<proc.c, r.answer>>))
        BY <2>2, <3>0, <3>3, <4>3, Extended
      <4> QED BY <3>1, <3>2, <3>3, <4>2, <4>4
    <3>4. CASE ~(Key[proc.c] = k /\ r.status = "success")
      <4>1. proc'.talk[k] = proc.talk[k]
        BY <1>1, <2>1, <3>4 DEF Restored
      <4>2. /\ TrueIn(record', proc.m, proc.c, k, proc.talk[k]) => TrueIn(record', proc.m, proc.c + 1, k, proc.talk[k])
            /\ AllIn(record', proc.m, proc.c, k, proc.talk[k]) => AllIn(record', proc.m, proc.c + 1, k, proc.talk[k])
        BY <2>2, <3>0, <3>4, Passed
      <4> QED BY <3>1, <3>2, <4>1, <4>2
    <3> QED BY <3>3, <3>4
  <2> QED BY <2>1, <2>4 DEF TalkInv, Done
<1>g. CASE (\E n \in Names : Snapshot(n)) \/ EndOrphan \/ UNCHANGED vars
  BY <1>g DEF Snapshot, EndOrphan, vars, files, TalkInv, Done
<1>h. (\/ \E v \in Inputs : StartRun(v) \/ \E rerun \in BOOLEAN : ResumeRun(v, rerun)
       \/ FirstManifest \/ Announce \/ BeginCase \/ ChatSucceeds \/ ChatFails \/ EndCases \/ Unload
       \/ FinishManifest \/ WriteSummary \/ Close \/ Interrupt \/ WriteFails
       \/ MetadataWriteFails \/ UnloadCut \/ Kill) =>
        proc'.pc \notin {"next", "saved"}
  BY Moved, Started DEF Moves
<1> QED BY <1>a, <1>b, <1>c, <1>d, <1>e, <1>f, <1>g, <1>h DEF Next, Step, Operator

LEMMA OrderStep ==
  ASSUME TypeInv, PlaceInv, SnapshotInv, ProgressInv, OrderInv, [Next]_vars
  PROVE  OrderInv'
<1>1. ASSUME NEW m \in 1 .. Models, NEW c \in Cases, NEW e \in Cases,
             record'[m][c] # None, e < c
      PROVE  record'[m][e] # None
  <2>1. CASE record[m][c] # None
    <3>1. record[m][e] # None
      BY <1>1, <2>1 DEF OrderInv
    <3> QED BY <3>1, RecordKept
  <2>2. CASE record[m][c] = None
    <3>1. SaveCase /\ m = proc.m /\ c = proc.c
      BY <1>1, <2>2, RecordFrame, Saved
    <3>2. record[m][e] # None
      BY <1>1, <3>1 DEF SaveCase, At, ProgressInv
    <3> QED BY <3>2, RecordKept
  <2> QED BY <2>1, <2>2
<1>2. ASSUME proc'.pc \in {"chat", "save"}, ~reran'
      PROVE  record'[proc'.m][proc'.c] = None
  <2>1. /\ record' = record /\ reran' = reran /\ proc'.m = proc.m /\ proc'.c = proc.c
        /\ BeginCase \/ proc.pc \in {"chat", "save"}
    BY <1>2, ChatFrame
  <2>2. CASE BeginCase
    <3>1. proc.m \in 1 .. Models /\ proc.c \in Cases
      BY <2>2 DEF BeginCase, PlaceInv, Running, At
    <3>2. record[proc.m][proc.c] # None => record[proc.m][proc.c].status \in {"success", "error"}
      BY <3>1 DEF TypeInv, Records, SoundFile, CaseFile
    <3>3. ~Kept(record[proc.m][proc.c]) /\ ~proc.rerun
      BY <1>2, <2>1, <2>2 DEF BeginCase, OrderInv
    <3> QED BY <2>1, <3>2, <3>3 DEF Kept
  <2>3. CASE proc.pc \in {"chat", "save"}
    BY <1>2, <2>1, <2>3 DEF OrderInv
  <2> QED BY <2>1, <2>2, <2>3
<1> QED BY <1>1, <1>2, RerunFrame DEF OrderInv

LEMMA TurnsStep ==
  ASSUME TypeInv, PlaceInv, SnapshotInv, OrderInv, TalkInv, TurnsInv, [Next]_vars
  PROVE  TurnsInv'
<1>1. proc.talk \in [Keys -> Seq(Turn)] /\ record \in Records
  BY DEF TypeInv, Process
<1>2. ASSUME NEW m \in 1 .. Models
      PROVE  \A e \in Cases : record[m][e] # None /\ record[m][e].status = "success" =>
               record'[m][e] = record[m][e]
  BY RecordKept
<1> SUFFICES ASSUME NEW m \in 1 .. Models, NEW c \in Cases,
                    record'[m][c] # None, record'[m][c].status = "success"
             PROVE  IF Key[c] = None THEN record'[m][c].turns = <<>>
                    ELSE /\ TrueIn(record', m, c, Key[c], record'[m][c].turns)
                         /\ ~reran' => AllIn(record', m, c, Key[c], record'[m][c].turns)
  BY DEF TurnsInv
<1>a. CASE record' = record
  BY <1>a, RerunFrame DEF TurnsInv
<1>b. CASE SaveCase /\ m = proc.m /\ c = proc.c
  <2>1. /\ record'[m][c] = CaseRecord /\ reran' = reran /\ proc.pc = "save"
        /\ \A e \in Cases : e < c => record'[m][e] = record[m][e]
    <3>1. \A e \in Cases : e < c => e # c
      BY CaseNumbers
    <3> QED BY <1>b, <3>1, Saved DEF SaveCase, At
  <2>2. record'[m][c].turns = CaseTurns(proc.talk, c)
    BY <1>b, <2>1 DEF CaseRecord
  <2>3. CASE Key[c] = None
    BY <2>2, <2>3 DEF CaseTurns
  <2>4. CASE Key[c] # None
    <3>1. Key[c] \in Keys /\ record'[m][c].turns = proc.talk[Key[c]] /\ proc.talk[Key[c]] \in Seq(Turn)
      BY <1>1, <2>2, <2>4 DEF CaseTurns, Keys
    <3>2. /\ TrueIn(record, m, c, Key[c], proc.talk[Key[c]])
          /\ ~reran => AllIn(record, m, c, Key[c], proc.talk[Key[c]])
      BY <1>b, <2>1, <3>1 DEF TalkInv, Done
    <3>3. TrueIn(record', m, c, Key[c], proc.talk[Key[c]])
      BY <1>2, <3>1, <3>2, TrueKept
    <3>4. ~reran => AllIn(record', m, c, Key[c], proc.talk[Key[c]])
      BY <2>1, <3>2 DEF AllIn
    <3> QED BY <2>1, <2>4, <3>1, <3>3, <3>4
  <2> QED BY <2>3, <2>4
<1>c. CASE SaveCase /\ ~(m = proc.m /\ c = proc.c)
  <2>1. record'[m][c] = record[m][c] /\ reran' = reran
    BY <1>c, Saved DEF SaveCase
  <2>2. CASE Key[c] = None
    BY <2>1, <2>2 DEF TurnsInv
  <2>3. CASE Key[c] # None
    <3>1. /\ TrueIn(record, m, c, Key[c], record[m][c].turns)
          /\ ~reran => AllIn(record, m, c, Key[c], record[m][c].turns)
      BY <2>1, <2>3 DEF TurnsInv
    <3>2. record[m][c].turns \in Seq(Turn)
      BY <1>1, <2>1 DEF Records, SoundFile, CaseFile, Turn
    <3>3. TrueIn(record', m, c, Key[c], record[m][c].turns)
      BY <1>2, <3>1, <3>2, TrueKept
    <3>4. ASSUME ~reran, NEW e \in Cases, e < c
          PROVE  record'[m][e] = record[m][e]
      <4>1. record[m][e] # None
        BY <2>1, <3>4 DEF OrderInv
      <4>2. record[proc.m][proc.c] = None
        BY <1>c, <3>4 DEF SaveCase, At, OrderInv
      <4> QED BY <1>c, <4>1, <4>2, Saved
    <3>5. ~reran => AllIn(record', m, c, Key[c], record[m][c].turns)
      BY <3>1, <3>4 DEF AllIn
    <3> QED BY <2>1, <2>3, <3>3, <3>5
  <2> QED BY <2>2, <2>3
<1> QED BY <1>a, <1>b, <1>c, RecordFrame

-----------------------------------------------------------------------------
(* The theorems *)

LEMMA InitHolds == Init => IInv
<1> SUFFICES ASSUME Init PROVE IInv
  OBVIOUS
<1> USE BenchAssumption
<1>1. \A m \in 1 .. Models, c \in Cases : record[m][c] = None
  BY DEF Init, NoCases
<1>2. proc = Idle /\ proc.pc = "idle" /\ proc.rerun = FALSE
  BY DEF Init, Idle
<1>3. TypeInv
  <2>1. Idle \in Process
    BY DEF Idle, Process, Labels, NoTalk
  <2>2. record \in Records
    BY DEF Init, NoCases, Records
  <2>3. snapshots \in [Names -> Records \cup {None}]
    BY DEF Init
  <2>4. dir \in BOOLEAN /\ orphaned \in BOOLEAN /\ reran \in BOOLEAN
    BY Zenon DEF Init
  <2>5. manifest = None /\ server = None
    BY DEF Init
  <2>6. run \in 0 .. MaxRuns /\ mishaps \in 0 .. MaxMishaps
    BY DEF Init
  <2> QED BY <1>2, <2>1, <2>2, <2>3, <2>4, <2>5, <2>6 DEF TypeInv
<1>4. PlaceInv
  BY <1>2 DEF PlaceInv, Running
<1>5. InputInv
  BY <1>1, <1>2 DEF Init, InputInv, OneInput
<1>6. ServerInv
  BY DEF Init, ServerInv
<1>7. SnapshotInv
  BY <1>2 DEF Init, SnapshotInv, SnapshotStands
<1>8. ProgressInv
  BY <1>2 DEF ProgressInv, Running
<1>9. ClosingInv
  BY <1>2 DEF Init, ClosingInv, CheckpointLast
<1>10. TalkInv /\ OrderInv /\ TurnsInv
  BY <1>1, <1>2 DEF TalkInv, OrderInv, TurnsInv
<1> QED BY <1>3, <1>4, <1>5, <1>6, <1>7, <1>8, <1>9, <1>10 DEF IInv

\* Whatever order kills, interrupts, failed writes, resumptions and evaluations come
\* in, the invariant that ties the process to its files holds.
THEOREM BenchCorrect == Spec => []IInv
<1>1. IInv /\ [Next]_vars => IInv'
  BY TypeStep, PlaceStep, InputStep, ServerStep, SnapshotStep, ProgressStep, ClosingStep, TalkStep,
     OrderStep, TurnsStep DEF IInv
<1> QED BY InitHolds, <1>1, PTL DEF Spec

\* Every reachable state is well typed: BenchmarkRunner.run and its files.
THEOREM BenchTyped == Spec => []TypeOK
<1>1. IInv => TypeOK
  <2> SUFFICES ASSUME TypeInv PROVE TypeOK
    BY DEF IInv
  <2>1. \A m \in 1 .. Models, c \in Cases : record[m][c] = None \/ record[m][c] \in CaseFile
    BY DEF TypeInv, Records, SoundFile
  <2>2. /\ proc.m \in 0 .. Models /\ proc.tries \in 0 .. Retries
        /\ \A k \in Keys : proc.talk[k] \in Seq(Cases \X (1 .. MaxRuns))
    BY DEF TypeInv, Process, Turn
  <2> QED BY <2>1, <2>2 DEF TypeInv, TypeOK
<1> QED BY <1>1, BenchCorrect, PTL

\* Every case file of a run directory comes from the inputs its manifest names,
\* however often the run is resumed (_validate_resume).
THEOREM InputProven == Spec => []OneInput
<1>1. IInv => OneInput
  BY DEF IInv, InputInv
<1> QED BY <1>1, BenchCorrect, PTL

\* A checkpoint that says completed is true of the case files and the summary (run).
THEOREM CheckpointProven == Spec => []CheckpointLast
<1>1. IInv => CheckpointLast
  BY DEF IInv, ClosingInv
<1> QED BY <1>1, BenchCorrect, PTL

\* A success an evaluation snapshot scored stands through every resumption (_run_model).
THEOREM SnapshotProven == Spec => []SnapshotStands
<1>1. IInv => SnapshotStands
  BY DEF IInv, SnapshotInv
<1> QED BY <1>1, BenchCorrect, PTL

\* A directory refused for want of a manifest holds no result (_prepare).
THEOREM RefusalProven == Spec => []RefusedHoldsNothing
<1>1. IInv => RefusedHoldsNothing
  <2> SUFFICES ASSUME IInv, manifest = None
               PROVE  checkpoint = None /\ \A m \in 1 .. Models : record[m] = NoCases
    BY DEF RefusedHoldsNothing
  <2>1. checkpoint = None /\ \A m \in 1 .. Models, c \in Cases : record[m][c] = None
    BY DEF IInv, InputInv, OneInput
  <2>2. \A m \in 1 .. Models : record[m] \in [Cases -> SoundFile \cup {None}]
    BY DEF IInv, TypeInv, Records
  <2> QED BY <2>1, <2>2 DEF NoCases
<1> QED BY <1>1, BenchCorrect, PTL

\* No path through the finally branches leaves a managed server alive (_run_model).
THEOREM ServerProven == Spec => []ServerStopped
<1>1. IInv => ServerStopped
  BY DEF IInv, ServerInv, ServerStopped, At, Running
<1> QED BY <1>1, BenchCorrect, PTL

\* Every preserve-mode case was asked after true turns, and after all of them unless a
\* failed case was re-run (_case_messages, _restore_conversation).
THEOREM ConversationProven == Spec => []ConversationTrue
<1>1. IInv => ConversationTrue
  <2> SUFFICES ASSUME IInv, NEW m \in 1 .. Models, NEW c \in Cases, Statuses[m][c] = "success"
               PROVE  IF Key[c] = None THEN record[m][c].turns = <<>>
                      ELSE /\ TrueTurns(m, c, Key[c], record[m][c].turns)
                           /\ ~reran => AllTurns(m, c, Key[c], record[m][c].turns)
    BY DEF ConversationTrue, Succeeded
  <2>1. \A e \in Cases : Statuses[m][e] = "success" <=> record[m][e] # None /\ record[m][e].status = "success"
    BY BenchAssumption DEF Statuses
  <2>2. record[m][c] # None /\ record[m][c].status = "success"
    BY <2>1
  <2>3. record[m][c].turns \in Seq(Turn)
    BY <2>2 DEF IInv, TypeInv, Records, SoundFile, CaseFile, Turn
  <2>4. \A i \in DOMAIN record[m][c].turns : record[m][c].turns[i][1] \in Cases
    BY <2>3 DEF Turn
  <2>5. TrueIn(record, m, c, Key[c], record[m][c].turns) => TrueTurns(m, c, Key[c], record[m][c].turns)
    BY <2>1, <2>4 DEF TrueIn, TrueTurns
  <2>6. AllIn(record, m, c, Key[c], record[m][c].turns) => AllTurns(m, c, Key[c], record[m][c].turns)
    BY <2>1 DEF AllIn, AllTurns
  <2> QED BY <2>2, <2>5, <2>6 DEF IInv, TurnsInv
<1> QED BY <1>1, BenchCorrect, PTL
=============================================================================

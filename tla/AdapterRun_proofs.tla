------------------------- MODULE AdapterRun_proofs -------------------------
(* What holds of one adapter call for every number of output streams, prompt,   *)
(* pipe and cap sizes and installed versions, replaced and put back at will:    *)
(* the bounded run of Codex (BoundedCodex) and the call around it (AdapterRun). *)
EXTENDS AdapterRun, TLAPS

-----------------------------------------------------------------------------
(* The inductive invariant of the Codex run *)

CodexTypeInv ==
  /\ CodexTypeOK
  /\ emitted \in [Streams -> Nat] /\ pipe \in [Streams -> Nat] /\ captured \in [Streams -> Nat]
  /\ reader \in [Streams -> {"unstarted", "reading", "ended"}]
  /\ \A s \in Streams : busy = s => emitted[s] < MaxOutput

\* What Codex wrote is in the pipe or captured, until a cap is exceeded; a reader
\* that ended without a failure saw the end of its stream.
StreamInv ==
  \A s \in Streams :
    /\ ~overflow => emitted[s] = captured[s] + pipe[s]
    /\ reader[s] = "ended" /\ ~unread => Broken(s)

\* Where the calling thread is tells what has been started, written and waited for.
CallerInv ==
  /\ main \in {"idle", "auth", "spawn"} =>
       life = "absent" /\ ~held /\ \A s \in Streams : reader[s] = "unstarted"
  /\ main \in {"write", "wait", "expire", "join", "verdict"} =>
       life # "absent" /\ \A s \in Streams : reader[s] # "unstarted"
  /\ main = "wait" => fed = PromptSize
  /\ main = "expire" => raised # "none"
  /\ main \in {"join", "verdict"} /\ raised = "none" => fed = PromptSize /\ life = "exited"

\* A success is the end of a process that exited with zero, with both readers done.
SuccessInv ==
  outcome = "OK" =>
    /\ main = "done" /\ life = "exited" /\ code = 0 /\ fed = PromptSize
    /\ ~unread /\ ~overflow /\ \A s \in Streams : reader[s] = "ended"

CodexInv == CodexTypeInv /\ StreamInv /\ CallerInv /\ SuccessInv

-----------------------------------------------------------------------------
(* The inductive invariant of the call *)

Installation == [version : 0 .. Versions, policy : {"ENABLED", "DISABLED"}]

CallTypeInv ==
  /\ caller \in {"pin", "inspect", "call", "launch", "await", "accepted", "refused"}
  /\ step \in {"absent", "parse", "identify", "runtime", "mode", "asking", "load", "exec",
               "codex", "ended", "killed"}
  /\ files \in [Files -> 1 .. Versions]
  /\ manifest \in Installation /\ manifest.version \in 1 .. Versions
  /\ config \in Installation /\ installed \in Installation
  /\ loading \in 0 .. Versions /\ executed \in 0 .. Versions /\ running \in 0 .. Versions
  /\ reply \in {"none", "response", "failure"} /\ (step = "ended" <=> reply # "none")
  /\ open \in BOOLEAN /\ disturbed \in BOOLEAN /\ returned \in BOOLEAN

\* The caller pinned the sealed installation and looks at the disk before the launch.
ClientInv ==
  /\ caller \in {"pin", "inspect", "call", "launch"} => step = "absent"
  /\ caller \in {"inspect", "call", "launch", "await", "accepted"} => config.version = Sealed
  /\ caller = "accepted" => reply = "response" /\ installed.version = config.version

\* An adapter that is not the sealed one and finds the sealed file in its place saw
\* it put back since its launch; a policy it finds ENABLED has been so since then.
Identified ==
  step \in {"runtime", "mode", "asking", "load", "exec", "codex"} \/ reply = "response"
AdapterInv ==
  /\ step \in {"parse", "identify"} /\ files["adapter"] = Sealed => running = Sealed \/ returned
  /\ Identified /\ installed.version = Sealed => running = Sealed \/ returned
  /\ step # "absent" /\ manifest.policy = "ENABLED" => open
  /\ step \in {"runtime", "mode", "asking", "load", "exec", "codex"} /\ mode # "prepare" => open
  /\ step \in {"load", "exec", "codex"} => mode # "prepare"
  /\ step = "asking" => mode = "preflight"

\* Codex runs only below an adapter that is past its checks, and only its success
\* and its fit message are a read-only response.
BelowInv ==
  /\ step \notin {"asking", "codex", "ended"} => main = "idle"
  /\ main # "idle" => open
  /\ reply = "response" /\ mode = "execute-read-only" =>
       outcome = "OK" /\ final = "message" /\ ~temp

CallInv == CallTypeInv /\ ClientInv /\ AdapterInv /\ BelowInv
IInv == CodexInv /\ CallInv

-----------------------------------------------------------------------------
(* The Codex run *)

LEMMA CodexInitHolds == CodexInit => CodexInv
<1> SUFFICES ASSUME CodexInit PROVE CodexInv
  OBVIOUS
<1> USE CodexAssumption
<1>1. CodexTypeInv
  BY DEF CodexInit, CodexTypeInv, CodexTypeOK, NoChunk, NoReader
<1>2. StreamInv
  <2>1. \A s \in Streams : emitted[s] = 0 /\ captured[s] = 0 /\ pipe[s] = 0 /\ reader[s] = "unstarted"
    BY DEF CodexInit, NoChunk, NoReader
  <2>2. ASSUME NEW s \in Streams
        PROVE  /\ emitted[s] = captured[s] + pipe[s]
               /\ reader[s] # "ended"
    BY <2>1
  <2> QED BY <2>2 DEF StreamInv
<1>3. CallerInv
  BY DEF CodexInit, CallerInv, NoReader
<1>4. SuccessInv
  BY DEF CodexInit, SuccessInv
<1> QED BY <1>1, <1>2, <1>3, <1>4 DEF CodexInv

LEMMA CodexTypeStep == ASSUME CodexTypeInv, StreamInv, CodexNext PROVE CodexTypeInv'
<1> USE CodexAssumption
<1>1. /\ taken \in Nat /\ fed \in Nat /\ taken <= fed /\ fed <= PromptSize /\ fed - taken <= PipeSize
  BY DEF CodexTypeInv, CodexTypeOK
<1>a. CASE Caller
  <2>1. UNCHANGED <<emitted, pipe, captured, code, busy, taken>>
    BY <1>a DEF Caller, CheckAuth, Spawn, WritePrompt, ClosePrompt, WriteBreaks, WaitReturns, WaitTimesOut,
         ExpireTimesOut, JoinReaders, Judge, Process, Output
  <2>2. reader' = reader \/ reader' = [s \in Streams |-> "reading"]
    BY <1>a DEF Caller, CheckAuth, Spawn, WritePrompt, ClosePrompt, WriteBreaks, WaitReturns, WaitTimesOut,
         ExpireTimesOut, JoinReaders, Judge, Process, Output
  <2>3. /\ main' \in {"idle", "auth", "spawn", "write", "wait", "expire", "join", "verdict", "done"}
        /\ raised' \in {"none", "BROKEN_PIPE", "CODEX_TIMEOUT", "TIMEOUT_EXPIRED"}
        /\ life' \in {"absent", "running", "exited"}
    BY <1>a DEF Caller, CheckAuth, Spawn, WritePrompt, ClosePrompt, WriteBreaks, WaitReturns, WaitTimesOut,
         ExpireTimesOut, JoinReaders, Judge, Process, Output, CodexTypeInv, CodexTypeOK
  <2>4. fed' = fed \/ (fed' = fed + 1 /\ fed < PromptSize /\ fed - taken < PipeSize)
    BY <1>a DEF Caller, CheckAuth, Spawn, WritePrompt, ClosePrompt, WriteBreaks, WaitReturns, WaitTimesOut,
         ExpireTimesOut, JoinReaders, Judge, Process, Output
  <2>5. /\ taken' \in 0 .. fed' /\ fed' \in 0 .. PromptSize /\ fed' - taken' <= PipeSize
    BY <1>1, <2>1, <2>4
  <2>6. reader' \in [Streams -> {"unstarted", "reading", "ended"}]
    BY <2>2 DEF CodexTypeInv
  <2> QED BY <2>1, <2>3, <2>5, <2>6 DEF CodexTypeInv, CodexTypeOK
<1>b. CASE Readers
  <2> PICK s \in Streams : Drain(s) \/ DrainEnds(s) \/ DrainFails(s)
    BY <1>b DEF Readers
  <2>1. UNCHANGED <<main, raised, fed, taken, life, code, busy, emitted>>
    BY DEF Drain, DrainEnds, DrainFails, Process
  <2>2. reader' = reader \/ reader' = [reader EXCEPT ![s] = "ended"]
    BY DEF Drain, DrainEnds, DrainFails
  <2>3. reader' \in [Streams -> {"unstarted", "reading", "ended"}]
    BY <2>2 DEF CodexTypeInv
  <2>4. pipe' = pipe \/ (pipe' = [pipe EXCEPT ![s] = @ - 1] /\ pipe[s] > 0)
    BY DEF Drain, Drains, DrainEnds, DrainFails
  <2>5. captured' = captured \/ (captured' = [captured EXCEPT ![s] = @ + 1] /\ captured[s] < Limit)
    BY DEF Drain, Room, DrainEnds, DrainFails
  <2>6. pipe' \in [Streams -> Nat] /\ \A t \in Streams : pipe'[t] \in 0 .. PipeSize
    BY <2>4 DEF CodexTypeInv, CodexTypeOK
  <2>7. captured' \in [Streams -> Nat] /\ \A t \in Streams : captured'[t] \in 0 .. Limit
    BY <2>5 DEF CodexTypeInv, CodexTypeOK
  <2> QED BY <2>1, <2>3, <2>6, <2>7 DEF CodexTypeInv, CodexTypeOK
<1>c. CASE CodexReads \/ CodexExits \/ CodexLeavesChild \/ ChildEnds \/ CodexDies
  <2>1. UNCHANGED <<main, raised, fed, emitted, pipe, captured, reader>>
    BY <1>c DEF CodexReads, CodexExits, CodexLeavesChild, ChildEnds, CodexDies, Output, Process
  <2>2. taken' = taken \/ (taken' = taken + 1 /\ taken < fed)
    BY <1>c DEF CodexReads, CodexExits, CodexLeavesChild, ChildEnds, CodexDies, Output, Process
  <2>3. taken' \in 0 .. fed' /\ fed' \in 0 .. PromptSize /\ fed' - taken' <= PipeSize
    BY <1>1, <2>1, <2>2
  <2>4. life' \in {"absent", "running", "exited"} /\ code' \in {0, 1} /\ busy' \in {busy, "none"}
    BY <1>c DEF CodexReads, CodexExits, CodexLeavesChild, ChildEnds, CodexDies, Process,
         CodexTypeInv, CodexTypeOK
  <2> QED BY <2>1, <2>3, <2>4 DEF CodexTypeInv, CodexTypeOK
<1>d. ASSUME NEW s \in Streams, CodexSpeaks(s) PROVE CodexTypeInv'
  BY <1>d DEF CodexSpeaks, Output, CodexTypeInv, CodexTypeOK
<1>e. ASSUME NEW s \in Streams, CodexEmits(s) PROVE CodexTypeInv'
  <2>1. emitted' = [emitted EXCEPT ![s] = @ + 1] /\ pipe' = [pipe EXCEPT ![s] = @ + 1] /\ pipe[s] < PipeSize
    BY <1>e DEF CodexEmits
  <2>2. pipe' \in [Streams -> Nat] /\ \A t \in Streams : pipe'[t] \in 0 .. PipeSize
    BY <2>1 DEF CodexTypeInv, CodexTypeOK
  <2>3. emitted' \in [Streams -> Nat] /\ \A t \in Streams : emitted'[t] \in 0 .. MaxOutput
    <3>1. emitted[s] < MaxOutput
      BY <1>e DEF CodexEmits, CodexTypeInv
    <3> QED BY <2>1, <3>1 DEF CodexTypeInv, CodexTypeOK
  <2> QED BY <1>e, <2>2, <2>3 DEF CodexEmits, CodexTypeInv, CodexTypeOK
<1> QED BY <1>a, <1>b, <1>c, <1>d, <1>e DEF CodexNext, Codex

LEMMA StreamStep == ASSUME CodexTypeInv, StreamInv, CodexNext PROVE StreamInv'
<1>1. \A s \in Streams : emitted[s] \in Nat /\ captured[s] \in Nat /\ pipe[s] \in Nat
  BY DEF CodexTypeInv
<1>a. CASE Caller
  <2>1. UNCHANGED <<emitted, pipe, captured, overflow, unread, held>>
    BY <1>a DEF Caller, CheckAuth, Spawn, WritePrompt, ClosePrompt, WriteBreaks, WaitReturns, WaitTimesOut,
         ExpireTimesOut, JoinReaders, Judge, Process, Output
  <2>2. (reader' = reader /\ life' = life) \/ reader' = [s \in Streams |-> "reading"]
    BY <1>a DEF Caller, CheckAuth, Spawn, WritePrompt, ClosePrompt, WriteBreaks, WaitReturns, WaitTimesOut,
         ExpireTimesOut, JoinReaders, Judge, Process, Output
  <2> QED BY <2>1, <2>2 DEF StreamInv, Broken
<1>b. ASSUME NEW t \in Streams, Drain(t) PROVE StreamInv'
  <2>1. /\ reader' = reader /\ emitted' = emitted /\ life' = life /\ held' = held /\ unread' = unread
        /\ pipe' = [pipe EXCEPT ![t] = @ - 1] /\ pipe[t] > 0 /\ reader[t] = "reading"
        /\ \/ captured' = [captured EXCEPT ![t] = @ + 1] /\ overflow' = overflow
           \/ overflow' = TRUE
    BY <1>b DEF Drain, Drains, Alive, Process
  <2>2. \A s \in Streams : s # t => pipe'[s] = pipe[s]
    BY <2>1 DEF CodexTypeInv
  <2>3. pipe'[t] = pipe[t] - 1
    BY <2>1 DEF CodexTypeInv
  <2>4. ASSUME NEW s \in Streams, ~overflow'
        PROVE  emitted'[s] = captured'[s] + pipe'[s]
    <3>1. captured' = [captured EXCEPT ![t] = @ + 1] /\ ~overflow
      BY <2>1, <2>4
    <3>2. captured'[s] = IF s = t THEN captured[s] + 1 ELSE captured[s]
      BY <3>1 DEF CodexTypeInv
    <3> QED BY <1>1, <2>1, <2>2, <2>3, <3>1, <3>2 DEF StreamInv
  <2>5. ASSUME NEW s \in Streams, reader'[s] = "ended", ~unread'
        PROVE  Broken(s)'
    <3>1. s # t
      BY <2>1, <2>5
    <3> QED BY <2>1, <2>2, <2>5, <3>1 DEF StreamInv, Broken
  <2> QED BY <2>4, <2>5 DEF StreamInv
<1>c. ASSUME NEW t \in Streams, DrainEnds(t) \/ DrainFails(t) PROVE StreamInv'
  <2>1. /\ reader' = [reader EXCEPT ![t] = "ended"]
        /\ UNCHANGED <<emitted, pipe, captured, overflow, life, held>>
        /\ (unread' = unread /\ Broken(t)) \/ unread' = TRUE
    BY <1>c DEF DrainEnds, DrainFails, Process
  <2>2. \A s \in Streams : s # t => reader'[s] = reader[s]
    BY <2>1 DEF CodexTypeInv
  <2> QED BY <2>1, <2>2 DEF StreamInv, Broken
<1>d. CASE CodexReads \/ CodexExits \/ CodexLeavesChild \/ ChildEnds \/ CodexDies
           \/ \E s \in Streams : CodexSpeaks(s)
  <2>1. UNCHANGED <<emitted, pipe, captured, overflow, unread, reader>>
    BY <1>d DEF CodexReads, CodexExits, CodexLeavesChild, ChildEnds, CodexDies, CodexSpeaks, Output
  <2>2. life = "exited" /\ ~held => life' = "exited" /\ ~held'
    BY <1>d DEF CodexReads, CodexExits, CodexLeavesChild, ChildEnds, CodexDies, CodexSpeaks, Idle, Process
  <2> QED BY <2>1, <2>2 DEF StreamInv, Broken
<1>e. ASSUME NEW t \in Streams, CodexEmits(t) PROVE StreamInv'
  <2>1. /\ emitted' = [emitted EXCEPT ![t] = @ + 1] /\ pipe' = [pipe EXCEPT ![t] = @ + 1]
        /\ life = "running" /\ UNCHANGED <<captured, overflow, unread, reader, life, held>>
    BY <1>e DEF CodexEmits
  <2>2. ASSUME NEW s \in Streams
        PROVE  /\ emitted'[s] = IF s = t THEN emitted[s] + 1 ELSE emitted[s]
               /\ pipe'[s] = IF s = t THEN pipe[s] + 1 ELSE pipe[s]
    BY <2>1 DEF CodexTypeInv
  <2>3. ASSUME NEW s \in Streams, ~overflow'
        PROVE  emitted'[s] = captured'[s] + pipe'[s]
    BY <1>1, <2>1, <2>2, <2>3 DEF StreamInv
  <2>4. ASSUME NEW s \in Streams, ~unread' PROVE reader'[s] # "ended"
    BY <2>1, <2>4 DEF StreamInv, Broken
  <2> QED BY <2>3, <2>4 DEF StreamInv
<1> QED BY <1>a, <1>b, <1>c, <1>d, <1>e DEF CodexNext, Readers, Codex

LEMMA CallerStep == ASSUME CodexTypeInv, CallerInv, CodexNext PROVE CallerInv'
<1> USE CodexAssumption
<1>a. CASE CheckAuth \/ JoinReaders \/ Judge \/ WritePrompt
  BY <1>a DEF CheckAuth, JoinReaders, Judge, WritePrompt, Process, Output, CallerInv
<1>b. CASE Spawn
  <2>1. CASE main' = "write"
    <3>1. life' = "running" /\ reader' = [s \in Streams |-> "reading"]
      BY <1>b, <2>1 DEF Spawn
    <3> QED BY <2>1, <3>1 DEF CallerInv
  <2>2. CASE main' = "done"
    BY <2>2 DEF CallerInv
  <2> QED BY <1>b, <2>1, <2>2 DEF Spawn
<1>c. CASE ClosePrompt \/ WriteBreaks \/ WaitReturns \/ WaitTimesOut \/ ExpireTimesOut
  BY <1>c DEF ClosePrompt, WriteBreaks, WaitReturns, WaitTimesOut, ExpireTimesOut, Process, Output, CallerInv
<1>d. ASSUME NEW t \in Streams, Drain(t) \/ DrainEnds(t) \/ DrainFails(t) PROVE CallerInv'
  <2>1. UNCHANGED <<main, raised, fed, life, held>> /\ reader[t] = "reading"
    BY <1>d DEF Drain, Drains, Alive, DrainEnds, DrainFails, Process
  <2>2. reader' = reader \/ reader' = [reader EXCEPT ![t] = "ended"]
    BY <1>d DEF Drain, DrainEnds, DrainFails
  <2>3. \A s \in Streams : reader'[s] = reader[s] \/ (reader'[s] = "ended" /\ reader[s] = "reading")
    BY <2>1, <2>2 DEF CodexTypeInv
  <2> QED BY <2>1, <2>3 DEF CallerInv
<1>e. CASE Codex
  <2>1. UNCHANGED <<main, raised, fed, reader>>
    BY <1>e DEF Codex, CodexReads, CodexExits, CodexLeavesChild, ChildEnds, CodexDies, CodexSpeaks,
         CodexEmits, Output
  <2>2. life' = life \/ (life = "running" /\ life' = "exited")
    BY <1>e DEF Codex, CodexReads, CodexExits, CodexLeavesChild, ChildEnds, CodexDies, CodexSpeaks,
         CodexEmits, Process, Idle
  <2>3. life = "absent" => (held' => held)
    BY <1>e DEF Codex, CodexReads, CodexExits, CodexLeavesChild, ChildEnds, CodexDies, CodexSpeaks,
         CodexEmits, Idle, Process
  <2> QED BY <2>1, <2>2, <2>3 DEF CallerInv
<1> QED BY <1>a, <1>b, <1>c, <1>d, <1>e DEF CodexNext, Caller, Readers

LEMMA SuccessStep == ASSUME CodexTypeInv, CallerInv, SuccessInv, CodexNext PROVE SuccessInv'
<1> SUFFICES ASSUME outcome' = "OK"
             PROVE  /\ main' = "done" /\ life' = "exited" /\ code' = 0 /\ fed' = PromptSize
                    /\ ~unread' /\ ~overflow' /\ \A s \in Streams : reader'[s] = "ended"
  BY DEF SuccessInv
<1>1. CASE Judge
  <2>1. main = "verdict" /\ main' = "done" /\ Verdict = "OK"
        /\ UNCHANGED <<life, code, fed, unread, overflow, reader, raised>>
    BY <1>1 DEF Judge, Process, Output
  <2>2. raised = "none" /\ ~ReadersAlive /\ ~unread /\ ~overflow /\ code = 0
    <3>1. raised \in {"none", "BROKEN_PIPE", "CODEX_TIMEOUT", "TIMEOUT_EXPIRED"} /\ code \in {0, 1}
      BY DEF CodexTypeInv, CodexTypeOK
    <3> QED BY <2>1, <3>1 DEF Verdict
  <2>3. life = "exited" /\ fed = PromptSize
    BY <2>1, <2>2 DEF CallerInv
  <2>4. \A s \in Streams : reader[s] = "ended"
    <3>1. \A s \in Streams : reader[s] \in {"unstarted", "reading", "ended"}
      BY DEF CodexTypeInv
    <3>2. \A s \in Streams : reader[s] # "unstarted" /\ reader[s] # "reading"
      BY <2>1, <2>2 DEF CallerInv, ReadersAlive, Alive
    <3> QED BY <3>1, <3>2
  <2> QED BY <2>1, <2>2, <2>3, <2>4
<1>2. CASE ~Judge
  <2>1. outcome = "OK"
    BY <1>2 DEF CodexNext, Caller, CheckAuth, Spawn, WritePrompt, ClosePrompt, WriteBreaks, WaitReturns,
         WaitTimesOut, ExpireTimesOut, JoinReaders, Readers, Drain, DrainEnds, DrainFails, Codex, CodexReads,
         CodexExits, CodexLeavesChild, ChildEnds, CodexDies, CodexSpeaks, CodexEmits
  <2>2. /\ main = "done" /\ life = "exited" /\ code = 0 /\ fed = PromptSize
        /\ ~unread /\ ~overflow /\ \A s \in Streams : reader[s] = "ended"
    BY <2>1 DEF SuccessInv
  <2>3. ~Caller /\ ~Readers
    BY <2>2 DEF Caller, CheckAuth, Spawn, WritePrompt, ClosePrompt, WriteBreaks, WaitReturns, WaitTimesOut,
         ExpireTimesOut, JoinReaders, Judge, Readers, Drain, Drains, DrainEnds, DrainFails, Alive
  <2>4. ChildEnds
    BY <2>2, <2>3 DEF CodexNext, Codex, CodexReads, CodexExits, CodexLeavesChild, CodexDies, CodexSpeaks,
         CodexEmits, Idle
  <2> QED BY <2>2, <2>4 DEF ChildEnds, Output
<1> QED BY <1>1, <1>2

\* Every step of the calling thread, the readers and Codex keeps the invariant.
LEMMA CodexStep ==
  ASSUME CodexInv, CodexNext \/ UNCHANGED codexVars
  PROVE  CodexInv'
<1>1. CASE CodexNext
  BY <1>1, CodexTypeStep, StreamStep, CallerStep, SuccessStep DEF CodexInv
<1>2. CASE UNCHANGED codexVars
  BY <1>2 DEF codexVars, CodexInv, CodexTypeInv, CodexTypeOK, StreamInv, Broken, CallerInv, SuccessInv
<1> QED BY <1>1, <1>2

\* A success captured everything from a process that ended by itself.
LEMMA SuccessIsWhole == CodexInv => CapturedWhole
<1> SUFFICES ASSUME CodexInv, outcome = "OK"
             PROVE  /\ life = "exited" /\ code = 0 /\ ~held /\ fed = PromptSize
                    /\ \A s \in Streams : captured[s] = emitted[s] /\ pipe[s] = 0
  BY DEF CapturedWhole
<1>1. /\ life = "exited" /\ code = 0 /\ fed = PromptSize
      /\ ~unread /\ ~overflow /\ \A s \in Streams : reader[s] = "ended"
  BY DEF CodexInv, SuccessInv
<1>2. \A s \in Streams : emitted[s] = captured[s] + pipe[s] /\ ~held /\ pipe[s] = 0
  BY <1>1 DEF CodexInv, StreamInv, Broken
<1>3. \A s \in Streams : captured[s] \in Nat
  BY DEF CodexInv, CodexTypeInv
<1>4. \E s : s \in Streams
  BY CodexAssumption
<1> QED BY <1>1, <1>2, <1>3, <1>4

-----------------------------------------------------------------------------
(* The call *)

\* What an action of the adapter may do to the call around Codex.
LEMMA AdapterFrame ==
  ASSUME Adapter
  PROVE  UNCHANGED <<mode, launch, state, prompt, files, manifest, disturbed, returned, open,
                      caller, config, running>>
<1> QED
  BY DEF Adapter, Owed, PreflightAnswers, Parse, Identify, IdentifyRuntime, Prepare, Preflight, ExecuteReadOnly,
         ExecuteWorkspaceWrite, CheckRuntime, StartRuntime, CollectProposal, CollectCandidate,
         AtAdapter, callVars, diskVars, clientVars, Fail, Continue

LEMMA CallTypeStep == ASSUME CallTypeInv, ClientInv, [Next]_vars PROVE CallTypeInv'
<1> USE InstallAssumption
<1>1. /\ Sealed = 1 /\ \A f \in Files : files[f] \in 1 .. Versions
      /\ manifest.version \in 1 .. Versions /\ installed.version \in 0 .. Versions
  BY DEF CallTypeInv, Sealed, Installation
<1>2. "runtime" \in Files /\ "adapter" \in Files
  BY DEF Files
<1>a. CASE Operator
  <2>1. UNCHANGED <<caller, step, config, installed, loading, executed, running, reply>>
    BY <1>a DEF Operator, ReplaceManifest, SwitchPolicy, ReplaceFile, clientVars, adapterVars
  <2>2. CASE ReplaceManifest
    <3>1. PICK v \in (1 .. Versions) \ {manifest.version} :
             /\ manifest' = [manifest EXCEPT !.version = v] /\ disturbed' = TRUE
             /\ UNCHANGED <<files, returned, open>>
      BY <2>2 DEF ReplaceManifest
    <3> QED BY <2>1, <3>1 DEF CallTypeInv, Installation
  <2>3. CASE SwitchPolicy
    <3>1. /\ manifest' \in Installation /\ manifest'.version = manifest.version /\ open' \in BOOLEAN
          /\ disturbed' = TRUE /\ UNCHANGED <<files, returned>>
      BY <2>3 DEF SwitchPolicy, CallTypeInv, Installation
    <3> QED BY <2>1, <3>1 DEF CallTypeInv
  <2>4. ASSUME NEW f \in Files, ReplaceFile(f) PROVE CallTypeInv'
    <3>1. PICK v \in (1 .. Versions) \ {files[f]} : files' = [files EXCEPT ![f] = v]
      BY <2>4 DEF ReplaceFile
    <3>3. disturbed' = TRUE /\ returned' \in BOOLEAN /\ UNCHANGED <<manifest, open>>
      BY <2>4 DEF ReplaceFile, CallTypeInv
    <3>2. files' \in [Files -> 1 .. Versions]
      BY <1>1, <3>1 DEF CallTypeInv
    <3> QED BY <2>1, <3>2, <3>3 DEF CallTypeInv
  <2> QED BY <1>a, <2>2, <2>3, <2>4 DEF Operator
<1>b. CASE Pin \/ Inspect \/ Call \/ Receive \/ RunnerTimesOut
  <2>1. UNCHANGED <<files, manifest, disturbed, returned, open, installed, loading, executed, running, reply>>
    BY <1>b DEF Pin, Inspect, Call, Receive, RunnerTimesOut, Refuse, diskVars, adapterVars
  <2>2. /\ caller' \in {"pin", "inspect", "call", "launch", "await", "accepted", "refused"}
        /\ config' \in {config, manifest}
    BY <1>b DEF Pin, Inspect, Call, Receive, RunnerTimesOut, Refuse, clientVars
  <2>3. step' = step \/ (step' = "killed" /\ step # "ended")
    BY <1>b DEF Pin, Inspect, Call, Receive, RunnerTimesOut, Refuse, adapterVars
  <2> QED BY <2>1, <2>2, <2>3 DEF CallTypeInv
<1>c. CASE Launch
  <2>1. /\ caller' = "await" /\ step' = "parse" /\ step = "absent" /\ running' = files["adapter"]
        /\ open' \in BOOLEAN
        /\ UNCHANGED <<files, manifest, disturbed, returned, config, installed, loading, executed, reply>>
    BY <1>c DEF Launch, ClientInv
  <2> QED BY <1>1, <1>2, <2>1 DEF CallTypeInv
<1>d. CASE Adapter
  <2>1. \/ /\ step' \in {"identify", "runtime", "mode", "asking", "load", "exec", "codex"}
           /\ step # "ended" /\ reply' = reply
        \/ step' = "ended" /\ reply' \in {"response", "failure"}
    BY <1>d DEF Adapter, Owed, PreflightAnswers, Parse, Identify, IdentifyRuntime, Prepare, Preflight, ExecuteReadOnly,
         ExecuteWorkspaceWrite, CheckRuntime, StartRuntime, CollectProposal, CollectCandidate, Fail, Continue
  <2>2. installed' \in {installed, manifest} /\ loading' \in {loading, manifest.version, installed.version}
        /\ executed' \in {executed, files["runtime"]}
    BY <1>d DEF Adapter, Owed, PreflightAnswers, Parse, Identify, IdentifyRuntime, Prepare, Preflight, ExecuteReadOnly,
         ExecuteWorkspaceWrite, CheckRuntime, StartRuntime, CollectProposal, CollectCandidate, Fail, Continue
  <2>3. executed' \in 0 .. Versions /\ loading' \in 0 .. Versions /\ installed' \in Installation
    BY <1>1, <1>2, <2>2 DEF CallTypeInv
  <2> QED BY <1>d, <2>1, <2>3, AdapterFrame DEF CallTypeInv
<1>e. CASE CodexLeavesMessage \/ RunCodex \/ UNCHANGED vars
  BY <1>e DEF CodexLeavesMessage, RunCodex, AtAdapter, callVars, diskVars, clientVars, adapterVars, vars,
       CallTypeInv
<1> QED BY <1>a, <1>b, <1>c, <1>d, <1>e DEF Next, Client

LEMMA ClientStep == ASSUME CallTypeInv, ClientInv, [Next]_vars PROVE ClientInv'
<1>a. CASE Operator \/ CodexLeavesMessage \/ RunCodex \/ UNCHANGED vars
  <2>1. UNCHANGED <<caller, step, config, installed, reply>>
    BY <1>a DEF Operator, ReplaceManifest, SwitchPolicy, ReplaceFile, CodexLeavesMessage, RunCodex,
         AtAdapter, callVars, diskVars, clientVars, adapterVars, vars
  <2> QED BY <2>1 DEF ClientInv
<1>b. CASE Pin \/ Inspect \/ Call \/ Launch
  BY <1>b DEF Pin, Inspect, Call, Launch, Refuse, clientVars, adapterVars, SameConfiguration, ClientInv
<1>c. CASE Receive \/ RunnerTimesOut
  BY <1>c DEF Receive, RunnerTimesOut, adapterVars, ClientInv
<1>d. CASE Adapter
  <2>1. step \notin {"absent", "ended"} /\ step' # "absent"
    BY <1>d DEF Adapter, Owed, PreflightAnswers, Parse, Identify, IdentifyRuntime, Prepare, Preflight, ExecuteReadOnly,
         ExecuteWorkspaceWrite, CheckRuntime, StartRuntime, CollectProposal, CollectCandidate, Fail, Continue
  <2>2. caller # "accepted"
    BY <2>1 DEF ClientInv, CallTypeInv
  <2> QED BY <1>d, <2>1, <2>2, AdapterFrame DEF ClientInv
<1> QED BY <1>a, <1>b, <1>c, <1>d DEF Next, Client

LEMMA AdapterStep == ASSUME CallTypeInv, ClientInv, AdapterInv, [Next]_vars PROVE AdapterInv'
<1> USE InstallAssumption DEF AdapterInv
<1>1. /\ \A f \in Files : files[f] \in 1 .. Versions
      /\ manifest.version \in 1 .. Versions /\ installed.version \in 0 .. Versions /\ running \in 0 .. Versions
  BY DEF CallTypeInv, Installation
<1>2. "runtime" \in Files /\ "adapter" \in Files
  BY DEF Files
<1>a. CASE Operator
  <2>1. UNCHANGED <<mode, step, installed, running, reply>>
    BY <1>a DEF Operator, ReplaceManifest, SwitchPolicy, ReplaceFile, callVars, adapterVars
  <2>2. CASE ReplaceManifest
    <3>1. manifest'.policy = manifest.policy /\ UNCHANGED <<files, returned, open>>
      BY <2>2 DEF ReplaceManifest, CallTypeInv, Installation
    <3> QED BY <2>1, <3>1 DEF Identified
  <2>3. CASE SwitchPolicy
    <3>1. open' = (open \/ manifest'.policy = "ENABLED") /\ UNCHANGED <<files, returned>>
      BY <2>3 DEF SwitchPolicy
    <3> QED BY <2>1, <3>1 DEF Identified
  <2>4. ASSUME NEW f \in Files, ReplaceFile(f) PROVE AdapterInv'
    <3>1. PICK v \in (1 .. Versions) \ {files[f]} :
             /\ files' = [files EXCEPT ![f] = v]
             /\ returned' = \/ returned
                            \/ /\ f = "adapter" /\ v = Sealed /\ running # Sealed
                               /\ step \in {"parse", "identify"}
             /\ UNCHANGED <<manifest, open>>
      BY <2>4 DEF ReplaceFile
    <3>2. files'["adapter"] = (IF f = "adapter" THEN v ELSE files["adapter"])
      BY <1>2, <3>1 DEF CallTypeInv
    <3>3. step \in {"parse", "identify"} /\ files'["adapter"] = Sealed => running = Sealed \/ returned'
      BY <3>1, <3>2
    <3>4. returned => returned'
      BY <3>1
    <3> QED BY <2>1, <3>1, <3>3, <3>4 DEF Identified
  <2> QED BY <1>a, <2>2, <2>3, <2>4 DEF Operator
<1>b. CASE Pin \/ Inspect \/ Call \/ Receive \/ RunnerTimesOut
  <2>1. UNCHANGED <<mode, files, manifest, returned, open, installed, running, reply>>
    BY <1>b DEF Pin, Inspect, Call, Receive, RunnerTimesOut, Refuse, callVars, diskVars, adapterVars
  <2>2. step' = step \/ (step' = "killed" /\ step # "absent")
    BY <1>b DEF Pin, Inspect, Call, Receive, RunnerTimesOut, Refuse, adapterVars
  <2> QED BY <2>1, <2>2 DEF Identified
<1>c. CASE Launch
  <2>1. /\ step' = "parse" /\ step = "absent" /\ running' = files["adapter"]
        /\ open' = (manifest.policy = "ENABLED") /\ UNCHANGED <<files, manifest, returned, reply>>
    BY <1>c DEF Launch, ClientInv
  <2>2. reply' = "none"
    BY <2>1 DEF CallTypeInv
  <2>3. manifest'.policy = "ENABLED" => open'
    BY <2>1
  <2>4. files'["adapter"] = Sealed => running' = Sealed
    BY <2>1
  <2>5. ~Identified' /\ step' = "parse"
    BY <2>1, <2>2 DEF Identified
  <2> QED BY <2>3, <2>4, <2>5
<1>d. CASE Identify
  <2>1. CASE FilesMatch /\ PolicyAllows
    <3>1. /\ installed' = manifest /\ step' = "runtime" /\ reply' = reply /\ step = "identify"
          /\ files["adapter"] = manifest.version /\ (mode # "prepare" => manifest.policy = "ENABLED")
      BY <1>2, <1>d, <2>1 DEF Identify, Continue, FilesMatch, PolicyAllows
    <3>2. UNCHANGED <<mode, files, manifest, returned, open, running>>
      BY <1>d DEF Identify, AtAdapter, callVars, diskVars, Continue, Fail
    <3> QED BY <3>1, <3>2 DEF Identified
  <2>2. CASE ~(FilesMatch /\ PolicyAllows)
    <3>1. step' = "ended" /\ reply' = "failure" /\ step = "identify"
      BY <1>d, <2>2 DEF Identify, Fail
    <3>2. UNCHANGED <<mode, files, manifest, returned, open, running>>
      BY <1>d DEF Identify, AtAdapter, callVars, diskVars, Continue, Fail
    <3> QED BY <3>1, <3>2 DEF Identified
  <2> QED BY <2>1, <2>2
<1>e. CASE Adapter /\ ~Identify
  <2>1. UNCHANGED <<mode, files, manifest, returned, open, running, installed>>
    BY <1>e, AdapterFrame DEF Adapter, Owed, PreflightAnswers, Parse, IdentifyRuntime, Prepare, Preflight, ExecuteReadOnly,
         ExecuteWorkspaceWrite, CheckRuntime, StartRuntime, CollectProposal, CollectCandidate, Fail, Continue
  <2>2. step # "absent" /\ (Identified' => Identified)
    BY <1>e DEF Adapter, Owed, PreflightAnswers, Parse, IdentifyRuntime, Prepare, Preflight, ExecuteReadOnly, Identified,
         ExecuteWorkspaceWrite, CheckRuntime, StartRuntime, CollectProposal, CollectCandidate, Fail, Continue
  <2>3. /\ step' \in {"parse", "identify"} => step \in {"parse", "identify"}
        /\ step' \in {"runtime", "mode", "asking", "load", "exec", "codex"} =>
             step \in {"runtime", "mode", "load", "exec"}
        /\ step' = "asking" => mode = "preflight"
    BY <1>e DEF Adapter, Owed, PreflightAnswers, Parse, IdentifyRuntime, Prepare, Preflight, ExecuteReadOnly, Identified,
         ExecuteWorkspaceWrite, CheckRuntime, StartRuntime, CollectProposal, CollectCandidate, Fail, Continue
  <2>4. step' \in {"load", "exec", "codex"} => step \in {"load", "exec"} \/ mode # "prepare"
    BY <1>e DEF Adapter, Owed, PreflightAnswers, Parse, IdentifyRuntime, Prepare, Preflight, ExecuteReadOnly, Writes,
         ExecuteWorkspaceWrite, CheckRuntime, StartRuntime, CollectProposal, CollectCandidate, Fail, Continue
  <2> QED BY <2>1, <2>2, <2>3, <2>4 DEF Identified
<1>f. CASE CodexLeavesMessage \/ RunCodex \/ UNCHANGED vars
  <2>1. UNCHANGED <<mode, files, manifest, returned, open, step, installed, running, reply>>
    BY <1>f DEF CodexLeavesMessage, RunCodex, AtAdapter, callVars, diskVars, clientVars, adapterVars, vars
  <2> QED BY <2>1 DEF Identified
<1> QED BY <1>a, <1>b, <1>c, <1>d, <1>e, <1>f DEF Next, Client

LEMMA BelowStep ==
  ASSUME CodexInv, CallTypeInv, ClientInv, AdapterInv, BelowInv, [Next]_vars
  PROVE  BelowInv'
<1>a. CASE Operator
  <2>1. UNCHANGED <<codexVars, mode, step, reply, final, temp>>
    BY <1>a DEF Operator, ReplaceManifest, SwitchPolicy, ReplaceFile, callVars, adapterVars
  <2>2. open' = open \/ open' = (open \/ manifest'.policy = "ENABLED")
    BY <1>a DEF Operator, ReplaceManifest, SwitchPolicy, ReplaceFile
  <2>3. open => open'
    BY <2>2
  <2> QED BY <2>1, <2>3 DEF BelowInv, codexVars
<1>b. CASE Pin \/ Inspect \/ Call \/ Receive
  <2>1. UNCHANGED <<codexVars, mode, step, reply, final, temp, open>>
    BY <1>b DEF Pin, Inspect, Call, Receive, Refuse, callVars, diskVars, adapterVars
  <2> QED BY <2>1 DEF BelowInv, codexVars
<1>c. CASE Launch
  <2>1. step = "absent" /\ UNCHANGED <<codexVars, mode, reply, final, temp>>
    BY <1>c DEF Launch, ClientInv, callVars
  <2>2. main = "idle" /\ main' = "idle" /\ reply' = "none"
    BY <2>1 DEF BelowInv, CallTypeInv, codexVars
  <2> QED BY <2>2 DEF BelowInv
<1>d. CASE RunnerTimesOut
  <2>1. main' = "idle" /\ reply' = "none"
    BY <1>d DEF RunnerTimesOut, CodexGone, CallTypeInv
  <2> QED BY <2>1 DEF BelowInv
<1>e. CASE Parse \/ Identify \/ IdentifyRuntime \/ ExecuteReadOnly \/ ExecuteWorkspaceWrite \/ CheckRuntime
  <2>1. /\ main = "idle" /\ main' = main /\ reply' # "response"
    BY <1>e DEF Parse, Identify, IdentifyRuntime, ExecuteReadOnly, ExecuteWorkspaceWrite, CheckRuntime,
         Fail, Continue, BelowInv, CallTypeInv, codexVars
  <2> QED BY <2>1 DEF BelowInv
<1>f. CASE Prepare
  <2>1. main = "idle" /\ main' = main /\ mode' = mode /\ mode = "prepare"
    BY <1>f DEF Prepare, BelowInv, codexVars, AtAdapter, callVars
  <2> QED BY <2>1 DEF BelowInv
<1>g. CASE Preflight
  <2>1. /\ step = "mode" /\ mode = "preflight" /\ mode' = mode /\ open' = open
        /\ step' \in {"ended", "asking"}
    BY <1>g DEF Preflight, Fail, AtAdapter, callVars, diskVars
  <2>2. open
    BY <2>1 DEF AdapterInv
  <2> QED BY <2>1, <2>2 DEF BelowInv
<1>m. CASE PreflightAnswers
  <2>1. step = "asking" /\ mode' = mode /\ open' = open /\ step' = "ended"
    BY <1>m DEF PreflightAnswers, AtAdapter, callVars, diskVars
  <2>2. open /\ mode = "preflight"
    BY <2>1 DEF AdapterInv
  <2> QED BY <2>1, <2>2 DEF BelowInv
<1>h. CASE StartRuntime
  <2>1. step = "exec" /\ step' = "codex" /\ open' = open /\ reply' = reply
    BY <1>h DEF StartRuntime, AtAdapter, diskVars
  <2>2. open /\ reply' = "none"
    BY <2>1 DEF AdapterInv, CallTypeInv
  <2> QED BY <2>1, <2>2 DEF BelowInv
<1>i. CASE CollectProposal \/ CollectCandidate
  <2>1. /\ step' = "ended" /\ open' = open /\ main' = main /\ mode' = mode /\ outcome' = outcome
    BY <1>i DEF CollectProposal, CollectCandidate, AtAdapter, callVars, diskVars, codexVars
  <2>2. CASE CollectProposal
    <3>1. reply' = "response" => outcome' = "OK" /\ final' = "message" /\ temp' = FALSE
      BY <2>2 DEF CollectProposal, MessageFit, codexVars
    <3> QED BY <2>1, <3>1 DEF BelowInv
  <2>3. CASE CollectCandidate
    BY <2>1, <2>3 DEF CollectCandidate, Writes, BelowInv
  <2> QED BY <1>i, <2>2, <2>3
<1>j. CASE CodexLeavesMessage
  <2>1. /\ step = "codex" /\ step' = step /\ reply' = reply /\ main' = main /\ open' = open
    BY <1>j DEF CodexLeavesMessage, AtAdapter, diskVars, codexVars
  <2>2. reply = "none"
    BY <2>1 DEF CallTypeInv
  <2> QED BY <2>1, <2>2 DEF BelowInv
<1>k. CASE RunCodex
  <2>1. CodexNext /\ UNCHANGED <<mode, step, reply, final, temp, open>>
    BY <1>k DEF RunCodex, callVars, diskVars, adapterVars
  <2>2. main = "idle" => main' = "idle"
    BY <2>1 DEF CodexNext, Caller, CheckAuth, Spawn, WritePrompt, ClosePrompt, WriteBreaks, WaitReturns,
         WaitTimesOut, ExpireTimesOut, JoinReaders, Judge, Readers, Drain, DrainEnds, DrainFails, Codex,
         CodexReads, CodexExits, CodexLeavesChild, ChildEnds, CodexDies, CodexSpeaks, CodexEmits
  <2>3. outcome = "OK" => outcome' = "OK"
    <3>1. outcome = "OK" => main = "done"
      BY DEF CodexInv, SuccessInv
    <3> QED
      BY <2>1, <3>1 DEF CodexNext, Caller, CheckAuth, Spawn, WritePrompt, ClosePrompt, WriteBreaks,
         WaitReturns, WaitTimesOut, ExpireTimesOut, JoinReaders, Judge, Readers, Drain, DrainEnds, DrainFails,
         Codex, CodexReads, CodexExits, CodexLeavesChild, ChildEnds, CodexDies, CodexSpeaks, CodexEmits
  <2> QED BY <2>1, <2>2, <2>3 DEF BelowInv
<1>l. CASE UNCHANGED vars
  BY <1>l DEF vars, codexVars, callVars, diskVars, adapterVars, BelowInv
<1> QED
  BY <1>a, <1>b, <1>c, <1>d, <1>e, <1>f, <1>g, <1>h, <1>i, <1>j, <1>k, <1>l, <1>m
  DEF Next, Client, Adapter, Owed

\* The adapter's own steps keep the invariant of the Codex run.
LEMMA CodexKept ==
  ASSUME CodexInv, CallTypeInv, BelowInv, ClientInv, [Next]_vars
  PROVE  CodexInv'
<1>1. CASE UNCHANGED codexVars \/ RunCodex
  BY <1>1, CodexStep DEF RunCodex
<1>2. CASE RunnerTimesOut
  <2>1. CodexInit'
    BY <1>2 DEF RunnerTimesOut, CodexGone, CodexInit, NoChunk, NoReader
  <2>2. ASSUME CodexInit' PROVE CodexInv'
    BY <2>2, CodexInitHolds, PTL
  <2> QED BY <2>1, <2>2
<1>3. CASE StartRuntime \/ Preflight
  <2>1. step \in {"exec", "mode"}
    BY <1>3 DEF StartRuntime, Preflight
  <2>2. main = "idle" /\ outcome # "OK"
    BY <2>1 DEF BelowInv, CodexInv, SuccessInv
  <2>3. CASE UNCHANGED codexVars
    BY <1>1, <2>3
  <2>4. CASE ~UNCHANGED codexVars
    <3>1. /\ UNCHANGED <<raised, fed, taken, life, code, busy, held, garbled, ending, emitted, pipe,
                         captured, reader, overflow, unread>>
          /\ main' \in {"auth", "done"} /\ outcome' # "OK"
      BY <1>3, <2>2, <2>4 DEF StartRuntime, Preflight, Process, Output
    <3> QED BY <2>2, <3>1 DEF CodexInv, CodexTypeInv, CodexTypeOK, StreamInv, Broken, CallerInv, SuccessInv
  <2> QED BY <2>3, <2>4
<1>5. CASE PreflightAnswers
  <2>1. /\ UNCHANGED <<raised, fed, taken, life, code, busy, held, garbled, ending, emitted, pipe,
                       captured, reader, overflow, unread>>
        /\ main' = "done" /\ outcome' # "OK"
    BY <1>5 DEF PreflightAnswers, Process, Output
  <2> QED BY <2>1 DEF CodexInv, CodexTypeInv, CodexTypeOK, StreamInv, Broken, CallerInv, SuccessInv
<1>4. Operator \/ Pin \/ Inspect \/ Call \/ Launch \/ Receive \/ (Adapter /\ ~StartRuntime /\ ~Preflight /\ ~PreflightAnswers)
        \/ CodexLeavesMessage \/ UNCHANGED vars => UNCHANGED codexVars
  BY DEF Operator, ReplaceManifest, SwitchPolicy, ReplaceFile, Pin, Inspect, Call, Launch, Receive, Refuse,
       Adapter, Owed, PreflightAnswers, Parse, Identify, IdentifyRuntime, Prepare, ExecuteReadOnly, ExecuteWorkspaceWrite,
       CheckRuntime, CollectProposal, CollectCandidate, CodexLeavesMessage, vars
<1> QED BY <1>1, <1>2, <1>3, <1>4, <1>5 DEF Next, Client

LEMMA InitHolds == Init => IInv
<1> SUFFICES ASSUME Init PROVE IInv
  OBVIOUS
<1> USE InstallAssumption
<1>1. CodexInv
  BY CodexInitHolds DEF Init
<1>2. CallTypeInv
  <2>1. PICK p \in {"DISABLED", "ENABLED"} : manifest = [version |-> Sealed, policy |-> p]
    BY DEF Init
  <2>2. manifest \in Installation /\ manifest.version \in 1 .. Versions
    BY <2>1 DEF Installation, Sealed
  <2>3. Nothing \in Installation /\ files \in [Files -> 1 .. Versions]
    BY DEF Init, Nothing, Installation, Sealed
  <2>4. loading \in 0 .. Versions /\ executed \in 0 .. Versions /\ running \in 0 .. Versions
    BY DEF Init
  <2>5. open \in BOOLEAN /\ disturbed \in BOOLEAN /\ returned \in BOOLEAN
    BY Zenon DEF Init
  <2> QED BY <2>2, <2>3, <2>4, <2>5 DEF Init, CallTypeInv
<1>3. ClientInv /\ AdapterInv
  BY DEF Init, ClientInv, AdapterInv, Identified
<1>4. BelowInv
  BY DEF Init, CodexInit, BelowInv
<1> QED BY <1>1, <1>2, <1>3, <1>4 DEF IInv, CallInv

-----------------------------------------------------------------------------
(* The theorems *)

\* The invariant that ties the caller, the adapter's step, the disk and the Codex run
\* holds whatever the operator and Codex do.
THEOREM CallCorrect == Spec => []IInv
<1>1. IInv /\ [Next]_vars => IInv'
  BY CodexKept, CallTypeStep, ClientStep, AdapterStep, BelowStep DEF IInv, CallInv
<1>2. Init /\ [][Next]_vars => []IInv
  BY InitHolds, <1>1, PTL
<1> QED BY <1>2, PTL DEF Spec

\* Every reachable state is well typed (worker_lab_adapter.main, codex_runtime).
THEOREM CallTyped == Spec => []TypeOK
<1>1. IInv => TypeOK
  BY DEF IInv, CodexInv, CodexTypeInv, CallInv, CallTypeInv, TypeOK
<1> QED BY <1>1, CallCorrect, PTL

\* A Codex run that succeeds captured all its output (execute_codex_bounded).
THEOREM CaptureProven == Spec => []CapturedWhole
<1>1. IInv => CapturedWhole
  BY SuccessIsWhole DEF IInv
<1> QED BY <1>1, CallCorrect, PTL

\* An accepted answer was given under the sealed manifest, by the sealed adapter code
\* unless the sealed file was put back between its start and its own look at it, and,
\* read-only, from a whole and fit last message, whatever versions the operator puts
\* on disk and takes away around the checks (call_adapter, _installed_adapter_identity,
\* _execute_production).
THEOREM AcceptanceProven == Spec => []AcceptedStands
<1>1. IInv => AcceptedStands
  <2> SUFFICES ASSUME IInv, caller = "accepted"
               PROVE  /\ running = Sealed \/ returned
                      /\ installed.version = Sealed
                      /\ mode = "execute-read-only" =>
                           outcome = "OK" /\ final = "message" /\ life = "exited" /\ ~held /\ ~temp
    BY DEF AcceptedStands
  <2>1. reply = "response" /\ installed.version = Sealed
    BY DEF IInv, CallInv, ClientInv
  <2>2. running = Sealed \/ returned
    BY <2>1 DEF IInv, CallInv, AdapterInv, Identified
  <2>3. CapturedWhole
    BY SuccessIsWhole DEF IInv
  <2> QED BY <2>1, <2>2, <2>3 DEF IInv, CallInv, BelowInv, CapturedWhole
<1> QED BY <1>1, CallCorrect, PTL

\* A policy disabled before the launch, and not enabled since, keeps Codex from
\* starting (_require_execution_policy).
THEOREM DisabledProven == Spec => []DisabledStops
<1>1. IInv => DisabledStops
  BY DEF IInv, CallInv, BelowInv, DisabledStops
<1> QED BY <1>1, CallCorrect, PTL
=============================================================================

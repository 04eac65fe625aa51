----------------------------- MODULE AdapterRun -----------------------------
(***************************************************************************)
(* One call of the framework adapter by Worker Lab: framework_client (the  *)
(* caller), worker_lab_adapter.main in a process of its own, Codex below   *)
(* it (BoundedCodex), and the installation on disk that both check while   *)
(* an operator may replace its files and its manifest by other versions,   *)
(* put the old ones back, and switch the activation policy.  Every check   *)
(* reads the disk again.  The invocation was sealed under version 1.       *)
(***************************************************************************)
EXTENDS BoundedCodex

CONSTANTS Modes,        \* the adapter modes that are called
          Launches,     \* TRUE: "python -I <path>", as fixed_command starts it;
                        \* FALSE: main() imported with tools/ on the path
          Versions      \* bound: versions of the installation there are

ASSUME InstallAssumption == Versions \in Nat \ {0}

VARIABLES mode, launch, state, prompt,   \* what is called, and how
          files,      \* version of each framework file on disk
          manifest,   \* [version, policy] on disk
          disturbed,  \* history: the operator did something
          returned,   \* history: another adapter than the sealed one was started, and
                      \* the sealed file put back before that adapter hashed it
          open,       \* execution was ENABLED at some moment since the launch
          caller, config,
          step, running, installed, contract, loading, executed,
          final,      \* what Codex left as its last message
          temp,       \* the temporary output file exists
          reply

callVars == <<mode, launch, state, prompt>>
diskVars == <<files, manifest, disturbed, returned, open>>
clientVars == <<caller, config>>
adapterVars == <<step, running, installed, contract, loading, executed, final, temp, reply>>
vars == <<codexVars, callVars, diskVars, clientVars, adapterVars>>

Sealed == 1
Files == {"adapter", "runtime"}
Nothing == [version |-> 0, policy |-> "DISABLED"]
ModeState == [m \in {"prepare", "preflight", "execute-read-only", "execute-workspace-write"} |->
  CASE m = "prepare" -> "PREPARED" [] m = "preflight" -> "AUTHORIZED" [] OTHER -> "DISPATCHING"]
Writes == mode = "execute-workspace-write"
Executable == {"PREPARED", "AUTHORIZED", "DISPATCHING"}
Contract == IF Writes THEN "v3" ELSE "v2"

Init ==
  /\ CodexInit
  /\ mode \in Modes /\ launch \in IF Writes THEN Launches ELSE {TRUE}
  /\ state \in Executable \cup {"COMPLETED"}
  /\ prompt \in {"plain", "sensitive"}
  /\ files = [f \in Files |-> Sealed]
  /\ \E p \in {"DISABLED", "ENABLED"} : manifest = [version |-> Sealed, policy |-> p]
  /\ disturbed = FALSE /\ returned = FALSE /\ open = FALSE
  /\ caller = "pin" /\ config = Nothing
  /\ step = "absent" /\ running = 0 /\ installed = Nothing /\ contract = "none"
  /\ loading = 0 /\ executed = 0 /\ final = "absent" /\ temp = FALSE /\ reply = "none"

-----------------------------------------------------------------------------
(* The operator at the installation. *)

ReplaceFile(f) ==
  \E v \in (1 .. Versions) \ {files[f]} :
    /\ files' = [files EXCEPT ![f] = v]
    /\ disturbed' = TRUE
    /\ returned' = \/ returned
                   \/ /\ f = "adapter" /\ v = Sealed /\ running # Sealed
                      /\ step \in {"parse", "identify"}
    /\ UNCHANGED <<codexVars, callVars, manifest, open, clientVars, adapterVars>>

ReplaceManifest ==
  \E v \in (1 .. Versions) \ {manifest.version} :
    /\ manifest' = [manifest EXCEPT !.version = v]
    /\ disturbed' = TRUE
    /\ UNCHANGED <<codexVars, callVars, files, returned, open, clientVars, adapterVars>>

SwitchPolicy ==
  /\ manifest' = [manifest EXCEPT !.policy = IF @ = "ENABLED" THEN "DISABLED" ELSE "ENABLED"]
  /\ disturbed' = TRUE
  /\ open' = (open \/ manifest'.policy = "ENABLED")
  /\ UNCHANGED <<codexVars, callVars, files, returned, clientVars, adapterVars>>

\* Once the runtime is loaded nothing reads the disk again in this call, and
\* what the operator does then is left out.
Operator == /\ step \notin {"asking", "codex", "ended", "killed"}
            /\ ReplaceManifest \/ SwitchPolicy \/ \E f \in Files : ReplaceFile(f)

\* load_installation_manifest: every listed file has the manifest's digest.
TreeVerified == \A f \in Files : files[f] = manifest.version

\* Mutant: the adapter takes the listed digests without reading the files.
FilesUnread == TRUE

\* The adapter's own reading of the same manifest.
FilesMatch == \A f \in Files : files[f] = manifest.version

\* Mutant: the adapter leaves the policy to its caller.
PolicyLeft == TRUE

\* _require_execution_policy of the adapter, on the manifest it just read.
PolicyAllows == mode = "prepare" \/ manifest.policy = "ENABLED"

-----------------------------------------------------------------------------
(* framework_client. *)

\* verify_configuration, on a manifest loaded again.
SameConfiguration == TreeVerified /\ manifest = config

Refuse == caller' = "refused" /\ UNCHANGED <<codexVars, callVars, diskVars, config, adapterVars>>

\* pinned_framework_configuration, and the comparison with the invocation.
Pin ==
  /\ caller = "pin"
  /\ IF TreeVerified /\ manifest.version = Sealed
       THEN /\ caller' = "inspect" /\ config' = manifest
            /\ UNCHANGED <<codexVars, callVars, diskVars, adapterVars>>
       ELSE Refuse

\* inspect_configuration and inspect_worker_lab_identity load and hash again.
Inspect ==
  /\ caller = "inspect"
  /\ IF SameConfiguration
       THEN /\ caller' = "call"
            /\ UNCHANGED <<codexVars, callVars, diskVars, config, adapterVars>>
       ELSE Refuse

StateAllows == state = ModeState[mode]

\* _require_execution_enabled of the client, on the manifest it pinned.
CallerEnabled == mode = "prepare" \/ config.policy = "ENABLED"

\* call_adapter up to its runner; fixed_command loads the manifest once more.
Call ==
  /\ caller = "call"
  /\ IF StateAllows /\ CallerEnabled /\ SameConfiguration
       THEN /\ caller' = "launch"
            /\ UNCHANGED <<codexVars, callVars, diskVars, config, adapterVars>>
       ELSE Refuse

\* The runner starts python on the adapter file as it is now.
Launch ==
  /\ caller = "launch"
  /\ caller' = "await" /\ step' = "parse" /\ running' = files["adapter"]
  /\ open' = (manifest.policy = "ENABLED")
  /\ UNCHANGED <<codexVars, callVars, files, manifest, disturbed, returned, config,
                 installed, contract, loading, executed, final, temp, reply>>

\* runtime_identity puts the protocol of the operation into the digest.
ExpectedContract == Contract

\* The response must repeat the invocation, the prompt and the runtime identity.
Receive ==
  /\ caller = "await" /\ step = "ended"
  /\ caller' = IF /\ reply = "response"
                  /\ installed.version = config.version /\ contract = ExpectedContract
               THEN "accepted" ELSE "refused"
  /\ UNCHANGED <<codexVars, callVars, diskVars, config, adapterVars>>

\* The runner's own timeout ends the whole Windows job: nothing of it is left.
RunnerTimesOut ==
  /\ caller = "await" /\ step \notin {"absent", "ended", "killed"}
  /\ caller' = "refused" /\ step' = "killed"
  /\ CodexGone
  /\ UNCHANGED <<callVars, diskVars, config,
                 running, installed, contract, loading, executed, final, temp, reply>>

Client == Pin \/ Inspect \/ Call \/ Launch \/ Receive \/ RunnerTimesOut

-----------------------------------------------------------------------------
(* worker_lab_adapter.main. *)

AtAdapter == UNCHANGED <<callVars, diskVars, clientVars>>

\* Any exception: a failure code on stdout, exit code 1.
Fail ==
  /\ step' = "ended" /\ reply' = "failure"
  /\ UNCHANGED <<running, installed, contract, loading, executed, final, temp>>

Continue(next) ==
  /\ step' = next
  /\ UNCHANGED <<running, final, temp, reply>>

\* The v3 parser is imported here: under -I neither name is on sys.path.
ImportsHandler == Writes => ~launch

\* _validate_invocation: one that could still be executed.
ValidInvocation == state \in Executable

\* _bounded_bytes and _reject_sensitive_content, on the prompt.
FitPrompt == prompt = "plain"

\* parse_request and parse_workspace_write_request.
Parse ==
  /\ step = "parse"
  /\ IF ImportsHandler /\ ValidInvocation /\ FitPrompt
       THEN Continue("identify") /\ UNCHANGED <<installed, contract, loading, executed>>
       ELSE Fail
  /\ AtAdapter /\ UNCHANGED codexVars

\* _installed_adapter_identity, then _require_execution_policy on what it read.
Identify ==
  /\ step = "identify"
  /\ IF FilesMatch /\ PolicyAllows
       THEN /\ installed' = manifest
            /\ Continue("runtime") /\ UNCHANGED <<contract, loading, executed>>
       ELSE Fail
  /\ AtAdapter /\ UNCHANGED codexVars

\* local_runtime_identity always writes PROTOCOL, the v2 name.
IdentifyRuntime ==
  /\ step = "runtime"
  /\ IF installed.version = Sealed /\ files["runtime"] = installed.version
       THEN /\ contract' = "v2"
            /\ Continue("mode") /\ UNCHANGED <<installed, loading, executed>>
       ELSE Fail
  /\ AtAdapter /\ UNCHANGED codexVars

Prepare ==
  /\ step = "mode" /\ mode = "prepare"
  /\ IF state = "PREPARED"
       THEN /\ step' = "ended" /\ reply' = "response"
            /\ UNCHANGED <<running, installed, contract, loading, executed, final, temp>>
       ELSE Fail
  /\ AtAdapter /\ UNCHANGED codexVars

\* The checker runs check_chatgpt_auth alone ...
Preflight ==
  /\ step = "mode" /\ mode = "preflight"
  /\ IF files["runtime"] = installed.version /\ state = "AUTHORIZED"
       THEN /\ step' = "asking" /\ main' = "auth"
            /\ UNCHANGED <<raised, outcome, fed, taken, Process, ending, Output,
                           running, installed, contract, loading, executed, final, temp, reply>>
       ELSE Fail /\ UNCHANGED codexVars
  /\ AtAdapter

\* ... and Codex need not answer it.
PreflightAnswers ==
  /\ step = "asking"
  /\ \E known \in BOOLEAN :
       /\ main' = "done" /\ outcome' = IF known THEN "LOGGED_IN" ELSE "CHATGPT_AUTH_REQUIRED"
       /\ step' = "ended" /\ reply' = IF known THEN "response" ELSE "failure"
  /\ UNCHANGED <<raised, fed, taken, Process, ending, Output,
                 running, installed, contract, loading, executed, final, temp>>
  /\ AtAdapter

\* _execute_production asks for the installed identity again; the write path
\* keeps the one it has.
ExecuteReadOnly ==
  /\ step = "mode" /\ mode = "execute-read-only"
  /\ IF state = "DISPATCHING" /\ FilesMatch
       THEN /\ loading' = manifest.version
            /\ Continue("load") /\ UNCHANGED <<installed, contract, executed>>
       ELSE Fail
  /\ AtAdapter /\ UNCHANGED codexVars

\* The context packet, the code task and its preconditions come first; the git
\* commands among them have no timeout.
ExecuteWorkspaceWrite ==
  /\ step = "mode" /\ Writes
  /\ \/ /\ state = "DISPATCHING" /\ loading' = installed.version
        /\ Continue("load") /\ UNCHANGED <<installed, contract, executed>>
     \/ Fail
  /\ AtAdapter /\ UNCHANGED codexVars

\* _framework_runtime compares the digest ...
CheckRuntime ==
  /\ step = "load"
  /\ IF files["runtime"] = loading
       THEN Continue("exec") /\ UNCHANGED <<installed, contract, loading, executed>>
       ELSE Fail
  /\ AtAdapter /\ UNCHANGED codexVars

\* ... and then reads the file again to execute it.  A read-only run makes its
\* output file here.
StartRuntime ==
  /\ step = "exec"
  /\ step' = "codex" /\ executed' = files["runtime"] /\ main' = "auth"
  /\ temp' = ~Writes /\ final' = "empty"
  /\ UNCHANGED <<raised, outcome, fed, taken, Process, ending, Output,
                 running, installed, contract, loading, reply>>
  /\ AtAdapter

\* "unfit": oversized, not UTF-8 or sensitive.
CodexLeavesMessage ==
  /\ step = "codex" /\ Idle /\ final = "empty"
  /\ final' \in {"message", "unfit"}
  /\ UNCHANGED <<codexVars, step, running, installed, contract, loading, executed, temp, reply>>
  /\ AtAdapter

MessageFit == outcome = "OK" /\ final = "message"

\* The finally clause of _execute_production, and execute_read_only's checks.
CollectProposal ==
  /\ step = "codex" /\ main = "done" /\ ~Writes
  /\ temp' = FALSE
  /\ step' = "ended" /\ reply' = IF MessageFit THEN "response" ELSE "failure"
  /\ UNCHANGED <<running, installed, contract, loading, executed, final>>
  /\ AtAdapter /\ UNCHANGED codexVars

\* run_code_task's validation and the handoff (WorkerJob) may still fail, and
\* their git commands have no timeout either.
CollectCandidate ==
  /\ step = "codex" /\ main = "done" /\ Writes
  /\ step' = "ended"
  /\ reply' \in IF outcome = "OK" THEN {"response", "failure"} ELSE {"failure"}
  /\ UNCHANGED <<running, installed, contract, loading, executed, final, temp>>
  /\ AtAdapter /\ UNCHANGED codexVars

\* The adapter's steps that wait for nobody.
Owed == \/ Parse \/ Identify \/ IdentifyRuntime \/ Prepare \/ Preflight
        \/ ExecuteReadOnly \/ CheckRuntime \/ StartRuntime \/ CollectProposal

Adapter == Owed \/ PreflightAnswers \/ ExecuteWorkspaceWrite \/ CollectCandidate

\* A preflight's question is answered by PreflightAnswers.
RunCodex == /\ main = "auth" => step = "codex"
            /\ CodexNext
            /\ UNCHANGED <<callVars, diskVars, clientVars, adapterVars>>

Next == Operator \/ Client \/ Adapter \/ CodexLeavesMessage \/ RunCodex

\* Both processes run, and Codex does what CodexFairness grants it.  Neither an
\* answer to the authentication check nor the end of a git command is granted;
\* the operator and the runner's timer need never act.
Spec == /\ Init /\ [][Next]_vars
        /\ WF_vars(Pin \/ Inspect \/ Call \/ Launch \/ Receive)
        /\ WF_vars(Owed)
        /\ CodexFairness

-----------------------------------------------------------------------------
\* Types, of the call and of Codex.
TypeOK ==
  /\ CodexTypeOK
  /\ caller \in {"pin", "inspect", "call", "launch", "await", "accepted", "refused"}
  /\ step \in {"absent", "parse", "identify", "runtime", "mode", "asking", "load", "exec",
               "codex", "ended", "killed"}
  /\ files \in [Files -> 1 .. Versions] /\ manifest.version \in 1 .. Versions
  /\ loading \in 0 .. Versions /\ executed \in 0 .. Versions /\ running \in 0 .. Versions
  /\ reply \in {"none", "response", "failure"} /\ (step = "ended" <=> reply # "none")

\* A call is accepted only under the installation the invocation was sealed with,
\* however the operator replaces the files around its checks: the manifest the
\* adapter read is the sealed one, and so is the adapter code that ran, started
\* after the caller's last look at the disk and before the adapter's first, unless
\* the sealed file was put back in between, which is the one exchange the digests
\* do not see.  A read-only proposal is the whole last message of a Codex that
\* succeeded and left nobody on its pipes, and its temporary file is gone.
AcceptedStands ==
  caller = "accepted" =>
    /\ running = Sealed \/ returned
    /\ installed.version = Sealed
    /\ mode = "execute-read-only" =>
         outcome = "OK" /\ final = "message" /\ life = "exited" /\ ~held /\ ~temp

\* No Codex execution and no authentication check starts for an adapter that was
\* launched, and stayed, under a disabled installation, even when the operator
\* disabled it after the caller's own check.  ("codex --version", asked under a
\* timeout for the runtime identity, runs whatever the policy.)
DisabledStops == main # "idle" => open

Disturbed == disturbed \/ (manifest.policy = "DISABLED" /\ mode # "prepare")

HasCause == \/ Disturbed \/ state # ModeState[mode] \/ prompt = "sensitive" \/ step = "killed"
            \/ outcome \notin {"none", "OK", "LOGGED_IN"} \/ final \in {"empty", "unfit"}

\* A refused call has a cause outside the code: the installation or its policy
\* changed or disables execution, the call was not due, or the runner's timer,
\* Codex or its message failed it.  docs/CURRENT_STATE.md:35 says a dispatched
\* workspace-write invocation is run and "then accepts a candidate".
RefusalHasCause == caller = "refused" /\ outcome # "OK" => HasCause

\* The waits of the adapter that have no timeout of their own: Codex's answers and
\* reads, and the git commands around a workspace write.
Unanswered == \/ CodexSilent
              \/ Writes /\ step = "mode"
              \/ Writes /\ step = "codex" /\ main = "done"

\* Whatever the operator, the files, Codex and its children do, the call comes to
\* an answer or stays for good in a wait on somebody else that the code puts no
\* timeout on.  It does not hang in itself: both streams are drained while the
\* prompt is written, so a Codex blocked on its own output is not one of those
\* waits, and every other wait is bounded.
CallEnds == <>(caller \in {"accepted", "refused"}) \/ <>[]Unanswered
=============================================================================

# Verification of autonomous-coding-lab

TLA+ models of the three programs of the repository, their model-checking runs and
machine-checked proofs:

* **Worker Lab** (`src/components/worker-lab/worker_lab/`) decides what a worker may do
  and what its records may claim;
* the **worker framework** (`src/components/autonomous-worker-framework/tools/`) is what it
  starts: an adapter process, Codex below it, the local harness, and the publisher of a
  candidate;
* the **benchmark runner** (`src/components/local-model-bench/src/localbench/`) runs suites
  against local models and must survive interruption.

TLC checks every model on a small instance.  TLAPS proves every safety property of those
runs, and that the dispatch implements its abstract contract, for every value of the
constants; the hypotheses on who acts beside whom are in section 4.

## 1. The system

Worker Lab keeps one directory of JSON records, each replaced atomically (`storage.py`), and
a workspace root with one detached checkout per attempt.  Every operation is a command of
its own (`cli.py`): it reads records, checks them, writes some, and exits.  There is no daemon
and no lock.  What two commands share is the files, the workspace directory, the installed
framework and the process tree of the adapter one of them launched.

| Component | State | Operations | What makes it correct |
|---|---|---|---|
| Attempt lifecycle (`lifecycle.py`, `attempt_store.py`, `models.py`) | `state/attempts/<id>.json` | create, transition, bind to an invocation | legal moves only; runtime identity and candidate are bound once; a terminal record never changes |
| Invocation lifecycle (`integration.py`, `invocation_store.py`) | `state/invocations/<id>.json` | create, save_transition | one per attempt; dispatched only when authorized |
| Process custody (`process_custody.py`) | `state/process-custody/<id>.json` | create, save_transition | what it records about a process is true, `ABSENCE_VERIFIED` above all |
| Windows job runner (`windows_job.py`) | a job object, the adapter's process tree, custody | launch, assign, send the request, wait, terminate, query, record | the request is sent once; absence is claimed only when observed; every wait is bounded but the write of the request |
| Application service (`application_service.py`) | none of its own | prepare-, authorize-, reject-, cancel-, dispatch-, recover-invocation, transition-attempt, queries | a candidate is backed by result and custody; recovery is restart-safe and keeps its evidence |
| Response acceptance (`framework_adapter.py`, `read_only_evidence.py`) | `state/results/<id>.json` | accept the adapter's answer, run the sealed tests | only behind a complete verified success, of the tests that were sealed |
| Workspaces (`workspace.py`) | `<root>/<attempt>`, quarantine, the receipt | prepare, verify, discard | receipt, directory and attempt agree; interrupted disposal can be finished |
| Test catalogue (`test_catalog.py`) | none | check, select, order | no cycle passes, prerequisites come first, the same plan every time |
| Synthetic run (`synthetic_read_only.py`, `operator_control.py`) | a lab of its own | one scripted run of all the above, and its recovery | recovery closes what stopped, claims only what it did |
| Backup (`backup.py`) | a backup directory | create, verify, restore | a backup is the lab of one instant; a restore is whole or nothing |
| Framework client (`framework_client.py`, `installation_manifest.py`) | the installed files, the activation policy | pin, inspect, call | only the sealed installation answers; DISABLED stops |
| Framework adapter (`worker_lab_adapter.py`, `workspace_write_adapter.py`) | one process | prepare, preflight, execute | as above; a proposal is the whole last message |
| Codex runtime (`codex_runtime.py`) | a process, two reader threads | execute under byte caps | no truncated success, no deadlock of its own; every wait is bounded but those on Codex's answers to the login check and its reading of the prompt |
| Local harness and code task (`local_worker_harness.py`, `code_task.py`, `worker_result.py`) | a git checkout | one job, boundary by boundary, one repair | the result describes what was validated, and passes its own validator |
| Handoff and publisher (`repository_handoff.py`, `local_git_publisher.py`) | the same checkout and its commits | compare, stage, commit, verify | the commit holds what was validated and nothing else |
| Benchmark (`runner.py`, `providers.py`, `evaluate.py`) | a run directory, a model server | run, resume, re-run errors, snapshot | a resumed conversation is true; closing files claim what holds; no server is left |

Hard behaviour: commands run beside each other without a lock; each may stop between any
two accesses, after which the next starts from the files alone; the adapter is a process tree
that may hang, leave descendants, end while it is being timed out, and write to the workspace
while others look at it; a save compares and then replaces; checks are repeated because the
disk may change between them; git commands of one publication are separate looks at a checkout
in which somebody works.  `PROJECT.json` lists these hazards line by line.

## 2. The modules

| Module | Models |
|---|---|
| `LabRecords` | The records of one attempt and the moves their stores accept: the three transition tables and what each move does to the other fields. |
| `AttemptContract` | Abstract specification: what a reader of `state/` may rely on. One atomic step per record move, each backed by what the other records already say. |
| `Dispatch` | The commands on one attempt, from the prepared workspace to the candidate, the abort or the recovery, with the contained runner and the adapter's process tree. |
| `Dispatch_proofs`, `Evidence_proofs` | Theorems about `Dispatch`: containment; and, on top of it, evidence, agreement of the records and the refinement. |
| `Workspace` | The disposable workspace of one attempt: prepare, verify, discard, with failing calls and compensation. |
| `TestPlan` | The catalogue check, the selection, the order, and the three processes that each work the plan out again. |
| `LabFiles`, `SyntheticRun`, `Backup`, `OperatorLab` | The files of a synthetic lab; the run and its recovery; a backup and a restore; and the composition of the three on the same files. |
| `Checkout`, `WorkerJob`, `Publication` | A git checkout in which somebody else works; one worker job on it; the handoff and the commit of its result. Each extends the one before. |
| `BoundedCodex`, `AdapterRun` | One Codex process under byte caps; and one adapter call around it, between the client and an installation that is replaced meanwhile. |
| `BenchRun` | One benchmark directory through several processes. |
| `Workspace_proofs`, `TestPlan_proofs`, `OperatorLab_proofs`, `Publication_proofs`, `AdapterRun_proofs`, `BenchRun_proofs` | The theorems about each of these, with their inductive invariants; those about a composition speak of the modules it extends, too. |
| `MCDispatch`, `MCWorkspace`, `MCTestPlan`, `MCBenchRun` | Instances for TLC: who issues which command, which catalogues, which cases share a conversation. |

`SyntheticRun` goes through the same job runner as `Dispatch`, with the custody record reduced to
its state, and `AdapterRun` is the inside of what both see as one adapter process: the three are
different cuts through the same dispatch, each with the detail its questions need.

### Dispatch

*State.* `attempt`, `invocation`, `custody`, `result` are the files.  `workspace` is what
`git status` and the content digest tell apart, clean or changed.  `adapter[i][c]` is the
process tree that client `c` launched for invocation `i`: `outside` (launched, not yet in
the job), `waiting` (in the job, no request yet), `working`, `remnant` (the first process
is gone, descendants are not), `none`.  `sends` counts delivered requests and exists for
the property only; it saturates at 2.  `cli[c]` is the command in slot `c`: program
counter, invocation, and the copies of records it holds in memory.  A slot is an OS
process: its local copies die with it.

*Grain.* One action is one access to shared state.  A save of an invocation or attempt is
two: the read and comparison (`CheckInvocation`, `CheckAttempt`, and the `...Check`
actions that call them), then `os.replace` (`CommitInvocation`, `CommitAttempt`).
Between the two, other commands run and the command may crash.  A custody save is one
action: its writers are the controller that created the record and, once that controller
has gone, recoveries that all compute the same record from it, so nothing that differs can
come between; `custody` is therefore exact only with one dispatching slot, and
the theorems that speak of it assume `SingleDispatcher`.  A read whose result is compared in
full with a later read of the same action is folded into that action.  The re-read at the end of
`recover_invocation` changes no record and is left out.

*Correspondence.* `PrepareScan`, `AuthorizeCheck`, `RejectCheck`, `CancelCheck`, `Admit`,
`RecoverRead` and `OperatorCheck` are the first reads of the seven commands, with their
refusals as guards; `BindCheck` and `DispatchCheck` lead to the runner; `CustodyCheck` ...
`VerifyAbsence` are `WindowsJobAdapterRunner.__call__` from top to bottom; `Fault` is its
`except BaseException` branch, which may be entered at every point after the launch;
`Accept` ... `CandidateCheck` are the rest of `dispatch_invocation`; `RecoverInspect` ...
`RecoverAttempt` are `recover_invocation` in its order.  `AdapterEnds` and
`AdapterWrites` are the process tree, with the job object's kill-on-close.  `Crash` stops any
command anywhere.  `Unread(c)` is the runner in `stdin.write`, before its timed wait: `Send` is
the adapter's reading of the request, which it owes nobody.

*Left out.* Identity fields and digests (they are equal or the command refuses), pid
reuse (a pid with a creation time is a slot), the contents of the response (`Accept` may
refuse at will), times.  The model starts at a READY attempt; `Workspace` is how one comes
about, `TestPlan` how its plan does, `AdapterRun` what the adapter does.

### Workspace

*State.* `attempt` and `receipt` are the files, each with the time that distinguishes two
writers (`updated_at`, `created_at`).  `final` and `quarantine` are the two names a
workspace may have in the workspace root; each is absent, a whole checkout, or damaged: not
verifiable, because a removal stopped half way or a worker changed it.

*Grain.* As in `Dispatch`.  The clone is made and verified in a private `mkdtemp` directory,
so everything before its publication is one action, `Publish`, with three outcomes.
`shutil.rmtree` is two actions (`CompensateFinal`, `DiscardRemove`).

*Failing calls.* `prepare_workspace` reacts to a failing read, write, git call or removal, so
each of its steps has a `Raises` disjunct, and a write that raises may or may not have
replaced the file.  Every other command ends where a call fails, as it does
when killed: `Crash` stands for both.

*Correspondence.* `PrepareRead` ... `CompensateReceipt` are `prepare_workspace` and
`_compensate_preparation` from top to bottom; `DiscardRead` ... `DiscardUnlink` are
`discard_workspace`; `OperatorRead` ... `OperatorCommit` are `transition_attempt`;
`DispatchVerify` is `verify_workspace` as dispatch calls it and `BindCheck`, `BindCommit` its
binding, where `Dispatch` goes on.  Template, git, reparse-point and path checks are the
outcome of the call that makes them.

### TestPlan

*State.* `catalog` is the file; `loaded` what the process at work has read of it.  `stack`,
`roots`, `visiting`, `visited` are the locals of the recursive walk in `_assert_acyclic`, with
the call stack made explicit; `seeds`, `selected`, `pending` those of `select` and
`_include_prerequisites`; `remaining`, `ordered` those of `_order_selected`.  `process` is
prepare, dispatch or collect: each reads the file again and starts over.

*Data.* Tests are numbers in id order.  A catalogue gives each test its mode, its cost and its
prerequisites, and says which tests match a path, a capability or risk flag, and a profile
(`covers`, `serves`, `profile`): glob matching is that relation.  Python sets are
walked in any order, so the list of seeds is any sequence of them; the heap is its minimum.
`Ascending(S)`, the sorted list of a set, gives each test the place that the number of smaller
ones leaves it.
A digest is the value itself.

*Correspondence.* `VisitRoot`, `VisitPrerequisite`, `Leave` are calls, loop and return of
`visit`; `Select` ... `Ordered` are `select`; `CatalogStands` and `Ordered` also compare what
`framework_adapter.py` and `read_only_evidence.py` compare when they select again; `Seal` is
the plan in the invocation record; `AdapterReturns`, `RunTest`, `Evidence` are what follows the
adapter, where only a read-only proposal reads the catalogue a third time.  `Import` is an operator who
replaces the file at any moment.

### SyntheticRun, Backup and OperatorLab

*State.* `files` holds the nine kinds of files a synthetic lab gets, in the directories a
backup walks; `receipt` and `workspace` are left out of the backup, as `backup.py` leaves them
out.  `cli` is the run's and the recovery's process.  `taker` and `restorer` are the backup's
and the restore's, `manifest` the digests met so far, `copying` what is still to copy.  `began`,
`complete`, `instant`, `overlapped`, `resumes` record history for the properties.

*Grain.* One action per record written; a transition is a check and a write (`Checks`,
`Writes`); a backup hashes one file at a time and copies one file at a time.  The names still
to hash, to enter or to copy are sets, and `First` takes the first of them in the sorted order
in which `backup.py` goes through them.

*Correspondence.* `Run` is `run_synthetic_read_only` from its admission to CANDIDATE,
`Recover` is `recover_synthetic_read_only` in both branches (before and after the binding),
`RunStops` and `RecoverStops` a kill or an exception anywhere, the first with the job's
kill-on-close.  `CreateCustody` ... `FaultAbsence` are `WindowsJobAdapterRunner.__call__` in its
order, launch and assignment apart, with `Fault` its `except` branch; `AdapterEnds` and
`AdapterWrites` are the process.  A TERMINATED custody from which
`recover_absence_after_controller_exit` refuses to derive absence (no request, no process
identity, or no count of zero) is the content INCOMPLETE.  `BackupBegin` ...
`PublishBackup` are `create_backup` with its walk, `RestoreVerify` ... `RestorePublish`
`restore_backup`, with `Damage` to the backup at any time.

### Checkout, WorkerJob and Publication

*State.* `tree`, `index` and `log` are the working tree, the index and the commits of one
checkout, each a function from paths to contents; `Outside` is somebody else's edit, `git add`
or commit.  `ChangedPaths`, `Clean`, `StagedPaths`, `CommittedPaths`, `Stage`,
`Commit` are what the git commands of the code answer and do.  `job` is the worker's process,
`result` its Worker Result, `pub` the publication.  `approved` and `touched` remember what the
last validation saw and whether the tree changed before the digest; `strays` the commits a
publication made and did not return although nobody disturbed it.

*Correspondence.* `ReadHead` ... `Finish` are one job in the order of
`local_worker_harness.py` (fixture and Codex, one repair) and of `run_code_task`; `FailsHere`
is its failure result, which looks at the checkout again, or the exception of a code task.
`ValidResult` is `validate_worker_result`.  `HandoffBase` ... `HandoffDigest` are
`build_repository_handoff`, the rest `publish_local_candidate`: every git command is an action.

### BoundedCodex and AdapterRun

*State.* `main` is the calling thread of `execute_codex_bounded`, `reader[s]` the thread that
drains stream `s`; `pipe`, `emitted`, `captured` count chunks per stream, `fed` and `taken` the
prompt's.  Codex reads, writes one stream at a time and blocks when the pipe is full, hangs,
exits with any code at any time, or leaves a child on its pipes.  In `AdapterRun`, `files` and
`manifest` are the installation on disk, by version; `caller` is the client, `step` the adapter
process, and `installed`, `contract`, `loading`, `executed` what it has read so far.

*Correspondence.* `CheckAuth` ... `Judge` are `execute_codex_bounded` with its finally clause,
`Drain`, `DrainEnds`, `DrainFails` a reader.  `Pin`, `Inspect`, `Call`, `Launch`, `Receive` are
the client: each loads and hashes the installation again, as the code does.  `Parse` ...
`CollectCandidate` are `worker_lab_adapter.main` in each mode.  `ReplaceFile`,
`ReplaceManifest`, `SwitchPolicy` are an operator, who may put back what was there before, any
number of times.  `CheckAuth` and, for a preflight, `PreflightAnswers` are the login check, which
Codex need not answer.  `disturbed` and `returned` record history for the properties: that the
operator did something, and that the sealed adapter file was put back between the start of another
one and its first look at itself.  `launch` says how `main` was started, since
its imports depend on it.  A version stands for a digest: equal versions, equal bytes.

### BenchRun

*State.* `manifest`, `checkpoint`, `record`, `summary` are the files of a run directory
(`record[m][c]` the case file of case `c` for model `m`, with the turns it was asked after),
`snapshots` evaluation's copies, `server` the managed model server and the process that started
it, `proc` the runner with the conversations in its memory (`talk`).

*Correspondence.* `StartRun` and `ResumeRun` are `BenchmarkRunner.__init__` and `_prepare`;
`ModelMetadata` ... `Unload` are `_run_model` and `_execute_case`; `FinishManifest`,
`WriteSummary`, `Close` are the end of `run`.  `Kill` may come between any two writes,
`Interrupt` is Ctrl-C, `WriteFails` and `MetadataWriteFails` a raising write, `UnloadCut` a
stop of the server that raises: a Ctrl-C inside it, or its own `TimeoutExpired` when the killed
server is not gone within its second wait (`providers.py:444`, swallowed at `runner.py:308`).

## 3. The runs

Counts are distinct states.  `CHECK_DEADLOCK FALSE` everywhere: when the attempt is terminal, the
call has been answered or the directory is complete, and no command is admitted, the system
stops, as it should.

| Run | Instance | Shows |
|---|---|---|
| `one_terminal` (19,867) | one slot, all commands, two invocation identities, two controllers, two crashes | Commands one after the other, each possibly cut short: `Dispatch` implements `AttemptContract`; a recorded candidate satisfies what `review_candidate` will ask; a recovered attempt has the evidence `docs/OPERATIONS.md` names. |
| `racing_terminals` (50,461) | one slot prepares, authorizes, dispatches; the other rejects, cancels, recovers, transitions; two crashes | What survives the missing lock: custody is true, the request is delivered at most once, a stored result has a complete verified success behind it, a candidate its result and a recovery its proof of absence. |
| `recovery_liveness` (1,971) | one dispatching slot, one that recovers; two crashes; fair | From any state that holds the evidence, repeated recovery reaches ABORTED. Every command returns, unless it stays in the untimed write of the request to an adapter that does not read. |
| `workspace_one_terminal` (3,806) | one slot, all commands, two seconds, two crashes, two failing calls; fair | A READY attempt can always be disposed of, and repeated disposal ends with nothing left; a RUNNING one has its receipt and directory; only what was recorded QUARANTINED is removed. |
| `workspace_races` (58,116) | two slots prepare and dispose, one failing call, preparations of different seconds | A preparation that does not end in READY takes back everything it published, and nothing of its competitor; one that overtakes a disposal compensates. |
| `test_plan` (1,167,301) | three tests; every prerequisite relation with costs 0..1 and every set of matching tests; every mode on a chain and a fork with profiles and capabilities; the catalogue replaced once | The walk rejects exactly the circular catalogues; a plan is the closure of what was asked for, prerequisites first, then the cheapest; what runs is what was sealed although the file is replaced. |
| `operator_lab` (2,387,058) | the run with its adapter step by step, two recoveries, a backup with a restore, one mishap, two processes at work at a time | A recovery claims only what it did, never while the adapter is in its job or has its request, and takes up a half-done recovery; a backup taken meanwhile is the lab of one instant; a restore is whole or nothing. |
| `candidate_publication` (3,388,029) | fixture, Codex and code-task jobs on three paths of which two are allowed; two acts of somebody else; two publications; at most three commits | Every result passes its own validator; a published commit is on the base, inside the allowed paths and holds what was validated; no commit is left behind without a cause. |
| `adapter_execution` (1,750,118) | every mode, started as the client does and as the tests do; two versions of every file, replaced and put back, and the policy switched, any number of times; one output stream with a cap of one chunk, two chunks written; fair | An accepted answer stands for the sealed installation, but for an adapter file put back before it hashed itself, and for a whole last message; a disabled installation starts no Codex execution; no truncated success; the call ends or stays in a wait the code puts no timeout on. |
| `bench` (1,442,077) | two models, three cases of one conversation, two processes, one mishap, two contents of the inputs, one snapshot | A preserve-mode case was asked after true turns; all case files come from one input; a complete checkpoint is the last write; a scored success stands; a refused directory holds nothing; no server is left. |

Two runs end in a violation, each of a sentence the repository writes about itself, quoted
under `findings` in `PROJECT.json`:

| Run | Documented | What the run does |
|---|---|---|
| `fault_before_assignment` | a mid-flight fault first kills the tree (`windows_job.py:314`) | an interrupt between launch and job assignment: the job is empty, the process is not in it and lives on under ABSENCE_VERIFIED |
| `workspace_write_refused` | the fallback import is for "direct execution from the installed tools directory" (`workspace_write_adapter.py:43`) | the client starts `python -I` on the adapter file; `-I` keeps the script's directory off `sys.path`, both imports of the write handler fail, and every execute-workspace-write answers `INTEGRATION_EXECUTION_FAILED` |

Were the import to succeed, the write operation would still be refused by its caller:
`local_runtime_identity` writes the v2 protocol into the identity (`worker_lab_adapter.py:424`)
where the client expects the operation's own (`framework_client.py:167`).  `IdentifyRuntime` and
`ExpectedContract` have both; `CURRENT_STATE.md` says production execution is disabled and only
injected adapters have been run, which is how both stay unnoticed.

### Bounds

*Dispatch.* `MaxCrashes` is the only counter: a crash resets a slot, so two crashes cover
one in the dispatch and one in its recovery, and one in each of two recoveries.  Two
invocation identities let a second preparation follow a first, and two controllers let one
differ from the authorizing one.  Two slots race; a third would issue one of the same
commands.

*Workspace.* `MaxFaults` bounds failing calls.  `workspace_one_terminal` allows
two: a READY write that replaced the record and then raised is recognised by either of two
re-reads, so `ReadyDisposable` survives one more failure; with a third, both re-reads fail
and the preparation of a READY attempt is taken back.  `FailedPreparationLeavesNothing` is
about one failing call, since compensation that itself fails leaves what it reports.
No run types `transition-attempt ... READY`, which the command line admits: it makes a
READY attempt that has no workspace and that neither dispatch nor disposal accepts, so
`ReadyDisposable` is about prepared attempts.

*TestPlan.* Three tests have every shape a walk can meet: a chain, a diamond's half, cycles of two and
three, a prerequisite met twice.  `MaxEdits` is one: any replacement between sealing and use is
the one that matters, and a second only undoes it, which the digest cannot tell either.

*OperatorLab.* `MaxRecoveries` two: one is cut short, the next resumes it.  `MaxMishaps` counts
failing calls of the backup and damage.  `MaxAtWork` keeps at most two of the three
processes at work at once; the third would multiply the interleavings of records it does not
share.  A run and its recovery race without bound on their stops.

*Publication.* Three paths: the fixture, another allowed one, one that is not allowed.  A file
is as before, changed, or absent.  `MaxOutside` two lets somebody change a file and change it
back.  `MaxCommits` three: the base, one commit in between (the worker's or somebody's), the
candidate.

*AdapterRun.* One stream, since the second differs in nothing but its name and its cap; a prompt
longer than the pipe, and an output longer than cap and pipe, so every block can happen.  Two
versions, replaced and put back without limit, and a policy switched without limit put every change
around every check.  What an operator does after
the runtime is loaded is left out: nothing reads the disk afterwards in that call.

*BenchRun.* Three cases of one conversation have an earlier, a middle and a later turn; two
models show that conversations do not leak and the server changes hands.  `Retries` is 0: a
retry repeats the same request and keeps nothing.  `MaxRuns` two with one mishap is a run, its
accident, and its resumption with or without `--rerun-errors`.  `Inputs` is symmetric: contents
are only compared.

### Fairness

*Dispatch.* `WF(Owed(c))`: a command that has started is scheduled, and each wait in it but one is
bounded by the code (`process.wait(timeout=...)`, `reader_join_timeout`, the query's
deadline), so `Timeout` is part of what is owed.  The one is the write of the request
(`windows_job.py:267-268`), which comes before the timed wait: an adapter that does not read keeps
the command there, `Owed` leaves that step out, and `CommandReturns` names it.  The adapter owes
nothing.  `WF` on
`RecoverRead`: the operator repeats recover-invocation as long as it is accepted, which is
what "restart-safe" is about.  `Crash`, `Fault`, `JobFails`, `AssignFails` and the adapter
have no fairness.  *Workspace.* Likewise: a started command ends, and discard-workspace
is repeated with the same outcome for as long as it is accepted (`SF`: other commands may
be typed in between).

*AdapterRun.* The client is scheduled, and so is the adapter process in every step that waits for
nobody (`Owed`); the calling thread of `execute_codex_bounded` and its readers likewise, and their
timed waits and joins come to an end.  Codex finishes a write for which there is room and dies when
terminated; it need not answer the login check, read its prompt or exit, nor need a child of its
release the pipes.  Four kinds of wait have no timeout in the code, and none is assumed to end: the
login check (`codex_runtime.py:151`, `170`), the write of the prompt (`295`), and the git commands
before and after a workspace write (`code_task.py:262`, `local_worker_harness.py:216`,
`local_git_publisher.py:151`).  They are `Unanswered`, and `CallEnds` says that the call is
answered or stays in one of them for good.  Only the Windows job's timer ends it there, which is
`RunnerTimesOut` and gets no fairness.

The other runs are about safety.

## 4. The proofs

TLAPS checks them for every value of the constants.  Each module `X_proofs` has an inductive
invariant, `Init` and `[Next]_vars` preserving it (one lemma or step per action), and the
properties as its consequences.  TLC found each invariant true of the run's instance before it
was proved.

### From which assumptions

The constants: sets of clients, tests, paths or streams are any sets, bounds any natural numbers.
Beyond that the assumptions say what the code's types say: a JSON null is none of the values that may
stand in its place (`DispatchAssumption`, `WorkspaceAssumption`, `BenchAssumption`,
`NoneAssumption`, `ContentsAssumption`); an imported catalogue has passed its own field checks
(`EditAssumption`); the bench cases are numbered in the order they are asked (`BenchAssumption`); the
thread that owns no stream is not a stream (`CodexAssumption`).

The environment: where commands race without a lock, not everything holds, and a theorem names what
it needs as a hypothesis.

| Hypothesis | Says | Needed because |
|---|---|---|
| `SingleDispatcher` | at most one slot may issue dispatch-invocation; the others race it with every other command | two dispatches may both pass admission (section 5) |
| `OneCommand` | there is one slot: commands run one after the other, each may crash anywhere | two saves may compare before either replaces |
| `OneTerminal` | one slot, READY is not typed by hand, at most two failing calls | a typed READY has no workspace; with three failing calls a READY write that raised after it replaced the file escapes both re-reads and is compensated |
| `[]SecondsDiffer`, `[]OneDisposal`, `"READY" \notin Targets` | preparations under way have different seconds, one disposal is under way at a time | section 5, *preparations of one second* and *two disposals* |

The first row holds of `racing_terminals`, the second of `one_terminal`, the third of
`workspace_one_terminal`; `workspace_races` has the last but for `OneDisposal`: its two slots may
dispose at the same time, and then no third is there to prepare, so TLC shows that case beside the
theorem.  `TypeCorrect`, `WorkspaceCorrect`, `PreparationProven` and every theorem of the other
modules have no hypothesis.

### Dispatch

* `TypeCorrect`.  The invariant is `TypeOK` with `HeldOK` (a command past its first read works on
  an invocation; one that will write the attempt holds an attempt record): without it
  `CommitAttempt` could write `None`.
* `ContainmentCorrect`, and from it `AbsenceProven` and `DeliveredOnce`, under `SingleDispatcher`.
  `AbsenceProofTrue` is not inductive: nothing in a custody record says when the process died.
  `ContainmentInv` adds `OnlyDispatchers` (only the dispatching slot has launched anything or runs
  dispatch code), `RunnerCustody` (where the runner is, the file is in the state the program counter
  says), `HeldOutcome` (absence is claimed only on a copy that counted zero), `ZeroMeansDead` (a
  record that counted zero or claims absence has no live tree in its job, whoever launched it) and
  `SentMeansMarked` (a request is preceded by its durable `request_sent`).
* `EvidenceCorrect`, and from it `ResultProven` and `OutcomeProven`, under `SingleDispatcher`.
  `EvidenceInv` adds to containment what each command relies on between two of its accesses
  (`HeldEvidence`): a dispatch that is about to complete has stored its own result, a recovery that
  writes has read absence.  A terminal custody record, a stored result and a recovered outcome
  never go back, so a racing command cannot take the ground from under it.
* `AgreementCorrect`, and from it `CandidateProven`, `RecoveryProven` and `ContractImplemented`,
  under `OneCommand`.  `AgreementInv` relates the four files to each other alone (what
  a reader finds after a crash at any point) and to the one command's copies.

*Refinement.* `Contract == INSTANCE AttemptContract WITH ...` maps each record to itself;
`ImplementsContract` says that every step of `Dispatch` is one move of the contract or a stutter on
the records.  `ContractImplemented` proves it command by command: each save is the contract's move
because the agreement gives the evidence the move asks for; every other step changes no record.
The in-memory copies of a command are what the contract hides.

### Workspace

`WorkspaceCorrect` holds for any number of clients: `HolderInv` says which preparation owns the
published directory and who wrote the receipt while the attempt is in DRAFT, which is what lets
each compensation remove its own and no other's.  `PreparationProven` follows from it.  `TerminalInv` is a table of what the
files are at each label of a preparation and of a disposal (`Where`), with what stands between commands
(`Standing`): after a crash the next command meets exactly these.  `DisposalInv` says that what a
disposal has removed comes back only in the hands of a preparation (`Emptied`), that no preparation
can still make the attempt READY while somebody disposes of it (`Committing`), and that none takes
another's READY for its own (`Stamped`, where the seconds must differ).

### TestPlan

`PlanCorrect` is about catalogues of any size.  The recursion of `_assert_acyclic` is an explicit
stack, so no induction over data is needed: `PathInv` says the calls that have not returned are a path
of prerequisites, and `VisitedInv` that what has returned holds all it requires and no `Circle` (a
non-empty set each of whose tests requires one of its own), which is the definition of a circular
catalogue that the walk is compared with.  `ClosureInv` says that the selection lies within the
closure of the seeds and that whatever is selected has all it requires selected or is still to be
expanded.  `OrderInv` counts: a test waits for as many tests as it requires
and are not ordered, so when nothing is ready nothing is left, there being no circle.  Lemmas on
`Ascending`, on sequences and on cardinalities come first.

### OperatorLab

`LabCorrect` holds for any number of recoveries and mishaps, with the recovery free to overtake the
run.  `RecoveredMeansStopped` rests on `EarlyInv` (no recovery goes on before the activation is
recorded, and no run that may still make the workspace has recorded it) and `GoneInv`: a
recovery that has removed the workspace bars the launch, since `LaunchInspect` looks at it; and
READY, read again after the removal, tells that the run has not got as far as that look.  `AdapterInv`
ties each step of the runner to the custody it has left (`Fits`), and has an adapter in its job only
while the run that launched it is there (`Launching`); `ContainingStep` goes through the runner's
actions.  A record of absence may be one of an empty job: then the process is outside it, without
a request.  `TrackInv`
and `RecordedInv` follow a recovery of a stopped run through the records it has written,
`ResumeInv` what such a run left.  For the backup, `Rank` orders the contents of each record; `LabGrows`
proves that while nothing overtakes, every step leaves a record or raises its rank; so a file that
has run ahead of the manifest before the last one is hashed stays ahead (`LagInv`), its copy does
not verify, and the backup is refused.

### Publication, AdapterRun, BenchRun

`PublicationCorrect`: the result's digest is of the tree that was approved unless `touched`
(`ValidatedInv`), and what the publisher has checked still holds as long as nobody disturbs
(`UndisturbedInv`); a candidate that was read back cannot change, since `log` only grows, which is
why `BoundsProven` needs no such proviso.  `CallCorrect`: until a cap is exceeded, the chunks
captured and those still in the pipe add up to the ones written (`StreamInv`), the caller's label says what has been waited for, and every check
of client and adapter says of the version it read what it compared it with, which no later
replacement can change.  What ran is known at one point only, where the adapter hashes its own
file: it is the sealed one then, or the sealed file was put back since the start, which is `returned`.
`BenchCorrect`: ten conjuncts tie the process to its files;
`TalkInv` and `TurnsInv` say that conversations in memory and in case files hold true turns, and
all of them until a failed case is re-run.  `ConversationTrue` is stated over sequences of turns
(`TrueTurns`, `AllTurns`), as it is proved.

### What stays with TLC

Liveness (`RecoveryCompletes`, `CommandReturns`, `DisposalCompletes`, `CallEnds`): fairness and
ENABLED are beyond the prover.  The two violation runs.  Every other property of the passing runs is
a theorem.  Not proved, and not claimed: what the properties become with two dispatching slots, or
for `OneCommand` and `OneTerminal` with two terminals; section 5 has counterexamples for some.
No module declares a RECURSIVE operator.  The other modules state a type invariant too (`TypeOK`, `LabTypeOK`,
`CodexTypeOK`); it is a theorem of each, and a run's property only for `Dispatch`.

## 5. What the code does not keep

Beside the two violation runs, five sentences of the documentation fail in the models.  Each is
a definition in its module, and the instance named here finds the counterexample.

* *cancel-invocation accepts only an authorized invocation* (`docs/OPERATIONS.md:59`; likewise
  `docs/CURRENT_STATE.md:191`).  `cancel_invocation` compares the controller only for AUTHORIZED and then
  applies whatever the transition table admits, UNCERTAIN to ABORTED included: after a recovery that stopped at
  UNCERTAIN, any controller cancels without custody evidence.  `CancelOnlyBeforeDispatch`,
  `MCDispatch` with one client, `MayOne`, one crash.
* *No result record* (`docs/OPERATIONS.md:63`, `application_service.py:1156`).  With custody
  already ABSENCE_VERIFIED, recovery does not ask whether the dispatching controller still
  runs; that controller stores its result after recovery looked for it.
  `RecoveryRetainsNoResult`, two clients, `MayRecover`, no crash.
* *Unchanged detached workspace content* (`docs/OPERATIONS.md:63`).  Recovery inspects the
  workspace at `application_service.py:1163` and reads custody at 1173; the adapter writes in
  between.  `RecoveryWorkspaceUnchanged`, the same instance.
* *Worker Lab does not quarantine or delete the workspace of a RUNNING attempt* (`PHASE3_SPEC.md:209`
  under `docs/legacy`).  discard reads READY, dispatch binds, discard renames and removes.
  `RunningNotQuarantined`, `MCWorkspace` with two clients, `MayDispatch`.
* *Receipt-bound READY attempts must use discard-workspace* (`application_service.py:702`).
  transition-attempt reads DRAFT, prepare completes, the abort is saved and the workspace
  stays.  `ReceiptBoundUsesDiscard`, two clients, `MayMove`.

The last four need two commands at once.  The Phase 2 review scoped Worker Lab to
"single-user, single-process operation", so they say what that assumption carries.

What no document promises, and the models have:

* *Two commands, one save.* The stores compare and then replace without a lock: with two commands at once a save may
  replace a terminal record, two prepare-invocation (`application_service.py:734`)
  may each create a record, and two dispatches may each launch an adapter.
  `ImplementsContract` is a property of one command at a time.
* *A stranded attempt.* A fault after ASSIGNED and before the request leaves TERMINATED
  custody with an adapter and no request sent.  `_validate_custody` refuses
  ABSENCE_VERIFIED for it and both recoveries, `recover_invocation`'s and the synthetic run's, refuse
  it (`windows_job.py:485-492`), so the attempt stays RUNNING until the operator
  aborts it by hand.  `Recoverable`, the premise of `RecoveryCompletes`, and
  `Resumable`, that of `RecoveryResumes`, exclude it.
* *A process outside the job survives a recovery.* The fault of `fault_before_assignment` leaves
  ABSENCE_VERIFIED and a live process that was sent nothing.  Recovery trusts the record
  (`synthetic_read_only.py:230`) and closes the lab beside it.  `RecoveredMeansStopped` is therefore
  about adapters that are in their job or have their request.
* *Waits without a timeout.* The request is written to the adapter's stdin before the timed wait
  (`windows_job.py:267-268`); below the adapter, the login check, the prompt and the git commands
  of a workspace write have none either (section 3, Fairness).  An adapter that does not read
  holds its command for ever, and its custody stays DISPATCHING until somebody kills it.
* *An adapter file put back in time.* The client checks the installation, another adapter file is put
  in its place and started, and the sealed one is put back before the adapter hashes its file
  (`worker_lab_adapter.py:630-633`): the call is accepted although other code ran.
  Likewise the runtime file may be exchanged after `_framework_runtime` compared its digest and before it
  is executed (673-681).  And a whole upgrade that falls between the two times an execution
  reads the installation runs the newer runtime under an identity read from the older.
  `AcceptedStands` excludes the first by `returned`, and says nothing of the file executed.
* *Preparations of one second.* A preparation whose READY save was refused looks whether the
  record equals its own, and the clock is read to the second (`workspace.py:404`).  Of two
  preparations of one second the later may take the earlier's READY for its own
  and report success: if a disposal has removed the first workspace meanwhile, the second
  is published under an attempt about to be ABORTED, and stays.  `workspace_races` excludes
  this by the constraint `SecondsDiffer`.
* *Two disposals.* With three terminals, two discard-workspace and a late preparation: the second
  disposal renames what the preparation published after the first had removed its own, finds the
  receipt gone, and leaves the quarantined directory under an ABORTED attempt.
  `DisposalLeavesNothing` says one disposal at a time; with the two clients of `workspace_races` there
  is no third to race them.
* *Three failing calls.* A READY write that replaces the record and raises, followed by two
  re-reads that raise, makes a preparation compensate a READY attempt.  `OneTerminal` allows two.
* *Conversations and re-runs.* After `--rerun-errors`, a later turn may have been asked before an
  earlier one existed: its context is true but not complete.  `ConversationTrue` says exactly this.
* *A synthetic recovery that stops between ABORTED and the attempt's record* is refused from
  then on.  `RecoveryResumes` holds because `Resumable` does not include that state.
* *A trusted command that writes to an allowed path* between the last validation and the digest
  is published: `PublishedWasValidated` excludes it by `touched`, and by `late` a change between the
  publisher's last two looks.
* *Capabilities that nothing maps.* `TEST_CATALOG.md:42` says "Unmapped paths or capabilities fail
  closed"; `select` compares paths only (`test_catalog.py:341`).  `Mapped` is what the code does.

## 6. Not modelled

* `create_attempt` and its retry chain (`attempt_store.py:106`): a link is written
  once, when its record is created, and names a record that exists by then, so only an edited file
  could close a cycle.
* Schema, digest and path validation of file contents, canonical encoding, consumer profiles,
  framework contracts, the repository identity: pure functions of files one process reads once;
  in the models a digest is the value it stands for, and a check that may refuse refuses freely.
* Read-only queries and the candidate review itself; its conditions are `CandidateReviewable`.
* Prompts, command-line parsing, output formats, HTTP, scoring, prices and hashes of the benchmark.
* Pid reuse (a pid with a creation time is a slot), fsync, reparse points, directory permissions.
* Repository tools (`src/tools`): one-shot reports over file trees.

## 7. The plan

The safety properties of all runs are proved.  What is left, in this order: how far the theorems
under `OneCommand` reach with a second slot that does not prepare, bind or dispatch
(`CandidateReviewable` and the moves of custody and result need less than one command at a
time); the guarantee of `Recoverable` that `RecoveryCompletes` starts from, as a safety fact about
which custody records a crash can leave; that a disposal, wherever it was cut short, can always take its
next step, as the safety half of `DisposalCompletes`; and for `BoundedCodex` a bound on the steps
left to each thread, as the safety half of `CallEnds`.

------------------------------ MODULE WorkerJob -----------------------------
(* One job of the worker on a checkout, up to its Worker Result: the local     *)
(* harness with its direct fixture mutation or with Codex (one repair), and the *)
(* general code task, which turns its result into a Worker Result afterwards.  *)
(* Each step is one look at the checkout, one change of it, or one command.    *)
EXTENDS Checkout

CONSTANTS
  None,
  Engines,    \* "fixture" or "codex" of the harness, or "code" for a code task
  Targets     \* the target states a task may ask for; its initial state is "A"

ASSUME EnginesAssumption ==
  Engines \subseteq {"fixture", "codex", "code"} /\ Targets \subseteq {"B", "ABSENT"}

(* What a job may fail at. *)
FailureCodes ==
  {"WORKSPACE_NOT_CLEAN", "FIXTURE_INITIAL_STATE_FAILED", "CODEX_EXECUTION_FAILED",
   "CODE_TASK_HEAD_CHANGED", "PATCH_BOUNDARY_FAILED", "FIXTURE_TARGET_STATE_FAILED",
   "CONSUMER_QUICK_VALIDATION_FAILED", "LOCAL_DIFF_CHECK_FAILED",
   "FIXTURE_FULL_VALIDATION_FAILED", "CONSUMER_FULL_VALIDATION_FAILED"}

(* None is no failure's name, no commit and no digest. *)
ASSUME NoneAssumption ==
  /\ None \notin FailureCodes /\ None \notin Nat
  /\ \A paths \in SUBSET Paths : None \notin [paths -> Contents]

Verdicts == {"not-run", "pass", "fail"}

VARIABLES
  job,        \* the task and where its job is
  result,     \* the Worker Result; None before it, and when the job raised instead
  approved,   \* the tree the last validation looked at
  touched     \* the tree has changed since then, before the result's digest

jobVars == <<job, result, approved, touched>>

(* from_mapping admits only a target that differs from the initial state; the  *)
(* paths a code task expects to change are here the fixture's alone.           *)
JobInit ==
  /\ \E e \in Engines, t \in Targets :
       job = [pc |-> "head", engine |-> e, target |-> t, base |-> 1, paths |-> {},
              repairs |-> 0, first |-> None, patch |-> "not-run",
              quick |-> "not-run", full |-> "not-run"]
  /\ result = None
  /\ approved = tree
  /\ touched = FALSE

JobAt(l) == job.pc = l
Step(l) == job' = [job EXCEPT !.pc = l]

(* validate_fixture: the fixture is in exactly this state. *)
FixtureHolds(content) == tree[Fixture] = content

Looks == UNCHANGED checkoutVars
Untested == UNCHANGED <<result, approved, touched>>

-----------------------------------------------------------------------------
(* worker_result: what a result must agree on before anyone may read it. *)
ComputeReady(r) ==
  /\ r.worker = "pass" /\ r.patch = "pass" /\ r.quick = "pass" /\ r.full = "pass"
  /\ r.workspace \in {"dirty-candidate", "committed-candidate"}
  /\ r.paths # {}
  /\ r.digest # None

Failed(r) == "fail" \in {r.patch, r.quick, r.full, r.worker}

ValidResult(r) ==
  /\ r.workspace = "committed-candidate" => r.candidate # None
  /\ r.workspace \in {"clean", "preexisting-dirty"} => r.paths = {}
  /\ r.workspace = "preexisting-dirty" => r.candidate = None /\ r.digest = None
  /\ Failed(r) => r.first # None
  /\ ~Failed(r) => (r.repairs = 0 <=> r.first = None)
  /\ r.ready = ComputeReady(r)

(* _failure_result looks at the checkout again, unless it was dirty before the *)
(* job; the first failure is the one that led to a repair, if there was one.   *)
FailureResult(j, code) ==
  LET paths == IF code = "WORKSPACE_NOT_CLEAN" THEN {} ELSE ChangedPaths(j.base) IN
  [base |-> j.base, candidate |-> None, paths |-> paths,
   workspace |-> IF code = "WORKSPACE_NOT_CLEAN" THEN "preexisting-dirty"
                 ELSE IF paths = {} THEN "clean" ELSE "dirty-candidate",
   digest |-> IF paths = {} THEN None ELSE Digest(paths),
   patch |-> j.patch, quick |-> j.quick, full |-> j.full, worker |-> "fail",
   repairs |-> j.repairs, first |-> IF j.first = None THEN code ELSE j.first,
   ready |-> FALSE]

(* Mutant: a job that passes reports no failure, repaired or not. *)
NoFailure(j) == None

(* A repaired job keeps the failure it was repaired after. *)
OriginalFailure(j) == j.first

(* The result of a job whose boundaries all passed: its paths were observed   *)
(* before the trusted commands ran, its digest is taken after them.           *)
PassResult(j) ==
  [base |-> j.base, candidate |-> None, paths |-> j.paths,
   workspace |-> "dirty-candidate", digest |-> Digest(j.paths),
   patch |-> "pass", quick |-> "pass", full |-> "pass", worker |-> "pass",
   repairs |-> j.repairs, first |-> OriginalFailure(j), ready |-> TRUE]

(* A code task raises where the harness returns a failure. *)
Fails(j, code) ==
  IF j.engine = "code" THEN job' = [j EXCEPT !.pc = "raised"] /\ UNCHANGED result
  ELSE job' = [j EXCEPT !.pc = "failed"] /\ result' = FailureResult(j, code)

FailsHere(j, code) == Fails(j, code) /\ Looks /\ UNCHANGED <<approved, touched>>

-----------------------------------------------------------------------------
(* repository_head; a code task's contract has it from its context packet. *)
ReadHead ==
  /\ JobAt("head")
  /\ job' = [job EXCEPT !.pc = "clean", !.base = HEAD]
  /\ Looks /\ Untested

(* require_clean_workspace, or verify_context_packet, which also compares HEAD. *)
RequireClean ==
  /\ JobAt("clean")
  /\ IF Clean /\ (job.engine = "code" => HEAD = job.base)
     THEN /\ Step(IF job.engine = "code" THEN "mutate" ELSE "initial")
          /\ Looks /\ Untested
     ELSE FailsHere(job, "WORKSPACE_NOT_CLEAN")

ValidateInitial ==
  /\ JobAt("initial")
  /\ IF FixtureHolds("A") THEN Step("mutate") /\ Looks /\ Untested
     ELSE FailsHere(job, "FIXTURE_INITIAL_STATE_FAILED")

(* apply_fixture_mutation writes or unlinks the one file. *)
FixtureMutation ==
  /\ JobAt("mutate") /\ job.engine = "fixture"
  /\ tree' = [tree EXCEPT ![Fixture] = job.target]
  /\ Step("paths")
  /\ UNCHANGED <<index, log, outside>> /\ Untested

(* Codex leaves any files behind, and may commit them although it is told not  *)
(* to; it may also fail halfway.                                               *)
CodexWrites ==
  /\ tree' \in Trees
  /\ \/ UNCHANGED <<index, log>>
     \/ /\ tree' # log[HEAD] /\ HEAD < MaxCommits
        /\ index' = tree' /\ log' = Append(log, tree')
  /\ UNCHANGED outside

(* A result that a failure of Codex itself ends: it describes the tree it left. *)
CodexFails(j) ==
  LET paths == {p \in Paths : tree'[p] # log'[j.base][p]} IN
  IF j.engine = "code" THEN job' = [j EXCEPT !.pc = "raised"] /\ UNCHANGED result
  ELSE /\ job' = [j EXCEPT !.pc = "failed"]
       /\ result' = [FailureResult(j, "CODEX_EXECUTION_FAILED") EXCEPT
            !.paths = paths,
            !.workspace = IF paths = {} THEN "clean" ELSE "dirty-candidate",
            !.digest = IF paths = {} THEN None ELSE [p \in paths |-> tree'[p]]]

CodexMutation ==
  /\ JobAt("mutate") /\ job.engine # "fixture"
  /\ CodexWrites
  /\ \/ /\ Step(IF job.engine = "code" THEN "sameHead" ELSE "paths") /\ UNCHANGED result
     \/ CodexFails(job)
  /\ UNCHANGED <<approved, touched>>

(* run_code_task: the worker must not have moved HEAD. *)
SameHead ==
  /\ JobAt("sameHead")
  /\ IF HEAD = job.base THEN Step("paths") /\ Looks /\ Untested
     ELSE FailsHere(job, "CODE_TASK_HEAD_CHANGED")

(* validate_patch_boundary: some change, and none outside the allowed paths; a *)
(* code task wants exactly the paths it expects.                               *)
InsideBoundary(paths) ==
  IF job.engine = "code" THEN paths = {Fixture} ELSE paths # {} /\ paths \subseteq Allowed

CheckBoundary ==
  /\ JobAt("paths")
  /\ LET paths == ChangedPaths(job.base) IN
     IF InsideBoundary(paths)
     THEN /\ job' = [job EXCEPT !.paths = paths, !.patch = "pass",
                     !.pc = IF job.engine = "code" THEN "diff" ELSE "target"]
          /\ Looks /\ Untested
     ELSE FailsHere([job EXCEPT !.patch = "fail"], "PATCH_BOUNDARY_FAILED")

(* validate_fixture for the target state.  The first failure earns Codex one   *)
(* repair, and the candidate goes through the boundary again.                  *)
CanRepair(j) == j.engine = "codex" /\ j.repairs = 0

ValidateTarget ==
  /\ JobAt("target")
  /\ IF FixtureHolds(job.target) THEN Step("quick") /\ Looks /\ Untested
     ELSE LET j == [job EXCEPT !.quick = "fail",
                    !.first = IF @ = None THEN "FIXTURE_TARGET_STATE_FAILED" ELSE @] IN
          IF CanRepair(j)
          THEN job' = [j EXCEPT !.pc = "repair", !.repairs = 1] /\ Looks /\ Untested
          ELSE FailsHere(j, "FIXTURE_TARGET_STATE_FAILED")

Repair ==
  /\ JobAt("repair")
  /\ CodexWrites
  /\ \/ Step("paths") /\ UNCHANGED result
     \/ CodexFails(job)
  /\ UNCHANGED <<approved, touched>>

(* A trusted command of the consumer passes or fails; while it runs it may     *)
(* write a file, a formatter's or a cache's.                                   *)
CommandRuns ==
  /\ \/ UNCHANGED tree
     \/ \E p \in Paths, c \in Contents : c # tree[p] /\ tree' = [tree EXCEPT ![p] = c]
  /\ UNCHANGED <<index, log, outside, result>>

(* The consumer's quick commands. *)
TrustedQuick ==
  /\ JobAt("quick")
  /\ \/ FailsHere([job EXCEPT !.quick = "fail"], "CONSUMER_QUICK_VALIDATION_FAILED")
     \/ /\ CommandRuns
        /\ job' = [job EXCEPT !.quick = "pass",
                   !.pc = IF job.engine = "code" THEN "commands" ELSE "diff"]
        /\ UNCHANGED <<approved, touched>>

(* git diff --check looks at whitespace only: it passes or fails. *)
DiffCheck ==
  /\ JobAt("diff")
  /\ \/ FailsHere([job EXCEPT !.full = "fail"], "LOCAL_DIFF_CHECK_FAILED")
     \/ Step(IF job.engine = "code" THEN "quick" ELSE "full") /\ Looks /\ Untested

(* validate_fixture again, in run_fixture_full_validation. *)
ValidateFull ==
  /\ JobAt("full")
  /\ IF FixtureHolds(job.target)
     THEN /\ Step("commands") /\ Looks
          /\ approved' = tree /\ touched' = FALSE
          /\ UNCHANGED result
     ELSE FailsHere([job EXCEPT !.full = "fail"], "FIXTURE_FULL_VALIDATION_FAILED")

(* The full commands.  They are all the validation a code task has; the        *)
(* harness has just looked at the fixture.                                     *)
TrustedFull ==
  /\ JobAt("commands")
  /\ \/ FailsHere([job EXCEPT !.full = "fail"], "CONSUMER_FULL_VALIDATION_FAILED")
     \/ /\ CommandRuns
        /\ Step("result")
        /\ IF job.engine = "code" THEN approved' = tree /\ touched' = (tree' # tree)
           ELSE UNCHANGED approved /\ touched' = (touched \/ tree' # tree)

(* The last look at the checkout: the digest of the paths found before.       *)
Finish ==
  /\ JobAt("result")
  /\ Step("done")
  /\ result' = PassResult(job)
  /\ Looks /\ UNCHANGED <<approved, touched>>

JobNext ==
  \/ ReadHead \/ RequireClean \/ ValidateInitial \/ FixtureMutation \/ CodexMutation
  \/ SameHead \/ CheckBoundary \/ ValidateTarget \/ Repair \/ TrustedQuick
  \/ DiffCheck \/ ValidateFull \/ TrustedFull \/ Finish
=============================================================================

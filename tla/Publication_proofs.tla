-------------------------- MODULE Publication_proofs ------------------------
(* What holds of every job and every publication of its result, for any paths, *)
(* contents, engines and bounds: the results validate, and a commit that is    *)
(* published lies on the base, stays inside the task's paths and holds what    *)
(* the last validation saw.                                                    *)
EXTENDS Publication, TLAPS

-----------------------------------------------------------------------------
(* The inductive invariant. *)
JobPlaces ==
  {"head", "clean", "initial", "mutate", "sameHead", "paths", "target", "repair",
   "quick", "diff", "full", "commands", "result", "done", "failed", "raised"}

Jobs == [pc : JobPlaces, engine : Engines, target : Targets, base : Nat,
         paths : SUBSET Paths, repairs : {0, 1}, first : FailureCodes \cup {None},
         patch : Verdicts, quick : Verdicts, full : Verdicts]

(* Before the commit, and from the commit on. *)
BeforeCommit == {"base", "paths", "digest", "add", "staged", "commit"}
AfterHead == {"parent", "committed", "dirty", "verify"}
AfterCommit == {"head"} \cup AfterHead
PubPlaces == {"idle"} \cup BeforeCommit \cup AfterCommit

Pubs == [pc : PubPlaces, made : Nat \cup {None}, candidate : Nat \cup {None}]

CheckoutTypeInv ==
  /\ tree \in Trees /\ index \in Trees
  /\ log \in Seq(Trees) /\ Len(log) \in 1..MaxCommits
  /\ outside \in 0..MaxOutside

JobTypeInv ==
  /\ job \in Jobs /\ job.base \in 1..Len(log)
  /\ approved \in Trees /\ touched \in BOOLEAN

PubTypeInv ==
  /\ pub \in Pubs
  /\ pub.made \in {None} \cup 1..Len(log) /\ pub.candidate \in {None} \cup 1..Len(log)
  /\ attempts \in 0..MaxPublications
  /\ disturbed \in BOOLEAN /\ late \in BOOLEAN
  /\ published \subseteq 1..Len(log)

(* Where the boundary has let the job's paths through. *)
Bounded == {"target", "quick", "diff", "full", "commands", "result", "done"}

(* Until the job ends, a failure is kept exactly when it was repaired; the      *)
(* paths of a job past the boundary are inside it.                              *)
PathInv ==
  /\ job.pc \notin {"failed", "raised"} => (job.repairs = 0 <=> job.first = None)
  /\ job.pc \in Bounded => InsideBoundary(job.paths)

(* Unless the tree was written since, it is the one that was validated. *)
ValidatedInv ==
  /\ job.pc = "commands" /\ job.engine # "code" /\ ~touched =>
       approved = tree /\ tree[Fixture] = job.target
  /\ job.pc = "result" /\ ~touched =>
       approved = tree /\ (job.engine # "code" => tree[Fixture] = job.target)

(* What a job that is done has reported, and what its digest says. *)
Reported ==
  /\ result.base = job.base /\ result.paths = job.paths
  /\ result.digest \in [job.paths -> Contents]
  /\ ~touched => \A p \in job.paths :
       /\ result.digest[p] = approved[p]
       /\ p = Fixture /\ job.engine # "code" => result.digest[p] = job.target

ResultInv ==
  /\ job.pc \notin {"done", "failed"} => result = None
  /\ job.pc = "failed" => ValidResult(result) /\ result.ready = FALSE
  /\ job.pc = "done" => ValidResult(result) /\ Reported

(* Somebody publishes a job that is done; what was published is the commit on  *)
(* its base that changes its paths, and holds the digest's contents.           *)
Holds(c) == \A p \in result.paths : log[c][p] = result.digest[p]

PublishedInv ==
  /\ pub.pc # "idle" \/ published # {} => job.pc = "done"
  /\ \A c \in published :
       /\ c = result.base + 1 /\ CommittedPaths(c) = result.paths
       /\ ~late => Holds(c)

CandidateInv ==
  /\ pub.pc \in AfterHead => pub.candidate \in 1..Len(log)
  /\ pub.pc \in {"committed", "dirty", "verify"} => pub.candidate = result.base + 1
  /\ pub.pc \in {"dirty", "verify"} => CommittedPaths(pub.candidate) = result.paths
  /\ pub.pc = "verify" /\ ~late => tree = log[pub.candidate]

(* What an undisturbed publication knows at each place before its commit ... *)
OnTheBase ==
  /\ pub.pc \in BeforeCommit \ {"base"} => Len(log) = result.base
  /\ pub.pc \in {"digest", "add"} => ChangedPaths(result.base) = result.paths
  /\ pub.pc \in {"add", "staged", "commit"} => Digest(result.paths) = result.digest
  /\ pub.pc = "staged" => \A p \in Paths :
       IF p \in result.paths THEN index[p] = tree[p]
       ELSE /\ index[p] = "ABSENT" => tree[p] = "ABSENT" /\ log[result.base][p] = "ABSENT"
            /\ index[p] # "ABSENT" => tree[p] = log[result.base][p]
  /\ pub.pc = "commit" => tree = index /\ StagedPaths = result.paths

(* ... and from its commit on: none of the checks left can fail. *)
CommitStands ==
  /\ Len(log) = result.base + 1 /\ pub.made = Len(log)
  /\ tree = log[Len(log)] /\ index = log[Len(log)]
  /\ CommittedPaths(Len(log)) = result.paths
  /\ Digest(result.paths) = result.digest
  /\ pub.pc \in AfterHead => pub.candidate = Len(log)

UndisturbedInv ==
  /\ strays = {}
  /\ pub.pc \in BeforeCommit => pub.made = None
  /\ ~disturbed => OnTheBase
  /\ ~disturbed /\ pub.pc \in AfterCommit => CommitStands

IInv ==
  /\ CheckoutTypeInv /\ JobTypeInv /\ PubTypeInv
  /\ PathInv /\ ValidatedInv /\ ResultInv
  /\ PublishedInv /\ CandidateInv /\ UndisturbedInv

-----------------------------------------------------------------------------
(* The initial state. *)
LEMMA InitCorrect == Init => IInv
<1> SUFFICES ASSUME Init PROVE IInv
  OBVIOUS
<1> USE DEF Init
<1>0. "A" \in Contents /\ MaxOutside \in Nat /\ MaxCommits \in Nat \ {0}
  BY PathsAssumption
<1>1. CheckoutTypeInv
  <2>1. tree \in Trees /\ index = tree /\ log = <<tree>> /\ outside = 0
    BY <1>0 DEF CheckoutInit, Trees
  <2>2. log \in Seq(Trees) /\ Len(log) = 1
    BY <2>1
  <2> QED
    BY <1>0, <2>1, <2>2 DEF CheckoutTypeInv
<1>2. PICK e \in Engines, t \in Targets :
        job = [pc |-> "head", engine |-> e, target |-> t, base |-> 1, paths |-> {},
               repairs |-> 0, first |-> None, patch |-> "not-run",
               quick |-> "not-run", full |-> "not-run"]
  BY DEF JobInit
<1>3. job \in Jobs
  BY <1>2 DEF Jobs, JobPlaces, Verdicts
<1>4. /\ job.pc = "head" /\ job.base = 1 /\ job.repairs = 0 /\ job.first = None
      /\ result = None /\ approved = tree /\ touched = FALSE
  BY <1>2 DEF JobInit
<1>5. JobTypeInv
  <2>1. Len(log) = 1 /\ tree \in Trees
    BY <1>1 DEF CheckoutInit, CheckoutTypeInv
  <2>2. touched \in BOOLEAN
    BY <1>4, Zenon
  <2> QED
    BY <1>3, <1>4, <2>1, <2>2 DEF JobTypeInv
<1>6. /\ pub = [pc |-> "idle", made |-> None, candidate |-> None] /\ attempts = 0
      /\ published = {} /\ strays = {} /\ disturbed = FALSE /\ late = FALSE
  BY DEF PublicationInit
<1>7. PubTypeInv
  <2>1. disturbed \in BOOLEAN /\ late \in BOOLEAN
    BY <1>6, Zenon
  <2>2. pub \in Pubs
    BY <1>6 DEF Pubs, PubPlaces
  <2>3. attempts \in 0..MaxPublications
    BY <1>6, PublicationsAssumption
  <2> QED
    BY <1>6, <2>1, <2>2, <2>3 DEF PubTypeInv
<1>8. PathInv /\ ValidatedInv /\ ResultInv
  BY <1>4 DEF PathInv, ValidatedInv, ResultInv, Bounded
<1>9. pub.pc = "idle"
  BY <1>6
<1>10. PublishedInv /\ CandidateInv
  BY <1>6, <1>9 DEF PublishedInv, CandidateInv, AfterHead
<1>11. UndisturbedInv
  BY <1>6, <1>9 DEF UndisturbedInv, OnTheBase, BeforeCommit, AfterCommit, AfterHead
<1> QED
  BY <1>1, <1>5, <1>7, <1>8, <1>10, <1>11 DEF IInv

-----------------------------------------------------------------------------
(* The checkout: the trees have their type, and the log only grows. *)
LogGrows ==
  /\ Len(log') >= Len(log)
  /\ \A c \in 1..Len(log) : log'[c] = log[c]

CheckoutStep == CheckoutTypeInv' /\ LogGrows

LEMMA Unmoved ==
  ASSUME CheckoutTypeInv, UNCHANGED checkoutVars
  PROVE  CheckoutStep
BY DEF CheckoutTypeInv, checkoutVars, CheckoutStep, LogGrows

LEMMA Appended ==
  ASSUME CheckoutTypeInv, NEW t \in Trees, log' = Append(log, t)
  PROVE  /\ log' \in Seq(Trees) /\ Len(log') = Len(log) + 1
         /\ log'[Len(log) + 1] = t
         /\ \A c \in 1..Len(log) : log'[c] = log[c]
BY DEF CheckoutTypeInv

LEMMA StagedTyped ==
  ASSUME CheckoutTypeInv, NEW S, Stage(S)
  PROVE  index' \in Trees
BY DEF CheckoutTypeInv, Stage, Trees

(* A commit of what is staged. *)
LEMMA CommitTyped ==
  ASSUME CheckoutTypeInv, CanCommit, Commit
  PROVE  /\ log' \in Seq(Trees) /\ Len(log') \in 1..MaxCommits /\ LogGrows
         /\ Len(log') = Len(log) + 1 /\ log'[Len(log')] = index
<1>1. index \in Trees /\ log' = Append(log, index) /\ Len(log) < MaxCommits
  BY DEF CheckoutTypeInv, CanCommit, Commit, HEAD
<1>2. /\ log' \in Seq(Trees) /\ Len(log') = Len(log) + 1 /\ log'[Len(log) + 1] = index
      /\ \A c \in 1..Len(log) : log'[c] = log[c]
  BY <1>1, Appended
<1>3. Len(log) \in 1..MaxCommits /\ MaxCommits \in Nat
  BY PathsAssumption DEF CheckoutTypeInv
<1> QED
  BY <1>1, <1>2, <1>3 DEF LogGrows

LEMMA OutsideTyped ==
  ASSUME CheckoutTypeInv, Outside
  PROVE  CheckoutStep
<1>1. outside' \in 0..MaxOutside
  BY PathsAssumption DEF Outside, CheckoutTypeInv
<1>2. CASE \E p \in Paths, c \in Contents : OutsideEdit(p, c)
  <2>1. tree' \in Trees /\ index' = index /\ log' = log
    BY <1>2 DEF OutsideEdit, CheckoutTypeInv, Trees
  <2> QED
    BY <1>1, <2>1 DEF CheckoutTypeInv, CheckoutStep, LogGrows
<1>3. CASE \E p \in Paths : OutsideStage(p)
  <2>1. index' \in Trees /\ tree' = tree /\ log' = log
    BY <1>3, StagedTyped DEF OutsideStage
  <2> QED
    BY <1>1, <2>1 DEF CheckoutTypeInv, CheckoutStep, LogGrows
<1>4. CASE OutsideCommit
  <2>1. /\ log' \in Seq(Trees) /\ Len(log') \in 1..MaxCommits /\ LogGrows
        /\ tree' = tree /\ index' = index
    BY <1>4, CommitTyped DEF OutsideCommit
  <2> QED
    BY <1>1, <2>1 DEF CheckoutTypeInv, CheckoutStep
<1> QED
  BY <1>2, <1>3, <1>4 DEF Outside

LEMMA CodexTyped ==
  ASSUME CheckoutTypeInv, CodexWrites
  PROVE  CheckoutStep
<1>1. tree' \in Trees /\ outside' = outside
  BY DEF CodexWrites
<1>2. CASE UNCHANGED <<index, log>>
  BY <1>1, <1>2 DEF CheckoutTypeInv, CheckoutStep, LogGrows
<1>3. CASE HEAD < MaxCommits /\ index' = tree' /\ log' = Append(log, tree')
  <2>1. /\ log' \in Seq(Trees) /\ Len(log') = Len(log) + 1
        /\ \A c \in 1..Len(log) : log'[c] = log[c]
    BY <1>1, <1>3, Appended
  <2>2. Len(log) \in 1..MaxCommits /\ MaxCommits \in Nat /\ Len(log) < MaxCommits
    BY <1>3, PathsAssumption DEF CheckoutTypeInv, HEAD
  <2> QED
    BY <1>1, <1>3, <2>1, <2>2 DEF CheckoutTypeInv, CheckoutStep, LogGrows
<1> QED
  BY <1>2, <1>3 DEF CodexWrites

LEMMA CommandTyped ==
  ASSUME CheckoutTypeInv, CommandRuns
  PROVE  CheckoutStep
<1>1. tree' \in Trees
  BY DEF CheckoutTypeInv, CommandRuns, Trees
<1> QED
  BY <1>1 DEF CommandRuns, CheckoutTypeInv, CheckoutStep, LogGrows

-----------------------------------------------------------------------------
(* The job: each step keeps its checkout and its own part of the invariant. *)
JobInv == JobTypeInv /\ PathInv /\ ValidatedInv /\ ResultInv

Before == CheckoutTypeInv /\ JobInv

LEMMA Stepped ==
  ASSUME job \in Jobs, NEW l \in JobPlaces, Step(l)
  PROVE  /\ job' \in Jobs /\ job'.pc = l /\ job'.engine = job.engine
         /\ job'.target = job.target /\ job'.base = job.base /\ job'.paths = job.paths
         /\ job'.repairs = job.repairs /\ job'.first = job.first
<1>1. job' = [job EXCEPT !.pc = l]
  BY DEF Step
<1>2. job' \in Jobs
  BY <1>1, Zenon DEF Jobs
<1> QED
  BY <1>1, <1>2 DEF Jobs

(* A failure is valid as long as it names itself and, where there is nothing to *)
(* review, shows nothing.                                                       *)
LEMMA FailureShape ==
  ASSUME NEW r, r.worker = "fail", r.candidate = None, r.ready = FALSE, r.first # None,
         r.workspace \in {"preexisting-dirty", "clean", "dirty-candidate"},
         r.workspace # "dirty-candidate" => r.paths = {},
         r.workspace = "preexisting-dirty" => r.digest = None
  PROVE  ValidResult(r)
<1>1. Failed(r)
  BY DEF Failed
<1>2. r.ready = ComputeReady(r)
  BY DEF ComputeReady
<1> QED
  BY <1>1, <1>2 DEF ValidResult

LEMMA FailureFields ==
  ASSUME NEW j \in Jobs, NEW code \in FailureCodes
  PROVE  LET r == FailureResult(j, code) IN
           /\ r.worker = "fail" /\ r.candidate = None /\ r.ready = FALSE /\ r.first # None
           /\ r.workspace \in {"preexisting-dirty", "clean", "dirty-candidate"}
           /\ r.workspace # "dirty-candidate" => r.paths = {} /\ r.digest = None
<1> DEFINE r == FailureResult(j, code)
<1>1. /\ r.worker = "fail" /\ r.candidate = None /\ r.ready = FALSE
      /\ r.first = IF j.first = None THEN code ELSE j.first
  BY DEF FailureResult
<1>2. /\ r.workspace \in {"preexisting-dirty", "clean", "dirty-candidate"}
      /\ r.workspace # "dirty-candidate" => r.paths = {} /\ r.digest = None
  BY DEF FailureResult
<1>3. code # None
  BY NoneAssumption, Zenon
<1> QED
  BY <1>1, <1>2, <1>3

(* The result of a job that failed is valid, whatever it failed at ... *)
LEMMA FailureValid ==
  ASSUME NEW j \in Jobs, NEW code \in FailureCodes
  PROVE  ValidResult(FailureResult(j, code)) /\ FailureResult(j, code).ready = FALSE
BY FailureFields, FailureShape

(* ... and that of one that Codex itself ended, which describes the tree it left. *)
LEMMA CodexFailureValid ==
  ASSUME NEW j \in Jobs, CodexFails(j), j.engine # "code"
  PROVE  ValidResult(result') /\ result'.ready = FALSE
<1> DEFINE paths == {p \in Paths : tree'[p] # log'[j.base][p]}
           f == FailureResult(j, "CODEX_EXECUTION_FAILED")
<1>1. result' = [f EXCEPT !.paths = paths,
            !.workspace = IF paths = {} THEN "clean" ELSE "dirty-candidate",
            !.digest = IF paths = {} THEN None ELSE [p \in paths |-> tree'[p]]]
  BY DEF CodexFails
<1>2. f.worker = "fail" /\ f.candidate = None /\ f.ready = FALSE /\ f.first # None
  BY FailureFields DEF FailureCodes
<1>3. /\ result'.worker = f.worker /\ result'.candidate = f.candidate
      /\ result'.ready = f.ready /\ result'.first = f.first /\ result'.paths = paths
      /\ result'.workspace = IF paths = {} THEN "clean" ELSE "dirty-candidate"
  BY <1>1 DEF FailureResult
<1> HIDE DEF paths, f
<1> QED
  BY <1>2, <1>3, FailureShape

(* A job that ends in a failure or raises. *)
LEMMA Ended ==
  ASSUME CheckoutTypeInv, LogGrows, CheckoutTypeInv',
         NEW j \in Jobs, j.base \in 1..Len(log),
         NEW l \in {"failed", "raised"}, job' = [j EXCEPT !.pc = l],
         l = "raised" => result' = None,
         l = "failed" => ValidResult(result') /\ result'.ready = FALSE,
         approved' \in Trees, touched' \in BOOLEAN
  PROVE  JobInv'
<1>1. job' \in Jobs
  <2>1. l \in JobPlaces
    BY DEF JobPlaces
  <2> QED
    BY <2>1, Zenon DEF Jobs
<1>2. job'.pc = l /\ job'.base = j.base
  BY DEF Jobs
<1>3. JobTypeInv'
  <2>1. Len(log) \in Nat /\ Len(log') \in Nat
    BY DEF CheckoutTypeInv
  <2>2. job'.base \in 1..Len(log')
    BY <1>2, <2>1 DEF LogGrows
  <2> QED
    BY <1>1, <2>2 DEF JobTypeInv
<1>4. PathInv'
  BY <1>2 DEF PathInv, Bounded
<1>5. ValidatedInv'
  BY <1>2 DEF ValidatedInv
<1>6. ResultInv'
  BY <1>2 DEF ResultInv
<1> QED
  BY <1>3, <1>4, <1>5, <1>6 DEF JobInv

LEMMA FailsCorrect ==
  ASSUME CheckoutTypeInv, LogGrows, CheckoutTypeInv', result = None,
         NEW j \in Jobs, j.base \in 1..Len(log), NEW code \in FailureCodes, Fails(j, code),
         approved' \in Trees, touched' \in BOOLEAN
  PROVE  JobInv'
<1>1. CASE job' = [j EXCEPT !.pc = "raised"] /\ UNCHANGED result
  BY <1>1, Ended
<1>2. CASE job' = [j EXCEPT !.pc = "failed"] /\ result' = FailureResult(j, code)
  BY <1>2, Ended, FailureValid
<1> QED
  BY <1>1, <1>2 DEF Fails

LEMMA FailsHereCorrect ==
  ASSUME Before, result = None,
         NEW j \in Jobs, j.base \in 1..Len(log), NEW code \in FailureCodes, FailsHere(j, code)
  PROVE  CheckoutStep /\ JobInv'
<1>1. CheckoutTypeInv /\ CheckoutStep /\ Fails(j, code)
  BY Unmoved DEF Before, FailsHere, Looks
<1>2. approved' \in Trees /\ touched' \in BOOLEAN
  BY DEF Before, JobInv, JobTypeInv, FailsHere
<1> QED
  BY <1>1, <1>2, FailsCorrect DEF CheckoutStep

(* A job that goes on without a result. *)
LEMMA GoesOn ==
  ASSUME Before, CheckoutStep, job.pc \notin {"done", "failed"}, UNCHANGED result,
         NEW l \in JobPlaces \ {"done", "failed"}, ValidatedInv',
         job' \in Jobs, job'.pc = l, job'.base \in 1..Len(log'),
         job'.repairs = 0 <=> job'.first = None,
         (l \in Bounded => InsideBoundary(job.paths))',
         approved' \in Trees, touched' \in BOOLEAN
  PROVE  JobInv'
<1>1. JobTypeInv'
  BY DEF JobTypeInv
<1>2. PathInv'
  BY DEF PathInv
<1>3. ResultInv'
  BY DEF ResultInv, Before, JobInv
<1> QED
  BY <1>1, <1>2, <1>3 DEF JobInv

(* One that only looks at the checkout and changes nothing but its place. *)
LEMMA LooksOn ==
  ASSUME Before, job.pc \notin {"done", "failed", "raised"},
         NEW l \in JobPlaces \ {"done", "failed", "commands", "result"}, Step(l),
         Looks, Untested,
         l \in Bounded => job.pc \in Bounded
  PROVE  CheckoutStep /\ JobInv'
<1>1. CheckoutTypeInv /\ CheckoutStep /\ JobTypeInv
  BY Unmoved DEF Before, Looks, JobInv
<1>2. /\ job' \in Jobs /\ job'.pc = l /\ job'.engine = job.engine
      /\ job'.base = job.base /\ job'.paths = job.paths
      /\ job'.repairs = job.repairs /\ job'.first = job.first
  BY <1>1, Stepped DEF JobTypeInv
<1>3. job'.base \in 1..Len(log')
  BY <1>1, <1>2 DEF JobTypeInv, Looks, checkoutVars
<1>4. job'.repairs = 0 <=> job'.first = None
  BY <1>2 DEF Before, JobInv, PathInv
<1>5. (l \in Bounded => InsideBoundary(job.paths))'
  BY <1>2 DEF Before, JobInv, PathInv, InsideBoundary
<1>6. approved' \in Trees /\ touched' \in BOOLEAN /\ result' = result
  BY <1>1 DEF JobTypeInv, Untested
<1>7. ValidatedInv'
  BY <1>2 DEF ValidatedInv
<1> QED
  BY <1>1, <1>2, <1>3, <1>4, <1>5, <1>6, <1>7, GoesOn

LEMMA ReadHeadCorrect == Before /\ ReadHead => CheckoutStep /\ JobInv'
<1> SUFFICES ASSUME Before, ReadHead PROVE CheckoutStep /\ JobInv'
  OBVIOUS
<1>1. CheckoutTypeInv /\ CheckoutStep /\ JobTypeInv /\ PathInv
  BY Unmoved DEF Before, ReadHead, Looks, JobInv
<1>2. HEAD \in Nat /\ HEAD \in 1..Len(log)
  BY <1>1 DEF HEAD, CheckoutTypeInv
<1>3. job \in Jobs /\ job.pc = "head" /\ job' = [job EXCEPT !.pc = "clean", !.base = HEAD]
  BY <1>1 DEF ReadHead, JobAt, JobTypeInv
<1>4. job' \in Jobs
  <2>1. "clean" \in JobPlaces
    BY DEF JobPlaces
  <2> QED
    BY <1>2, <1>3, <2>1, Zenon DEF Jobs
<1>5. /\ job'.pc = "clean" /\ job'.base = HEAD
      /\ job'.repairs = job.repairs /\ job'.first = job.first
  BY <1>3 DEF Jobs
<1>6. job'.repairs = 0 <=> job'.first = None
  BY <1>1, <1>3, <1>5 DEF PathInv
<1>7. job'.base \in 1..Len(log')
  BY <1>2, <1>5 DEF ReadHead, Looks, checkoutVars
<1>8. approved' \in Trees /\ touched' \in BOOLEAN /\ result' = result
  BY <1>1 DEF JobTypeInv, ReadHead, Untested
<1>9. ValidatedInv'
  BY <1>5 DEF ValidatedInv
<1>10. "clean" \in JobPlaces \ {"done", "failed"} /\ "clean" \notin Bounded
  BY DEF JobPlaces, Bounded
<1> QED
  BY <1>1, <1>3, <1>4, <1>5, <1>6, <1>7, <1>8, <1>9, <1>10, GoesOn

(* What every job on its way has. *)
LEMMA OnItsWay ==
  ASSUME Before, job.pc \notin {"done", "failed", "raised"}
  PROVE  /\ job \in Jobs /\ job.base \in 1..Len(log) /\ result = None
         /\ (job.repairs = 0 <=> job.first = None)
BY DEF Before, JobInv, JobTypeInv, ResultInv, PathInv

LEMMA RequireCleanCorrect == Before /\ RequireClean => CheckoutStep /\ JobInv'
<1> SUFFICES ASSUME Before, RequireClean PROVE CheckoutStep /\ JobInv'
  OBVIOUS
<1>1. job.pc = "clean"
  BY DEF RequireClean, JobAt
<1>2. CASE Clean /\ (job.engine = "code" => HEAD = job.base)
  <2>1. PICK l \in {"mutate", "initial"} : Step(l) /\ Looks /\ Untested
    BY <1>2 DEF RequireClean
  <2>2. l \in JobPlaces \ {"done", "failed", "commands", "result"} /\ l \notin Bounded
    BY DEF JobPlaces, Bounded
  <2> QED
    BY <1>1, <2>1, <2>2, LooksOn
<1>3. CASE FailsHere(job, "WORKSPACE_NOT_CLEAN")
  BY <1>1, <1>3, OnItsWay, FailsHereCorrect DEF FailureCodes
<1> QED
  BY <1>2, <1>3 DEF RequireClean

LEMMA ValidateInitialCorrect == Before /\ ValidateInitial => CheckoutStep /\ JobInv'
<1> SUFFICES ASSUME Before, ValidateInitial PROVE CheckoutStep /\ JobInv'
  OBVIOUS
<1>1. job.pc = "initial"
  BY DEF ValidateInitial, JobAt
<1>2. CASE Step("mutate") /\ Looks /\ Untested
  <2>1. "mutate" \in JobPlaces \ {"done", "failed", "commands", "result"} /\ "mutate" \notin Bounded
    BY DEF JobPlaces, Bounded
  <2> QED
    BY <1>1, <1>2, <2>1, LooksOn
<1>3. CASE FailsHere(job, "FIXTURE_INITIAL_STATE_FAILED")
  BY <1>1, <1>3, OnItsWay, FailsHereCorrect DEF FailureCodes
<1> QED
  BY <1>2, <1>3 DEF ValidateInitial

LEMMA FixtureMutationCorrect == Before /\ FixtureMutation => CheckoutStep /\ JobInv'
<1> SUFFICES ASSUME Before, FixtureMutation PROVE CheckoutStep /\ JobInv'
  OBVIOUS
<1>1. /\ job.pc = "mutate" /\ tree' = [tree EXCEPT ![Fixture] = job.target] /\ Step("paths")
      /\ UNCHANGED <<index, log, outside, result, approved, touched>>
  BY DEF FixtureMutation, JobAt, Untested
<1>2. CheckoutTypeInv /\ JobTypeInv
  BY DEF Before, JobInv
<1>3. job \in Jobs /\ job.base \in 1..Len(log) /\ (job.repairs = 0 <=> job.first = None)
  BY <1>1, OnItsWay
<1>4. job.target \in Contents
  BY <1>3, PathsAssumption, EnginesAssumption DEF Jobs
<1>5. CheckoutStep
  <2>1. tree' \in Trees
    BY <1>1, <1>2, <1>4 DEF CheckoutTypeInv, Trees
  <2> QED
    BY <1>1, <1>2, <2>1 DEF CheckoutTypeInv, CheckoutStep, LogGrows
<1>6. "paths" \in JobPlaces \ {"done", "failed"} /\ "paths" \notin Bounded
  BY DEF JobPlaces, Bounded
<1>7. /\ job' \in Jobs /\ job'.pc = "paths" /\ job'.base = job.base
      /\ job'.repairs = job.repairs /\ job'.first = job.first
  BY <1>1, <1>3, <1>6, Stepped
<1>8. ValidatedInv'
  BY <1>7 DEF ValidatedInv
<1>9. job'.base \in 1..Len(log') /\ approved' \in Trees /\ touched' \in BOOLEAN
  BY <1>1, <1>2, <1>3, <1>7 DEF JobTypeInv
<1>10. job'.repairs = 0 <=> job'.first = None
  BY <1>3, <1>7
<1> QED
  BY <1>1, <1>5, <1>6, <1>7, <1>8, <1>9, <1>10, GoesOn

(* What Codex leaves behind, and how its job goes on. *)
LEMMA CodexCorrect ==
  ASSUME Before, job.pc \in {"mutate", "repair"}, CodexWrites,
         NEW l \in {"sameHead", "paths"},
         (Step(l) /\ UNCHANGED result) \/ CodexFails(job),
         UNCHANGED <<approved, touched>>
  PROVE  CheckoutStep /\ JobInv'
<1>1. CheckoutTypeInv /\ CheckoutStep /\ JobTypeInv
  BY CodexTyped DEF Before, JobInv
<1>2. /\ job \in Jobs /\ job.base \in 1..Len(log) /\ result = None
      /\ (job.repairs = 0 <=> job.first = None)
  BY OnItsWay
<1>3. LogGrows /\ CheckoutTypeInv' /\ approved' \in Trees /\ touched' \in BOOLEAN
  BY <1>1 DEF CheckoutStep, JobTypeInv
<1>4. CASE Step(l) /\ UNCHANGED result
  <2>1. l \in JobPlaces \ {"done", "failed"} /\ l \notin Bounded
    BY DEF JobPlaces, Bounded
  <2>2. /\ job' \in Jobs /\ job'.pc = l /\ job'.base = job.base
        /\ job'.repairs = job.repairs /\ job'.first = job.first
    BY <1>2, <1>4, <2>1, Stepped
  <2>3. ValidatedInv'
    BY <2>2 DEF ValidatedInv
  <2>4. job'.base \in 1..Len(log')
    BY <1>1, <1>2, <1>3, <2>2 DEF LogGrows, CheckoutTypeInv
  <2>5. job'.repairs = 0 <=> job'.first = None
    BY <1>2, <2>2
  <2> QED
    BY <1>1, <1>3, <1>4, <2>1, <2>2, <2>3, <2>4, <2>5, GoesOn
<1>5. CASE job' = [job EXCEPT !.pc = "raised"] /\ UNCHANGED result
  BY <1>1, <1>2, <1>3, <1>5, Ended
<1>6. CASE CodexFails(job) /\ job.engine # "code"
  <2>1. job' = [job EXCEPT !.pc = "failed"]
    BY <1>6 DEF CodexFails
  <2>2. ValidResult(result') /\ result'.ready = FALSE
    BY <1>2, <1>6, CodexFailureValid
  <2> QED
    BY <1>1, <1>2, <1>3, <2>1, <2>2, Ended
<1> QED
  BY <1>4, <1>5, <1>6 DEF CodexFails

LEMMA CodexMutationCorrect == Before /\ CodexMutation => CheckoutStep /\ JobInv'
<1> SUFFICES ASSUME Before, CodexMutation PROVE CheckoutStep /\ JobInv'
  OBVIOUS
<1>1. PICK l \in {"sameHead", "paths"} : (Step(l) /\ UNCHANGED result) \/ CodexFails(job)
  BY DEF CodexMutation
<1> QED
  BY <1>1, CodexCorrect DEF CodexMutation, JobAt

LEMMA RepairCorrect == Before /\ Repair => CheckoutStep /\ JobInv'
BY CodexCorrect DEF Repair, JobAt

LEMMA SameHeadCorrect == Before /\ SameHead => CheckoutStep /\ JobInv'
<1> SUFFICES ASSUME Before, SameHead PROVE CheckoutStep /\ JobInv'
  OBVIOUS
<1>1. job.pc = "sameHead"
  BY DEF SameHead, JobAt
<1>2. CASE Step("paths") /\ Looks /\ Untested
  <2>1. "paths" \in JobPlaces \ {"done", "failed", "commands", "result"} /\ "paths" \notin Bounded
    BY DEF JobPlaces, Bounded
  <2> QED
    BY <1>1, <1>2, <2>1, LooksOn
<1>3. CASE FailsHere(job, "CODE_TASK_HEAD_CHANGED")
  BY <1>1, <1>3, OnItsWay, FailsHereCorrect DEF FailureCodes
<1> QED
  BY <1>2, <1>3 DEF SameHead

LEMMA CheckBoundaryCorrect == Before /\ CheckBoundary => CheckoutStep /\ JobInv'
<1> SUFFICES ASSUME Before, CheckBoundary PROVE CheckoutStep /\ JobInv'
  OBVIOUS
<1> DEFINE paths == ChangedPaths(job.base)
           l == IF job.engine = "code" THEN "diff" ELSE "target"
<1>1. job.pc = "paths"
  BY DEF CheckBoundary, JobAt
<1>2. /\ job \in Jobs /\ job.base \in 1..Len(log) /\ result = None
      /\ (job.repairs = 0 <=> job.first = None)
  BY <1>1, OnItsWay
<1>3. CASE InsideBoundary(paths) /\ Looks /\ Untested
           /\ job' = [job EXCEPT !.paths = paths, !.patch = "pass", !.pc = l]
  <2>1. l \in JobPlaces /\ paths \in SUBSET Paths /\ "pass" \in Verdicts
    BY DEF JobPlaces, ChangedPaths, Verdicts
  <2>2. l \in JobPlaces \ {"done", "failed"} /\ l \notin {"commands", "result"}
    BY DEF JobPlaces
  <2> HIDE DEF paths, l
  <2>3. job' \in Jobs
    BY <1>2, <1>3, <2>1, Zenon DEF Jobs
  <2>4. /\ job'.pc = l /\ job'.base = job.base /\ job'.paths = paths
        /\ job'.engine = job.engine
        /\ job'.repairs = job.repairs /\ job'.first = job.first
    BY <1>2, <1>3 DEF Jobs
  <2>5. CheckoutTypeInv /\ CheckoutStep /\ JobTypeInv
    BY <1>3, Unmoved DEF Before, Looks, JobInv
  <2>6. job'.base \in 1..Len(log')
    BY <1>2, <1>3, <2>4 DEF Looks, checkoutVars
  <2>7. InsideBoundary(job.paths)'
    BY <1>3, <2>4 DEF InsideBoundary
  <2>8. approved' \in Trees /\ touched' \in BOOLEAN /\ result' = result
    BY <1>3, <2>5 DEF JobTypeInv, Untested
  <2>9. ValidatedInv'
    BY <2>2, <2>4 DEF ValidatedInv
  <2>10. job'.repairs = 0 <=> job'.first = None
    BY <1>2, <2>4
  <2> QED
    BY <1>1, <2>2, <2>3, <2>4, <2>5, <2>6, <2>7, <2>8, <2>9, <2>10, GoesOn
<1>4. CASE FailsHere([job EXCEPT !.patch = "fail"], "PATCH_BOUNDARY_FAILED")
  <2> DEFINE j == [job EXCEPT !.patch = "fail"]
  <2>1. j \in Jobs
    <3>1. "fail" \in Verdicts
      BY DEF Verdicts
    <3> QED
      BY <1>2, <3>1, Zenon DEF Jobs
  <2>2. j.base = job.base
    BY <1>2 DEF Jobs
  <2>3. "PATCH_BOUNDARY_FAILED" \in FailureCodes
    BY DEF FailureCodes
  <2>4. FailsHere(j, "PATCH_BOUNDARY_FAILED")
    BY <1>4
  <2> HIDE DEF j
  <2> QED
    BY <1>2, <2>1, <2>2, <2>3, <2>4, FailsHereCorrect
<1> QED
  BY <1>3, <1>4 DEF CheckBoundary

LEMMA ValidateTargetCorrect == Before /\ ValidateTarget => CheckoutStep /\ JobInv'
<1> SUFFICES ASSUME Before, ValidateTarget PROVE CheckoutStep /\ JobInv'
  OBVIOUS
<1> DEFINE code == "FIXTURE_TARGET_STATE_FAILED"
           first == IF job.first = None THEN code ELSE job.first
           j == [job EXCEPT !.quick = "fail", !.first = first]
<1>1. job.pc = "target"
  BY DEF ValidateTarget, JobAt
<1>2. /\ job \in Jobs /\ job.base \in 1..Len(log) /\ result = None
      /\ (job.repairs = 0 <=> job.first = None)
  BY <1>1, OnItsWay
<1>3. code \in FailureCodes
  BY DEF FailureCodes
<1>4. first \in FailureCodes \cup {None} /\ first # None
  BY <1>2, <1>3, NoneAssumption DEF Jobs
<1>5. j \in Jobs
  <2>1. "fail" \in Verdicts
    BY DEF Verdicts
  <2> HIDE DEF first
  <2> QED
    BY <1>2, <1>4, <2>1, Zenon DEF Jobs
<1>6. j.base = job.base /\ j.first = first /\ j.repairs = job.repairs
  BY <1>2 DEF Jobs
<1>7. CASE FixtureHolds(job.target) /\ Step("quick") /\ Looks /\ Untested
  <2>1. "quick" \in JobPlaces \ {"done", "failed", "commands", "result"} /\ job.pc \in Bounded
    BY <1>1 DEF JobPlaces, Bounded
  <2> QED
    BY <1>1, <1>7, <2>1, LooksOn
<1>8. CASE job' = [j EXCEPT !.pc = "repair", !.repairs = 1] /\ Looks /\ Untested
  <2> HIDE DEF j
  <2>1. "repair" \in JobPlaces \ {"done", "failed"} /\ "repair" \notin Bounded
    BY DEF JobPlaces, Bounded
  <2>2. job' \in Jobs
    <3>1. "repair" \in JobPlaces /\ 1 \in {0, 1}
      BY DEF JobPlaces
    <3> QED
      BY <1>5, <1>8, <3>1, Zenon DEF Jobs
  <2>3. /\ job'.pc = "repair" /\ job'.base = job.base /\ job'.first = first
        /\ job'.repairs = 1
    BY <1>5, <1>6, <1>8 DEF Jobs
  <2>4. CheckoutTypeInv /\ CheckoutStep /\ JobTypeInv
    BY <1>8, Unmoved DEF Before, Looks, JobInv
  <2>5. job'.base \in 1..Len(log')
    BY <1>2, <1>8, <2>3 DEF Looks, checkoutVars
  <2>6. approved' \in Trees /\ touched' \in BOOLEAN /\ result' = result
    BY <1>8, <2>4 DEF JobTypeInv, Untested
  <2>7. ValidatedInv'
    BY <2>3 DEF ValidatedInv
  <2>8. job'.repairs = 0 <=> job'.first = None
    BY <1>4, <2>3
  <2> QED
    BY <1>1, <2>1, <2>2, <2>3, <2>4, <2>5, <2>6, <2>7, <2>8, GoesOn
<1>9. CASE FailsHere(j, code)
  <2> HIDE DEF j, code
  <2> QED
    BY <1>2, <1>3, <1>5, <1>6, <1>9, FailsHereCorrect
<1> QED
  BY <1>7, <1>8, <1>9 DEF ValidateTarget

(* A command that fails, a verdict with it. *)
LEMMA CommandFails ==
  ASSUME Before, job.pc \notin {"done", "failed", "raised"},
         NEW code \in FailureCodes,
         \/ FailsHere([job EXCEPT !.quick = "fail"], code)
         \/ FailsHere([job EXCEPT !.full = "fail"], code)
  PROVE  CheckoutStep /\ JobInv'
<1>1. job \in Jobs /\ job.base \in 1..Len(log) /\ result = None
  BY OnItsWay
<1>2. PICK j : /\ j = [job EXCEPT !.quick = "fail"] \/ j = [job EXCEPT !.full = "fail"]
               /\ FailsHere(j, code)
  OBVIOUS
<1>3. j \in Jobs
  <2>1. "fail" \in Verdicts
    BY DEF Verdicts
  <2> QED
    BY <1>1, <1>2, <2>1, Zenon DEF Jobs
<1>4. j.base = job.base
  BY <1>1, <1>2 DEF Jobs
<1> QED
  BY <1>1, <1>2, <1>3, <1>4, FailsHereCorrect

LEMMA TrustedQuickCorrect == Before /\ TrustedQuick => CheckoutStep /\ JobInv'
<1> SUFFICES ASSUME Before, TrustedQuick PROVE CheckoutStep /\ JobInv'
  OBVIOUS
<1>1. job.pc = "quick"
  BY DEF TrustedQuick, JobAt
<1>2. /\ job \in Jobs /\ job.base \in 1..Len(log) /\ result = None
      /\ (job.repairs = 0 <=> job.first = None)
  BY <1>1, OnItsWay
<1>3. CASE FailsHere([job EXCEPT !.quick = "fail"], "CONSUMER_QUICK_VALIDATION_FAILED")
  BY <1>1, <1>3, CommandFails DEF FailureCodes
<1>4. CASE CommandRuns /\ UNCHANGED <<approved, touched>>
           /\ job' = [job EXCEPT !.quick = "pass",
                      !.pc = IF job.engine = "code" THEN "commands" ELSE "diff"]
  <2> DEFINE l == IF job.engine = "code" THEN "commands" ELSE "diff"
  <2>1. /\ l \in JobPlaces \ {"done", "failed"} /\ "pass" \in Verdicts /\ l # "result"
        /\ l = "commands" => job.engine = "code"
    BY DEF JobPlaces, Verdicts
  <2>2. job' = [job EXCEPT !.quick = "pass", !.pc = l]
    BY <1>4
  <2> HIDE DEF l
  <2>3. job' \in Jobs
    BY <1>2, <2>1, <2>2, Zenon DEF Jobs
  <2>4. /\ job'.pc = l /\ job'.base = job.base /\ job'.paths = job.paths
        /\ job'.engine = job.engine
        /\ job'.repairs = job.repairs /\ job'.first = job.first
    BY <1>2, <2>2 DEF Jobs
  <2>5. CheckoutTypeInv /\ CheckoutStep /\ JobTypeInv /\ PathInv
    BY <1>4, CommandTyped DEF Before, JobInv
  <2>6. job'.base \in 1..Len(log')
    BY <1>2, <1>4, <2>4 DEF CommandRuns
  <2>7. InsideBoundary(job.paths)'
    BY <1>1, <2>4, <2>5 DEF InsideBoundary, PathInv, Bounded
  <2>8. approved' \in Trees /\ touched' \in BOOLEAN /\ result' = result
    BY <1>4, <2>5 DEF JobTypeInv, CommandRuns
  <2>9. ValidatedInv'
    BY <2>1, <2>4 DEF ValidatedInv
  <2>10. job'.repairs = 0 <=> job'.first = None
    BY <1>2, <2>4
  <2> QED
    BY <1>1, <2>1, <2>3, <2>4, <2>5, <2>6, <2>7, <2>8, <2>9, <2>10, GoesOn
<1> QED
  BY <1>3, <1>4 DEF TrustedQuick

LEMMA DiffCheckCorrect == Before /\ DiffCheck => CheckoutStep /\ JobInv'
<1> SUFFICES ASSUME Before, DiffCheck PROVE CheckoutStep /\ JobInv'
  OBVIOUS
<1>1. job.pc = "diff"
  BY DEF DiffCheck, JobAt
<1>2. CASE FailsHere([job EXCEPT !.full = "fail"], "LOCAL_DIFF_CHECK_FAILED")
  BY <1>1, <1>2, CommandFails DEF FailureCodes
<1>3. CASE Step(IF job.engine = "code" THEN "quick" ELSE "full") /\ Looks /\ Untested
  <2>1. PICK l \in {"quick", "full"} : Step(l)
    BY <1>3
  <2>2. l \in JobPlaces \ {"done", "failed", "commands", "result"} /\ job.pc \in Bounded
    BY <1>1 DEF JobPlaces, Bounded
  <2> QED
    BY <1>1, <1>3, <2>1, <2>2, LooksOn
<1> QED
  BY <1>2, <1>3 DEF DiffCheck

LEMMA ValidateFullCorrect == Before /\ ValidateFull => CheckoutStep /\ JobInv'
<1> SUFFICES ASSUME Before, ValidateFull PROVE CheckoutStep /\ JobInv'
  OBVIOUS
<1>1. job.pc = "full"
  BY DEF ValidateFull, JobAt
<1>2. /\ job \in Jobs /\ job.base \in 1..Len(log) /\ result = None
      /\ (job.repairs = 0 <=> job.first = None)
  BY <1>1, OnItsWay
<1>3. CASE FailsHere([job EXCEPT !.full = "fail"], "FIXTURE_FULL_VALIDATION_FAILED")
  BY <1>1, <1>3, CommandFails DEF FailureCodes
<1>4. CASE /\ FixtureHolds(job.target) /\ Step("commands") /\ Looks
           /\ approved' = tree /\ touched' = FALSE /\ UNCHANGED result
  <2>1. "commands" \in JobPlaces \ {"done", "failed"}
    BY DEF JobPlaces
  <2>2. /\ job' \in Jobs /\ job'.pc = "commands" /\ job'.engine = job.engine
        /\ job'.target = job.target /\ job'.base = job.base /\ job'.paths = job.paths
        /\ job'.repairs = job.repairs /\ job'.first = job.first
    BY <1>2, <1>4, <2>1, Stepped
  <2>3. CheckoutTypeInv /\ CheckoutStep /\ PathInv
    BY <1>4, Unmoved DEF Before, Looks, JobInv
  <2>4. job'.base \in 1..Len(log')
    BY <1>2, <1>4, <2>2 DEF Looks, checkoutVars
  <2>5. InsideBoundary(job.paths)'
    BY <1>1, <2>2, <2>3 DEF InsideBoundary, PathInv, Bounded
  <2>6. touched' \in BOOLEAN
    BY <1>4, Zenon
  <2>7. approved' \in Trees /\ result' = result
    BY <1>4, <2>3 DEF CheckoutTypeInv
  <2>8. ValidatedInv'
    BY <1>4, <2>2 DEF ValidatedInv, FixtureHolds, Looks, checkoutVars
  <2>9. job'.repairs = 0 <=> job'.first = None
    BY <1>2, <2>2
  <2> QED
    BY <1>1, <2>1, <2>2, <2>3, <2>4, <2>5, <2>6, <2>7, <2>8, <2>9, GoesOn
<1> QED
  BY <1>3, <1>4 DEF ValidateFull

LEMMA TrustedFullCorrect == Before /\ TrustedFull => CheckoutStep /\ JobInv'
<1> SUFFICES ASSUME Before, TrustedFull PROVE CheckoutStep /\ JobInv'
  OBVIOUS
<1>1. job.pc = "commands"
  BY DEF TrustedFull, JobAt
<1>2. /\ job \in Jobs /\ job.base \in 1..Len(log) /\ result = None
      /\ (job.repairs = 0 <=> job.first = None)
  BY <1>1, OnItsWay
<1>3. CASE FailsHere([job EXCEPT !.full = "fail"], "CONSUMER_FULL_VALIDATION_FAILED")
  BY <1>1, <1>3, CommandFails DEF FailureCodes
<1>4. CASE /\ CommandRuns /\ Step("result")
           /\ IF job.engine = "code" THEN approved' = tree /\ touched' = (tree' # tree)
              ELSE UNCHANGED approved /\ touched' = (touched \/ tree' # tree)
  <2>1. "result" \in JobPlaces \ {"done", "failed"}
    BY DEF JobPlaces
  <2>2. /\ job' \in Jobs /\ job'.pc = "result" /\ job'.engine = job.engine
        /\ job'.target = job.target /\ job'.base = job.base /\ job'.paths = job.paths
        /\ job'.repairs = job.repairs /\ job'.first = job.first
    BY <1>2, <1>4, <2>1, Stepped
  <2>3. CheckoutTypeInv /\ CheckoutStep /\ PathInv /\ JobTypeInv /\ ValidatedInv
    BY <1>4, CommandTyped DEF Before, JobInv
  <2>4. job'.base \in 1..Len(log') /\ result' = result
    BY <1>2, <1>4, <2>2 DEF CommandRuns
  <2>5. InsideBoundary(job.paths)'
    BY <1>1, <2>2, <2>3 DEF InsideBoundary, PathInv, Bounded
  <2>6. touched' \in BOOLEAN
    BY <1>4, <2>3, Zenon DEF JobTypeInv
  <2>7. approved' \in Trees
    BY <1>4, <2>3 DEF CheckoutTypeInv, JobTypeInv
  <2>8. ~touched' => tree' = tree /\ (job.engine # "code" => ~touched)
    BY <1>4
  <2>9. approved' = IF job.engine = "code" THEN tree ELSE approved
    BY <1>4
  <2>10. ValidatedInv'
    BY <1>1, <2>2, <2>3, <2>8, <2>9 DEF ValidatedInv
  <2>11. job'.repairs = 0 <=> job'.first = None
    BY <1>2, <2>2
  <2> QED
    BY <1>1, <2>1, <2>2, <2>3, <2>4, <2>5, <2>6, <2>7, <2>10, <2>11, GoesOn
<1> QED
  BY <1>3, <1>4 DEF TrustedFull

(* The result of a job whose boundaries all passed. *)
LEMMA FinishCorrect == Before /\ Finish => CheckoutStep /\ JobInv'
<1> SUFFICES ASSUME Before, Finish PROVE CheckoutStep /\ JobInv'
  OBVIOUS
<1> DEFINE r == PassResult(job)
<1>1. /\ job.pc = "result" /\ Step("done") /\ result' = r /\ Looks
      /\ UNCHANGED <<approved, touched>>
  BY DEF Finish, JobAt
<1>2. /\ job \in Jobs /\ job.base \in 1..Len(log)
      /\ (job.repairs = 0 <=> job.first = None)
  BY <1>1, OnItsWay
<1>3. CheckoutTypeInv /\ CheckoutStep /\ PathInv /\ JobTypeInv /\ ValidatedInv
  BY <1>1, Unmoved DEF Before, JobInv, Looks
<1>4. "done" \in JobPlaces
  BY DEF JobPlaces
<1>5. /\ job' \in Jobs /\ job'.pc = "done" /\ job'.engine = job.engine
      /\ job'.target = job.target /\ job'.base = job.base /\ job'.paths = job.paths
      /\ job'.repairs = job.repairs /\ job'.first = job.first
  BY <1>1, <1>2, <1>4, Stepped
<1>6. JobTypeInv'
  BY <1>1, <1>2, <1>3, <1>5 DEF JobTypeInv, Looks, checkoutVars
<1>7. InsideBoundary(job.paths)
  BY <1>1, <1>3 DEF PathInv, Bounded
<1>8. PathInv'
  BY <1>2, <1>5, <1>7 DEF PathInv, InsideBoundary
<1>9. ValidatedInv'
  BY <1>5 DEF ValidatedInv
<1>10. /\ r.base = job.base /\ r.candidate = None /\ r.paths = job.paths
       /\ r.workspace = "dirty-candidate" /\ r.digest = Digest(job.paths)
       /\ r.patch = "pass" /\ r.quick = "pass" /\ r.full = "pass" /\ r.worker = "pass"
       /\ r.repairs = job.repairs /\ r.first = job.first /\ r.ready = TRUE
  BY DEF PassResult, OriginalFailure
<1>11. Digest(job.paths) \in [job.paths -> Contents] /\ job.paths \in SUBSET Paths
  BY <1>2, <1>3 DEF Digest, Jobs, CheckoutTypeInv, Trees
<1>12. ValidResult(r)
  <2> HIDE DEF r
  <2>1. r.paths # {}
    BY <1>7, <1>10 DEF InsideBoundary
  <2>2. r.digest # None
    <3>1. None \notin [job.paths -> Contents]
      BY <1>11, NoneAssumption, Zenon
    <3> QED
      BY <1>10, <1>11, <3>1, Zenon
  <2>3. ~Failed(r)
    BY <1>10 DEF Failed
  <2>4. ComputeReady(r)
    BY <1>10, <2>1, <2>2 DEF ComputeReady
  <2>5. r.ready = ComputeReady(r)
    BY <1>10, <2>4 DEF ComputeReady
  <2> QED
    BY <1>2, <1>10, <2>3, <2>5 DEF ValidResult
<1>13. Reported'
  <2> HIDE DEF r
  <2>1. result'.base = job'.base /\ result'.paths = job'.paths
    BY <1>1, <1>5, <1>10
  <2>2. result'.digest \in [job'.paths -> Contents]
    BY <1>1, <1>5, <1>10, <1>11
  <2>3. ASSUME ~touched', NEW p \in job'.paths
        PROVE  /\ result'.digest[p] = approved'[p]
               /\ p = Fixture /\ job'.engine # "code" => result'.digest[p] = job'.target
    <3>1. result'.digest[p] = tree[p]
      BY <1>1, <1>5, <1>10, <2>3 DEF Digest
    <3>2. approved' = tree /\ (job.engine # "code" => tree[Fixture] = job.target)
      BY <1>1, <1>3, <2>3 DEF ValidatedInv
    <3> QED
      BY <1>5, <3>1, <3>2
  <2> QED
    BY <2>1, <2>2, <2>3 DEF Reported
<1>14. ResultInv'
  BY <1>1, <1>5, <1>12, <1>13 DEF ResultInv, ValidResult, ComputeReady, Failed
<1> QED
  BY <1>3, <1>6, <1>8, <1>9, <1>14 DEF JobInv

(* A step of the job: before one, nobody publishes. *)
LEMMA JobStepCorrect == IInv /\ JobStep => IInv'
<1> SUFFICES ASSUME IInv, JobStep PROVE IInv'
  OBVIOUS
<1>1. Before /\ JobNext /\ UNCHANGED pubVars
  BY DEF IInv, Before, JobInv, JobStep
<1>2. CheckoutStep /\ JobInv'
  BY <1>1, ReadHeadCorrect, RequireCleanCorrect, ValidateInitialCorrect,
     FixtureMutationCorrect, CodexMutationCorrect, SameHeadCorrect, CheckBoundaryCorrect,
     ValidateTargetCorrect, RepairCorrect, TrustedQuickCorrect, DiffCheckCorrect,
     ValidateFullCorrect, TrustedFullCorrect, FinishCorrect DEF JobNext
<1>3. job.pc # "done"
  BY <1>1 DEF JobNext, ReadHead, RequireClean, ValidateInitial, FixtureMutation,
     CodexMutation, SameHead, CheckBoundary, ValidateTarget, Repair, TrustedQuick,
     DiffCheck, ValidateFull, TrustedFull, Finish, JobAt
<1>4. pub.pc = "idle" /\ published = {}
  BY <1>3 DEF IInv, PublishedInv
<1>5. /\ pub' = pub /\ attempts' = attempts /\ published' = published /\ strays' = strays
      /\ disturbed' = disturbed /\ late' = late
  BY <1>1 DEF pubVars
<1>6. PubTypeInv'
  BY <1>2, <1>4, <1>5 DEF IInv, PubTypeInv, CheckoutStep, LogGrows, CheckoutTypeInv
<1>7. PublishedInv' /\ CandidateInv'
  BY <1>4, <1>5 DEF PublishedInv, CandidateInv, AfterHead
<1>8. UndisturbedInv'
  BY <1>4, <1>5 DEF IInv, UndisturbedInv, OnTheBase, BeforeCommit, AfterCommit, AfterHead
<1> QED
  BY <1>2, <1>6, <1>7, <1>8 DEF IInv, JobInv, CheckoutStep

-----------------------------------------------------------------------------
(* The publication: the job is done, and only the index and the log change. *)
LEMMA Done ==
  ASSUME IInv, job.pc = "done"
  PROVE  /\ result.base \in 1..Len(log) /\ result.paths \in SUBSET Paths
         /\ result.digest \in [result.paths -> Contents]
BY DEF IInv, ResultInv, Reported, JobTypeInv, Jobs

LEMMA JobStays ==
  ASSUME IInv, CheckoutStep, UNCHANGED jobVars, UNCHANGED tree
  PROVE  JobInv'
<1>1. job' = job /\ result' = result /\ approved' = approved /\ touched' = touched
  BY DEF jobVars
<1>2. JobTypeInv'
  BY <1>1 DEF IInv, JobTypeInv, CheckoutTypeInv, CheckoutStep, LogGrows
<1>3. PathInv'
  BY <1>1 DEF IInv, PathInv, InsideBoundary
<1>4. ValidatedInv'
  BY <1>1 DEF IInv, ValidatedInv
<1>5. ResultInv'
  BY <1>1 DEF IInv, ResultInv, Reported, ValidResult, Failed, ComputeReady
<1> QED
  BY <1>2, <1>3, <1>4, <1>5 DEF JobInv

(* What a commit changed and holds does not depend on later ones. *)
LEMMA CommitKept ==
  ASSUME IInv, LogGrows, UNCHANGED result, NEW c \in 2..Len(log)
  PROVE  CommittedPaths(c)' = CommittedPaths(c) /\ (Holds(c) => Holds(c)')
<1>1. log'[c] = log[c] /\ log'[c - 1] = log[c - 1]
  <2>1. c \in 1..Len(log) /\ c - 1 \in 1..Len(log)
    BY DEF IInv, CheckoutTypeInv
  <2> QED
    BY <2>1 DEF LogGrows
<1>2. CommittedPaths(c)' = CommittedPaths(c)
  BY <1>1 DEF CommittedPaths
<1>3. Holds(c) => Holds(c)'
  BY <1>1 DEF Holds
<1> QED
  BY <1>2, <1>3

LEMMA PublishedKept ==
  ASSUME IInv, CheckoutStep, UNCHANGED <<job, result, published>>,
         late' \in BOOLEAN, late => late',
         pub.pc # "idle" \/ published # {} \/ pub'.pc = "idle"
  PROVE  PublishedInv'
<1>1. CheckoutTypeInv /\ LogGrows
  BY DEF IInv, CheckoutStep
<1>2. ASSUME NEW c \in published
      PROVE  /\ c = result'.base + 1 /\ CommittedPaths(c)' = result'.paths
             /\ ~late' => Holds(c)'
  <2>1. job.pc = "done" /\ c = result.base + 1 /\ CommittedPaths(c) = result.paths
    BY <1>2 DEF IInv, PublishedInv
  <2>2. c \in 2..Len(log)
    BY <1>1, <1>2, <2>1, Done DEF IInv, PubTypeInv, CheckoutTypeInv
  <2>3. ~late => Holds(c)
    BY <1>2 DEF IInv, PublishedInv
  <2>4. CommittedPaths(c)' = CommittedPaths(c) /\ (Holds(c) => Holds(c)')
    BY <1>1, <2>2, CommitKept
  <2> QED
    BY <1>1, <2>1, <2>3, <2>4
<1>3. pub'.pc # "idle" \/ published' # {} => job'.pc = "done"
  BY DEF IInv, PublishedInv
<1> QED
  BY <1>2, <1>3 DEF PublishedInv

LEMMA PubGoes ==
  ASSUME IInv, NEW l \in PubPlaces, Goto(l)
  PROVE  /\ pub' \in Pubs /\ pub'.pc = l
         /\ pub'.made = pub.made /\ pub'.candidate = pub.candidate
<1>1. pub \in Pubs /\ pub' = [pub EXCEPT !.pc = l]
  BY DEF Goto, IInv, PubTypeInv
<1> QED
  BY <1>1 DEF Pubs

(* A publication that ends without a result, for a reason of its own before its *)
(* commit or because somebody else was about.                                   *)
LEMMA RefusedCorrect ==
  ASSUME IInv, pub.pc # "idle", CheckoutStep, UNCHANGED tree, UNCHANGED jobVars,
         UNCHANGED <<attempts, late>>, disturbed' \in BOOLEAN, Refused,
         disturbed' \/ pub.made = None
  PROVE  IInv'
<1>1. /\ CheckoutTypeInv' /\ LogGrows /\ JobInv'
      /\ job' = job /\ result' = result /\ published' = published
  BY JobStays DEF CheckoutStep, jobVars, Refused
<1>2. /\ pub' \in Pubs /\ pub'.pc = "idle"
      /\ pub'.made = pub.made /\ pub'.candidate = pub.candidate
  BY PubGoes DEF Refused, PubPlaces
<1>3. PubTypeInv'
  BY <1>1, <1>2 DEF IInv, PubTypeInv, LogGrows, CheckoutTypeInv
<1>4. PublishedInv'
  <2>1. late' \in BOOLEAN /\ (late => late')
    BY Zenon DEF IInv, PubTypeInv
  <2> QED
    BY <1>1, <1>2, <2>1, PublishedKept
<1>5. CandidateInv'
  BY <1>2 DEF CandidateInv, AfterHead
<1>6. UndisturbedInv'
  <2>1. strays' = {}
    BY DEF Refused, IInv, UndisturbedInv
  <2> QED
    BY <1>2, <2>1 DEF UndisturbedInv, OnTheBase, BeforeCommit, AfterCommit, AfterHead
<1> QED
  BY <1>1, <1>3, <1>4, <1>5, <1>6 DEF IInv, JobInv

(* A check that passes: what it adds is the place's own part of the invariant. *)
LEMMA PassesCorrect ==
  ASSUME IInv, pub.pc # "idle", UNCHANGED checkoutVars, Keeps, NothingOut,
         NEW l \in PubPlaces, Goto(l), CandidateInv', UndisturbedInv'
  PROVE  IInv'
<1>1. CheckoutStep /\ tree' = tree
  BY Unmoved DEF IInv, checkoutVars
<1>2. /\ CheckoutTypeInv' /\ LogGrows /\ JobInv'
      /\ job' = job /\ result' = result /\ published' = published
      /\ attempts' = attempts /\ disturbed' = disturbed /\ late' = late
  BY <1>1, JobStays DEF CheckoutStep, jobVars, Keeps, NothingOut
<1>3. /\ pub' \in Pubs /\ pub'.made = pub.made /\ pub'.candidate = pub.candidate
  BY PubGoes
<1>4. PubTypeInv'
  BY <1>2, <1>3 DEF IInv, PubTypeInv, LogGrows, CheckoutTypeInv
<1>5. PublishedInv'
  <2>1. late' \in BOOLEAN /\ (late => late')
    BY <1>2, Zenon DEF IInv, PubTypeInv
  <2> QED
    BY <1>1, <1>2, <2>1, PublishedKept
<1> QED
  BY <1>2, <1>4, <1>5 DEF IInv, JobInv

LEMMA BeginCorrect == IInv /\ BeginPublication => IInv'
<1> SUFFICES ASSUME IInv, BeginPublication PROVE IInv'
  OBVIOUS
<1>1. /\ pub.pc = "idle" /\ result # None /\ result.ready /\ attempts < MaxPublications
      /\ attempts' = attempts + 1 /\ disturbed' = FALSE
      /\ pub' = [pc |-> "base", made |-> None, candidate |-> None]
      /\ UNCHANGED <<checkoutVars, jobVars, published, strays, late>>
  BY DEF BeginPublication, PubAt
<1>2. CheckoutStep /\ tree' = tree
  BY <1>1, Unmoved DEF IInv, checkoutVars
<1>3. /\ CheckoutTypeInv' /\ LogGrows /\ JobInv' /\ UNCHANGED <<job, result>>
  BY <1>1, <1>2, JobStays DEF CheckoutStep, jobVars
<1>4. job.pc = "done"
  BY <1>1 DEF IInv, ResultInv
<1>5. pub'.pc = "base" /\ pub'.made = None /\ pub'.candidate = None
  BY <1>1
<1>6. PubTypeInv'
  <2>1. pub' \in Pubs
    BY <1>1 DEF Pubs, PubPlaces, BeforeCommit
  <2>2. disturbed' \in BOOLEAN
    BY <1>1, Zenon
  <2>3. attempts' \in 0..MaxPublications
    BY <1>1, PublicationsAssumption DEF IInv, PubTypeInv
  <2> QED
    BY <1>1, <1>3, <1>5, <2>1, <2>2, <2>3
       DEF IInv, PubTypeInv, LogGrows, CheckoutTypeInv
<1>7. PublishedInv'
  <2>1. ASSUME NEW c \in published
        PROVE  /\ c = result'.base + 1 /\ CommittedPaths(c)' = result'.paths
               /\ ~late' => Holds(c)'
    <3>1. c = result.base + 1 /\ CommittedPaths(c) = result.paths /\ (~late => Holds(c))
      BY <2>1 DEF IInv, PublishedInv
    <3>2. c \in 2..Len(log)
      BY <1>4, <2>1, <3>1, Done DEF IInv, PubTypeInv, CheckoutTypeInv
    <3> QED
      BY <1>1, <1>3, <3>1, <3>2, CommitKept
  <2> QED
    BY <1>1, <1>3, <1>4, <2>1 DEF PublishedInv
<1>8. CandidateInv'
  BY <1>5 DEF CandidateInv, AfterHead
<1>9. UndisturbedInv'
  BY <1>1, <1>5 DEF IInv, UndisturbedInv, OnTheBase, BeforeCommit, AfterCommit, AfterHead
<1> QED
  BY <1>3, <1>6, <1>7, <1>8, <1>9 DEF IInv, JobInv

-----------------------------------------------------------------------------
(* The checks before the commit. *)
LEMMA EarlyRefusal ==
  ASSUME IInv, pub.pc \in BeforeCommit, UNCHANGED checkoutVars, Keeps, Refused
  PROVE  IInv'
<1>1. CheckoutStep /\ tree' = tree
  BY Unmoved DEF IInv, checkoutVars
<1>2. pub.made = None
  BY DEF IInv, UndisturbedInv
<1>3. disturbed' \in BOOLEAN /\ UNCHANGED jobVars /\ UNCHANGED <<attempts, late>>
  BY Zenon DEF IInv, PubTypeInv, Keeps
<1>4. pub.pc # "idle"
  BY DEF BeforeCommit
<1> QED
  BY <1>1, <1>2, <1>3, <1>4, RefusedCorrect

LEMMA EarlyPass ==
  ASSUME IInv, pub.pc \in BeforeCommit, UNCHANGED checkoutVars, Keeps, NothingOut,
         NEW l \in BeforeCommit, Goto(l), ~disturbed => OnTheBase'
  PROVE  IInv'
<1>1. /\ pub'.pc = l /\ pub'.made = pub.made /\ l \in PubPlaces
  BY PubGoes DEF PubPlaces
<1>2. pub.pc # "idle" /\ l \notin AfterHead /\ l \notin AfterCommit
  BY DEF BeforeCommit, AfterHead, AfterCommit
<1>3. CandidateInv'
  BY <1>1, <1>2 DEF CandidateInv, AfterHead
<1>4. UndisturbedInv'
  BY <1>1, <1>2 DEF IInv, UndisturbedInv, NothingOut, Keeps
<1> QED
  BY <1>1, <1>2, <1>3, <1>4, PassesCorrect

LEMMA HandoffBaseCorrect == IInv /\ HandoffBase => IInv'
<1> SUFFICES ASSUME IInv, HandoffBase PROVE IInv'
  OBVIOUS
<1>1. pub.pc = "base" /\ UNCHANGED checkoutVars /\ Keeps
  BY DEF HandoffBase, Requires, PubAt
<1>2. pub.pc \in BeforeCommit /\ "paths" \in BeforeCommit /\ "paths" \in PubPlaces
  BY <1>1 DEF BeforeCommit, PubPlaces
<1>3. CASE OnBase /\ Goto("paths") /\ NothingOut
  <2>1. pub'.pc = "paths"
    BY <1>2, <1>3, PubGoes
  <2>2. Len(log') = result'.base
    BY <1>1, <1>3 DEF OnBase, HEAD, checkoutVars, Keeps, jobVars
  <2>3. OnTheBase'
    BY <2>1, <2>2 DEF OnTheBase
  <2> QED
    BY <1>1, <1>2, <1>3, <2>3, EarlyPass
<1>4. CASE Refused
  BY <1>1, <1>2, <1>4, EarlyRefusal
<1> QED
  BY <1>3, <1>4 DEF HandoffBase, Requires

LEMMA HandoffPathsCorrect == IInv /\ HandoffPaths => IInv'
<1> SUFFICES ASSUME IInv, HandoffPaths PROVE IInv'
  OBVIOUS
<1>1. pub.pc = "paths" /\ UNCHANGED checkoutVars /\ Keeps
  BY DEF HandoffPaths, Requires, PubAt
<1>2. pub.pc \in BeforeCommit /\ "digest" \in BeforeCommit /\ "digest" \in PubPlaces
  BY <1>1 DEF BeforeCommit, PubPlaces
<1>3. CASE SamePaths /\ Goto("digest") /\ NothingOut
  <2>1. pub'.pc = "digest"
    BY <1>2, <1>3, PubGoes
  <2>2. ~disturbed => Len(log) = result.base
    BY <1>1, <1>2 DEF IInv, UndisturbedInv, OnTheBase
  <2>3. log' = log /\ result' = result /\ ChangedPaths(result.base)' = result.paths
    BY <1>1, <1>3 DEF SamePaths, ChangedPaths, checkoutVars, Keeps, jobVars
  <2>4. ~disturbed => OnTheBase'
    BY <2>1, <2>2, <2>3 DEF OnTheBase
  <2> QED
    BY <1>1, <1>2, <1>3, <2>4, EarlyPass
<1>4. CASE Refused
  BY <1>1, <1>2, <1>4, EarlyRefusal
<1> QED
  BY <1>3, <1>4 DEF HandoffPaths, Requires

LEMMA HandoffDigestCorrect == IInv /\ HandoffDigest => IInv'
<1> SUFFICES ASSUME IInv, HandoffDigest PROVE IInv'
  OBVIOUS
<1>1. pub.pc = "digest" /\ UNCHANGED checkoutVars /\ Keeps
  BY DEF HandoffDigest, Requires, PubAt
<1>2. pub.pc \in BeforeCommit /\ "add" \in BeforeCommit /\ "add" \in PubPlaces
  BY <1>1 DEF BeforeCommit, PubPlaces
<1>3. CASE SameDigest /\ Goto("add") /\ NothingOut
  <2>1. pub'.pc = "add"
    BY <1>2, <1>3, PubGoes
  <2>2. ~disturbed => Len(log) = result.base /\ ChangedPaths(result.base) = result.paths
    BY <1>1, <1>2 DEF IInv, UndisturbedInv, OnTheBase
  <2>3. /\ log' = log /\ result' = result
        /\ ChangedPaths(result.base)' = ChangedPaths(result.base)
        /\ Digest(result.paths)' = result.digest
    BY <1>1, <1>3 DEF SameDigest, Digest, ChangedPaths, checkoutVars, Keeps, jobVars
  <2>4. ~disturbed => OnTheBase'
    BY <2>1, <2>2, <2>3 DEF OnTheBase
  <2> QED
    BY <1>1, <1>2, <1>3, <2>4, EarlyPass
<1>4. CASE Refused
  BY <1>1, <1>2, <1>4, EarlyRefusal
<1> QED
  BY <1>3, <1>4 DEF HandoffDigest, Requires

(* What is staged and was not handed off is caught: of the paths, the index    *)
(* holds the working tree, and beside them nothing has changed since the base. *)
LEMMA StageCorrect == IInv /\ StageCandidate => IInv'
<1> SUFFICES ASSUME IInv, StageCandidate PROVE IInv'
  OBVIOUS
<1>1. pub.pc = "add" /\ UNCHANGED <<tree, log, outside>> /\ Keeps
  BY DEF StageCandidate, PubAt
<1>2. pub.pc \in BeforeCommit /\ pub.pc # "idle" /\ "staged" \in PubPlaces
  BY <1>1 DEF BeforeCommit, PubPlaces
<1>3. CASE Stage(result.paths) /\ Goto("staged") /\ NothingOut
  <2>1. CheckoutStep
    BY <1>1, <1>3, StagedTyped DEF IInv, CheckoutTypeInv, CheckoutStep, LogGrows
  <2>2. /\ CheckoutTypeInv' /\ LogGrows /\ JobInv'
        /\ UNCHANGED <<job, result, published, attempts, disturbed, late, strays>>
    BY <1>1, <1>3, <2>1, JobStays DEF CheckoutStep, jobVars, Keeps, NothingOut
  <2>3. /\ pub' \in Pubs /\ pub'.pc = "staged"
        /\ pub'.made = pub.made /\ pub'.candidate = pub.candidate
    BY <1>2, <1>3, PubGoes
  <2>4. PubTypeInv'
    BY <2>2, <2>3 DEF IInv, PubTypeInv, LogGrows, CheckoutTypeInv
  <2>5. PublishedInv'
    <3>1. late' \in BOOLEAN /\ (late => late')
      BY <2>2, Zenon DEF IInv, PubTypeInv
    <3> QED
      BY <1>2, <2>1, <2>2, <3>1, PublishedKept
  <2>6. CandidateInv'
    BY <2>3 DEF CandidateInv, AfterHead
  <2>7. ~disturbed => OnTheBase'
    <3> SUFFICES ASSUME ~disturbed PROVE OnTheBase'
      OBVIOUS
    <3>1. /\ Len(log) = result.base /\ ChangedPaths(result.base) = result.paths
          /\ Digest(result.paths) = result.digest
      BY <1>1, <1>2 DEF IInv, UndisturbedInv, OnTheBase
    <3>2. Digest(result.paths)' = Digest(result.paths)
      BY <1>1, <2>2 DEF Digest
    <3>3. ASSUME NEW p \in Paths
          PROVE  IF p \in result'.paths THEN index'[p] = tree'[p]
                 ELSE /\ index'[p] = "ABSENT" => tree'[p] = "ABSENT" /\ log'[result'.base][p] = "ABSENT"
                      /\ index'[p] # "ABSENT" => tree'[p] = log'[result'.base][p]
      <4>1. index'[p] = IF p \in result.paths THEN tree[p] ELSE index[p]
        BY <1>3 DEF Stage
      <4>2. p \notin result.paths =>
              /\ index[p] = "ABSENT" => tree[p] = "ABSENT" /\ log[result.base][p] = "ABSENT"
              /\ index[p] # "ABSENT" => tree[p] = log[result.base][p]
        BY <3>1 DEF ChangedPaths
      <4> QED
        BY <1>1, <2>2, <4>1, <4>2
    <3> QED
      BY <1>1, <2>2, <2>3, <3>1, <3>2, <3>3 DEF OnTheBase
  <2>8. UndisturbedInv'
    BY <1>2, <2>2, <2>3, <2>7 DEF IInv, UndisturbedInv, AfterCommit, AfterHead
  <2> QED
    BY <2>2, <2>4, <2>5, <2>6, <2>8 DEF IInv, JobInv
<1>4. CASE UNCHANGED index /\ Refused
  BY <1>1, <1>2, <1>4, EarlyRefusal DEF checkoutVars
<1> QED
  BY <1>3, <1>4 DEF StageCandidate

LEMMA CheckStagedCorrect == IInv /\ CheckStaged => IInv'
<1> SUFFICES ASSUME IInv, CheckStaged PROVE IInv'
  OBVIOUS
<1>1. pub.pc = "staged" /\ UNCHANGED checkoutVars /\ Keeps
  BY DEF CheckStaged, Requires, PubAt
<1>2. pub.pc \in BeforeCommit /\ "commit" \in BeforeCommit /\ "commit" \in PubPlaces
  BY <1>1 DEF BeforeCommit, PubPlaces
<1>3. CASE StagedAsHandedOff /\ Goto("commit") /\ NothingOut
  <2>1. pub'.pc = "commit"
    BY <1>2, <1>3, PubGoes
  <2>2. ~disturbed => OnTheBase'
    <3> SUFFICES ASSUME ~disturbed PROVE OnTheBase'
      OBVIOUS
    <3>1. OnTheBase
      BY DEF IInv, UndisturbedInv
    <3>2. /\ Len(log) = result.base /\ Digest(result.paths) = result.digest
          /\ \A p \in Paths :
               IF p \in result.paths THEN index[p] = tree[p]
               ELSE /\ index[p] = "ABSENT" => tree[p] = "ABSENT" /\ log[result.base][p] = "ABSENT"
                    /\ index[p] # "ABSENT" => tree[p] = log[result.base][p]
      BY <1>1, <1>2, <3>1 DEF OnTheBase
    <3>3. StagedPaths = result.paths
      BY <1>3 DEF StagedAsHandedOff
    <3>4. \A p \in Paths : tree[p] = index[p]
      BY <3>2, <3>3 DEF StagedPaths, HEAD
    <3>5. tree = index
      BY <3>4 DEF IInv, CheckoutTypeInv, Trees
    <3>6. UNCHANGED <<tree, index, log, result>>
      BY <1>1 DEF checkoutVars, Keeps, jobVars
    <3>7. StagedPaths' = result'.paths /\ Digest(result.paths)' = result'.digest
      BY <3>2, <3>3, <3>6 DEF StagedPaths, HEAD, Digest
    <3> QED
      BY <2>1, <3>2, <3>5, <3>6, <3>7 DEF OnTheBase
  <2> QED
    BY <1>1, <1>2, <1>3, <2>2, EarlyPass
<1>4. CASE Refused
  BY <1>1, <1>2, <1>4, EarlyRefusal
<1> QED
  BY <1>3, <1>4 DEF CheckStaged, Requires

-----------------------------------------------------------------------------
(* The commit: undisturbed, it is the base's child and holds the whole tree. *)
LEMMA CommitCorrect == IInv /\ CommitCandidate => IInv'
<1> SUFFICES ASSUME IInv, CommitCandidate PROVE IInv'
  OBVIOUS
<1>1. pub.pc = "commit" /\ UNCHANGED <<tree, index, outside>> /\ Keeps
  BY DEF CommitCandidate, PubAt
<1>2. pub.pc \in BeforeCommit /\ pub.pc # "idle" /\ "head" \in PubPlaces
  BY <1>1 DEF BeforeCommit, PubPlaces, AfterCommit
<1>3. CASE /\ CanCommit /\ Commit /\ NothingOut
           /\ pub' = [pub EXCEPT !.pc = "head", !.made = HEAD + 1]
  <2>1. /\ log' \in Seq(Trees) /\ Len(log') \in 1..MaxCommits /\ LogGrows
        /\ Len(log') = Len(log) + 1 /\ log'[Len(log')] = index
    BY <1>3, CommitTyped DEF IInv
  <2>2. CheckoutStep
    BY <1>1, <2>1 DEF IInv, CheckoutTypeInv, CheckoutStep
  <2>3. /\ JobInv'
        /\ UNCHANGED <<job, result, published, attempts, disturbed, late, strays>>
    BY <1>1, <1>3, <2>2, JobStays DEF jobVars, Keeps, NothingOut
  <2>4. pub \in Pubs /\ Len(log) \in Nat /\ HEAD = Len(log)
    BY DEF IInv, PubTypeInv, CheckoutTypeInv, HEAD
  <2>5. /\ pub' \in Pubs /\ pub'.pc = "head"
        /\ pub'.made = Len(log') /\ pub'.candidate = pub.candidate
    <3>1. HEAD + 1 = Len(log') /\ HEAD + 1 \in Nat
      BY <2>1, <2>4
    <3> HIDE DEF HEAD
    <3> QED
      BY <1>2, <1>3, <2>4, <3>1 DEF Pubs
  <2>6. PubTypeInv'
    BY <2>1, <2>3, <2>4, <2>5 DEF IInv, PubTypeInv
  <2>7. PublishedInv'
    <3>1. late' \in BOOLEAN /\ (late => late')
      BY <2>3, Zenon DEF IInv, PubTypeInv
    <3> QED
      BY <1>2, <2>2, <2>3, <3>1, PublishedKept
  <2>8. CandidateInv'
    BY <2>5 DEF CandidateInv, AfterHead
  <2>9. ~disturbed => CommitStands'
    <3> SUFFICES ASSUME ~disturbed PROVE CommitStands'
      OBVIOUS
    <3>1. OnTheBase
      BY DEF IInv, UndisturbedInv
    <3>2. /\ Len(log) = result.base /\ Digest(result.paths) = result.digest
          /\ tree = index /\ StagedPaths = result.paths
      BY <1>1, <1>2, <3>1 DEF OnTheBase
    <3>3. Digest(result.paths)' = result'.digest
      BY <1>1, <2>3, <3>2 DEF Digest
    <3>4. log'[Len(log') - 1] = log[Len(log)]
      <4>1. Len(log) \in 1..Len(log) /\ Len(log') - 1 = Len(log)
        BY <2>1 DEF IInv, CheckoutTypeInv
      <4> QED
        BY <2>1, <4>1 DEF LogGrows
    <3>5. {p \in Paths : log'[Len(log')][p] # log'[Len(log') - 1][p]} = result.paths
      BY <2>1, <3>2, <3>4 DEF StagedPaths, HEAD
    <3>6. CommittedPaths(Len(log))' = result'.paths
      BY <2>3, <3>5 DEF CommittedPaths
    <3>7. pub'.pc \notin AfterHead
      BY <2>5 DEF AfterHead
    <3> QED
      BY <1>1, <2>1, <2>3, <2>5, <3>2, <3>3, <3>6, <3>7 DEF CommitStands
  <2>10. UndisturbedInv'
    BY <2>3, <2>5, <2>9 DEF IInv, UndisturbedInv, OnTheBase, BeforeCommit
  <2> QED
    BY <2>2, <2>3, <2>6, <2>7, <2>8, <2>10 DEF IInv, JobInv, CheckoutStep
<1>4. CASE UNCHANGED log /\ Refused
  BY <1>1, <1>2, <1>4, EarlyRefusal DEF checkoutVars
<1> QED
  BY <1>3, <1>4 DEF CommitCandidate

-----------------------------------------------------------------------------
(* The checks after the commit. *)
LEMMA ReadCandidateCorrect == IInv /\ ReadCandidate => IInv'
<1> SUFFICES ASSUME IInv, ReadCandidate PROVE IInv'
  OBVIOUS
<1>1. /\ pub.pc = "head" /\ pub' = [pub EXCEPT !.pc = "parent", !.candidate = HEAD]
      /\ NothingOut /\ UNCHANGED checkoutVars /\ Keeps
  BY DEF ReadCandidate, PubAt
<1>2. CheckoutStep /\ tree' = tree /\ index' = index /\ log' = log
  BY <1>1, Unmoved DEF IInv, checkoutVars
<1>3. /\ CheckoutTypeInv' /\ LogGrows /\ JobInv'
      /\ UNCHANGED <<job, result, published, attempts, disturbed, late, strays>>
  BY <1>1, <1>2, JobStays DEF CheckoutStep, jobVars, Keeps, NothingOut
<1>4. pub \in Pubs /\ HEAD \in 1..Len(log) /\ HEAD \in Nat /\ HEAD = Len(log)
  BY DEF IInv, PubTypeInv, CheckoutTypeInv, HEAD
<1>5. /\ pub' \in Pubs /\ pub'.pc = "parent" /\ pub'.made = pub.made
      /\ pub'.candidate = Len(log)
  BY <1>1, <1>4 DEF Pubs, PubPlaces, AfterCommit, AfterHead
<1>6. PubTypeInv'
  BY <1>2, <1>3, <1>4, <1>5 DEF IInv, PubTypeInv
<1>7. PublishedInv'
  <2>1. late' \in BOOLEAN /\ (late => late')
    BY <1>3, Zenon DEF IInv, PubTypeInv
  <2> QED
    BY <1>1, <1>2, <1>3, <2>1, PublishedKept
<1>8. CandidateInv'
  BY <1>2, <1>4, <1>5 DEF CandidateInv, AfterHead
<1>9. ~disturbed => CommitStands'
  <2> SUFFICES ASSUME ~disturbed PROVE CommitStands'
    OBVIOUS
  <2>1. CommitStands
    BY <1>1 DEF IInv, UndisturbedInv, AfterCommit
  <2>2. /\ CommittedPaths(Len(log))' = CommittedPaths(Len(log))
        /\ Digest(result.paths)' = Digest(result.paths)
    BY <1>2, <1>3 DEF CommittedPaths, Digest
  <2> QED
    BY <1>2, <1>3, <1>5, <2>1, <2>2 DEF CommitStands
<1>10. UndisturbedInv'
  BY <1>3, <1>5, <1>9 DEF IInv, UndisturbedInv, OnTheBase, BeforeCommit
<1> QED
  BY <1>3, <1>6, <1>7, <1>8, <1>10 DEF IInv, JobInv

(* Undisturbed, the commit stands at every place after it, *)
LEMMA Undisturbed ==
  ASSUME IInv, pub.pc \in AfterHead, ~disturbed
  PROVE  CommitStands /\ pub.candidate = Len(log) /\ pub.made = pub.candidate
BY DEF IInv, UndisturbedInv, AfterCommit, CommitStands

(* so that a check that fails says that somebody else was about. *)
LEMMA LateRefusal ==
  ASSUME IInv, pub.pc \in AfterHead, UNCHANGED checkoutVars, Keeps, Refused, disturbed
  PROVE  IInv'
<1>1. CheckoutStep /\ tree' = tree
  BY Unmoved DEF IInv, checkoutVars
<1>2. disturbed' \in BOOLEAN /\ disturbed' /\ UNCHANGED jobVars /\ UNCHANGED <<attempts, late>>
  BY Zenon DEF IInv, PubTypeInv, Keeps
<1>3. pub.pc # "idle"
  BY DEF AfterHead
<1> QED
  BY <1>1, <1>2, <1>3, RefusedCorrect

LEMMA LatePass ==
  ASSUME IInv, pub.pc \in AfterHead, UNCHANGED checkoutVars, Keeps, NothingOut,
         NEW l \in AfterHead, Goto(l), CandidateInv'
  PROVE  IInv'
<1>1. l \in PubPlaces /\ l \notin BeforeCommit /\ l # "idle" /\ pub.pc # "idle"
  BY DEF PubPlaces, AfterHead, AfterCommit, BeforeCommit
<1>2. pub'.pc = l /\ pub'.made = pub.made /\ pub'.candidate = pub.candidate
  BY <1>1, PubGoes
<1>3. UNCHANGED <<tree, index, log, result, disturbed, strays>>
  BY DEF checkoutVars, Keeps, jobVars, NothingOut
<1>4. ~disturbed => CommitStands'
  <2> SUFFICES ASSUME ~disturbed PROVE CommitStands'
    OBVIOUS
  <2>1. CommitStands /\ pub.candidate = Len(log)
    BY Undisturbed
  <2>2. /\ CommittedPaths(Len(log))' = CommittedPaths(Len(log))
        /\ Digest(result.paths)' = Digest(result.paths)
    BY <1>3 DEF CommittedPaths, Digest
  <2> QED
    BY <1>2, <1>3, <2>1, <2>2 DEF CommitStands
<1>5. OnTheBase'
  BY <1>1, <1>2 DEF OnTheBase, BeforeCommit
<1>6. UndisturbedInv'
  BY <1>1, <1>2, <1>3, <1>4, <1>5 DEF IInv, UndisturbedInv
<1> QED
  BY <1>1, <1>6, PassesCorrect

LEMMA CheckParentCorrect == IInv /\ CheckParent => IInv'
<1> SUFFICES ASSUME IInv, CheckParent PROVE IInv'
  OBVIOUS
<1>1. pub.pc = "parent" /\ UNCHANGED checkoutVars /\ Keeps
  BY DEF CheckParent, Requires, PubAt
<1>2. pub.pc \in AfterHead /\ "committed" \in AfterHead /\ "committed" \in PubPlaces
  BY <1>1 DEF AfterHead, AfterCommit, PubPlaces
<1>3. job.pc = "done" /\ result.base \in Nat /\ Len(log) \in Nat
  BY <1>1, Done DEF IInv, PublishedInv, CheckoutTypeInv
<1>4. pub.candidate \in 1..Len(log)
  BY <1>2 DEF IInv, CandidateInv
<1>5. CASE ParentIsBase /\ Goto("committed") /\ NothingOut
  <2>1. pub'.pc = "committed" /\ pub'.candidate = pub.candidate
    BY <1>2, <1>5, PubGoes
  <2>2. pub.candidate = result.base + 1
    BY <1>3, <1>4, <1>5 DEF ParentIsBase
  <2>3. log' = log /\ result' = result
    BY <1>1 DEF checkoutVars, Keeps, jobVars
  <2>4. CandidateInv'
    BY <1>4, <2>1, <2>2, <2>3 DEF CandidateInv
  <2> QED
    BY <1>1, <1>2, <1>5, <2>4, LatePass
<1>6. CASE ~ParentIsBase /\ Refused
  <2>1. disturbed
    <3> SUFFICES ASSUME ~disturbed PROVE ParentIsBase
      BY <1>6
    <3> QED
      BY <1>2, <1>3, Undisturbed DEF CommitStands, ParentIsBase
  <2> QED
    BY <1>1, <1>2, <1>6, <2>1, LateRefusal
<1> QED
  BY <1>5, <1>6 DEF CheckParent, Requires

LEMMA CheckCommittedCorrect == IInv /\ CheckCommitted => IInv'
<1> SUFFICES ASSUME IInv, CheckCommitted PROVE IInv'
  OBVIOUS
<1>1. pub.pc = "committed" /\ UNCHANGED checkoutVars /\ Keeps
  BY DEF CheckCommitted, Requires, PubAt
<1>2. pub.pc \in AfterHead /\ "dirty" \in AfterHead /\ "dirty" \in PubPlaces
  BY <1>1 DEF AfterHead, AfterCommit, PubPlaces
<1>3. pub.candidate \in 1..Len(log) /\ pub.candidate = result.base + 1
  BY <1>1, <1>2 DEF IInv, CandidateInv
<1>4. CASE CommittedAsHandedOff /\ Goto("dirty") /\ NothingOut
  <2>1. pub'.pc = "dirty" /\ pub'.candidate = pub.candidate
    BY <1>2, <1>4, PubGoes
  <2>2. log' = log /\ result' = result
    BY <1>1 DEF checkoutVars, Keeps, jobVars
  <2>3. CommittedPaths(pub.candidate)' = result'.paths
    BY <1>4, <2>1, <2>2 DEF CommittedAsHandedOff, CommittedPaths
  <2>4. CandidateInv'
    BY <1>3, <2>1, <2>2, <2>3 DEF CandidateInv
  <2> QED
    BY <1>1, <1>2, <1>4, <2>4, LatePass
<1>5. CASE ~CommittedAsHandedOff /\ Refused
  <2>1. disturbed
    <3> SUFFICES ASSUME ~disturbed PROVE CommittedAsHandedOff
      BY <1>5
    <3> QED
      BY <1>2, Undisturbed DEF CommitStands, CommittedAsHandedOff
  <2> QED
    BY <1>1, <1>2, <1>5, <2>1, LateRefusal
<1> QED
  BY <1>4, <1>5 DEF CheckCommitted, Requires

(* That git finds no change since the candidate makes the tree the candidate. *)
LEMMA CheckDirtyCorrect == IInv /\ CheckDirty => IInv'
<1> SUFFICES ASSUME IInv, CheckDirty PROVE IInv'
  OBVIOUS
<1>1. pub.pc = "dirty" /\ UNCHANGED checkoutVars /\ Keeps
  BY DEF CheckDirty, Requires, PubAt
<1>2. pub.pc \in AfterHead /\ "verify" \in AfterHead /\ "verify" \in PubPlaces
  BY <1>1 DEF AfterHead, AfterCommit, PubPlaces
<1>3. /\ pub.candidate \in 1..Len(log) /\ pub.candidate = result.base + 1
      /\ CommittedPaths(pub.candidate) = result.paths
  BY <1>1, <1>2 DEF IInv, CandidateInv
<1>4. CASE NothingElseChanged /\ Goto("verify") /\ NothingOut
  <2>1. pub'.pc = "verify" /\ pub'.candidate = pub.candidate
    BY <1>2, <1>4, PubGoes
  <2>2. log' = log /\ result' = result /\ tree' = tree
    BY <1>1 DEF checkoutVars, Keeps, jobVars
  <2>3. CommittedPaths(pub.candidate)' = result'.paths
    BY <1>3, <2>1, <2>2 DEF CommittedPaths
  <2>4. tree = log[pub.candidate]
    <3>1. \A p \in Paths : tree[p] = log[pub.candidate][p]
      BY <1>4 DEF NothingElseChanged, ChangedPaths
    <3>2. tree \in Trees /\ log[pub.candidate] \in Trees
      BY <1>3 DEF IInv, CheckoutTypeInv
    <3> QED
      BY <3>1, <3>2 DEF Trees
  <2>5. CandidateInv'
    BY <1>3, <2>1, <2>2, <2>3, <2>4 DEF CandidateInv
  <2> QED
    BY <1>1, <1>2, <1>4, <2>5, LatePass
<1>5. CASE ~NothingElseChanged /\ Refused
  <2>1. disturbed
    <3> SUFFICES ASSUME ~disturbed PROVE NothingElseChanged
      BY <1>5
    <3>1. pub.candidate = Len(log) /\ tree = log[Len(log)] /\ index = log[Len(log)]
      BY <1>2, Undisturbed DEF CommitStands
    <3> QED
      BY <3>1 DEF NothingElseChanged, ChangedPaths
  <2> QED
    BY <1>1, <1>2, <1>5, <2>1, LateRefusal
<1> QED
  BY <1>4, <1>5 DEF CheckDirty, Requires

(* A publication that goes through: its commit holds what the digest says,     *)
(* unless the tree was written after git looked at it.                         *)
LEMMA VerifyCorrect == IInv /\ Verify => IInv'
<1> SUFFICES ASSUME IInv, Verify PROVE IInv'
  OBVIOUS
<1>1. pub.pc = "verify" /\ UNCHANGED checkoutVars /\ Keeps
  BY DEF Verify, PubAt
<1>2. pub.pc \in AfterHead /\ pub.pc # "idle" /\ "idle" \in PubPlaces
  BY <1>1 DEF AfterHead, PubPlaces
<1>3. /\ pub.candidate \in 1..Len(log) /\ pub.candidate = result.base + 1
      /\ CommittedPaths(pub.candidate) = result.paths
      /\ ~late => tree = log[pub.candidate]
  BY <1>1, <1>2 DEF IInv, CandidateInv
<1>4. CASE /\ SameDigest /\ Goto("idle") /\ published' = published \cup {pub.candidate}
           /\ strays' = IF disturbed THEN strays ELSE strays \cup ({pub.made} \ {pub.candidate})
  <2>1. CheckoutStep /\ tree' = tree /\ log' = log
    BY <1>1, Unmoved DEF IInv, checkoutVars
  <2>2. /\ CheckoutTypeInv' /\ LogGrows /\ JobInv'
        /\ UNCHANGED <<job, result, attempts, disturbed, late>>
    BY <1>1, <2>1, JobStays DEF CheckoutStep, jobVars, Keeps
  <2>3. /\ pub' \in Pubs /\ pub'.pc = "idle"
        /\ pub'.made = pub.made /\ pub'.candidate = pub.candidate
    BY <1>2, <1>4, PubGoes
  <2>4. PubTypeInv'
    BY <1>3, <1>4, <2>1, <2>2, <2>3 DEF IInv, PubTypeInv
  <2>5. job.pc = "done"
    BY <1>2 DEF IInv, PublishedInv
  <2>6. ~late => Holds(pub.candidate)
    BY <1>3, <1>4 DEF SameDigest, Digest, Holds
  <2>7. ASSUME NEW c \in published'
        PROVE  /\ c = result'.base + 1 /\ CommittedPaths(c)' = result'.paths
               /\ ~late' => Holds(c)'
    <3>1. c = result.base + 1 /\ CommittedPaths(c) = result.paths /\ (~late => Holds(c))
      <4>1. CASE c \in published
        BY <4>1 DEF IInv, PublishedInv
      <4>2. CASE c = pub.candidate
        BY <1>3, <2>6, <4>2
      <4> QED
        BY <1>4, <2>7, <4>1, <4>2
    <3> QED
      BY <2>1, <2>2, <3>1 DEF CommittedPaths, Holds
  <2>8. PublishedInv'
    BY <2>2, <2>5, <2>7 DEF PublishedInv
  <2>9. CandidateInv'
    BY <2>3 DEF CandidateInv, AfterHead
  <2>10. strays' = {}
    <3>1. strays = {}
      BY DEF IInv, UndisturbedInv
    <3>2. ~disturbed => pub.made = pub.candidate
      BY <1>2, Undisturbed
    <3> QED
      BY <1>4, <3>1, <3>2
  <2>11. UndisturbedInv'
    BY <2>3, <2>10 DEF UndisturbedInv, OnTheBase, BeforeCommit, AfterCommit, AfterHead
  <2> QED
    BY <2>2, <2>4, <2>8, <2>9, <2>11 DEF IInv, JobInv
<1>5. CASE ~SameDigest /\ Refused
  <2>1. disturbed
    <3> SUFFICES ASSUME ~disturbed PROVE SameDigest
      BY <1>5
    <3> QED
      BY <1>2, Undisturbed DEF CommitStands, SameDigest
  <2> QED
    BY <1>1, <1>2, <1>5, <2>1, LateRefusal
<1> QED
  BY <1>4, <1>5 DEF Verify

LEMMA DiesCorrect == IInv /\ PublisherDies => IInv'
<1> SUFFICES ASSUME IInv, PublisherDies PROVE IInv'
  OBVIOUS
<1>1. /\ pub.pc # "idle" /\ disturbed' = TRUE /\ Refused
      /\ UNCHANGED <<checkoutVars, jobVars, attempts, late>>
  BY DEF PublisherDies, PubAt
<1>2. CheckoutStep /\ tree' = tree
  BY <1>1, Unmoved DEF IInv, checkoutVars
<1>3. disturbed' \in BOOLEAN /\ disturbed'
  BY <1>1, Zenon
<1> QED
  BY <1>1, <1>2, <1>3, RefusedCorrect

-----------------------------------------------------------------------------
(* Somebody else's change is noted, wherever the job and the publication are. *)
LEMMA SomeoneElseCorrect == IInv /\ SomeoneElse => IInv'
<1> SUFFICES ASSUME IInv, SomeoneElse PROVE IInv'
  OBVIOUS
<1>1. /\ Outside /\ touched' = (touched \/ (~JobAt("done") /\ tree' # tree))
      /\ disturbed' = TRUE /\ late' = (late \/ (PubAt("verify") /\ tree' # tree))
      /\ UNCHANGED <<job, result, approved, pub, attempts, published, strays>>
  BY DEF SomeoneElse
<1>2. CheckoutStep /\ CheckoutTypeInv' /\ LogGrows
  BY <1>1, OutsideTyped DEF IInv, CheckoutStep
<1>3. touched' \in BOOLEAN /\ late' \in BOOLEAN /\ disturbed' \in BOOLEAN /\ disturbed'
  BY <1>1, Zenon DEF IInv, PubTypeInv, JobTypeInv
<1>4. /\ touched => touched'
      /\ late => late'
      /\ ~touched' /\ job.pc # "done" => tree' = tree
      /\ ~late' /\ pub.pc = "verify" => tree' = tree
      /\ job.pc = "done" /\ ~touched' => ~touched
  BY <1>1 DEF JobAt, PubAt
<1>5. JobTypeInv'
  BY <1>1, <1>2, <1>3 DEF IInv, JobTypeInv, LogGrows, CheckoutTypeInv
<1>6. PathInv'
  BY <1>1 DEF IInv, PathInv, InsideBoundary
<1>7. ValidatedInv'
  BY <1>1, <1>4 DEF IInv, ValidatedInv
<1>8. ResultInv'
  BY <1>1, <1>4 DEF IInv, ResultInv, Reported, ValidResult, Failed, ComputeReady
<1>9. PubTypeInv'
  BY <1>1, <1>2, <1>3 DEF IInv, PubTypeInv, LogGrows, CheckoutTypeInv
<1>10. PublishedInv'
  <2>1. pub.pc # "idle" \/ published # {} \/ pub'.pc = "idle"
    BY <1>1
  <2> QED
    BY <1>1, <1>2, <1>3, <1>4, <2>1, PublishedKept
<1>11. CandidateInv'
  <2>1. pub'.pc \in AfterHead => pub'.candidate \in 1..Len(log')
    BY <1>1, <1>2 DEF IInv, CandidateInv, LogGrows, CheckoutTypeInv
  <2>2. pub'.pc \in {"committed", "dirty", "verify"} => pub'.candidate = result'.base + 1
    BY <1>1 DEF IInv, CandidateInv
  <2>3. ASSUME pub.pc \in {"dirty", "verify"}
        PROVE  CommittedPaths(pub.candidate)' = result'.paths
    <3>1. pub.pc \in AfterHead /\ pub.pc # "idle"
      BY <2>3 DEF AfterHead
    <3>2. job.pc = "done" /\ Len(log) \in Nat
      BY <3>1 DEF IInv, PublishedInv, CheckoutTypeInv
    <3>3. pub.candidate \in 1..Len(log) /\ pub.candidate = result.base + 1
      BY <2>3, <3>1 DEF IInv, CandidateInv
    <3>4. pub.candidate \in 2..Len(log)
      BY <3>2, <3>3, Done
    <3>5. CommittedPaths(pub.candidate) = result.paths
      BY <2>3 DEF IInv, CandidateInv
    <3>6. log'[pub.candidate] = log[pub.candidate] /\ log'[pub.candidate - 1] = log[pub.candidate - 1]
      BY <1>2, <3>2, <3>4 DEF LogGrows
    <3> QED
      BY <1>1, <3>5, <3>6 DEF CommittedPaths
  <2>4. pub'.pc = "verify" /\ ~late' => tree' = log'[pub'.candidate]
    <3> SUFFICES ASSUME pub.pc = "verify", ~late' PROVE tree' = log'[pub.candidate]
      BY <1>1
    <3>1. pub.pc \in AfterHead /\ ~late
      BY <1>4 DEF AfterHead
    <3>2. pub.candidate \in 1..Len(log) /\ tree = log[pub.candidate]
      BY <3>1 DEF IInv, CandidateInv
    <3> QED
      BY <1>2, <1>4, <3>2 DEF LogGrows
  <2> QED
    BY <1>1, <2>1, <2>2, <2>3, <2>4 DEF CandidateInv
<1>12. UndisturbedInv'
  BY <1>1, <1>3 DEF IInv, UndisturbedInv
<1> QED
  BY <1>2, <1>5, <1>6, <1>7, <1>8, <1>9, <1>10, <1>11, <1>12 DEF IInv

LEMMA Stutter == IInv /\ UNCHANGED vars => IInv'
<1> SUFFICES ASSUME IInv, UNCHANGED vars PROVE IInv'
  OBVIOUS
<1> USE DEF vars, checkoutVars, jobVars, pubVars
<1>1. CheckoutStep /\ tree' = tree /\ UNCHANGED jobVars
  BY Unmoved DEF IInv
<1>2. CheckoutTypeInv' /\ JobInv' /\ LogGrows
  BY <1>1, JobStays DEF CheckoutStep
<1>3. PubTypeInv' /\ CandidateInv'
  BY DEF IInv, PubTypeInv, CandidateInv, CommittedPaths
<1>4. PublishedInv'
  BY DEF IInv, PublishedInv, CommittedPaths, Holds
<1>5. UndisturbedInv'
  BY DEF IInv, UndisturbedInv, OnTheBase, CommitStands, ChangedPaths, StagedPaths, HEAD,
     CommittedPaths, Digest
<1> QED
  BY <1>2, <1>3, <1>4, <1>5 DEF IInv, JobInv

-----------------------------------------------------------------------------
(* The invariant holds of every reachable state: of a job of any engine and its *)
(* publications, whatever Codex, a trusted command or somebody else does.       *)
THEOREM PublicationCorrect == Spec => []IInv
<1>1. Init => IInv
  BY InitCorrect
<1>2. IInv /\ [Next]_vars => IInv'
  BY JobStepCorrect, BeginCorrect, HandoffBaseCorrect, HandoffPathsCorrect,
     HandoffDigestCorrect, StageCorrect, CheckStagedCorrect, CommitCorrect,
     ReadCandidateCorrect, CheckParentCorrect, CheckCommittedCorrect, CheckDirtyCorrect,
     VerifyCorrect, DiesCorrect, SomeoneElseCorrect, Stutter DEF Next
<1> QED
  BY <1>1, <1>2, PTL DEF Spec

(* The state has its types.  [the records of worker_result.py and               *)
(* local_git_publisher.py]                                                      *)
THEOREM PublicationTyped == Spec => []TypeOK
<1>1. IInv => TypeOK
  <2> SUFFICES ASSUME IInv PROVE TypeOK
    OBVIOUS
  <2>1. \A c \in 1..Len(log) : log[c] \in Trees
    BY DEF IInv, CheckoutTypeInv
  <2>2. /\ job.engine \in Engines /\ job.target \in Targets
        /\ job.base \in 1..HEAD /\ job.paths \subseteq Paths /\ job.repairs \in 0..1
        /\ {job.patch, job.quick, job.full} \subseteq Verdicts
    BY DEF IInv, JobTypeInv, Jobs, HEAD
  <2>3. strays = {}
    BY DEF IInv, UndisturbedInv
  <2> QED
    BY <2>1, <2>2, <2>3 DEF IInv, CheckoutTypeInv, PubTypeInv, HEAD, TypeOK
<1> QED
  BY <1>1, PublicationCorrect, PTL

(* Every result a job builds passes validate_worker_result, whatever boundary   *)
(* the job ended at.  [worker_result.py validate_worker_result, called at the   *)
(* end of local_worker_harness.py _failure_result and _run_fixture_job]         *)
THEOREM ResultsProven == Spec => []ResultsValidate
<1>1. IInv => ResultsValidate
  BY DEF IInv, ResultInv, ResultsValidate
<1> QED
  BY <1>1, PublicationCorrect, PTL

(* A published commit lies directly on the task's base and changes only paths   *)
(* the task allows.  [local_git_publisher.py publish_local_candidate's parent   *)
(* and committed-path checks on top of validate_patch_boundary]                 *)
THEOREM BoundsProven == Spec => []PublishedBounded
<1>1. IInv => PublishedBounded
  <2> SUFFICES ASSUME IInv, NEW c \in published
               PROVE  c - 1 = result.base /\ CommittedPaths(c) \subseteq Allowed
    BY DEF PublishedBounded
  <2>1. job.pc = "done" /\ c = result.base + 1 /\ CommittedPaths(c) = result.paths
    BY DEF IInv, PublishedInv
  <2>2. result.base \in Nat
    BY <2>1, Done
  <2>3. InsideBoundary(job.paths) /\ result.paths = job.paths
    BY <2>1 DEF IInv, PathInv, Bounded, ResultInv, Reported
  <2>4. job.paths \subseteq Allowed
    BY <2>3, PathsAssumption DEF InsideBoundary
  <2> QED
    BY <2>1, <2>2, <2>3, <2>4
<1> QED
  BY <1>1, PublicationCorrect, PTL

(* A published commit holds, path by path, what the last validation saw, and a  *)
(* fixture task's path its target state, unless the tree was written between    *)
(* that validation and the digest, or between the publisher's last two looks.   *)
(* [candidate_content_digest against repository_handoff.py and the checks after *)
(* the commit]                                                                  *)
THEOREM ContentsProven == Spec => []PublishedWasValidated
<1>1. IInv => PublishedWasValidated
  <2> SUFFICES ASSUME IInv, NEW c \in published, ~touched, ~late, NEW p \in result.paths
               PROVE  /\ log[c][p] = approved[p]
                      /\ p = Fixture /\ job.engine # "code" => log[c][p] = job.target
    BY DEF PublishedWasValidated
  <2>1. job.pc = "done" /\ log[c][p] = result.digest[p]
    BY DEF IInv, PublishedInv, Holds
  <2>2. /\ result.digest[p] = approved[p]
        /\ p = Fixture /\ job.engine # "code" => result.digest[p] = job.target
    BY <2>1 DEF IInv, ResultInv, Reported
  <2> QED
    BY <2>1, <2>2
<1> QED
  BY <1>1, PublicationCorrect, PTL

(* The publisher never leaves a commit behind that it does not return, except   *)
(* when it died or somebody else changed the checkout while it ran.             *)
(* [local_git_publisher.py:75 "Rebuild immediately before staging so a stale or *)
(* tampered candidate fails closed"]                                            *)
THEOREM StraysProven == Spec => []StraysExplained
<1>1. IInv => StraysExplained
  BY DEF IInv, UndisturbedInv, StraysExplained
<1> QED
  BY <1>1, PublicationCorrect, PTL
=============================================================================

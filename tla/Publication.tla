----------------------------- MODULE Publication ----------------------------
(* From a Worker Result to a local commit: repository_handoff compares the     *)
(* result with the checkout again, and local_git_publisher stages, commits and *)
(* verifies what it committed.  Nothing is rolled back: a publication that     *)
(* fails after its commit leaves the commit, and the next one starts over.     *)
EXTENDS WorkerJob

CONSTANT MaxPublications   \* how often somebody publishes the result

ASSUME PublicationsAssumption == MaxPublications \in Nat

VARIABLES
  pub,         \* where the publication is
  attempts,    \* publications started
  published,   \* the commits publications have returned
  strays,      \* the commits they made and did not return, though undisturbed
  disturbed,   \* somebody else has changed the checkout during this publication
  late         \* one was changed between its last two looks at the checkout

pubVars == <<pub, attempts, published, strays, disturbed, late>>
vars == <<checkoutVars, jobVars, pubVars>>

PublicationInit ==
  /\ pub = [pc |-> "idle", made |-> None, candidate |-> None]
  /\ attempts = 0
  /\ published = {} /\ strays = {}
  /\ disturbed = FALSE /\ late = FALSE

Init == CheckoutInit /\ JobInit /\ PublicationInit

PubAt(l) == pub.pc = l
Goto(l) == pub' = [pub EXCEPT !.pc = l]

Keeps == UNCHANGED <<jobVars, attempts, disturbed, late>>
NothingOut == UNCHANGED <<published, strays>>

(* The publication ends without a result: a commit it made stays. *)
Refused ==
  /\ Goto("idle")
  /\ strays' = IF disturbed' \/ pub.made = None THEN strays ELSE strays \cup {pub.made}
  /\ UNCHANGED published

(* Checks a condition the rest of the publication relies on. *)
Requires(l, condition, next) ==
  /\ PubAt(l)
  /\ UNCHANGED checkoutVars /\ Keeps
  /\ IF condition THEN Goto(next) /\ NothingOut ELSE Refused

-----------------------------------------------------------------------------
(* build_repository_handoff: the result is valid, ready and not yet committed. *)
(* One that is not ready raises and changes nothing.                           *)
BeginPublication ==
  /\ PubAt("idle") /\ attempts < MaxPublications
  /\ result # None
  /\ ValidResult(result) /\ result.ready /\ result.workspace = "dirty-candidate"
  /\ attempts' = attempts + 1
  /\ pub' = [pc |-> "base", made |-> None, candidate |-> None]
  /\ disturbed' = FALSE
  /\ UNCHANGED <<checkoutVars, jobVars, published, strays, late>>

OnBase == HEAD = result.base

SamePaths == ChangedPaths(result.base) = result.paths

(* Mutant: the digest of the handoff is taken to stand. *)
SameDigestAtHandoff == PubAt("digest") => Digest(result.paths) = result.digest
SameDigest == Digest(result.paths) = result.digest

HandoffBase   == Requires("base", OnBase, "paths")
HandoffPaths  == Requires("paths", SamePaths, "digest")
HandoffDigest == Requires("digest", SameDigest, "add")

(* git add -A -- paths. *)
StageCandidate ==
  /\ PubAt("add")
  /\ UNCHANGED <<tree, log, outside>> /\ Keeps
  /\ IF CanStage(result.paths)
     THEN Stage(result.paths) /\ Goto("staged") /\ NothingOut
     ELSE UNCHANGED index /\ Refused

(* Mutant: whatever else is staged is taken along. *)
StagedTogether == result.paths \subseteq StagedPaths
StagedAsHandedOff == StagedPaths = result.paths

CheckStaged == Requires("staged", StagedAsHandedOff, "commit")

(* git commit may be refused, by a hook or because nothing is staged any more. *)
CommitCandidate ==
  /\ PubAt("commit")
  /\ UNCHANGED <<tree, index, outside>> /\ Keeps
  /\ \/ /\ CanCommit
        /\ Commit
        /\ pub' = [pub EXCEPT !.pc = "head", !.made = HEAD + 1]
        /\ NothingOut
     \/ UNCHANGED log /\ Refused

(* The candidate is HEAD as read after the commit, whoever made it. *)
ReadCandidate ==
  /\ PubAt("head")
  /\ pub' = [pub EXCEPT !.pc = "parent", !.candidate = HEAD]
  /\ NothingOut
  /\ UNCHANGED checkoutVars /\ Keeps

(* Mutant: the base may be any ancestor of the candidate. *)
BaseIsAncestor == pub.candidate > result.base
ParentIsBase == pub.candidate - 1 = result.base
CommittedAsHandedOff == CommittedPaths(pub.candidate) = result.paths
NothingElseChanged == ChangedPaths(pub.candidate) = {}

CheckParent    == Requires("parent", ParentIsBase, "committed")
CheckCommitted == Requires("committed", CommittedAsHandedOff, "dirty")
CheckDirty     == Requires("dirty", NothingElseChanged, "verify")

(* The digest of the working tree is compared once more, and the commit goes   *)
(* out with the committed result.                                              *)
Verify ==
  /\ PubAt("verify")
  /\ UNCHANGED checkoutVars /\ Keeps
  /\ IF SameDigest
     THEN /\ Goto("idle")
          /\ published' = published \cup {pub.candidate}
          /\ strays' = IF disturbed THEN strays ELSE strays \cup ({pub.made} \ {pub.candidate})
     ELSE Refused

(* The publishing process dies. *)
PublisherDies ==
  /\ ~PubAt("idle")
  /\ disturbed' = TRUE
  /\ Refused
  /\ UNCHANGED <<checkoutVars, jobVars, attempts, late>>

SomeoneElse ==
  /\ Outside
  /\ touched' = (touched \/ (~JobAt("done") /\ tree' # tree))
  /\ disturbed' = TRUE
  /\ late' = (late \/ (PubAt("verify") /\ tree' # tree))
  /\ UNCHANGED <<job, result, approved, pub, attempts, published, strays>>

JobStep == JobNext /\ UNCHANGED pubVars

Next ==
  \/ JobStep \/ BeginPublication \/ HandoffBase \/ HandoffPaths \/ HandoffDigest
  \/ StageCandidate \/ CheckStaged \/ CommitCandidate \/ ReadCandidate
  \/ CheckParent \/ CheckCommitted \/ CheckDirty \/ Verify
  \/ PublisherDies \/ SomeoneElse

Spec == Init /\ [][Next]_vars

-----------------------------------------------------------------------------
(* The state has its types.  [the records of worker_result.py and              *)
(* local_git_publisher.py, and what git may show them]                         *)
TypeOK ==
  /\ tree \in Trees /\ index \in Trees
  /\ Len(log) \in 1..MaxCommits /\ \A c \in 1..Len(log) : log[c] \in Trees
  /\ outside \in 0..MaxOutside /\ attempts \in 0..MaxPublications
  /\ job.engine \in Engines /\ job.target \in Targets
  /\ job.base \in 1..HEAD /\ job.paths \subseteq Paths /\ job.repairs \in 0..1
  /\ {job.patch, job.quick, job.full} \subseteq Verdicts
  /\ pub.candidate \in {None} \cup 1..HEAD /\ pub.made \in {None} \cup 1..HEAD
  /\ published \cup strays \subseteq 1..HEAD

(* Every result the jobs build passes validate_worker_result, whatever boundary *)
(* it ended at: the validator raises an error the harness's main does not       *)
(* catch, and the job would end without a result.  [worker_result.py            *)
(* validate_worker_result, called at the end of local_worker_harness.py         *)
(* _failure_result and _run_fixture_job]                                        *)
ResultsValidate == result # None => ValidResult(result)

(* A published commit lies directly on the task's base and changes only paths   *)
(* the task allows, whatever the worker, its repair or somebody else has        *)
(* changed, staged or committed meanwhile.  [local_git_publisher.py             *)
(* publish_local_candidate's parent and committed-path checks on top of         *)
(* validate_patch_boundary]                                                     *)
PublishedBounded ==
  \A c \in published :
    c - 1 = result.base /\ CommittedPaths(c) \subseteq Allowed

(* A published commit holds, path by path, what the last validation saw, and a  *)
(* fixture task's path its target state, unless the tree was written between    *)
(* that validation and the result's digest, or between the publisher's last two *)
(* looks at the checkout: every other change, however often, and even if it is  *)
(* undone again, is caught.  [candidate_content_digest against                  *)
(* repository_handoff.py and the checks after the commit]                       *)
PublishedWasValidated ==
  \A c \in published : touched \/ late \/ \A p \in result.paths :
    /\ log[c][p] = approved[p]
    /\ p = Fixture /\ job.engine # "code" => log[c][p] = job.target

(* The publisher never leaves a commit behind that it does not return, except  *)
(* when it died or somebody else changed the checkout while it ran: whatever    *)
(* was wrong before it began, a commit of the worker or something staged        *)
(* beside the candidate, it refuses before it commits.                          *)
(* [local_git_publisher.py:75 "Rebuild immediately before staging so a stale or *)
(* tampered candidate fails closed"]                                            *)
StraysExplained == strays = {}
=============================================================================

------------------------------ MODULE Checkout ------------------------------
(* A target repository as the worker's tools see it through git: the working   *)
(* tree, the index and a line of commits, the last of which is HEAD.  Someone   *)
(* else works in the same checkout and may edit, stage or commit between any    *)
(* two git commands of theirs.                                                  *)
EXTENDS Naturals, Sequences, FiniteSets

CONSTANTS
  Paths,        \* the paths of the repository that anybody touches
  Fixture,      \* the path the task is about
  Allowed,      \* the paths the task may change
  Contents,     \* what a file may hold; "ABSENT" is no file
  MaxOutside,   \* bounds what someone else does to the checkout
  MaxCommits    \* bounds the line of commits

ASSUME PathsAssumption ==
  /\ Fixture \in Allowed /\ Allowed \subseteq Paths
  /\ {"A", "B", "ABSENT"} \subseteq Contents
  /\ MaxOutside \in Nat /\ MaxCommits \in Nat \ {0}

Trees == [Paths -> Contents]

VARIABLES
  tree,     \* the files of the working tree
  index,    \* what is staged
  log,      \* the trees of the commits, oldest first: each one's parent is before it
  outside   \* what someone else has done to the checkout so far

checkoutVars == <<tree, index, log, outside>>

HEAD == Len(log)

CheckoutInit ==
  /\ tree = [p \in Paths |-> "A"]
  /\ index = tree
  /\ log = <<tree>>
  /\ outside = 0

(* git diff --name-only base together with the untracked files: a path that is *)
(* not in the index has no file of its own for git diff.                       *)
ChangedPaths(base) ==
  {p \in Paths : IF index[p] = "ABSENT" THEN log[base][p] # "ABSENT" \/ tree[p] # "ABSENT"
                                        ELSE tree[p] # log[base][p]}

(* git status --porcelain prints nothing. *)
Clean == tree = index /\ index = log[HEAD]

StagedPaths == {p \in Paths : index[p] # log[HEAD][p]}

CommittedPaths(c) == {p \in Paths : log[c][p] # log[c - 1][p]}

(* candidate_content_digest: the files' bytes, or that there is none. *)
Digest(paths) == [p \in paths |-> tree[p]]

(* git add -A -- paths refuses a path that is neither a file nor in the index. *)
CanStage(paths) == \A p \in paths : tree[p] # "ABSENT" \/ index[p] # "ABSENT"
Stage(paths) == index' = [p \in Paths |-> IF p \in paths THEN tree[p] ELSE index[p]]

(* git commit: refused when nothing is staged. *)
CanCommit == StagedPaths # {} /\ HEAD < MaxCommits
Commit == log' = Append(log, index)

-----------------------------------------------------------------------------
(* Someone else's edit, git add or git commit. *)
OutsideEdit(p, c) ==
  /\ tree[p] # c
  /\ tree' = [tree EXCEPT ![p] = c]
  /\ UNCHANGED <<index, log>>

OutsideStage(p) ==
  /\ index[p] # tree[p]
  /\ Stage({p})
  /\ UNCHANGED <<tree, log>>

OutsideCommit ==
  /\ CanCommit
  /\ Commit
  /\ UNCHANGED <<tree, index>>

Outside ==
  /\ outside < MaxOutside
  /\ outside' = outside + 1
  /\ \/ \E p \in Paths, c \in Contents : OutsideEdit(p, c)
     \/ \E p \in Paths : OutsideStage(p)
     \/ OutsideCommit
=============================================================================

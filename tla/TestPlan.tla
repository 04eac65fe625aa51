------------------------------ MODULE TestPlan ------------------------------
(* The sealed test plan of an invocation.  Three processes work it out, one    *)
(* after another: prepare-invocation selects the tests and seals the plan,     *)
(* dispatch selects again and compares, and the collector of a read-only       *)
(* proposal selects once more before it runs them.  The plan is known by its   *)
(* digest, so the three must agree test for test, although each walks Python   *)
(* sets whose order changes from process to process, and although an operator  *)
(* may import another catalogue in between.                                    *)
(*                                                                             *)
(* Tests are natural numbers: their order is the order of the T000 ids.        *)
EXTENDS Integers, Sequences, FiniteSets, SequencesExt

CONSTANTS
  Test,         \* the test ids of the catalogue
  Catalogs,     \* the catalogues prepare-invocation may find
  Imports,      \* the catalogues an operator may import later
  Path,         \* the paths a change may touch
  Flag,         \* the capabilities and risk flags a change may carry
  Facts,        \* what is known of a change
  MaxEdits      \* how often the catalogue is replaced under an invocation

ASSUME TestAssumption == IsFiniteSet(Test) /\ Test \subseteq Nat
Modes == {"always", "conditional", "milestone", "retired"}

(* A definition cannot require itself, and profiles and prerequisites name     *)
(* tests of the catalogue.                                                     *)
WellFormed(c) ==
  /\ c.mode \in [Test -> Modes]
  /\ c.cost \in [Test -> 0..2]
  /\ c.prerequisites \in [Test -> SUBSET Test]
  /\ c.profile \subseteq Test
  /\ c.covers \in [Path -> SUBSET Test]
  /\ c.serves \in [Flag -> SUBSET Test]
  /\ \A t \in Test : t \notin c.prerequisites[t]

(* An import checks the definitions of the catalogue it takes. *)
ASSUME EditAssumption == MaxEdits \in Nat /\ \A c \in Imports : WellFormed(c)

Operations == {"READ_ONLY_PROPOSAL", "WORKSPACE_WRITE_CODE_TASK"}
Processes == {"prepare", "dispatch", "collect"}
Phases == {"checking", "selecting", "closing", "ordering", "planned",
           "running", "evidence", "refused"}

VARIABLES
  catalog,      \* the catalogue on disk
  operation,    \* the operation of the invocation
  facts,        \* the change facts, the same for every selection
  process,      \* the process at work
  phase,        \* what it is doing
  loaded,       \* the catalogue that process has read
  stack,        \* _assert_acyclic: the calls of visit that have not returned
  roots,        \*   the tests its outer loop has not reached
  visiting, visited,
  seeds,        \* select: what facts and profiles ask for
  selected,     \*   that and the prerequisites found so far
  pending,      \* _include_prerequisites: the list still to expand
  remaining,    \* _order_selected: prerequisites of a test not yet ordered
  ordered,      \*   the order so far
  sealed,       \* what prepare-invocation stored: the catalogue's digest, the plan
  stages,       \* the tests that have passed
  workspace,    \* whether the candidate is as the worker left it
  reason,       \* why the invocation was refused
  edits

walk == <<stack, roots, visiting, visited>>
selection == <<seeds, selected, pending, remaining, ordered>>
request == <<operation, facts>>
vars == <<catalog, request, process, phase, loaded, walk, selection, sealed,
          stages, workspace, reason, edits>>

Unsealed == [catalog |-> {}, plan |-> <<>>]

(* The elements of S, each in the place that the lesser ones leave it. *)
Ascending(S) ==
  [i \in 1..Cardinality(S) |-> CHOOSE t \in S : Cardinality({u \in S : u < t}) = i - 1]

Init ==
  /\ catalog \in {c \in Catalogs : WellFormed(c)}
  /\ operation \in Operations
  /\ facts \in Facts
  /\ process = "prepare"
  /\ phase = "checking"
  /\ loaded = catalog
  /\ stack = <<>> /\ roots = Ascending(Test) /\ visiting = {} /\ visited = {}
  /\ seeds = {} /\ selected = {} /\ pending = <<>>
  /\ remaining = [t \in Test |-> 0] /\ ordered = <<>>
  /\ sealed = Unsealed
  /\ stages = <<>>
  /\ workspace = "as left"
  /\ reason = "none"
  /\ edits = 0

Refuse(why) ==
  /\ phase' = "refused"
  /\ reason' = why

-----------------------------------------------------------------------------
(* The catalogue is checked as it is read: a depth-first walk that fails on a  *)
(* test it is still visiting.                                                  *)

(* The call visit(t), up to its loop; base is the stack of the calls before it. *)
Visit(t, base) ==
  \/ /\ t \in visiting
     /\ Refuse("cycle")
     /\ UNCHANGED <<stack, visiting>>
  \/ /\ t \notin visiting /\ t \in visited
     /\ stack' = base
     /\ UNCHANGED <<visiting, phase, reason>>
  \/ /\ t \notin visiting /\ t \notin visited
     /\ stack' = Append(base, [test |-> t, rest |-> Ascending(loaded.prerequisites[t])])
     /\ visiting' = visiting \cup {t}
     /\ UNCHANGED <<phase, reason>>

(* The outer loop calls visit for every test of the catalogue in turn. *)
VisitRoot ==
  /\ phase = "checking" /\ stack = <<>> /\ roots # <<>>
  /\ roots' = Tail(roots)
  /\ Visit(Head(roots), stack)
  /\ UNCHANGED <<catalog, request, process, loaded, visited, selection, sealed,
                 stages, workspace, edits>>

(* The innermost call's loop takes its next prerequisite. *)
VisitPrerequisite ==
  /\ phase = "checking" /\ stack # <<>> /\ Last(stack).rest # <<>>
  /\ LET frame == Last(stack)
     IN  Visit(Head(frame.rest), Append(Front(stack), [frame EXCEPT !.rest = Tail(@)]))
  /\ UNCHANGED <<catalog, request, process, loaded, roots, visited, selection,
                 sealed, stages, workspace, edits>>

(* Mutant: a test that is left is not taken out of visiting. *)
LeaveVisiting ==
  /\ phase = "checking" /\ stack # <<>> /\ Last(stack).rest = <<>>
  /\ stack' = Front(stack)
  /\ visited' = visited \cup {Last(stack).test}
  /\ UNCHANGED <<catalog, request, process, phase, loaded, roots, visiting,
                 selection, sealed, stages, workspace, reason, edits>>

(* The innermost call returns. *)
Leave ==
  /\ phase = "checking" /\ stack # <<>> /\ Last(stack).rest = <<>>
  /\ stack' = Front(stack)
  /\ visiting' = visiting \ {Last(stack).test}
  /\ visited' = visited \cup {Last(stack).test}
  /\ UNCHANGED <<catalog, request, process, phase, loaded, roots, selection,
                 sealed, stages, workspace, reason, edits>>

(* Mutant: the digest of the catalogue is not compared, only the plan. *)
CatalogAccepted ==
  /\ phase = "checking" /\ stack = <<>> /\ roots = <<>>
  /\ phase' = "selecting"
  /\ UNCHANGED <<catalog, request, process, loaded, walk, selection, sealed,
                 stages, workspace, reason, edits>>

(* The catalogue stands.  Dispatch and the collector compare its digest with   *)
(* the one sealed before they select from it.                                  *)
CatalogStands ==
  /\ phase = "checking" /\ stack = <<>> /\ roots = <<>>
  /\ IF process # "prepare" /\ loaded # sealed.catalog
     THEN Refuse("catalogue differs")
     ELSE phase' = "selecting" /\ UNCHANGED reason
  /\ UNCHANGED <<catalog, request, process, loaded, walk, selection, sealed,
                 stages, workspace, edits>>

-----------------------------------------------------------------------------
(* TestCatalog.select *)

Applies(t) ==
  \/ loaded.mode[t] = "always" /\ facts.mutable
  \/ loaded.mode[t] = "milestone" /\ facts.milestone
  \/ /\ loaded.mode[t] = "conditional"
     /\ \/ \E path \in facts.paths : t \in loaded.covers[path]
        \/ \E flag \in facts.flags : t \in loaded.serves[flag]

(* Every changed path is matched by some test that is not retired. *)
Mapped ==
  \A path \in facts.paths : \E t \in loaded.covers[path] : loaded.mode[t] # "retired"

Select ==
  /\ phase = "selecting"
  /\ LET chosen == loaded.profile \cup {t \in Test : Applies(t)}
     IN  \/ /\ ~Mapped
            /\ Refuse("unmapped")
            /\ UNCHANGED <<seeds, selected, pending>>
         \/ /\ Mapped
            /\ seeds' = chosen /\ selected' = chosen
            /\ pending' \in SetToSeqs(chosen)
            /\ phase' = "closing"
            /\ UNCHANGED reason
  /\ UNCHANGED <<catalog, request, process, loaded, walk, remaining, ordered,
                 sealed, stages, workspace, edits>>

(* Mutant: what a prerequisite requires in its turn is not looked for. *)
IncludeDirect ==
  /\ phase = "closing" /\ pending # <<>>
  /\ selected' = selected \cup loaded.prerequisites[Last(pending)]
  /\ pending' = Front(pending)
  /\ UNCHANGED <<catalog, request, process, phase, loaded, walk, seeds, remaining,
                 ordered, sealed, stages, workspace, reason, edits>>

(* _include_prerequisites expands the test at the end of its list. *)
IncludePrerequisites ==
  /\ phase = "closing" /\ pending # <<>>
  /\ LET new == loaded.prerequisites[Last(pending)] \ selected
     IN  /\ selected' = selected \cup new
         /\ pending' = Front(pending) \o Ascending(new)
  /\ UNCHANGED <<catalog, request, process, phase, loaded, walk, seeds, remaining,
                 ordered, sealed, stages, workspace, reason, edits>>

Retired == {t \in selected : loaded.mode[t] = "retired"}

(* No retired test is left in the plan, and _order_selected counts what each   *)
(* test waits for.                                                             *)
StartOrder ==
  /\ phase = "closing" /\ pending = <<>>
  /\ IF Retired # {}
     THEN Refuse("retired") /\ UNCHANGED <<remaining, ordered>>
     ELSE /\ remaining' = [t \in Test |->
                 IF t \in selected THEN Cardinality(loaded.prerequisites[t] \cap selected)
                 ELSE 0]
          /\ ordered' = <<>>
          /\ phase' = "ordering"
          /\ UNCHANGED reason
  /\ UNCHANGED <<catalog, request, process, loaded, walk, seeds, selected, pending,
                 sealed, stages, workspace, edits>>

Waiting == selected \ ToSet(ordered)
Ready == {t \in Waiting : remaining[t] = 0}

(* The heap holds pairs of cost and id, so equal costs leave in id order. *)
Before(t, u) ==
  \/ loaded.cost[t] < loaded.cost[u]
  \/ loaded.cost[t] = loaded.cost[u] /\ t < u

(* Mutant: the heap holds the costs alone, so a tie falls as the set was walked. *)
Cheapest(t) == \A u \in Ready : loaded.cost[t] <= loaded.cost[u]

HeapTop(t) == \A u \in Ready \ {t} : Before(t, u)

Order ==
  /\ phase = "ordering"
  /\ \E t \in Ready :
       /\ HeapTop(t)
       /\ ordered' = Append(ordered, t)
       /\ remaining' = [u \in Test |->
            IF u \in selected /\ t \in loaded.prerequisites[u] THEN remaining[u] - 1
            ELSE remaining[u]]
  /\ UNCHANGED <<catalog, request, process, phase, loaded, walk, seeds, selected,
                 pending, sealed, stages, workspace, reason, edits>>

(* The heap is empty.  Dispatch and the collector compare what they selected   *)
(* with the sealed plan.                                                       *)
Ordered ==
  /\ phase = "ordering" /\ Ready = {}
  /\ IF Waiting # {} THEN Refuse("selected cycle")
     ELSE IF process # "prepare" /\ ordered # sealed.plan THEN Refuse("plan differs")
     ELSE phase' = "planned" /\ UNCHANGED reason
  /\ UNCHANGED <<catalog, request, process, loaded, walk, selection, sealed,
                 stages, workspace, edits>>

-----------------------------------------------------------------------------
(* The commands around the selections *)

(* A process reads the catalogue file and starts over. *)
Read(next) ==
  /\ process' = next
  /\ loaded' = catalog
  /\ phase' = "checking"
  /\ stack' = <<>> /\ roots' = Ascending(Test) /\ visiting' = {} /\ visited' = {}
  /\ seeds' = {} /\ selected' = {} /\ pending' = <<>>
  /\ remaining' = [t \in Test |-> 0] /\ ordered' = <<>>

(* prepare-invocation seals the plan in the invocation record; an empty plan   *)
(* is no list of test ids.  Dispatch reads the catalogue later.                *)
Seal ==
  /\ phase = "planned" /\ process = "prepare"
  /\ \/ /\ ordered = <<>>
        /\ Refuse("no tests")
        /\ UNCHANGED <<process, loaded, walk, selection, sealed>>
     \/ /\ ordered # <<>>
        /\ sealed' = [catalog |-> loaded, plan |-> ordered]
        /\ Read("dispatch")
        /\ UNCHANGED reason
  /\ UNCHANGED <<catalog, request, stages, workspace, edits>>

(* Dispatch has run its adapter.  A read-only proposal is then collected from  *)
(* the catalogue file, by a fresh selection; a workspace-write task keeps the  *)
(* catalogue dispatch has in memory.                                           *)
AdapterReturns ==
  /\ phase = "planned" /\ process = "dispatch"
  /\ \/ /\ operation = "READ_ONLY_PROPOSAL"
        /\ Read("collect")
     \/ /\ operation = "WORKSPACE_WRITE_CODE_TASK"
        /\ phase' = "running"
        /\ UNCHANGED <<process, loaded, walk, selection>>
  /\ UNCHANGED <<catalog, request, sealed, stages, workspace, reason, edits>>

Collect ==
  /\ phase = "planned" /\ process = "collect"
  /\ phase' = "running"
  /\ UNCHANGED <<catalog, request, process, loaded, walk, selection, sealed, stages,
                 workspace, reason, edits>>

(* One sealed test runs: it passes or not, and it may leave something behind.  *)
RunTest ==
  /\ phase = "running" /\ Len(stages) < Len(sealed.plan)
  /\ workspace' \in {workspace, "changed"}
  /\ \/ /\ stages' = Append(stages, sealed.plan[Len(stages) + 1])
        /\ UNCHANGED <<phase, reason>>
     \/ /\ Refuse("failed")
        /\ UNCHANGED stages
  /\ UNCHANGED <<catalog, request, process, loaded, walk, selection, sealed, edits>>

(* Mutant: what the tests left behind is not looked at. *)
CollectUnchecked ==
  /\ phase = "running" /\ Len(stages) = Len(sealed.plan)
  /\ phase' = "evidence"
  /\ UNCHANGED <<catalog, request, process, loaded, walk, selection, sealed, stages,
                 workspace, reason, edits>>

(* The workspace is inspected again once the last test has passed. *)
Evidence ==
  /\ phase = "running" /\ Len(stages) = Len(sealed.plan)
  /\ IF workspace = "changed" THEN Refuse("workspace changed")
     ELSE phase' = "evidence" /\ UNCHANGED reason
  /\ UNCHANGED <<catalog, request, process, loaded, walk, selection, sealed, stages,
                 workspace, edits>>

(* An operator replaces the catalogue's file. *)
Import ==
  /\ edits < MaxEdits /\ phase \notin {"refused", "evidence"}
  /\ catalog' \in Imports \ {catalog}
  /\ edits' = edits + 1
  /\ UNCHANGED <<request, process, phase, loaded, walk, selection, sealed, stages,
                 workspace, reason>>

Next ==
  \/ VisitRoot \/ VisitPrerequisite \/ Leave \/ CatalogStands
  \/ Select \/ IncludePrerequisites \/ StartOrder \/ Order \/ Ordered
  \/ Seal \/ AdapterReturns \/ Collect \/ RunTest \/ Evidence
  \/ Import

Spec == Init /\ [][Next]_vars

-----------------------------------------------------------------------------
(* What the catalogue and the plan should be, without the algorithms. *)

(* A set of tests each of which requires another of the set. *)
Circular(c) ==
  \E S \in (SUBSET Test) \ {{}} : \A t \in S : c.prerequisites[t] \cap S # {}

(* The least set that holds S and all its prerequisites. *)
Closed(c, S) == \A t \in S : c.prerequisites[t] \subseteq S
Closure(c, S) ==
  {t \in Test : \A C \in SUBSET Test : S \subseteq C /\ Closed(c, C) => t \in C}

Planned == phase = "planned"

TypeOK ==
  /\ WellFormed(catalog) /\ WellFormed(loaded)
  /\ operation \in Operations /\ facts \in Facts
  /\ process \in Processes /\ phase \in Phases
  /\ \A i \in DOMAIN stack : stack[i].test \in visiting
  /\ visiting \cup visited \subseteq Test
  /\ seeds \subseteq selected /\ selected \subseteq Test
  /\ ToSet(pending) \subseteq selected
  /\ remaining \in [Test -> 0..Cardinality(Test)]
  /\ ToSet(ordered) \subseteq selected
  /\ stages \in Seq(Test) /\ workspace \in {"as left", "changed"}
  /\ edits \in 0..MaxEdits

(* The walk rejects a catalogue exactly when its prerequisites are circular:   *)
(* every catalogue that reaches a selection is acyclic, and ordering the       *)
(* selected tests never finds a cycle of its own.                              *)
CatalogVerdict ==
  /\ phase \notin {"checking", "refused"} => ~Circular(loaded)
  /\ reason = "cycle" => Circular(loaded)
  /\ reason # "selected cycle"

(* A plan holds what was asked for with all its prerequisites and nothing      *)
(* else, each test once, none of them retired, and every prerequisite comes    *)
(* before what needs it.                                                       *)
PlanComplete ==
  Planned =>
    /\ ToSet(ordered) = Closure(loaded, seeds)
    /\ \A t \in ToSet(ordered) : loaded.mode[t] # "retired"
    /\ \A i, j \in DOMAIN ordered :
         ordered[i] \in loaded.prerequisites[ordered[j]] => i < j
    /\ Len(ordered) = Cardinality(ToSet(ordered))

(* Among the tests that could run next, the cheapest goes first and the lower  *)
(* id breaks a tie.                                                            *)
PlanCheapestFirst ==
  Planned =>
    \A i, j \in DOMAIN ordered :
      (i < j /\ \A p \in loaded.prerequisites[ordered[j]] :
                   \E k \in 1..(i - 1) : ordered[k] = p)
        => Before(ordered[i], ordered[j])

(* The tests that run are those of the catalogue that was sealed, although the *)
(* file may be replaced between any two steps.                                 *)
SealedTestsRun ==
  stages # <<>> => loaded = sealed.catalog

(* A test runs only after all its prerequisites have passed, and evidence is   *)
(* taken only of a workspace that holds what the worker left, after every test *)
(* of the sealed plan has passed.                                              *)
EvidenceTrue ==
  /\ \A j \in DOMAIN stages : \A p \in sealed.catalog.prerequisites[stages[j]] :
       \E i \in 1..(j - 1) : stages[i] = p
  /\ phase = "evidence" => stages = sealed.plan /\ workspace = "as left"
=============================================================================

----------------------------- MODULE MCTestPlan -----------------------------
(* The instance of TestPlan for TLC: three tests, one path, one capability.    *)
EXTENDS TestPlan, TLC

CONSTANTS p1, f1

Relations == {r \in [Test -> SUBSET Test] : \A t \in Test : t \notin r[t]}
Modest == [t \in Test |-> "conditional"]
Chain == (1 :> {} @@ 2 :> {1} @@ 3 :> {2})
Fork == (1 :> {} @@ 2 :> {} @@ 3 :> {1, 2})

MCCatalog(r, m, c, covers, serves, profile) ==
  [prerequisites |-> r, mode |-> m, cost |-> c, covers |-> (p1 :> covers),
   serves |-> (f1 :> serves), profile |-> profile]

(* Every relation, cost and set of matching tests ... *)
Shapes == {MCCatalog(r, Modest, c, S, {}, {}) :
             r \in Relations, c \in [Test -> 0..1], S \in SUBSET Test}

(* ... and every mode, with profiles and capabilities. *)
Selections == {MCCatalog(r, m, [t \in Test |-> 4 - t - 1], {2}, serves, profile) :
                 r \in {Chain, Fork}, m \in [Test -> Modes],
                 serves \in {{}, {3}}, profile \in {{}, {2}}}

MCCatalogs == Shapes \cup Selections
MCImports ==
  {MCCatalog(Chain, Modest, [t \in Test |-> 0], {3}, {}, {}),
   MCCatalog([Chain EXCEPT ![1] = {3}], Modest, [t \in Test |-> 0], {3}, {}, {})}

MCFacts ==
  {[paths |-> {p1}, flags |-> {}, mutable |-> TRUE, milestone |-> FALSE],
   [paths |-> {}, flags |-> {f1}, mutable |-> TRUE, milestone |-> TRUE]}
=============================================================================

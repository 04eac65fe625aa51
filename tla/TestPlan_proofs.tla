--------------------------- MODULE TestPlan_proofs --------------------------
(* What holds of the sealed plan for any tests, catalogues and changes: the     *)
(* walk rejects the circular catalogues and no others, the plan is the closure  *)
(* of what was asked for, in order and cheapest first, and what runs is sealed. *)
EXTENDS TestPlan, TLAPS, FiniteSetTheorems, SequenceTheorems

-----------------------------------------------------------------------------
(* The inductive invariant. *)
Frames == [test : Test, rest : Seq(Test)]

TypeInv ==
  /\ WellFormed(catalog) /\ WellFormed(loaded)
  /\ operation \in Operations /\ facts \in Facts
  /\ process \in Processes /\ phase \in Phases
  /\ stack \in Seq(Frames) /\ roots \in Seq(Test)
  /\ visiting \subseteq Test /\ visited \subseteq Test
  /\ seeds \subseteq selected /\ selected \subseteq Test
  /\ pending \in Seq(Test) /\ ToSet(pending) \subseteq selected
  /\ remaining \in [Test -> 0..Cardinality(Test)]
  /\ ordered \in Seq(Test) /\ ToSet(ordered) \subseteq selected
  /\ sealed.plan \in Seq(Test)
  /\ stages \in Seq(Test) /\ workspace \in {"as left", "changed"}
  /\ edits \in 0..MaxEdits

Requires(t) == loaded.prerequisites[t]

(* The calls of visit that have not returned are a path of prerequisites; what  *)
(* the test of a call requires is visited, in its loop, or the call it made.    *)
PathInv ==
  /\ visiting = {stack[i].test : i \in 1..Len(stack)}
  /\ \A i, j \in 1..Len(stack) : i # j => stack[i].test # stack[j].test
  /\ \A i \in 1..Len(stack) :
       /\ i < Len(stack) => stack[i + 1].test \in Requires(stack[i].test)
       /\ ToSet(stack[i].rest) \subseteq Requires(stack[i].test)
       /\ \A p \in Requires(stack[i].test) :
            p \in visited \/ p \in ToSet(stack[i].rest)
              \/ (i < Len(stack) /\ p = stack[i + 1].test)

(* What is visited holds all it requires, and no circle. *)
Circle(S) == S # {} /\ \A t \in S : Requires(t) \cap S # {}

VisitedInv ==
  /\ visiting \cap visited = {}
  /\ Test \subseteq visited \cup visiting \cup ToSet(roots)
  /\ \A t \in visited : Requires(t) \subseteq visited
  /\ \A S \in SUBSET visited : ~Circle(S)

Chosen == {"closing", "ordering", "planned", "running", "evidence"}

ReasonInv ==
  /\ phase # "refused" => reason = "none"
  /\ phase \in Chosen \cup {"selecting"} => ~Circular(loaded)
  /\ reason = "cycle" => Circular(loaded)
  /\ reason # "selected cycle"

(* The selection grows inside the closure, and what is not yet expanded is      *)
(* still to come.                                                               *)
ClosureInv ==
  phase \in Chosen =>
    /\ selected \subseteq Closure(loaded, seeds)
    /\ \A t \in selected : t \in ToSet(pending) \/ Requires(t) \subseteq selected

(* A test is ordered after all it requires, and waits for as many as are not    *)
(* ordered; of those that could go next, it was the cheapest.                   *)
OrderInv ==
  phase \in {"ordering", "planned"} =>
    /\ pending = <<>>
    /\ \A t \in selected : loaded.mode[t] # "retired"
    /\ \A i, j \in 1..Len(ordered) : i # j => ordered[i] # ordered[j]
    /\ \A j \in 1..Len(ordered) : \A p \in Requires(ordered[j]) :
         \E i \in 1..(j - 1) : ordered[i] = p
    /\ \A t \in selected : remaining[t] = Cardinality(Requires(t) \cap Waiting)
    /\ \A i \in 1..Len(ordered) : \A u \in selected :
         /\ \A k \in 1..i : u # ordered[k]
         /\ \A p \in Requires(u) : \E k \in 1..(i - 1) : ordered[k] = p
         => Before(ordered[i], u)

(* Nothing is ordered before there is a selection, and all of it in the end. *)
PlannedInv ==
  /\ phase \in {"checking", "selecting"} => ordered = <<>>
  /\ phase = "planned" => selected \subseteq ToSet(ordered)

(* From dispatch on there is a sealed plan, in order, and whoever has compared  *)
(* the catalogue's digest has the sealed catalogue in memory.                   *)
SealedInv ==
  /\ process # "prepare" =>
       \A j \in 1..Len(sealed.plan) : \A p \in sealed.catalog.prerequisites[sealed.plan[j]] :
         \E i \in 1..(j - 1) : sealed.plan[i] = p
  /\ process # "prepare" /\ phase \in Chosen \cup {"selecting"} => loaded = sealed.catalog
  /\ phase \in {"running", "evidence"} => process # "prepare"

StagesInv ==
  /\ Len(stages) <= Len(sealed.plan)
  /\ \A i \in 1..Len(stages) : stages[i] = sealed.plan[i]
  /\ stages # <<>> => /\ phase \in {"running", "evidence", "refused"}
                      /\ process # "prepare" /\ loaded = sealed.catalog
  /\ phase = "evidence" => Len(stages) = Len(sealed.plan) /\ workspace = "as left"

IInv ==
  /\ TypeInv /\ PathInv /\ VisitedInv /\ ReasonInv
  /\ ClosureInv /\ OrderInv /\ PlannedInv /\ SealedInv /\ StagesInv

-----------------------------------------------------------------------------
(* The helpers on sequences and sets of tests. *)
LEMMA FrontCorrect ==
  ASSUME NEW S, NEW s \in Seq(S), s # <<>>
  PROVE  /\ Front(s) \in Seq(S) /\ Len(Front(s)) = Len(s) - 1
         /\ \A i \in 1..(Len(s) - 1) : Front(s)[i] = s[i]
         /\ Last(s) = s[Len(s)] /\ Len(s) \in 1..Len(s) /\ s[Len(s)] \in S
<1>1. Len(s) \in Nat /\ Len(s) # 0 /\ s[Len(s)] \in S
  OBVIOUS
<1>2. Front(s) = [i \in 1..(Len(s) - 1) |-> s[i]]
  BY <1>1 DEF Front
<1>3. Front(s) \in Seq(S) /\ Len(Front(s)) = Len(s) - 1
  BY <1>1, <1>2
<1> QED
  BY <1>1, <1>2, <1>3 DEF Last

LEMMA TailCorrect ==
  ASSUME NEW S, NEW s \in Seq(S), s # <<>>
  PROVE  /\ Head(s) \in S /\ Tail(s) \in Seq(S)
         /\ ToSet(s) = {Head(s)} \cup ToSet(Tail(s))
<1>1. /\ Tail(s) \in Seq(S) /\ Len(Tail(s)) = Len(s) - 1 /\ Head(s) \in S
      /\ \A i \in 1..Len(Tail(s)) : Tail(s)[i] = s[i + 1]
      /\ Head(s) = s[1] /\ Len(s) \in Nat /\ Len(s) # 0
  OBVIOUS
<1>2. ASSUME NEW x \in ToSet(s) PROVE x = Head(s) \/ x \in ToSet(Tail(s))
  <2>1. PICK i \in 1..Len(s) : x = s[i]
    BY <1>2 DEF ToSet
  <2>2. CASE i = 1
    BY <1>1, <2>1, <2>2
  <2>3. CASE i # 1
    <3>1. i - 1 \in 1..Len(Tail(s)) /\ Tail(s)[i - 1] = s[i]
      BY <1>1, <2>3
    <3>2. i - 1 \in DOMAIN Tail(s)
      BY <1>1, <3>1
    <3> QED
      BY <2>1, <3>1, <3>2 DEF ToSet
  <2> QED
    BY <2>2, <2>3
<1>3. ASSUME NEW x \in ToSet(Tail(s)) PROVE x \in ToSet(s)
  <2>1. PICK i \in 1..Len(Tail(s)) : x = Tail(s)[i]
    BY <1>1, <1>3 DEF ToSet
  <2>2. x = s[i + 1] /\ i + 1 \in 1..Len(s)
    BY <1>1, <2>1
  <2> QED
    BY <2>2 DEF ToSet
<1>4. Head(s) \in ToSet(s)
  <2>1. 1 \in 1..Len(s)
    BY <1>1
  <2> QED
    BY <1>1, <2>1 DEF ToSet
<1> QED
  BY <1>1, <1>2, <1>3, <1>4

LEMMA MembersTyped ==
  ASSUME NEW S, NEW s \in Seq(S)
  PROVE  ToSet(s) \subseteq S /\ ToSet(s) = {s[i] : i \in 1..Len(s)}
BY DEF ToSet

LEMMA AppendCorrect ==
  ASSUME NEW S, NEW s \in Seq(S), NEW x \in S
  PROVE  /\ Append(s, x) \in Seq(S) /\ Len(Append(s, x)) = Len(s) + 1
         /\ \A i \in 1..Len(s) : Append(s, x)[i] = s[i]
         /\ Append(s, x)[Len(s) + 1] = x
         /\ ToSet(Append(s, x)) = ToSet(s) \cup {x}
<1>1. /\ Append(s, x) \in Seq(S) /\ Len(Append(s, x)) = Len(s) + 1
      /\ \A i \in 1..Len(s) : Append(s, x)[i] = s[i]
      /\ Append(s, x)[Len(s) + 1] = x /\ Len(s) \in Nat
  OBVIOUS
<1> DEFINE t == Append(s, x)
<1> HIDE DEF t
<1>2. ToSet(t) = {t[i] : i \in 1..(Len(s) + 1)} /\ ToSet(s) = {s[i] : i \in 1..Len(s)}
  BY <1>1, MembersTyped DEF t
<1>3. /\ \A i \in 1..Len(s) : t[i] = s[i]
      /\ t[Len(s) + 1] = x
  BY <1>1 DEF t
<1>4. ToSet(t) = ToSet(s) \cup {x}
  <2>1. ASSUME NEW y \in ToSet(t) PROVE y \in ToSet(s) \cup {x}
    BY <1>1, <1>2, <1>3, <2>1
  <2>2. ASSUME NEW y \in ToSet(s) PROVE y \in ToSet(t)
    BY <1>1, <1>2, <1>3, <2>2
  <2>3. x \in ToSet(t)
    BY <1>1, <1>2, <1>3
  <2> QED
    BY <2>1, <2>2, <2>3
<1> QED
  BY <1>1, <1>4 DEF t

LEMMA Finite ==
  ASSUME NEW S \in SUBSET Test
  PROVE  /\ IsFiniteSet(S) /\ Cardinality(S) \in Nat
         /\ Cardinality(S) <= Cardinality(Test) /\ Cardinality(Test) \in Nat
BY TestAssumption, FS_Subset, FS_CardinalityType

(* Ascending lists a set's elements: the number of lesser elements is a       *)
(* different one for each.                                                    *)
LEMMA AscendingCorrect ==
  ASSUME NEW S \in SUBSET Test
  PROVE  Ascending(S) \in Seq(S) /\ ToSet(Ascending(S)) = S
<1> DEFINE n == Cardinality(S)
           Lesser(t) == {u \in S : u < t}
           rank == [t \in S |-> Cardinality(Lesser(t)) + 1]
<1>1. IsFiniteSet(S) /\ n \in Nat /\ S \subseteq Nat
  BY Finite, TestAssumption
<1>2. ASSUME NEW t \in S
      PROVE  IsFiniteSet(Lesser(t)) /\ Cardinality(Lesser(t)) \in 0..(n - 1)
  <2>1. Lesser(t) \in SUBSET S /\ t \notin Lesser(t)
    BY <1>1
  <2>2. /\ IsFiniteSet(Lesser(t)) /\ Cardinality(Lesser(t)) <= n
        /\ n = Cardinality(Lesser(t)) => S = Lesser(t)
    BY <1>1, <2>1, FS_Subset
  <2>3. Cardinality(Lesser(t)) \in Nat
    BY <2>2, FS_CardinalityType
  <2>4. n # Cardinality(Lesser(t))
    BY <2>1, <2>2
  <2> QED
    BY <1>1, <2>2, <2>3, <2>4
<1>3. ASSUME NEW t \in S, NEW u \in S, t < u
      PROVE  Cardinality(Lesser(t)) # Cardinality(Lesser(u))
  <2>1. Lesser(t) \in SUBSET Lesser(u) /\ t \in Lesser(u) /\ t \notin Lesser(t)
    <3>1. \A v \in S : v < t => v < u
      BY <1>1, <1>3
    <3>2. ~(t < t)
      BY <1>1
    <3> QED
      BY <1>3, <3>1, <3>2
  <2>2. IsFiniteSet(Lesser(u))
    BY <1>2
  <2>3. Cardinality(Lesser(u)) = Cardinality(Lesser(t)) => Lesser(u) = Lesser(t)
    BY <2>1, <2>2, FS_Subset
  <2> QED
    BY <2>1, <2>3
<1>4. \A t, u \in S : t # u => Cardinality(Lesser(t)) # Cardinality(Lesser(u))
  <2> SUFFICES ASSUME NEW t \in S, NEW u \in S, t # u
               PROVE  Cardinality(Lesser(t)) # Cardinality(Lesser(u))
    OBVIOUS
  <2>1. t < u \/ u < t
    BY <1>1
  <2> QED
    BY <2>1, <1>3
<1> HIDE DEF Lesser
<1>5. rank \in Injection(S, 1..n)
  <2>1. rank \in [S -> 1..n]
    BY <1>1, <1>2
  <2>2. \A t, u \in S : rank[t] = rank[u] => t = u
    BY <1>2, <1>4
  <2> QED
    BY <2>1, <2>2 DEF Injection, IsInjective
<1>6. IsFiniteSet(1..n) /\ Cardinality(1..n) = n
  BY <1>1, FS_Interval
<1>7. rank \in Surjection(S, 1..n)
  BY <1>5, <1>6, FS_Injection
<1>8. \A i \in 1..n : \E t \in S : Cardinality(Lesser(t)) = i - 1
  <2> SUFFICES ASSUME NEW i \in 1..n PROVE \E t \in S : Cardinality(Lesser(t)) = i - 1
    OBVIOUS
  <2>1. PICK t \in S : rank[t] = i
    BY <1>7 DEF Surjection
  <2>2. Cardinality(Lesser(t)) + 1 = i /\ Cardinality(Lesser(t)) \in Int
    BY <1>1, <1>2, <2>1
  <2> QED
    BY <1>1, <2>2
<1> DEFINE a == Ascending(S)
<1>9. a = [i \in 1..n |-> CHOOSE t \in S : Cardinality(Lesser(t)) = i - 1]
  BY DEF Ascending, Lesser
<1>10. \A i \in 1..n : a[i] \in S /\ Cardinality(Lesser(a[i])) = i - 1
  BY <1>8, <1>9
<1> HIDE DEF a
<1>11. a \in Seq(S) /\ DOMAIN a = 1..n
  BY <1>1, <1>9, <1>10
<1>12. \A t \in S : \E i \in 1..n : a[i] = t
  <2> SUFFICES ASSUME NEW t \in S PROVE \E i \in 1..n : a[i] = t
    OBVIOUS
  <2>1. Cardinality(Lesser(t)) + 1 \in 1..n
    BY <1>1, <1>2
  <2>2. /\ a[Cardinality(Lesser(t)) + 1] \in S
        /\ Cardinality(Lesser(a[Cardinality(Lesser(t)) + 1])) = Cardinality(Lesser(t))
    BY <1>2, <1>10, <2>1
  <2> QED
    BY <1>4, <2>1, <2>2
<1>13. ToSet(a) = S
  BY <1>10, <1>11, <1>12 DEF ToSet
<1> QED
  BY <1>11, <1>13 DEF a

-----------------------------------------------------------------------------
(* A selection starts with nothing visited, selected or ordered. *)
LEMMA RootsTyped == Ascending(Test) \in Seq(Test) /\ ToSet(Ascending(Test)) = Test
BY AscendingCorrect

LEMMA EmptyTyped ==
  /\ <<>> \in Seq(Test) /\ ToSet(<<>>) = {} /\ <<>> \in Seq(Frames)
  /\ Len(<<>>) = 0 /\ 1..Len(<<>>) = {}
  /\ [t \in Test |-> 0] \in [Test -> 0..Cardinality(Test)]
<1>1. Cardinality(Test) \in Nat
  BY Finite
<1> QED
  BY <1>1 DEF ToSet

LEMMA InitCorrect == Init => IInv
<1> SUFFICES ASSUME Init PROVE IInv
  OBVIOUS
<1>1. /\ catalog \in {c \in Catalogs : WellFormed(c)} /\ loaded = catalog
      /\ operation \in Operations /\ facts \in Facts
      /\ process = "prepare" /\ phase = "checking"
      /\ stack = <<>> /\ roots = Ascending(Test) /\ visiting = {} /\ visited = {}
      /\ seeds = {} /\ selected = {} /\ pending = <<>>
      /\ remaining = [t \in Test |-> 0] /\ ordered = <<>> /\ sealed = Unsealed
      /\ stages = <<>> /\ workspace = "as left" /\ reason = "none" /\ edits = 0
  BY DEF Init
<1>2. sealed.plan = <<>> /\ edits \in 0..MaxEdits
  <2>1. MaxEdits \in Nat
    BY EditAssumption
  <2>2. 0 \in 0..MaxEdits
    BY <2>1
  <2>3. Unsealed.plan = <<>>
    BY DEF Unsealed
  <2>4. sealed = Unsealed /\ edits = 0
    BY <1>1, Zenon
  <2> QED
    BY <2>2, <2>3, <2>4, Zenon
<1>3. process \in Processes /\ phase \in Phases
  BY <1>1 DEF Processes, Phases
<1>4. TypeInv
  BY <1>1, <1>2, <1>3, RootsTyped, EmptyTyped DEF TypeInv
<1>5. PathInv
  <2>1. 1..Len(stack) = {}
    BY <1>1, EmptyTyped, Zenon
  <2>2. visiting = {}
    BY <1>1, Zenon
  <2> QED
    BY <2>1, <2>2 DEF PathInv
<1>6. VisitedInv
  BY <1>1, RootsTyped DEF VisitedInv, Circle
<1>7. ReasonInv
  BY <1>1 DEF ReasonInv, Chosen
<1>8. ClosureInv /\ OrderInv /\ PlannedInv
  BY <1>1 DEF ClosureInv, OrderInv, PlannedInv, Chosen
<1>9. SealedInv
  BY <1>1 DEF SealedInv
<1>10. StagesInv
  <2>1. Len(stages) = 0 /\ Len(sealed.plan) = 0 /\ 1..Len(stages) = {}
    BY <1>1, <1>2, EmptyTyped, Zenon
  <2>2. stages = <<>> /\ phase = "checking"
    BY <1>1, Zenon
  <2> QED
    BY <2>1, <2>2 DEF StagesInv
<1> QED
  BY <1>4, <1>5, <1>6, <1>7, <1>8, <1>9, <1>10 DEF IInv

-----------------------------------------------------------------------------
(* The walk. *)
LEMMA PathTyped ==
  ASSUME IInv
  PROVE  /\ loaded.prerequisites \in [Test -> SUBSET Test]
         /\ \A t \in Test : Requires(t) \subseteq Test /\ t \notin Requires(t)
         /\ stack \in Seq(Frames)
         /\ \A i \in 1..Len(stack) : stack[i].test \in Test /\ stack[i].rest \in Seq(Test)
         /\ Len(stack) \in Nat
<1>1. loaded.prerequisites \in [Test -> SUBSET Test]
  BY DEF IInv, TypeInv, WellFormed
<1>2. \A t \in Test : t \notin loaded.prerequisites[t]
  BY DEF IInv, TypeInv, WellFormed
<1>3. stack \in Seq(Frames)
  BY DEF IInv, TypeInv
<1>4. \A i \in 1..Len(stack) : stack[i] \in Frames
  BY <1>3
<1>5. \A i \in 1..Len(stack) : stack[i].test \in Test /\ stack[i].rest \in Seq(Test)
  BY <1>4 DEF Frames
<1> QED
  BY <1>1, <1>2, <1>3, <1>5 DEF Requires

(* A circle: the test at the end of the path requires one on it. *)
LEMMA PathCircle ==
  ASSUME IInv, NEW k \in 1..Len(stack), stack[k].test \in Requires(stack[Len(stack)].test)
  PROVE  Circular(loaded)
<1> DEFINE n == Len(stack)
           S == {stack[i].test : i \in k..n}
<1>1. n \in Nat /\ k \in k..n /\ \A i \in k..n : i \in 1..n
  BY PathTyped
<1>2. S \subseteq Test /\ S # {}
  BY <1>1, PathTyped
<1>3. ASSUME NEW t \in S PROVE loaded.prerequisites[t] \cap S # {}
  <2>1. PICK i \in k..n : t = stack[i].test
    OBVIOUS
  <2>2. CASE i = n
    BY <1>1, <2>1, <2>2 DEF Requires
  <2>3. CASE i # n
    <3>1. i \in 1..n /\ i < n /\ i + 1 \in k..n
      BY <1>1, <2>3
    <3>2. stack[i + 1].test \in Requires(stack[i].test)
      BY <3>1 DEF IInv, PathInv
    <3> QED
      BY <2>1, <3>1, <3>2 DEF Requires
  <2> QED
    BY <2>2, <2>3
<1> QED
  BY <1>2, <1>3 DEF Circular

(* The call of visit(t), where base is the stack of the calls before it: they   *)
(* are the same path, and t is required by the last of them or is a root.       *)
Calls(t, base) ==
  /\ base \in Seq(Frames) /\ Len(base) = Len(stack)
  /\ \A i \in 1..Len(stack) :
       /\ base[i].test = stack[i].test
       /\ ToSet(base[i].rest) \subseteq Requires(base[i].test)
       /\ \A p \in Requires(base[i].test) :
            p \in visited \/ p \in ToSet(base[i].rest)
              \/ (IF i < Len(stack) THEN p = base[i + 1].test ELSE p = t)
  /\ stack # <<>> => t \in Requires(stack[Len(stack)].test)

LEMMA VisitCorrect ==
  ASSUME IInv, phase = "checking", NEW t \in Test, NEW base, Calls(t, base), Visit(t, base),
         UNCHANGED <<loaded, visited>>,
         roots' \in Seq(Test), Test \subseteq visited \cup visiting \cup {t} \cup ToSet(roots')
  PROVE  /\ PathInv' /\ VisitedInv'
         /\ stack' \in Seq(Frames) /\ visiting' \subseteq Test
         /\ \/ phase' = phase /\ reason' = reason
            \/ phase' = "refused" /\ reason' = "cycle" /\ Circular(loaded)
<1> DEFINE n == Len(stack)
<1>1. /\ n \in Nat /\ visiting = {stack[i].test : i \in 1..n} /\ visiting \subseteq Test
      /\ \A i \in 1..n : i < n => stack[i + 1].test \in Requires(stack[i].test)
      /\ \A i, j \in 1..n : i # j => stack[i].test # stack[j].test
  BY PathTyped DEF IInv, PathInv, TypeInv
<1>2. /\ visiting \cap visited = {}
      /\ \A u \in visited : Requires(u) \subseteq visited
      /\ \A S \in SUBSET visited : ~Circle(S)
  BY DEF IInv, VisitedInv
<1>3. \A u : Requires(u)' = Requires(u)
  BY DEF Requires
<1>4. \A S : Circle(S)' <=> Circle(S)
  BY <1>3 DEF Circle
<1>5. CASE /\ t \in visiting /\ Refuse("cycle") /\ UNCHANGED <<stack, visiting>>
  <2>1. PICK k \in 1..n : t = stack[k].test
    BY <1>1, <1>5
  <2>2. stack # <<>>
    BY <1>1, <2>1
  <2>3. Circular(loaded)
    BY <2>1, <2>2, PathCircle DEF Calls
  <2>4. PathInv'
    BY <1>3, <1>5 DEF IInv, PathInv
  <2>5. VisitedInv'
    BY <1>2, <1>3, <1>4, <1>5 DEF VisitedInv
  <2> QED
    BY <1>1, <1>5, <2>3, <2>4, <2>5, PathTyped DEF Refuse
<1>6. CASE /\ t \notin visiting /\ t \in visited /\ stack' = base
           /\ UNCHANGED <<visiting, phase, reason>>
  <2>1. /\ base \in Seq(Frames) /\ Len(base) = n
        /\ \A i \in 1..n :
             /\ base[i].test = stack[i].test
             /\ ToSet(base[i].rest) \subseteq Requires(base[i].test)
             /\ \A p \in Requires(base[i].test) :
                  p \in visited \/ p \in ToSet(base[i].rest)
                    \/ (IF i < n THEN p = base[i + 1].test ELSE p = t)
    BY DEF Calls
  <2>2. PathInv'
    <3>1. visiting' = {stack'[i].test : i \in 1..Len(stack')}
      BY <1>1, <1>6, <2>1
    <3>2. \A i, j \in 1..Len(stack') : i # j => stack'[i].test # stack'[j].test
      BY <1>1, <1>6, <2>1
    <3>3. ASSUME NEW i \in 1..Len(stack')
          PROVE  /\ i < Len(stack') => stack'[i + 1].test \in Requires(stack'[i].test)
                 /\ ToSet(stack'[i].rest) \subseteq Requires(stack'[i].test)
                 /\ \A p \in Requires(stack'[i].test) :
                      p \in visited \/ p \in ToSet(stack'[i].rest)
                        \/ (i < Len(stack') /\ p = stack'[i + 1].test)
      <4>1. i \in 1..n /\ (i < n => i + 1 \in 1..n)
        BY <1>1, <1>6, <2>1, <3>3
      <4>2. i < n => base[i + 1].test \in Requires(base[i].test)
        BY <1>1, <2>1, <4>1
      <4> QED
        BY <1>6, <2>1, <4>1, <4>2
    <3> QED
      BY <1>3, <3>1, <3>2, <3>3 DEF PathInv
  <2>3. VisitedInv'
    BY <1>2, <1>3, <1>4, <1>6 DEF VisitedInv
  <2> QED
    BY <1>1, <1>6, <2>1, <2>2, <2>3
<1>7. CASE /\ t \notin visiting /\ t \notin visited
           /\ stack' = Append(base, [test |-> t, rest |-> Ascending(Requires(t))])
           /\ visiting' = visiting \cup {t} /\ UNCHANGED <<phase, reason>>
  <2> DEFINE top == [test |-> t, rest |-> Ascending(Requires(t))]
  <2>1. /\ base \in Seq(Frames) /\ Len(base) = n
        /\ \A i \in 1..n :
             /\ base[i].test = stack[i].test
             /\ ToSet(base[i].rest) \subseteq Requires(base[i].test)
             /\ \A p \in Requires(base[i].test) :
                  p \in visited \/ p \in ToSet(base[i].rest)
                    \/ (IF i < n THEN p = base[i + 1].test ELSE p = t)
        /\ n # 0 => t \in Requires(stack[n].test)
    BY <1>1, PathTyped DEF Calls
  <2>2. Requires(t) \in SUBSET Test
    BY PathTyped
  <2>3. Ascending(Requires(t)) \in Seq(Test) /\ ToSet(Ascending(Requires(t))) = Requires(t)
    BY <2>2, AscendingCorrect
  <2>4. top \in Frames /\ top.test = t /\ ToSet(top.rest) = Requires(t)
    BY <2>3 DEF Frames
  <2>5. stack' = Append(base, top)
    BY <1>7
  <2> HIDE DEF top
  <2>6. /\ stack' \in Seq(Frames) /\ Len(stack') = n + 1
        /\ \A i \in 1..n : stack'[i] = base[i]
        /\ stack'[n + 1] = top
    BY <2>1, <2>4, <2>5, AppendCorrect
  <2>7. PathInv'
    <3>1. visiting' = {stack'[i].test : i \in 1..Len(stack')}
      <4>1. \A x \in visiting' : \E i \in 1..(n + 1) : x = stack'[i].test
        BY <1>1, <1>7, <2>1, <2>4, <2>6
      <4>2. \A i \in 1..(n + 1) : stack'[i].test \in visiting'
        <5> SUFFICES ASSUME NEW i \in 1..(n + 1) PROVE stack'[i].test \in visiting'
          OBVIOUS
        <5>1. CASE i \in 1..n
          BY <1>1, <1>7, <2>1, <2>6, <5>1
        <5>2. CASE i = n + 1
          BY <1>7, <2>4, <2>6, <5>2
        <5> QED
          BY <1>1, <5>1, <5>2
      <4> QED
        BY <2>6, <4>1, <4>2
    <3>2. ASSUME NEW i \in 1..(n + 1), NEW j \in 1..(n + 1), i < j
          PROVE  stack'[i].test # stack'[j].test
      <4>1. i \in 1..n /\ stack'[i].test = stack[i].test
        BY <1>1, <2>1, <2>6, <3>2
      <4>2. CASE j \in 1..n
        BY <1>1, <2>1, <2>6, <3>2, <4>1, <4>2
      <4>3. CASE j = n + 1
        BY <1>1, <1>7, <2>4, <2>6, <4>1, <4>3
      <4> QED
        BY <1>1, <4>2, <4>3
    <3>3. \A i, j \in 1..Len(stack') : i # j => stack'[i].test # stack'[j].test
      <4> SUFFICES ASSUME NEW i \in 1..(n + 1), NEW j \in 1..(n + 1), i # j
                   PROVE  stack'[i].test # stack'[j].test
        BY <2>6
      <4>1. i < j \/ j < i
        BY <1>1
      <4> QED
        BY <3>2, <4>1
    <3>4. ASSUME NEW i \in 1..(n + 1)
          PROVE  /\ i < n + 1 => stack'[i + 1].test \in Requires(stack'[i].test)
                 /\ ToSet(stack'[i].rest) \subseteq Requires(stack'[i].test)
                 /\ \A p \in Requires(stack'[i].test) :
                      p \in visited \/ p \in ToSet(stack'[i].rest)
                        \/ (i < n + 1 /\ p = stack'[i + 1].test)
      <4>1. CASE i = n + 1
        BY <1>1, <2>4, <2>6, <4>1
      <4>2. CASE i = n
        <5>1. i \in 1..n /\ stack'[i] = base[i] /\ stack'[i + 1] = top /\ n # 0
          BY <1>1, <2>6, <4>2
        <5> QED
          BY <1>1, <2>1, <2>4, <4>2, <5>1
      <4>3. CASE i < n
        <5>1. /\ i \in 1..n /\ i + 1 \in 1..n
              /\ stack'[i] = base[i] /\ stack'[i + 1] = base[i + 1]
          BY <1>1, <2>6, <4>3
        <5>2. stack[i + 1].test \in Requires(stack[i].test)
          BY <1>1, <4>3, <5>1
        <5>3. base[i].test = stack[i].test /\ base[i + 1].test = stack[i + 1].test
          BY <2>1, <5>1
        <5>4. /\ ToSet(base[i].rest) \subseteq Requires(base[i].test)
              /\ \A p \in Requires(base[i].test) :
                   p \in visited \/ p \in ToSet(base[i].rest) \/ p = base[i + 1].test
          BY <2>1, <4>3, <5>1
        <5>5. i < n + 1
          BY <1>1, <4>3
        <5> QED
          BY <5>1, <5>2, <5>3, <5>4, <5>5
      <4> QED
        BY <1>1, <4>1, <4>2, <4>3
    <3> QED
      BY <1>3, <2>6, <3>1, <3>3, <3>4 DEF PathInv
  <2>8. VisitedInv'
    BY <1>2, <1>3, <1>4, <1>7 DEF VisitedInv
  <2> QED
    BY <1>1, <1>7, <2>6, <2>7, <2>8
<1> QED
  BY <1>5, <1>6, <1>7 DEF Visit, Requires

(* A step of the walk leaves the rest of the invariant to what it did to phase. *)
LEMMA WalkStep ==
  ASSUME IInv, phase = "checking",
         UNCHANGED <<catalog, request, process, loaded, selection, sealed, stages,
                     workspace, edits>>,
         PathInv', VisitedInv', stack' \in Seq(Frames), roots' \in Seq(Test),
         visiting' \subseteq Test, visited' \subseteq Test,
         \/ phase' = phase /\ reason' = reason
         \/ phase' = "refused" /\ reason' = "cycle" /\ Circular(loaded)
         \/ phase' = "refused" /\ reason' = "catalogue differs"
         \/ /\ phase' = "selecting" /\ reason' = reason /\ ~Circular(loaded)
            /\ process # "prepare" => loaded = sealed.catalog
  PROVE  IInv'
<1> USE DEF request, selection
<1>1. phase' \in {"checking", "refused", "selecting"} /\ phase' \notin Chosen
  BY DEF Chosen
<1>2. stages = <<>> /\ reason = "none"
  BY DEF IInv, StagesInv, ReasonInv
<1>3. TypeInv'
  BY <1>1 DEF IInv, TypeInv, Phases
<1>4. ReasonInv'
  BY <1>1, <1>2 DEF ReasonInv, Chosen, Circular
<1>5. ClosureInv' /\ OrderInv' /\ PlannedInv'
  BY <1>1 DEF IInv, ClosureInv, OrderInv, PlannedInv, Chosen
<1>6. SealedInv'
  <2>1. /\ process' = process /\ sealed' = sealed /\ loaded' = loaded
        /\ phase' \notin {"running", "evidence"}
        /\ process # "prepare" /\ phase' = "selecting" => loaded = sealed.catalog
    BY <1>1
  <2> QED
    BY <1>1, <2>1 DEF IInv, SealedInv
<1>7. StagesInv'
  BY <1>1, <1>2 DEF IInv, StagesInv
<1> QED
  BY <1>3, <1>4, <1>5, <1>6, <1>7 DEF IInv

LEMMA VisitRootCorrect == IInv /\ VisitRoot => IInv'
<1> SUFFICES ASSUME IInv, VisitRoot PROVE IInv'
  OBVIOUS
<1>1. /\ phase = "checking" /\ stack = <<>> /\ roots # <<>> /\ roots' = Tail(roots)
      /\ Visit(Head(roots), stack)
      /\ UNCHANGED <<catalog, request, process, loaded, visited, selection, sealed,
                     stages, workspace, edits>>
  BY DEF VisitRoot
<1>2. /\ Head(roots) \in Test /\ roots' \in Seq(Test)
      /\ ToSet(roots) = {Head(roots)} \cup ToSet(roots')
  BY <1>1, TailCorrect DEF IInv, TypeInv
<1>3. Calls(Head(roots), stack)
  <2>1. stack \in Seq(Frames) /\ 1..Len(stack) = {}
    BY <1>1, EmptyTyped, PathTyped
  <2> QED
    BY <1>1, <2>1 DEF Calls
<1>4. Test \subseteq visited \cup visiting \cup {Head(roots)} \cup ToSet(roots')
  BY <1>2 DEF IInv, VisitedInv
<1>5. /\ PathInv' /\ VisitedInv'
      /\ stack' \in Seq(Frames) /\ visiting' \subseteq Test
      /\ \/ phase' = phase /\ reason' = reason
         \/ phase' = "refused" /\ reason' = "cycle" /\ Circular(loaded)
  <2> DEFINE t == Head(roots)
  <2>1. t \in Test /\ Calls(t, stack) /\ Visit(t, stack)
    BY <1>1, <1>2, <1>3
  <2>2. Test \subseteq visited \cup visiting \cup {t} \cup ToSet(roots')
    BY <1>4
  <2> HIDE DEF t
  <2> QED
    BY <1>1, <1>2, <2>1, <2>2, VisitCorrect
<1>6. visited' \subseteq Test
  BY <1>1 DEF IInv, TypeInv
<1> QED
  BY <1>1, <1>2, <1>5, <1>6, WalkStep

LEMMA VisitPrerequisiteCorrect == IInv /\ VisitPrerequisite => IInv'
<1> SUFFICES ASSUME IInv, VisitPrerequisite PROVE IInv'
  OBVIOUS
<1> DEFINE n == Len(stack)
           frame == Last(stack)
           t == Head(frame.rest)
           called == [frame EXCEPT !.rest = Tail(@)]
           base == Append(Front(stack), called)
<1>1. /\ phase = "checking" /\ stack # <<>> /\ frame.rest # <<>> /\ Visit(t, base)
      /\ UNCHANGED <<catalog, request, process, loaded, roots, visited, selection,
                     sealed, stages, workspace, edits>>
  BY DEF VisitPrerequisite
<1>2. /\ Front(stack) \in Seq(Frames) /\ Len(Front(stack)) = n - 1
      /\ \A i \in 1..(n - 1) : Front(stack)[i] = stack[i]
      /\ frame = stack[n] /\ n \in 1..n /\ frame \in Frames /\ n \in Nat
  BY <1>1, PathTyped, FrontCorrect
<1>3. /\ frame.rest \in Seq(Test) /\ t \in Test /\ Tail(frame.rest) \in Seq(Test)
      /\ ToSet(frame.rest) = {t} \cup ToSet(Tail(frame.rest))
  BY <1>1, <1>2, TailCorrect DEF Frames
<1>4. called \in Frames /\ called.test = frame.test /\ called.rest = Tail(frame.rest)
  BY <1>2, <1>3 DEF Frames
<1> HIDE DEF frame, t, called
<1>5. /\ base \in Seq(Frames) /\ Len(base) = n
      /\ \A i \in 1..(n - 1) : base[i] = stack[i]
      /\ base[n] = called
  <2>1. n - 1 \in Nat /\ (n - 1) + 1 = n
    BY <1>2
  <2> QED
    BY <1>2, <1>4, <2>1, AppendCorrect
<1> HIDE DEF base
<1>6. t \in Requires(stack[n].test)
  BY <1>2, <1>3 DEF IInv, PathInv
<1>7. Calls(t, base)
  <2>1. ASSUME NEW i \in 1..n
        PROVE  /\ base[i].test = stack[i].test
               /\ ToSet(base[i].rest) \subseteq Requires(base[i].test)
               /\ \A p \in Requires(base[i].test) :
                    p \in visited \/ p \in ToSet(base[i].rest)
                      \/ (IF i < n THEN p = base[i + 1].test ELSE p = t)
    <3>1. /\ ToSet(stack[i].rest) \subseteq Requires(stack[i].test)
          /\ \A p \in Requires(stack[i].test) :
               p \in visited \/ p \in ToSet(stack[i].rest)
                 \/ (i < n /\ p = stack[i + 1].test)
      BY DEF IInv, PathInv
    <3>2. CASE i = n
      BY <1>2, <1>3, <1>4, <1>5, <3>1, <3>2
    <3>3. CASE i # n
      <4>1. i \in 1..(n - 1) /\ i < n /\ i + 1 \in 1..n
        BY <1>2, <3>3
      <4>2. base[i + 1].test = stack[i + 1].test
        <5>1. CASE i + 1 = n
          BY <1>2, <1>4, <1>5, <5>1
        <5>2. CASE i + 1 # n
          <6>1. i + 1 \in 1..(n - 1)
            BY <1>2, <4>1, <5>2
          <6> QED
            BY <1>5, <6>1
        <5> QED
          BY <5>1, <5>2
      <4> QED
        BY <1>5, <3>1, <4>1, <4>2
    <3> QED
      BY <3>2, <3>3
  <2> QED
    BY <1>5, <1>6, <2>1 DEF Calls
<1>8. Test \subseteq visited \cup visiting \cup {t} \cup ToSet(roots') /\ roots' \in Seq(Test)
  BY <1>1 DEF IInv, VisitedInv, TypeInv
<1>9. /\ PathInv' /\ VisitedInv'
      /\ stack' \in Seq(Frames) /\ visiting' \subseteq Test
      /\ \/ phase' = phase /\ reason' = reason
         \/ phase' = "refused" /\ reason' = "cycle" /\ Circular(loaded)
  BY <1>1, <1>3, <1>7, <1>8, VisitCorrect
<1>10. visited' \subseteq Test
  BY <1>1 DEF IInv, TypeInv
<1> QED
  BY <1>1, <1>8, <1>9, <1>10, WalkStep

(* The innermost call returns: all that its test requires is visited, so the   *)
(* test closes no circle with what is.                                         *)
LEMMA LeaveCorrect == IInv /\ Leave => IInv'
<1> SUFFICES ASSUME IInv, Leave PROVE IInv'
  OBVIOUS
<1> DEFINE n == Len(stack)
           t == Last(stack).test
<1>1. /\ phase = "checking" /\ stack # <<>> /\ Last(stack).rest = <<>>
      /\ stack' = Front(stack) /\ visiting' = visiting \ {t} /\ visited' = visited \cup {t}
      /\ UNCHANGED <<catalog, request, process, phase, loaded, roots, selection, sealed,
                     stages, workspace, reason, edits>>
  BY DEF Leave
<1>2. /\ stack' \in Seq(Frames) /\ Len(stack') = n - 1
      /\ \A i \in 1..(n - 1) : stack'[i] = stack[i]
      /\ Last(stack) = stack[n] /\ n \in 1..n /\ n \in Nat
  BY <1>1, PathTyped, FrontCorrect
<1>3. t = stack[n].test /\ t \in visiting /\ t \in Test
  BY <1>2, PathTyped DEF IInv, PathInv
<1> HIDE DEF t
<1>4. Requires(t) \subseteq visited
  <2>1. ToSet(stack[n].rest) = {}
    BY <1>1, <1>2, EmptyTyped
  <2> QED
    BY <1>2, <1>3, <2>1 DEF IInv, PathInv
<1>5. \A u : Requires(u)' = Requires(u)
  BY <1>1 DEF Requires
<1>6. /\ visiting \cap visited = {}
      /\ \A u \in visited : Requires(u) \subseteq visited
      /\ \A S \in SUBSET visited : ~Circle(S)
      /\ Test \subseteq visited \cup visiting \cup ToSet(roots)
  BY DEF IInv, VisitedInv
<1>7. PathInv'
  <2>1. \A i \in 1..(n - 1) : i \in 1..n /\ i < n /\ stack[i].test # t
    BY <1>2, <1>3 DEF IInv, PathInv
  <2>2. visiting' = {stack'[i].test : i \in 1..Len(stack')}
    <3>1. \A x \in visiting' : \E i \in 1..(n - 1) : x = stack[i].test
      <4> SUFFICES ASSUME NEW x \in visiting' PROVE \E i \in 1..(n - 1) : x = stack[i].test
        OBVIOUS
      <4>1. PICK i \in 1..n : x = stack[i].test
        BY <1>1 DEF IInv, PathInv
      <4>2. i # n
        BY <1>1, <1>3, <4>1
      <4>3. i \in 1..(n - 1)
        BY <1>2, <4>2
      <4> QED
        BY <4>1, <4>3
    <3>2. \A i \in 1..(n - 1) : stack[i].test \in visiting'
      BY <1>1, <2>1 DEF IInv, PathInv
    <3> QED
      BY <1>2, <3>1, <3>2
  <2>3. \A i, j \in 1..Len(stack') : i # j => stack'[i].test # stack'[j].test
    BY <1>2, <2>1 DEF IInv, PathInv
  <2>4. ASSUME NEW i \in 1..(n - 1)
        PROVE  /\ i < n - 1 => stack'[i + 1].test \in Requires(stack'[i].test)
               /\ ToSet(stack'[i].rest) \subseteq Requires(stack'[i].test)
               /\ \A p \in Requires(stack'[i].test) :
                    p \in visited' \/ p \in ToSet(stack'[i].rest)
                      \/ (i < n - 1 /\ p = stack'[i + 1].test)
    <3>1. i \in 1..n /\ i < n /\ stack'[i] = stack[i]
      BY <1>2, <2>1
    <3>2. /\ stack[i + 1].test \in Requires(stack[i].test)
          /\ ToSet(stack[i].rest) \subseteq Requires(stack[i].test)
          /\ \A p \in Requires(stack[i].test) :
               p \in visited \/ p \in ToSet(stack[i].rest) \/ p = stack[i + 1].test
      BY <3>1 DEF IInv, PathInv
    <3>3. CASE i + 1 = n
      BY <1>1, <1>2, <1>3, <3>1, <3>2, <3>3
    <3>4. CASE i + 1 # n
      <4>1. i + 1 \in 1..(n - 1) /\ i < n - 1 /\ stack'[i + 1] = stack[i + 1]
        BY <1>2, <3>1, <3>4
      <4> QED
        BY <1>1, <3>1, <3>2, <4>1
    <3> QED
      BY <3>3, <3>4
  <2> QED
    BY <1>2, <1>5, <2>2, <2>3, <2>4 DEF PathInv
<1>8. VisitedInv'
  <2>1. visiting' \cap visited' = {}
    BY <1>1, <1>6
  <2>2. Test \subseteq visited' \cup visiting' \cup ToSet(roots')
    BY <1>1, <1>6
  <2>3. \A u \in visited' : Requires(u) \subseteq visited'
    BY <1>1, <1>4, <1>6
  <2>4. ASSUME NEW S \in SUBSET visited', Circle(S) PROVE FALSE
    <3>1. t \in S
      BY <1>1, <1>6, <2>4
    <3>2. Circle(S \ {t})
      <4>1. ASSUME NEW u \in S PROVE Requires(u) \cap (S \ {t}) # {}
        <5>1. Requires(u) \cap S # {}
          BY <2>4 DEF Circle
        <5>2. Requires(u) \subseteq visited
          BY <1>1, <1>4, <1>6
        <5>3. t \notin visited
          BY <1>3, <1>6
        <5> QED
          BY <5>1, <5>2, <5>3
      <4> QED
        BY <3>1, <4>1 DEF Circle
    <3> QED
      BY <1>1, <1>6, <3>2
  <2> QED
    BY <1>5, <2>1, <2>2, <2>3, <2>4 DEF VisitedInv, Circle
<1>9. visiting' \subseteq Test /\ visited' \subseteq Test /\ roots' \in Seq(Test)
  BY <1>1, <1>3 DEF IInv, TypeInv
<1> QED
  BY <1>1, <1>2, <1>7, <1>8, <1>9, WalkStep

(* When every call has returned, every test is visited: there is no circle. *)
LEMMA CatalogStandsCorrect == IInv /\ CatalogStands => IInv'
<1> SUFFICES ASSUME IInv, CatalogStands PROVE IInv'
  OBVIOUS
<1>1. /\ phase = "checking" /\ stack = <<>> /\ roots = <<>>
      /\ UNCHANGED <<catalog, request, process, loaded, walk, selection, sealed,
                     stages, workspace, edits>>
  BY DEF CatalogStands
<1>2. visited = Test
  <2>1. visiting = {}
    <3>1. 1..Len(stack) = {}
      BY <1>1, EmptyTyped, Zenon
    <3> QED
      BY <3>1 DEF IInv, PathInv
  <2>2. ToSet(roots) = {}
    BY <1>1, EmptyTyped, Zenon
  <2> QED
    BY <2>1, <2>2 DEF IInv, VisitedInv, TypeInv
<1>3. ~Circular(loaded)
  <2> SUFFICES ASSUME NEW S \in (SUBSET Test) \ {{}},
                      \A t \in S : loaded.prerequisites[t] \cap S # {}
               PROVE  FALSE
    BY DEF Circular
  <2>1. Circle(S)
    BY DEF Circle, Requires
  <2> QED
    BY <1>2, <2>1 DEF IInv, VisitedInv
<1>4. PathInv' /\ VisitedInv'
  BY <1>1 DEF IInv, PathInv, VisitedInv, Requires, Circle, walk
<1>5. /\ stack' \in Seq(Frames) /\ roots' \in Seq(Test)
      /\ visiting' \subseteq Test /\ visited' \subseteq Test
  BY <1>1 DEF IInv, TypeInv, walk
<1>6. \/ phase' = "refused" /\ reason' = "catalogue differs"
      \/ /\ phase' = "selecting" /\ reason' = reason /\ ~Circular(loaded)
         /\ process # "prepare" => loaded = sealed.catalog
  BY <1>3 DEF CatalogStands, Refuse
<1> QED
  BY <1>1, <1>4, <1>5, <1>6, WalkStep

-----------------------------------------------------------------------------
(* The selection.  Its steps leave the walk alone. *)
LEMMA WalkKept ==
  ASSUME IInv, UNCHANGED walk, UNCHANGED loaded
  PROVE  /\ PathInv' /\ VisitedInv'
         /\ stack' \in Seq(Frames) /\ roots' \in Seq(Test)
         /\ visiting' \subseteq Test /\ visited' \subseteq Test
<1>1. /\ stack' = stack /\ roots' = roots /\ visiting' = visiting
      /\ visited' = visited /\ loaded' = loaded
  BY DEF walk
<1>2. \A u : Requires(u)' = Requires(u)
  BY <1>1 DEF Requires
<1>3. \A S : Circle(S)' <=> Circle(S)
  BY <1>2 DEF Circle
<1>4. PathInv'
  BY <1>1, <1>2 DEF IInv, PathInv
<1>5. VisitedInv'
  BY <1>1, <1>2, <1>3 DEF IInv, VisitedInv
<1>6. /\ stack' \in Seq(Frames) /\ roots' \in Seq(Test)
      /\ visiting' \subseteq Test /\ visited' \subseteq Test
  BY <1>1 DEF IInv, TypeInv
<1> QED
  BY <1>4, <1>5, <1>6

(* A step of the selection that goes on, *)
LEMMA SelectionStep ==
  ASSUME IInv, phase \in {"selecting", "closing", "ordering"},
         phase' \in {"closing", "ordering", "planned"},
         UNCHANGED <<catalog, request, process, loaded, walk, sealed, stages,
                     workspace, reason, edits>>,
         seeds' \subseteq selected', selected' \subseteq Test,
         pending' \in Seq(Test), ToSet(pending') \subseteq selected',
         remaining' \in [Test -> 0..Cardinality(Test)],
         ordered' \in Seq(Test), ToSet(ordered') \subseteq selected',
         ClosureInv', OrderInv', PlannedInv'
  PROVE  IInv'
<1> USE DEF request
<1>1. PathInv' /\ VisitedInv'
  BY WalkKept
<1>2. phase \in Chosen \cup {"selecting"} /\ phase' \in Chosen /\ phase' \in Phases
  BY DEF Chosen, Phases
<1>3. TypeInv'
  BY <1>2, WalkKept DEF IInv, TypeInv
<1>4. ReasonInv'
  BY <1>2 DEF IInv, ReasonInv
<1>5. SealedInv'
  BY <1>2 DEF IInv, SealedInv
<1>6. StagesInv'
  <2>1. stages = <<>> /\ phase' # "evidence"
    BY DEF IInv, StagesInv
  <2> QED
    BY <2>1 DEF IInv, StagesInv
<1> QED
  BY <1>1, <1>3, <1>4, <1>5, <1>6 DEF IInv

(* and any step that refuses the invocation. *)
LEMMA RefusedStep ==
  ASSUME IInv, NEW why, Refuse(why), why # "cycle", why # "selected cycle",
         UNCHANGED <<catalog, request, process, loaded, walk, seeds, selected, pending,
                     remaining, ordered, sealed, stages, edits>>,
         workspace' \in {"as left", "changed"}, phase # "evidence"
  PROVE  IInv'
<1> USE DEF request
<1>1. phase' = "refused" /\ reason' = why /\ phase' \in Phases /\ phase' \notin Chosen
  BY DEF Refuse, Phases, Chosen
<1>2. PathInv' /\ VisitedInv'
  BY WalkKept
<1>3. TypeInv'
  BY <1>1, WalkKept DEF IInv, TypeInv
<1>4. ReasonInv'
  BY <1>1 DEF ReasonInv, Chosen
<1>5. ClosureInv' /\ OrderInv' /\ PlannedInv'
  BY <1>1 DEF ClosureInv, OrderInv, PlannedInv, Chosen
<1>6. SealedInv'
  <2>1. /\ process' = process /\ sealed' = sealed
        /\ phase' \notin {"running", "evidence"} /\ phase' \notin Chosen \cup {"selecting"}
    BY <1>1
  <2> QED
    BY <2>1 DEF IInv, SealedInv
<1>7. StagesInv'
  BY <1>1 DEF IInv, StagesInv
<1> QED
  BY <1>2, <1>3, <1>4, <1>5, <1>6, <1>7 DEF IInv

LEMMA SelectCorrect == IInv /\ Select => IInv'
<1> SUFFICES ASSUME IInv, Select PROVE IInv'
  OBVIOUS
<1> DEFINE chosen == loaded.profile \cup {t \in Test : Applies(t)}
<1>1. /\ phase = "selecting"
      /\ UNCHANGED <<catalog, request, process, loaded, walk, remaining, ordered,
                     sealed, stages, workspace, edits>>
  BY DEF Select
<1>2. CASE Refuse("unmapped") /\ UNCHANGED <<seeds, selected, pending>>
  BY <1>1, <1>2, RefusedStep DEF IInv, TypeInv
<1>3. CASE /\ seeds' = chosen /\ selected' = chosen /\ pending' \in SetToSeqs(chosen)
           /\ phase' = "closing" /\ UNCHANGED reason
  <2>1. chosen \in SUBSET Test
    BY DEF IInv, TypeInv, WellFormed
  <2> DEFINE n == Cardinality(chosen)
  <2>2. IsFiniteSet(chosen) /\ n \in Nat
    BY <2>1, Finite
  <2>3. pending' \in Injection(1..n, chosen)
    BY <1>3 DEF SetToSeqs, Injection, IsInjective
  <2>4. pending' \in Surjection(1..n, chosen)
    BY <2>2, <2>3, FS_Interval, FS_Injection
  <2>5. pending' \in [1..n -> chosen] /\ ToSet(pending') = chosen
    BY <2>4 DEF Surjection, ToSet
  <2> HIDE DEF chosen
  <2>6. pending' \in Seq(Test)
    BY <2>1, <2>2, <2>5
  <2>7. ClosureInv'
    <3>1. selected' \subseteq Closure(loaded, seeds)'
      BY <1>1, <1>3, <2>1 DEF Closure
    <3> QED
      BY <1>3, <2>5, <3>1 DEF ClosureInv
  <2>8. OrderInv' /\ PlannedInv'
    BY <1>3 DEF OrderInv, PlannedInv
  <2>9. ordered = <<>>
    BY <1>1 DEF IInv, PlannedInv
  <2>10. /\ ordered' \in Seq(Test) /\ ToSet(ordered') \subseteq selected'
         /\ remaining' \in [Test -> 0..Cardinality(Test)]
    BY <1>1, <2>9, EmptyTyped DEF IInv, TypeInv
  <2> QED
    BY <1>1, <1>3, <2>1, <2>5, <2>6, <2>7, <2>8, <2>10, SelectionStep
<1> QED
  BY <1>2, <1>3 DEF Select

(* The test at the end of the list is expanded: what it requires comes to the   *)
(* selection, and to the list unless it was selected already.                   *)
LEMMA IncludeCorrect == IInv /\ IncludePrerequisites => IInv'
<1> SUFFICES ASSUME IInv, IncludePrerequisites PROVE IInv'
  OBVIOUS
<1> DEFINE t == Last(pending)
           new == Requires(t) \ selected
           more == Ascending(new)
<1>1. /\ phase = "closing" /\ pending # <<>>
      /\ selected' = selected \cup new /\ pending' = Front(pending) \o more
      /\ UNCHANGED <<catalog, request, process, phase, loaded, walk, seeds, remaining,
                     ordered, sealed, stages, workspace, reason, edits>>
  BY DEF IncludePrerequisites, Requires
<1>2. /\ Front(pending) \in Seq(Test) /\ Len(Front(pending)) = Len(pending) - 1
      /\ \A i \in 1..(Len(pending) - 1) : Front(pending)[i] = pending[i]
      /\ t = pending[Len(pending)] /\ Len(pending) \in 1..Len(pending) /\ t \in Test
      /\ Len(pending) \in Nat
  <2>1. pending \in Seq(Test)
    BY DEF IInv, TypeInv
  <2> QED
    BY <1>1, <2>1, FrontCorrect
<1>3. t \in selected /\ selected \subseteq Test
  <2>1. pending \in Seq(Test) /\ ToSet(pending) \subseteq selected /\ selected \subseteq Test
    BY DEF IInv, TypeInv
  <2>2. pending[Len(pending)] \in ToSet(pending)
    BY <1>2, <2>1, MembersTyped
  <2> QED
    BY <1>2, <2>1, <2>2
<1>4. Requires(t) \subseteq Test
  BY <1>2, PathTyped
<1> HIDE DEF t
<1>5. new \in SUBSET Test
  BY <1>4
<1>6. more \in Seq(Test) /\ ToSet(more) = new
  BY <1>5, AscendingCorrect
<1> HIDE DEF new, more
<1> DEFINE front == Front(pending)
<1>7. ToSet(pending) = ToSet(front) \cup {t}
  <2>1. ToSet(pending) = {pending[i] : i \in 1..Len(pending)}
    BY MembersTyped DEF IInv, TypeInv
  <2>2. ToSet(front) = {front[i] : i \in 1..(Len(pending) - 1)}
    BY <1>2, MembersTyped
  <2>3. ToSet(front) = {pending[i] : i \in 1..(Len(pending) - 1)}
    BY <1>2, <2>2
  <2>4. \A i \in 1..Len(pending) : i \in 1..(Len(pending) - 1) \/ i = Len(pending)
    BY <1>2
  <2>5. \A i \in 1..(Len(pending) - 1) : i \in 1..Len(pending)
    BY <1>2
  <2> QED
    BY <1>2, <2>1, <2>3, <2>4, <2>5
<1> HIDE DEF front
<1>8. pending' \in Seq(Test) /\ ToSet(pending') = ToSet(front) \cup new
  <2>1. front \in Seq(Test) /\ pending' = front \o more
    BY <1>1, <1>2 DEF front
  <2>2. /\ pending' \in Seq(Test) /\ Len(pending') = Len(front) + Len(more)
        /\ \A i \in 1..Len(front) : pending'[i] = front[i]
        /\ \A i \in 1..Len(more) : pending'[Len(front) + i] = more[i]
        /\ Len(front) \in Nat /\ Len(more) \in Nat
    BY <1>6, <2>1, ConcatProperties
  <2>3. /\ ToSet(pending') = {pending'[i] : i \in 1..(Len(front) + Len(more))}
        /\ ToSet(front) = {front[i] : i \in 1..Len(front)}
        /\ new = {more[i] : i \in 1..Len(more)}
    <3>1. \A s \in Seq(Test) : ToSet(s) = {s[i] : i \in 1..Len(s)}
      BY MembersTyped
    <3>2. ToSet(pending') = {pending'[i] : i \in 1..Len(pending')}
      BY <2>2, <3>1
    <3>3. ToSet(front) = {front[i] : i \in 1..Len(front)}
      BY <2>1, <3>1
    <3>4. ToSet(more) = {more[i] : i \in 1..Len(more)}
      BY <1>6, <3>1
    <3> QED
      BY <1>6, <2>2, <3>2, <3>3, <3>4
  <2>4. ASSUME NEW x \in ToSet(pending') PROVE x \in ToSet(front) \cup new
    <3>1. PICK i \in 1..(Len(front) + Len(more)) : x = pending'[i]
      BY <2>3
    <3>2. CASE i \in 1..Len(front)
      BY <2>2, <2>3, <3>1, <3>2
    <3>3. CASE i \notin 1..Len(front)
      <4>1. i - Len(front) \in 1..Len(more) /\ Len(front) + (i - Len(front)) = i
        BY <2>2, <3>3
      <4> QED
        BY <2>2, <2>3, <3>1, <4>1
    <3> QED
      BY <3>2, <3>3
  <2>5. \A i \in 1..Len(front) : i \in 1..(Len(front) + Len(more))
    BY <2>2
  <2>6. \A i \in 1..Len(more) : Len(front) + i \in 1..(Len(front) + Len(more))
    BY <2>2
  <2>7. ToSet(front) \subseteq ToSet(pending') /\ new \subseteq ToSet(pending')
    BY <2>2, <2>3, <2>5, <2>6
  <2> QED
    BY <2>2, <2>4, <2>7
<1>9. /\ selected \subseteq Closure(loaded, seeds)
      /\ \A u \in selected : u \in ToSet(pending) \/ Requires(u) \subseteq selected
      /\ seeds \subseteq selected /\ ToSet(pending) \subseteq selected
  BY <1>1 DEF IInv, ClosureInv, Chosen, TypeInv
<1>10. ClosureInv'
  <2>1. \A u : Requires(u)' = Requires(u)
    BY <1>1 DEF Requires
  <2>2. Requires(t) \subseteq Closure(loaded, seeds)
    BY <1>3, <1>4, <1>9 DEF Closure, Closed, Requires
  <2>3. selected' \subseteq Closure(loaded, seeds)
    BY <1>1, <1>9, <2>2 DEF new
  <2>4. ASSUME NEW u \in selected'
        PROVE  u \in ToSet(pending') \/ Requires(u) \subseteq selected'
    <3>1. CASE u \in new
      BY <1>8, <3>1
    <3>2. CASE u = t
      BY <1>1, <3>2 DEF new
    <3>3. CASE u \in selected /\ u # t
      BY <1>1, <1>7, <1>8, <1>9, <3>3
    <3> QED
      BY <1>1, <2>4, <3>1, <3>2, <3>3
  <2> QED
    BY <1>1, <2>1, <2>3, <2>4 DEF ClosureInv, Closure, Closed
<1>11. OrderInv' /\ PlannedInv'
  BY <1>1 DEF OrderInv, PlannedInv
<1>12. /\ seeds' \subseteq selected' /\ selected' \subseteq Test
       /\ ToSet(pending') \subseteq selected'
       /\ remaining' \in [Test -> 0..Cardinality(Test)]
       /\ ordered' \in Seq(Test) /\ ToSet(ordered') \subseteq selected'
  BY <1>1, <1>3, <1>5, <1>7, <1>8, <1>9 DEF IInv, TypeInv
<1> QED
  BY <1>1, <1>8, <1>10, <1>11, <1>12, SelectionStep

(* Expanded to the end, the selection holds all that its tests require. *)
LEMMA SelectedClosed ==
  ASSUME IInv, phase \in Chosen, pending = <<>>
  PROVE  \A t \in selected : Requires(t) \subseteq selected
BY EmptyTyped DEF IInv, ClosureInv

LEMMA StartOrderCorrect == IInv /\ StartOrder => IInv'
<1> SUFFICES ASSUME IInv, StartOrder PROVE IInv'
  OBVIOUS
<1>1. /\ phase = "closing" /\ pending = <<>>
      /\ UNCHANGED <<catalog, request, process, loaded, walk, seeds, selected, pending,
                     sealed, stages, workspace, edits>>
  BY DEF StartOrder
<1>2. CASE Refuse("retired") /\ UNCHANGED <<remaining, ordered>>
  BY <1>1, <1>2, RefusedStep DEF IInv, TypeInv
<1>3. CASE /\ Retired = {}
           /\ remaining' = [t \in Test |->
                 IF t \in selected THEN Cardinality(Requires(t) \cap selected) ELSE 0]
           /\ ordered' = <<>> /\ phase' = "ordering" /\ UNCHANGED reason
  <2>1. /\ ToSet(ordered') = {} /\ ordered' \in Seq(Test)
        /\ Len(ordered') = 0 /\ 1..Len(ordered') = {}
    BY <1>3, EmptyTyped, Zenon
  <2>2. Waiting' = selected
    BY <1>1, <2>1 DEF Waiting
  <2>3. \A u : Requires(u)' = Requires(u)
    BY <1>1 DEF Requires
  <2>4. remaining' \in [Test -> 0..Cardinality(Test)]
    <3>1. \A t \in Test : Requires(t) \cap selected \in SUBSET Test
      BY PathTyped
    <3>2. \A t \in Test : Cardinality(Requires(t) \cap selected) \in 0..Cardinality(Test)
      BY <3>1, Finite
    <3>3. 0 \in 0..Cardinality(Test)
      BY Finite
    <3> QED
      BY <1>3, <3>2, <3>3
  <2>5. selected \subseteq Test /\ seeds \subseteq selected
    BY DEF IInv, TypeInv
  <2>6. OrderInv'
    <3>1. \A t \in selected' : loaded'.mode[t] # "retired"
      BY <1>1, <1>3 DEF Retired
    <3>2. \A t \in selected' : remaining'[t] = Cardinality(Requires(t) \cap Waiting')
      BY <1>1, <1>3, <2>2, <2>5
    <3> QED
      BY <1>1, <2>1, <2>3, <3>1, <3>2 DEF OrderInv
  <2>7. ClosureInv'
    <3>1. /\ selected \subseteq Closure(loaded, seeds)
          /\ \A t \in selected : t \in ToSet(pending) \/ Requires(t) \subseteq selected
      BY <1>1 DEF IInv, ClosureInv, Chosen
    <3>2. Closure(loaded, seeds)' = Closure(loaded, seeds)
      BY <1>1 DEF Closure, Closed
    <3> QED
      BY <1>1, <2>3, <3>1, <3>2 DEF ClosureInv
  <2>8. PlannedInv'
    BY <1>3 DEF PlannedInv
  <2>9. pending' \in Seq(Test) /\ ToSet(pending') \subseteq selected'
    BY <1>1 DEF IInv, TypeInv
  <2> QED
    BY <1>1, <1>3, <2>1, <2>4, <2>5, <2>6, <2>7, <2>8, <2>9, SelectionStep
<1> QED
  BY <1>2, <1>3 DEF StartOrder, Requires

LEMMA WaitingCounted ==
  ASSUME IInv, phase = "ordering", NEW u \in selected
  PROVE  /\ IsFiniteSet(Requires(u) \cap Waiting)
         /\ remaining[u] = Cardinality(Requires(u) \cap Waiting)
         /\ remaining[u] = 0 <=> Requires(u) \cap Waiting = {}
<1>1. u \in Test
  BY DEF IInv, TypeInv
<1>2. Requires(u) \cap Waiting \in SUBSET Test
  BY <1>1, PathTyped
<1>3. IsFiniteSet(Requires(u) \cap Waiting)
  BY <1>2, Finite
<1>4. remaining[u] = Cardinality(Requires(u) \cap Waiting)
  BY DEF IInv, OrderInv
<1> QED
  BY <1>3, <1>4, FS_EmptySet

(* A test leaves the heap: all it requires is ordered before it, what required  *)
(* it waits for one test less, and whatever else could have gone costs more.    *)
LEMMA OrderCorrect == IInv /\ Order => IInv'
<1> SUFFICES ASSUME IInv, Order PROVE IInv'
  OBVIOUS
<1> DEFINE n == Len(ordered)
<1>1. /\ phase = "ordering"
      /\ UNCHANGED <<catalog, request, process, phase, loaded, walk, seeds, selected,
                     pending, sealed, stages, workspace, reason, edits>>
  BY DEF Order
<1>2. PICK t \in Ready :
        /\ HeapTop(t) /\ ordered' = Append(ordered, t)
        /\ remaining' = [u \in Test |->
             IF u \in selected /\ t \in Requires(u) THEN remaining[u] - 1 ELSE remaining[u]]
  BY DEF Order, Requires
<1>3. /\ pending = <<>>
      /\ \A u \in selected : loaded.mode[u] # "retired"
      /\ \A i, j \in 1..n : i # j => ordered[i] # ordered[j]
      /\ \A j \in 1..n : \A p \in Requires(ordered[j]) : \E i \in 1..(j - 1) : ordered[i] = p
      /\ \A i \in 1..n : \A u \in selected :
           /\ \A k \in 1..i : u # ordered[k]
           /\ \A p \in Requires(u) : \E k \in 1..(i - 1) : ordered[k] = p
           => Before(ordered[i], u)
  BY <1>1 DEF IInv, OrderInv
<1>4. /\ ordered \in Seq(Test) /\ ToSet(ordered) \subseteq selected
      /\ seeds \subseteq selected /\ selected \subseteq Test
      /\ remaining \in [Test -> 0..Cardinality(Test)]
      /\ pending \in Seq(Test) /\ ToSet(pending) \subseteq selected
  BY DEF IInv, TypeInv
<1>5. ToSet(ordered) = {ordered[i] : i \in 1..n} /\ n \in Nat
  BY <1>4, MembersTyped
<1>6. t \in selected /\ t \in Test /\ t \notin ToSet(ordered) /\ remaining[t] = 0 /\ t \in Waiting
  BY <1>4 DEF Ready, Waiting
<1>7. /\ ordered' \in Seq(Test) /\ Len(ordered') = n + 1
      /\ \A i \in 1..n : ordered'[i] = ordered[i]
      /\ ordered'[n + 1] = t
      /\ ToSet(ordered') = ToSet(ordered) \cup {t}
  BY <1>2, <1>4, <1>6, AppendCorrect
<1>8. Waiting' = Waiting \ {t}
  BY <1>1, <1>7 DEF Waiting
<1>9. \A u : Requires(u)' = Requires(u)
  BY <1>1 DEF Requires
<1>10. \A i \in 1..(n + 1) : i \in 1..n \/ i = n + 1
  BY <1>5
<1>11. \A p \in Requires(t) : \E i \in 1..n : ordered[i] = p
  <2>1. Requires(t) \subseteq selected
    BY <1>1, <1>3, <1>6, SelectedClosed DEF Chosen
  <2>2. Requires(t) \cap Waiting = {}
    BY <1>1, <1>6, WaitingCounted
  <2> QED
    BY <1>5, <2>1, <2>2 DEF Waiting
<1>12. \A i, j \in 1..(n + 1) : i # j => ordered'[i] # ordered'[j]
  <2>1. \A i \in 1..n : ordered[i] # t
    BY <1>5, <1>6
  <2> SUFFICES ASSUME NEW i \in 1..(n + 1), NEW j \in 1..(n + 1), i # j
               PROVE  ordered'[i] # ordered'[j]
    OBVIOUS
  <2>2. CASE i \in 1..n /\ j \in 1..n
    BY <1>3, <1>7, <2>2
  <2>3. CASE i \in 1..n /\ j = n + 1
    BY <1>7, <2>1, <2>3
  <2>4. CASE i = n + 1 /\ j \in 1..n
    BY <1>7, <2>1, <2>4
  <2> QED
    BY <1>10, <2>2, <2>3, <2>4
<1>13. \A j \in 1..(n + 1) : \A p \in Requires(ordered'[j]) :
          \E i \in 1..(j - 1) : ordered'[i] = p
  <2> SUFFICES ASSUME NEW j \in 1..(n + 1), NEW p \in Requires(ordered'[j])
               PROVE  \E i \in 1..(j - 1) : ordered'[i] = p
    OBVIOUS
  <2>1. CASE j \in 1..n
    <3>1. PICK i \in 1..(j - 1) : ordered[i] = p
      BY <1>3, <1>7, <2>1
    <3>2. i \in 1..n
      BY <1>5, <2>1
    <3> QED
      BY <1>7, <3>1, <3>2
  <2>2. CASE j = n + 1
    <3>1. PICK i \in 1..n : ordered[i] = p
      BY <1>7, <1>11, <2>2
    <3>2. i \in 1..(j - 1)
      BY <1>5, <2>2
    <3> QED
      BY <1>7, <3>1, <3>2
  <2> QED
    BY <1>10, <2>1, <2>2
<1>14. \A u \in selected :
         remaining'[u] = Cardinality(Requires(u) \cap Waiting') /\ remaining'[u] \in 0..Cardinality(Test)
  <2> SUFFICES ASSUME NEW u \in selected
               PROVE  /\ remaining'[u] = Cardinality(Requires(u) \cap Waiting')
                      /\ remaining'[u] \in 0..Cardinality(Test)
    OBVIOUS
  <2> DEFINE W == Requires(u) \cap Waiting
  <2>1. IsFiniteSet(W) /\ remaining[u] = Cardinality(W)
    BY <1>1, WaitingCounted
  <2>2. Requires(u) \cap Waiting' = W \ {t} /\ u \in Test
    BY <1>4, <1>8
  <2>3. remaining[u] \in 0..Cardinality(Test) /\ Cardinality(Test) \in Nat
    BY <1>4, <2>2, Finite
  <2> HIDE DEF W
  <2>4. CASE t \in Requires(u)
    <3>1. t \in W
      BY <1>6, <2>4 DEF W
    <3>2. Cardinality(W \ {t}) = Cardinality(W) - 1 /\ Cardinality(W \ {t}) \in Nat
      BY <2>1, <3>1, FS_RemoveElement, FS_CardinalityType
    <3>3. remaining'[u] = remaining[u] - 1
      BY <1>2, <2>2, <2>4
    <3>4. remaining'[u] = Cardinality(W \ {t})
      BY <2>1, <3>2, <3>3
    <3>5. remaining'[u] \in 0..Cardinality(Test)
      BY <2>1, <2>3, <3>2, <3>3
    <3>6. Cardinality(Requires(u) \cap Waiting') = Cardinality(W \ {t})
      BY <2>2
    <3> QED
      BY <3>4, <3>5, <3>6
  <2>5. CASE t \notin Requires(u)
    <3>1. W \ {t} = W
      BY <2>5 DEF W
    <3>2. remaining'[u] = remaining[u]
      BY <1>2, <2>2, <2>5
    <3> QED
      BY <2>1, <2>2, <2>3, <3>1, <3>2
  <2> QED
    BY <2>4, <2>5
<1>15. remaining' \in [Test -> 0..Cardinality(Test)]
  <2>1. \A u \in Test : u \notin selected => remaining'[u] = remaining[u]
    BY <1>2
  <2>2. \A u \in Test : remaining'[u] \in 0..Cardinality(Test)
    BY <1>4, <1>14, <2>1
  <2>3. remaining' = [u \in Test |-> remaining'[u]]
    BY <1>2
  <2> QED
    BY <2>2, <2>3
<1>16. \A i \in 1..(n + 1) : \A u \in selected :
         /\ \A k \in 1..i : u # ordered'[k]
         /\ \A p \in Requires(u) : \E k \in 1..(i - 1) : ordered'[k] = p
         => Before(ordered'[i], u)
  <2> SUFFICES ASSUME NEW i \in 1..(n + 1), NEW u \in selected,
                      \A k \in 1..i : u # ordered'[k],
                      \A p \in Requires(u) : \E k \in 1..(i - 1) : ordered'[k] = p
               PROVE  Before(ordered'[i], u)
    OBVIOUS
  <2>1. \A k \in 1..(i - 1) : k \in 1..n /\ ordered'[k] = ordered[k]
    BY <1>5, <1>7
  <2>2. CASE i \in 1..n
    <3>1. \A k \in 1..i : k \in 1..n /\ u # ordered[k]
      BY <1>5, <1>7, <2>2
    <3>2. \A p \in Requires(u) : \E k \in 1..(i - 1) : ordered[k] = p
      BY <2>1
    <3> QED
      BY <1>3, <1>7, <2>2, <3>1, <3>2
  <2>3. CASE i = n + 1
    <3>1. u # t /\ u \notin ToSet(ordered)
      <4>1. n + 1 \in 1..i /\ \A k \in 1..n : k \in 1..i
        BY <1>5, <2>3
      <4>2. \A k \in 1..n : u # ordered[k]
        BY <1>7, <4>1
      <4> QED
        BY <1>5, <1>7, <4>1, <4>2
    <3>2. Requires(u) \subseteq ToSet(ordered)
      BY <1>5, <2>1
    <3>3. Requires(u) \cap Waiting = {}
      BY <3>2 DEF Waiting
    <3>4. remaining[u] = 0
      BY <1>1, <3>3, WaitingCounted
    <3>5. u \in Ready \ {t}
      BY <3>1, <3>4 DEF Ready, Waiting
    <3> QED
      BY <1>2, <1>7, <2>3, <3>5 DEF HeapTop
  <2> QED
    BY <1>10, <2>2, <2>3
<1>17. OrderInv'
  <2>1. \A a, b : Before(a, b)' <=> Before(a, b)
    BY <1>1 DEF Before
  <2>2. /\ loaded' = loaded /\ selected' = selected /\ pending' = pending
    BY <1>1
  <2>3. \A u \in selected' : remaining'[u] = Cardinality(Requires(u) \cap Waiting')
    BY <1>14, <2>2
  <2>4. \A u \in selected' : loaded'.mode[u] # "retired"
    BY <1>3, <2>2
  <2> HIDE DEF n
  <2>5. \A i \in 1..(n + 1) : \A u \in selected' :
         /\ \A k \in 1..i : u # ordered'[k]
         /\ \A p \in Requires(u) : \E k \in 1..(i - 1) : ordered'[k] = p
         => Before(ordered'[i], u)
    BY <1>16, <2>2
  <2>6. (\A i \in 1..Len(ordered) : \A u \in selected :
            /\ \A k \in 1..i : u # ordered[k]
            /\ \A p \in Requires(u) : \E k \in 1..(i - 1) : ordered[k] = p
            => Before(ordered[i], u))'
    BY <1>7, <1>9, <2>1, <2>5
  <2>7. (/\ \A i, j \in 1..Len(ordered) : i # j => ordered[i] # ordered[j]
         /\ \A j \in 1..Len(ordered) : \A p \in Requires(ordered[j]) :
              \E i \in 1..(j - 1) : ordered[i] = p)'
    BY <1>7, <1>9, <1>12, <1>13
  <2>8. (\A u \in selected : remaining[u] = Cardinality(Requires(u) \cap Waiting))'
    BY <1>9, <2>3
  <2>9. pending' = <<>>
    BY <1>3, <2>2
  <2> QED
    BY <2>4, <2>6, <2>7, <2>8, <2>9 DEF OrderInv
<1>18. ClosureInv'
  <2>1. /\ selected \subseteq Closure(loaded, seeds)
        /\ \A u \in selected : u \in ToSet(pending) \/ Requires(u) \subseteq selected
    BY <1>1 DEF IInv, ClosureInv, Chosen
  <2>2. Closure(loaded, seeds)' = Closure(loaded, seeds)
    BY <1>1 DEF Closure, Closed
  <2> QED
    BY <1>1, <1>9, <2>1, <2>2 DEF ClosureInv
<1>19. PlannedInv'
  BY <1>1 DEF PlannedInv
<1>20. ToSet(ordered') \subseteq selected
  BY <1>4, <1>6, <1>7
<1> QED
  BY <1>1, <1>4, <1>7, <1>15, <1>17, <1>18, <1>19, <1>20, SelectionStep

LEMMA OrderKept ==
  ASSUME IInv, phase \in {"ordering", "planned"} \/ phase' = phase,
         UNCHANGED <<loaded, selected, pending, remaining, ordered>>
  PROVE  OrderInv'
<1> SUFFICES ASSUME phase \in {"ordering", "planned"} PROVE OrderInv'
  BY DEF OrderInv
<1>1. /\ loaded' = loaded /\ selected' = selected /\ pending' = pending
      /\ remaining' = remaining /\ ordered' = ordered
  OBVIOUS
<1>2. \A u : Requires(u)' = Requires(u)
  BY <1>1 DEF Requires
<1>3. Waiting' = Waiting
  BY <1>1 DEF Waiting
<1>4. \A a, b : Before(a, b)' <=> Before(a, b)
  BY <1>1 DEF Before
<1>5. OrderInv
  BY DEF IInv
<1>6. (\A i \in 1..Len(ordered) : \A u \in selected :
          /\ \A k \in 1..i : u # ordered[k]
          /\ \A p \in Requires(u) : \E k \in 1..(i - 1) : ordered[k] = p
          => Before(ordered[i], u))'
  BY <1>1, <1>2, <1>4, <1>5 DEF OrderInv
<1>7. (/\ pending = <<>>
       /\ \A u \in selected : loaded.mode[u] # "retired"
       /\ \A i, j \in 1..Len(ordered) : i # j => ordered[i] # ordered[j]
       /\ \A j \in 1..Len(ordered) : \A p \in Requires(ordered[j]) :
            \E i \in 1..(j - 1) : ordered[i] = p)'
  <2>1. /\ pending = <<>>
        /\ \A u \in selected : loaded.mode[u] # "retired"
        /\ \A i, j \in 1..Len(ordered) : i # j => ordered[i] # ordered[j]
        /\ \A j \in 1..Len(ordered) : \A p \in Requires(ordered[j]) :
             \E i \in 1..(j - 1) : ordered[i] = p
    BY <1>5 DEF OrderInv
  <2> QED
    BY <1>1, <1>2, <2>1
<1>8. (\A u \in selected : remaining[u] = Cardinality(Requires(u) \cap Waiting))'
  BY <1>1, <1>2, <1>3, <1>5 DEF OrderInv
<1> QED
  BY <1>6, <1>7, <1>8 DEF OrderInv

(* The heap is empty: what still waited would be a circle of the catalogue. *)
LEMMA OrderedCorrect == IInv /\ Ordered => IInv'
<1> SUFFICES ASSUME IInv, Ordered PROVE IInv'
  OBVIOUS
<1>1. /\ phase = "ordering" /\ Ready = {}
      /\ UNCHANGED <<catalog, request, process, loaded, walk, selection, sealed,
                     stages, workspace, edits>>
  BY DEF Ordered
<1>2. Waiting = {}
  <2> SUFFICES ASSUME Waiting # {} PROVE FALSE
    OBVIOUS
  <2>1. Waiting \subseteq selected /\ Waiting \subseteq Test
    BY DEF IInv, TypeInv, Waiting
  <2>2. ASSUME NEW u \in Waiting PROVE loaded.prerequisites[u] \cap Waiting # {}
    <3>1. remaining[u] # 0
      BY <1>1 DEF Ready
    <3> QED
      BY <1>1, <2>1, <3>1, WaitingCounted DEF Requires
  <2>3. Circular(loaded)
    BY <2>1, <2>2 DEF Circular
  <2> QED
    BY <1>1, <2>3 DEF IInv, ReasonInv, Chosen
<1>3. CASE Refuse("plan differs")
  <2>1. workspace' \in {"as left", "changed"}
    BY <1>1 DEF IInv, TypeInv
  <2> QED
    BY <1>1, <1>3, <2>1, RefusedStep DEF selection
<1>4. CASE phase' = "planned" /\ UNCHANGED reason
  <2>1. /\ seeds' = seeds /\ selected' = selected /\ pending' = pending
        /\ remaining' = remaining /\ ordered' = ordered /\ loaded' = loaded
    BY <1>1 DEF selection
  <2>2. \A u : Requires(u)' = Requires(u)
    BY <2>1 DEF Requires
  <2>3. OrderInv'
    BY <1>1, <2>1, OrderKept
  <2>4. ClosureInv'
    <3>1. /\ selected \subseteq Closure(loaded, seeds)
          /\ \A u \in selected : u \in ToSet(pending) \/ Requires(u) \subseteq selected
      BY <1>1 DEF IInv, ClosureInv, Chosen
    <3>2. Closure(loaded, seeds)' = Closure(loaded, seeds)
      BY <2>1 DEF Closure, Closed
    <3> QED
      BY <2>1, <2>2, <3>1, <3>2 DEF ClosureInv
  <2>5. PlannedInv'
    BY <1>2, <1>4, <2>1 DEF PlannedInv, Waiting
  <2>6. /\ seeds' \subseteq selected' /\ selected' \subseteq Test
        /\ pending' \in Seq(Test) /\ ToSet(pending') \subseteq selected'
        /\ remaining' \in [Test -> 0..Cardinality(Test)]
        /\ ordered' \in Seq(Test) /\ ToSet(ordered') \subseteq selected'
    BY <2>1 DEF IInv, TypeInv
  <2> QED
    BY <1>1, <1>4, <2>3, <2>4, <2>5, <2>6, SelectionStep
<1> QED
  BY <1>2, <1>3, <1>4 DEF Ordered

-----------------------------------------------------------------------------
(* The sealed plan has every test after all it requires. *)
SealedOrdered ==
  \A j \in 1..Len(sealed.plan) : \A p \in sealed.catalog.prerequisites[sealed.plan[j]] :
    \E i \in 1..(j - 1) : sealed.plan[i] = p

(* The commands.  A process that reads the catalogue starts over. *)
LEMMA ReadStep ==
  ASSUME IInv, NEW next \in Processes \ {"prepare"}, Read(next),
         phase = "planned", sealed'.plan \in Seq(Test), SealedOrdered',
         UNCHANGED <<catalog, request, stages, workspace, reason, edits>>
  PROVE  IInv'
<1>1. /\ process' = next /\ loaded' = catalog /\ phase' = "checking"
      /\ stack' = <<>> /\ roots' = Ascending(Test) /\ visiting' = {} /\ visited' = {}
      /\ seeds' = {} /\ selected' = {} /\ pending' = <<>>
      /\ remaining' = [t \in Test |-> 0] /\ ordered' = <<>>
      /\ catalog' = catalog /\ operation' = operation /\ facts' = facts
      /\ stages' = stages /\ workspace' = workspace /\ reason' = reason /\ edits' = edits
  BY DEF Read, request
<1>2. stages = <<>> /\ reason = "none"
  BY DEF IInv, StagesInv, ReasonInv
<1>3. /\ WellFormed(catalog) /\ operation \in Operations /\ facts \in Facts
      /\ stages \in Seq(Test) /\ workspace \in {"as left", "changed"}
      /\ edits \in 0..MaxEdits
  BY DEF IInv, TypeInv
<1>4. /\ process' \in Processes /\ process' # "prepare" /\ phase' \in Phases
      /\ phase' \notin Chosen /\ phase' \notin {"selecting", "running", "evidence"}
  BY <1>1 DEF Phases, Chosen
<1>5. TypeInv'
  <2>1. /\ WellFormed(catalog)' /\ WellFormed(loaded)' /\ operation' \in Operations
        /\ facts' \in Facts /\ process' \in Processes /\ phase' \in Phases
    BY <1>1, <1>3, <1>4
  <2>2. /\ stack' \in Seq(Frames) /\ roots' \in Seq(Test)
        /\ visiting' \subseteq Test /\ visited' \subseteq Test
        /\ seeds' \subseteq selected' /\ selected' \subseteq Test
        /\ pending' \in Seq(Test) /\ ToSet(pending') \subseteq selected'
        /\ remaining' \in [Test -> 0..Cardinality(Test)]
        /\ ordered' \in Seq(Test) /\ ToSet(ordered') \subseteq selected'
    BY <1>1, RootsTyped, EmptyTyped, Zenon
  <2>3. /\ stages' \in Seq(Test) /\ workspace' \in {"as left", "changed"}
        /\ edits' \in 0..MaxEdits
    BY <1>1, <1>3
  <2> QED
    BY <2>1, <2>2, <2>3 DEF TypeInv
<1>6. PathInv'
  <2>1. 1..Len(stack') = {} /\ visiting' = {}
    BY <1>1, EmptyTyped, Zenon
  <2> QED
    BY <2>1 DEF PathInv
<1>7. VisitedInv'
  BY <1>1, RootsTyped DEF VisitedInv, Circle
<1>8. ReasonInv'
  BY <1>1, <1>2, <1>4 DEF ReasonInv
<1>9. ClosureInv' /\ OrderInv' /\ PlannedInv'
  BY <1>1, <1>4 DEF ClosureInv, OrderInv, PlannedInv
<1>10. SealedInv'
  BY <1>4 DEF SealedInv, SealedOrdered
<1>11. StagesInv'
  <2>1. stages' = <<>>
    BY <1>1, <1>2
  <2>2. Len(stages') = 0 /\ 1..Len(stages') = {}
    BY <2>1, EmptyTyped, Zenon
  <2>3. Len(stages') <= Len(sealed'.plan)
    BY <2>2
  <2>4. phase' # "evidence"
    BY <1>4
  <2> QED
    BY <2>1, <2>2, <2>3, <2>4 DEF StagesInv
<1> QED
  BY <1>5, <1>6, <1>7, <1>8, <1>9, <1>10, <1>11 DEF IInv

LEMMA SealCorrect == IInv /\ Seal => IInv'
<1> SUFFICES ASSUME IInv, Seal PROVE IInv'
  OBVIOUS
<1>1. /\ phase = "planned" /\ process = "prepare"
      /\ UNCHANGED <<catalog, request, stages, workspace, edits>>
  BY DEF Seal
<1>2. CASE Refuse("no tests") /\ UNCHANGED <<process, loaded, walk, selection, sealed>>
  <2>1. workspace' \in {"as left", "changed"}
    BY <1>1 DEF IInv, TypeInv
  <2> QED
    BY <1>1, <1>2, <2>1, RefusedStep DEF selection
<1>3. CASE /\ sealed' = [catalog |-> loaded, plan |-> ordered]
           /\ Read("dispatch") /\ UNCHANGED reason
  <2>1. sealed'.plan = ordered /\ sealed'.catalog = loaded
    BY <1>3
  <2>2. ordered \in Seq(Test)
    BY DEF IInv, TypeInv
  <2>3. \A j \in 1..Len(ordered) : \A p \in loaded.prerequisites[ordered[j]] :
          \E i \in 1..(j - 1) : ordered[i] = p
    BY <1>1 DEF IInv, OrderInv, Requires
  <2>4. "dispatch" \in Processes \ {"prepare"}
    BY DEF Processes
  <2>5. SealedOrdered'
    BY <2>1, <2>3 DEF SealedOrdered
  <2> QED
    BY <1>1, <1>3, <2>1, <2>2, <2>4, <2>5, ReadStep
<1> QED
  BY <1>2, <1>3 DEF Seal

(* A step from the plan to the tests, of a test, or from the tests to evidence. *)
LEMMA RunningStep ==
  ASSUME IInv, phase \in {"planned", "running"}, process # "prepare",
         phase' \in {"running", "evidence"},
         UNCHANGED <<catalog, request, process, loaded, walk, selection, sealed,
                     reason, edits>>,
         stages' \in Seq(Test), workspace' \in {"as left", "changed"}, StagesInv'
  PROVE  IInv'
<1>1. /\ catalog' = catalog /\ operation' = operation /\ facts' = facts
      /\ process' = process /\ loaded' = loaded /\ sealed' = sealed
      /\ reason' = reason /\ edits' = edits
      /\ seeds' = seeds /\ selected' = selected /\ pending' = pending
      /\ remaining' = remaining /\ ordered' = ordered
  BY DEF request, selection
<1>2. PathInv' /\ VisitedInv'
  BY WalkKept
<1>3. /\ phase \in Chosen /\ phase' \in Chosen /\ phase' \in Phases
      /\ phase' \notin {"refused", "checking", "selecting", "ordering", "planned"}
      /\ phase # "refused"
  BY DEF Chosen, Phases
<1>4. TypeInv'
  BY <1>1, <1>3, WalkKept DEF IInv, TypeInv
<1>5. ReasonInv'
  BY <1>1, <1>3 DEF IInv, ReasonInv
<1>6. ClosureInv'
  <2>1. /\ selected \subseteq Closure(loaded, seeds)
        /\ \A u \in selected : u \in ToSet(pending) \/ Requires(u) \subseteq selected
    BY <1>3 DEF IInv, ClosureInv
  <2>2. Closure(loaded, seeds)' = Closure(loaded, seeds) /\ \A u : Requires(u)' = Requires(u)
    BY <1>1 DEF Closure, Closed, Requires
  <2> QED
    BY <1>1, <2>1, <2>2 DEF ClosureInv
<1>7. OrderInv' /\ PlannedInv'
  BY <1>3 DEF OrderInv, PlannedInv
<1>8. SealedInv'
  <2>1. /\ \A j \in 1..Len(sealed.plan) : \A p \in sealed.catalog.prerequisites[sealed.plan[j]] :
             \E i \in 1..(j - 1) : sealed.plan[i] = p
        /\ loaded = sealed.catalog
    BY <1>3 DEF IInv, SealedInv
  <2> QED
    BY <1>1, <2>1 DEF SealedInv
<1> QED
  BY <1>2, <1>4, <1>5, <1>6, <1>7, <1>8 DEF IInv

LEMMA RunningStarts ==
  ASSUME IInv, phase = "planned", process # "prepare", phase' = "running",
         UNCHANGED <<catalog, request, process, loaded, walk, selection, sealed, stages,
                     workspace, reason, edits>>
  PROVE  IInv'
<1>1. stages = <<>> /\ Len(stages) <= Len(sealed.plan)
  BY DEF IInv, StagesInv
<1>2. StagesInv'
  <2>1. stages' = <<>> /\ Len(stages') <= Len(sealed'.plan) /\ phase' # "evidence"
    BY <1>1
  <2>2. 1..Len(stages') = {}
    BY <2>1, EmptyTyped, Zenon
  <2> QED
    BY <2>1, <2>2 DEF StagesInv
<1>3. stages' \in Seq(Test) /\ workspace' \in {"as left", "changed"}
  BY DEF IInv, TypeInv
<1> QED
  BY <1>2, <1>3, RunningStep

LEMMA AdapterReturnsCorrect == IInv /\ AdapterReturns => IInv'
<1> SUFFICES ASSUME IInv, AdapterReturns PROVE IInv'
  OBVIOUS
<1>1. /\ phase = "planned" /\ process = "dispatch" /\ process # "prepare"
      /\ UNCHANGED <<catalog, request, sealed, stages, workspace, reason, edits>>
  BY DEF AdapterReturns
<1>2. CASE Read("collect")
  <2>1. sealed'.plan \in Seq(Test) /\ sealed' = sealed
    BY <1>1 DEF IInv, TypeInv
  <2>2. "collect" \in Processes \ {"prepare"}
    BY DEF Processes
  <2>3. SealedOrdered
    BY <1>1 DEF IInv, SealedInv, SealedOrdered
  <2>4. SealedOrdered'
    BY <2>1, <2>3 DEF SealedOrdered
  <2> QED
    BY <1>1, <1>2, <2>1, <2>2, <2>4, ReadStep
<1>3. CASE phase' = "running" /\ UNCHANGED <<process, loaded, walk, selection>>
  BY <1>1, <1>3, RunningStarts
<1> QED
  BY <1>2, <1>3 DEF AdapterReturns

LEMMA CollectCorrect == IInv /\ Collect => IInv'
BY RunningStarts DEF Collect

(* A test that passes is the next of the sealed plan. *)
LEMMA RunTestCorrect == IInv /\ RunTest => IInv'
<1> SUFFICES ASSUME IInv, RunTest PROVE IInv'
  OBVIOUS
<1> DEFINE n == Len(stages)
<1>1. /\ phase = "running" /\ n < Len(sealed.plan) /\ workspace' \in {workspace, "changed"}
      /\ UNCHANGED <<catalog, request, process, loaded, walk, selection, sealed, edits>>
  BY DEF RunTest
<1>2. workspace' \in {"as left", "changed"}
  BY <1>1 DEF IInv, TypeInv
<1>3. process # "prepare" /\ loaded = sealed.catalog
  BY <1>1 DEF IInv, SealedInv, Chosen
<1>4. CASE /\ stages' = Append(stages, sealed.plan[n + 1]) /\ UNCHANGED <<phase, reason>>
  <2>1. /\ stages \in Seq(Test) /\ sealed.plan \in Seq(Test)
        /\ n \in Nat /\ Len(sealed.plan) \in Nat
        /\ \A i \in 1..n : stages[i] = sealed.plan[i]
    <3>1. stages \in Seq(Test) /\ sealed.plan \in Seq(Test)
      BY DEF IInv, TypeInv
    <3>2. \A i \in 1..n : stages[i] = sealed.plan[i]
      BY DEF IInv, StagesInv
    <3> QED
      BY <3>1, <3>2
  <2>2. sealed.plan[n + 1] \in Test
    BY <1>1, <2>1
  <2>3. /\ stages' \in Seq(Test) /\ Len(stages') = n + 1
        /\ \A i \in 1..n : stages'[i] = stages[i]
        /\ stages'[n + 1] = sealed.plan[n + 1]
    BY <1>4, <2>1, <2>2, AppendCorrect
  <2>4. StagesInv'
    <3>1. /\ sealed' = sealed /\ loaded' = loaded /\ process' = process /\ phase' = "running"
      BY <1>1, <1>4
    <3>2. \A i \in 1..Len(stages') : stages'[i] = sealed.plan[i]
      <4> SUFFICES ASSUME NEW i \in 1..(n + 1) PROVE stages'[i] = sealed.plan[i]
        BY <2>3
      <4>1. i \in 1..n \/ i = n + 1
        BY <2>1
      <4> QED
        BY <2>1, <2>3, <4>1
    <3>3. Len(stages') <= Len(sealed.plan)
      BY <1>1, <2>1, <2>3
    <3> QED
      BY <1>3, <3>1, <3>2, <3>3 DEF StagesInv
  <2> QED
    BY <1>1, <1>2, <1>3, <1>4, <2>3, <2>4, RunningStep
<1>5. CASE Refuse("failed") /\ UNCHANGED stages
  BY <1>1, <1>2, <1>5, RefusedStep DEF selection
<1> QED
  BY <1>4, <1>5 DEF RunTest

LEMMA EvidenceStep == IInv /\ Evidence => IInv'
<1> SUFFICES ASSUME IInv, Evidence PROVE IInv'
  OBVIOUS
<1>1. /\ phase = "running" /\ Len(stages) = Len(sealed.plan)
      /\ UNCHANGED <<catalog, request, process, loaded, walk, selection, sealed, stages,
                     workspace, edits>>
  BY DEF Evidence
<1>2. workspace' \in {"as left", "changed"} /\ stages' \in Seq(Test)
  BY <1>1 DEF IInv, TypeInv
<1>3. process # "prepare" /\ loaded = sealed.catalog
  BY <1>1 DEF IInv, SealedInv, Chosen
<1>4. CASE Refuse("workspace changed")
  BY <1>1, <1>2, <1>4, RefusedStep DEF selection
<1>5. CASE workspace # "changed" /\ phase' = "evidence" /\ UNCHANGED reason
  <2>1. StagesInv'
    <3>1. /\ sealed' = sealed /\ loaded' = loaded /\ process' = process
          /\ stages' = stages /\ workspace' = "as left" /\ phase' = "evidence"
      BY <1>1, <1>2, <1>5
    <3>2. /\ Len(stages) <= Len(sealed.plan)
          /\ \A i \in 1..Len(stages) : stages[i] = sealed.plan[i]
      BY DEF IInv, StagesInv
    <3> QED
      BY <1>1, <1>3, <3>1, <3>2 DEF StagesInv
  <2> QED
    BY <1>1, <1>2, <1>3, <1>5, <2>1, RunningStep
<1> QED
  BY <1>4, <1>5 DEF Evidence

(* Whatever replaces the catalogue's file, a process has read what it works on. *)
LEMMA FileStep ==
  ASSUME IInv, WellFormed(catalog'), edits' \in 0..MaxEdits,
         UNCHANGED <<request, process, phase, loaded, walk, selection, sealed, stages,
                     workspace, reason>>
  PROVE  IInv'
<1>1. /\ operation' = operation /\ facts' = facts /\ process' = process
      /\ phase' = phase /\ loaded' = loaded /\ sealed' = sealed /\ stages' = stages
      /\ workspace' = workspace /\ reason' = reason
      /\ seeds' = seeds /\ selected' = selected /\ pending' = pending
      /\ remaining' = remaining /\ ordered' = ordered
  BY DEF request, selection
<1>2. PathInv' /\ VisitedInv'
  BY WalkKept
<1>3. TypeInv'
  BY <1>1, WalkKept DEF IInv, TypeInv
<1>4. ReasonInv' /\ PlannedInv'
  BY <1>1 DEF IInv, ReasonInv, PlannedInv
<1>5. ClosureInv'
  BY <1>1 DEF IInv, ClosureInv, Closure, Closed, Requires
<1>6. OrderInv'
  BY <1>1, OrderKept
<1>7. SealedInv'
  BY <1>1 DEF IInv, SealedInv
<1>8. StagesInv'
  BY <1>1 DEF IInv, StagesInv
<1> QED
  BY <1>2, <1>3, <1>4, <1>5, <1>6, <1>7, <1>8 DEF IInv

LEMMA ImportCorrect == IInv /\ Import => IInv'
<1> SUFFICES ASSUME IInv, Import PROVE IInv'
  OBVIOUS
<1>1. /\ edits < MaxEdits /\ catalog' \in Imports /\ edits' = edits + 1
      /\ UNCHANGED <<request, process, phase, loaded, walk, selection, sealed, stages,
                     workspace, reason>>
  BY DEF Import
<1>2. WellFormed(catalog')
  BY <1>1, EditAssumption
<1>3. edits' \in 0..MaxEdits
  <2>1. edits \in 0..MaxEdits /\ MaxEdits \in Nat
    BY EditAssumption DEF IInv, TypeInv
  <2> QED
    BY <1>1, <2>1
<1> QED
  BY <1>1, <1>2, <1>3, FileStep

LEMMA StutterCorrect == IInv /\ UNCHANGED vars => IInv'
<1> SUFFICES ASSUME IInv, UNCHANGED vars PROVE IInv'
  OBVIOUS
<1>1. /\ UNCHANGED <<request, process, phase, loaded, walk, selection, sealed, stages,
                     workspace, reason>>
      /\ catalog' = catalog /\ edits' = edits
  BY DEF vars
<1>2. WellFormed(catalog') /\ edits' \in 0..MaxEdits
  BY <1>1 DEF IInv, TypeInv
<1> QED
  BY <1>1, <1>2, FileStep

-----------------------------------------------------------------------------
(* The theorems. *)
LEMMA StepCorrect == IInv /\ [Next]_vars => IInv'
<1> SUFFICES ASSUME IInv, [Next]_vars PROVE IInv'
  OBVIOUS
<1>1. CASE VisitRoot
  BY <1>1, VisitRootCorrect
<1>2. CASE VisitPrerequisite
  BY <1>2, VisitPrerequisiteCorrect
<1>3. CASE Leave
  BY <1>3, LeaveCorrect
<1>4. CASE CatalogStands
  BY <1>4, CatalogStandsCorrect
<1>5. CASE Select
  BY <1>5, SelectCorrect
<1>6. CASE IncludePrerequisites
  BY <1>6, IncludeCorrect
<1>7. CASE StartOrder
  BY <1>7, StartOrderCorrect
<1>8. CASE Order
  BY <1>8, OrderCorrect
<1>9. CASE Ordered
  BY <1>9, OrderedCorrect
<1>10. CASE Seal
  BY <1>10, SealCorrect
<1>11. CASE AdapterReturns
  BY <1>11, AdapterReturnsCorrect
<1>12. CASE Collect
  BY <1>12, CollectCorrect
<1>13. CASE RunTest
  BY <1>13, RunTestCorrect
<1>14. CASE Evidence
  BY <1>14, EvidenceStep
<1>15. CASE Import
  BY <1>15, ImportCorrect
<1>16. CASE UNCHANGED vars
  BY <1>16, StutterCorrect
<1> QED
  BY <1>1, <1>2, <1>3, <1>4, <1>5, <1>6, <1>7, <1>8, <1>9, <1>10, <1>11, <1>12, <1>13,
     <1>14, <1>15, <1>16 DEF Next

(* Every reachable state satisfies the inductive invariant: the walk is a path  *)
(* of prerequisites and leaves no circle behind it, the selection stays inside  *)
(* the closure, and the order is the cheapest that the prerequisites allow.     *)
THEOREM PlanCorrect == Spec => []IInv
<1>1. Init => IInv
  BY InitCorrect
<1>2. IInv /\ [Next]_vars => IInv'
  BY StepCorrect
<1> QED
  BY <1>1, <1>2, PTL DEF Spec

(* A plan is worked out on tests of the catalogue, and the counters of          *)
(* _order_selected never fall below zero.                                       *)
THEOREM PlanTyped == Spec => []TypeOK
<1>1. IInv => TypeOK
  <2> SUFFICES ASSUME IInv PROVE TypeOK
    OBVIOUS
  <2>1. \A i \in DOMAIN stack : stack[i].test \in visiting
    <3>1. DOMAIN stack = 1..Len(stack)
      BY PathTyped
    <3> QED
      BY <3>1 DEF IInv, PathInv
  <2> QED
    BY <2>1 DEF IInv, TypeInv, TypeOK
<1> QED
  BY <1>1, PlanCorrect, PTL

(* _assert_acyclic raises on the circular catalogues and on no others, so a     *)
(* selection never meets a cycle and _order_selected never finds one.           *)
THEOREM VerdictProven == Spec => []CatalogVerdict
<1>1. IInv => CatalogVerdict
  <2> SUFFICES ASSUME IInv PROVE CatalogVerdict
    OBVIOUS
  <2>1. phase \in Phases
    BY DEF IInv, TypeInv
  <2>2. phase \notin {"checking", "refused"} => phase \in Chosen \cup {"selecting"}
    BY <2>1 DEF Phases, Chosen
  <2> QED
    BY <2>2 DEF IInv, ReasonInv, CatalogVerdict
<1> QED
  BY <1>1, PlanCorrect, PTL

(* A finished order is of pairwise different tests, all of the selection. *)
LEMMA PlannedFacts ==
  ASSUME IInv, Planned
  PROVE  /\ phase = "planned" /\ ordered \in Seq(Test) /\ DOMAIN ordered = 1..Len(ordered)
         /\ Len(ordered) \in Nat /\ ToSet(ordered) = {ordered[i] : i \in 1..Len(ordered)}
         /\ ToSet(ordered) = selected /\ selected \subseteq Test
         /\ \A i, j \in 1..Len(ordered) : i # j => ordered[i] # ordered[j]
<1>1. phase = "planned" /\ ordered \in Seq(Test)
  BY DEF IInv, TypeInv, Planned
<1>2. DOMAIN ordered = 1..Len(ordered) /\ Len(ordered) \in Nat
  BY <1>1
<1>3. ToSet(ordered) = {ordered[i] : i \in 1..Len(ordered)}
  BY <1>1, MembersTyped
<1>4. ToSet(ordered) = selected /\ selected \subseteq Test
  BY <1>1 DEF IInv, TypeInv, PlannedInv
<1>5. \A i, j \in 1..Len(ordered) : i # j => ordered[i] # ordered[j]
  BY <1>1 DEF IInv, OrderInv
<1> QED
  BY <1>1, <1>2, <1>3, <1>4, <1>5

(* select returns what the facts and profiles ask for with all that it          *)
(* requires, directly or not, and nothing else: each test once, none retired,   *)
(* and after all that it requires.                                              *)
THEOREM PlanProven == Spec => []PlanComplete
<1>1. IInv => PlanComplete
  <2> SUFFICES ASSUME IInv, Planned
               PROVE  /\ ToSet(ordered) = Closure(loaded, seeds)
                      /\ \A t \in ToSet(ordered) : loaded.mode[t] # "retired"
                      /\ \A i, j \in DOMAIN ordered :
                           ordered[i] \in loaded.prerequisites[ordered[j]] => i < j
                      /\ Len(ordered) = Cardinality(ToSet(ordered))
    BY DEF PlanComplete
  <2> DEFINE n == Len(ordered)
  <2>1. /\ phase = "planned" /\ ordered \in Seq(Test) /\ DOMAIN ordered = 1..n
        /\ n \in Nat /\ ToSet(ordered) = {ordered[i] : i \in 1..n}
        /\ ToSet(ordered) = selected /\ selected \subseteq Test
        /\ \A i, j \in 1..n : i # j => ordered[i] # ordered[j]
    BY PlannedFacts
  <2>2. /\ pending = <<>> /\ \A t \in selected : loaded.mode[t] # "retired"
        /\ \A j \in 1..n : \A p \in Requires(ordered[j]) : \E i \in 1..(j - 1) : ordered[i] = p
    BY <2>1 DEF IInv, OrderInv
  <2>3. Closure(loaded, seeds) = selected
    <3>1. selected \subseteq Closure(loaded, seeds)
      BY <2>1 DEF IInv, ClosureInv, Chosen
    <3>2. \A t \in selected : Requires(t) \subseteq selected
      BY <2>1, <2>2, SelectedClosed DEF Chosen
    <3>3. Closed(loaded, selected) /\ seeds \subseteq selected
      BY <3>2 DEF Closed, Requires, IInv, TypeInv
    <3>4. Closure(loaded, seeds) \subseteq selected
      BY <2>1, <3>3 DEF Closure
    <3> QED
      BY <3>1, <3>4
  <2>4. ASSUME NEW i \in 1..n, NEW j \in 1..n, ordered[i] \in loaded.prerequisites[ordered[j]]
        PROVE  i < j
    <3>1. PICK k \in 1..(j - 1) : ordered[k] = ordered[i]
      BY <2>2, <2>4 DEF Requires
    <3>2. k \in 1..n /\ k < j
      BY <2>1
    <3>3. k = i
      BY <2>1, <3>1, <3>2
    <3> QED
      BY <3>2, <3>3
  <2>5. n = Cardinality(ToSet(ordered))
    <3>1. ordered \in Bijection(1..n, ToSet(ordered))
      <4>1. ordered \in [1..n -> ToSet(ordered)]
        BY <2>1
      <4>2. IsInjective(ordered)
        BY <2>1 DEF IsInjective
      <4>3. \A t \in ToSet(ordered) : \E i \in 1..n : ordered[i] = t
        BY <2>1
      <4> QED
        BY <4>1, <4>2, <4>3 DEF Bijection, Injection, Surjection
    <3>2. IsFiniteSet(1..n) /\ Cardinality(1..n) = n
      BY <2>1, FS_Interval
    <3>3. ExistsBijection(1..n, ToSet(ordered))
      BY <3>1 DEF ExistsBijection
    <3> QED
      BY <3>2, <3>3, FS_Bijection
  <2> QED
    BY <2>1, <2>2, <2>3, <2>4, <2>5
<1> QED
  BY <1>1, PlanCorrect, PTL

(* The heap of _order_selected: of the tests whose prerequisites are all        *)
(* ordered, the cheapest goes next and the lower id breaks a tie, so the order  *)
(* is the same whatever order the sets were walked in.                          *)
THEOREM CheapestProven == Spec => []PlanCheapestFirst
<1>1. IInv => PlanCheapestFirst
  <2> SUFFICES ASSUME IInv, Planned, NEW i \in DOMAIN ordered, NEW j \in DOMAIN ordered,
                      i < j,
                      \A p \in loaded.prerequisites[ordered[j]] :
                        \E k \in 1..(i - 1) : ordered[k] = p
               PROVE  Before(ordered[i], ordered[j])
    BY DEF PlanCheapestFirst
  <2> DEFINE n == Len(ordered)
             u == ordered[j]
  <2>1. /\ phase = "planned" /\ i \in 1..n /\ j \in 1..n /\ n \in Nat
        /\ ToSet(ordered) = {ordered[k] : k \in 1..n} /\ ToSet(ordered) = selected
        /\ \A k, l \in 1..n : k # l => ordered[k] # ordered[l]
    BY PlannedFacts
  <2>2. u \in selected
    BY <2>1
  <2>3. \A k \in 1..i : u # ordered[k]
    <3>1. \A k \in 1..i : k \in 1..n /\ k # j
      BY <2>1
    <3> QED
      BY <2>1, <3>1
  <2>4. \A p \in Requires(u) : \E k \in 1..(i - 1) : ordered[k] = p
    BY DEF Requires
  <2>5. \A l \in 1..n : \A v \in selected :
          /\ \A k \in 1..l : v # ordered[k]
          /\ \A p \in Requires(v) : \E k \in 1..(l - 1) : ordered[k] = p
          => Before(ordered[l], v)
    BY <2>1 DEF IInv, OrderInv
  <2> QED
    BY <2>1, <2>2, <2>3, <2>4, <2>5
<1> QED
  BY <1>1, PlanCorrect, PTL

(* The tests that run are of the catalogue whose digest prepare-invocation      *)
(* sealed, whatever an operator imports in between.                             *)
THEOREM SealedProven == Spec => []SealedTestsRun
<1>1. IInv => SealedTestsRun
  BY DEF IInv, StagesInv, SealedTestsRun
<1> QED
  BY <1>1, PlanCorrect, PTL

(* Every test that passes does so after all it requires, and evidence is taken  *)
(* when the whole sealed plan has passed and the workspace is as it was left.   *)
THEOREM EvidenceProven == Spec => []EvidenceTrue
<1>1. IInv => EvidenceTrue
  <2> SUFFICES ASSUME IInv PROVE EvidenceTrue
    OBVIOUS
  <2> DEFINE n == Len(stages)
  <2>1. /\ stages \in Seq(Test) /\ sealed.plan \in Seq(Test)
        /\ n \in Nat /\ Len(sealed.plan) \in Nat /\ DOMAIN stages = 1..n
    <3>1. stages \in Seq(Test) /\ sealed.plan \in Seq(Test)
      BY DEF IInv, TypeInv
    <3> QED
      BY <3>1
  <2>2. /\ n <= Len(sealed.plan)
        /\ \A i \in 1..n : stages[i] = sealed.plan[i]
        /\ phase = "evidence" => n = Len(sealed.plan) /\ workspace = "as left"
    BY DEF IInv, StagesInv
  <2>3. ASSUME NEW j \in DOMAIN stages, NEW p \in sealed.catalog.prerequisites[stages[j]]
        PROVE  \E i \in 1..(j - 1) : stages[i] = p
    <3>1. stages # <<>> /\ j \in 1..n /\ j \in 1..Len(sealed.plan)
      <4>1. j \in 1..n
        BY <2>1
      <4>2. 1..Len(<<>>) = {}
        BY EmptyTyped
      <4>3. stages # <<>>
        BY <4>1, <4>2, Zenon
      <4>4. j \in 1..Len(sealed.plan)
        <5>1. n <= Len(sealed.plan) /\ n \in Nat /\ Len(sealed.plan) \in Nat
          BY <2>1, <2>2
        <5> HIDE DEF n
        <5> QED
          BY <4>1, <5>1
      <4> QED
        BY <4>1, <4>3, <4>4
    <3>2. process # "prepare"
      BY <3>1 DEF IInv, StagesInv
    <3>3. SealedOrdered
      BY <3>2 DEF IInv, SealedInv, SealedOrdered
    <3>4. PICK i \in 1..(j - 1) : sealed.plan[i] = p
      BY <2>2, <3>1, <3>3 DEF SealedOrdered
    <3>5. i \in 1..n
      BY <2>1, <3>1
    <3> QED
      BY <2>2, <3>4, <3>5
  <2>4. ASSUME phase = "evidence" PROVE stages = sealed.plan /\ workspace = "as left"
    <3>1. Len(stages) = Len(sealed.plan) /\ workspace = "as left"
      BY <2>2, <2>4
    <3>2. \A i \in 1..Len(stages) : stages[i] = sealed.plan[i]
      BY <2>2
    <3>3. stages = sealed.plan
      BY <2>1, <3>1, <3>2, SeqEqual
    <3> QED
      BY <3>1, <3>3
  <2> QED
    BY <2>3, <2>4 DEF EvidenceTrue
<1> QED
  BY <1>1, PlanCorrect, PTL
=============================================================================

--------------------------- MODULE Dispatch_proofs ---------------------------
(***************************************************************************)
(* Proofs about Dispatch for any set of clients, invocations and           *)
(* controllers: type correctness, and, with one dispatching slot, that     *)
(* recorded absence is true and a request is delivered at most once.       *)
(***************************************************************************)
EXTENDS Dispatch, TLAPS

-----------------------------------------------------------------------------
(* What the helpers do to the local state *)

\* Every label a write continues at is a label.
LEMMA AfterTypes ==
  /\ DOMAIN AfterInvocation \subseteq Labels
  /\ \A l \in DOMAIN AfterInvocation : AfterInvocation[l] \in Labels
  /\ DOMAIN AfterAttempt \subseteq Labels
  /\ \A l \in DOMAIN AfterAttempt : AfterAttempt[l] \in Labels
BY DEF AfterInvocation, AfterAttempt, Labels, DispatchPC, RunnerPC, AcceptPC, RecoverPC

\* The idle process is a client state.
LEMMA IdleType == IdleClient \in ClientStates
BY DEF IdleClient, ClientStates, Labels, NoInvocation, NoCustody, InvocationRecords,
       CustodyRecords, InvocationStates, InvocationNext, CustodyStates, CustodyNext,
       ActiveCounts

Locals == cli \in [Clients -> ClientStates] /\ HeldOK

\* The labels a command may move to keeping what it holds.
LEMMA GotoLocals ==
  ASSUME Locals, NEW c \in Clients, NEW l \in Labels, Goto(c, l),
         l \notin {"idle", "save_operator"} => cli[c].target \in Invocations,
         l \in DOMAIN AfterAttempt \cup RecoverPC => cli[c].att \in AttemptRecords
  PROVE  Locals'
BY DEF Locals, HeldOK, Goto, ClientStates

LEMMA ReturnLocals ==
  ASSUME Locals, NEW c \in Clients, Return(c)
  PROVE  Locals'
<1>1. cli' \in [Clients -> ClientStates]
  BY IdleType DEF Locals, Return
<1>2. HeldOK'
  <2> SUFFICES ASSUME NEW d \in Clients
               PROVE  /\ cli'[d].pc \notin {"idle", "save_operator"} => cli'[d].target \in Invocations
                      /\ cli'[d].pc \in DOMAIN AfterAttempt \cup RecoverPC
                           => cli'[d].att \in AttemptRecords
    BY DEF HeldOK
  <2>1. CASE d = c
    BY <2>1 DEF Return, Locals, IdleClient, AfterAttempt, RecoverPC
  <2>2. CASE d # c
    BY <2>2 DEF Return, Locals, HeldOK
  <2> QED BY <2>1, <2>2
<1> QED BY <1>1, <1>2 DEF Locals

\* A command replaces its whole local state.
LEMMA ReplaceLocals ==
  ASSUME Locals, NEW c \in Clients, NEW s \in ClientStates,
         cli' = [cli EXCEPT ![c] = s],
         s.pc \notin {"idle", "save_operator"} => s.target \in Invocations,
         s.pc \in DOMAIN AfterAttempt \cup RecoverPC => s.att \in AttemptRecords
  PROVE  Locals'
BY DEF Locals, HeldOK

LEMMA StartLocals ==
  ASSUME Locals, NEW c \in Clients, NEW i \in Invocations, NEW l \in Labels,
         NEW inv \in InvocationRecords, Start(c, i, l, inv),
         l \notin DOMAIN AfterAttempt \cup RecoverPC
  PROVE  Locals'
<1> DEFINE s == [pc |-> l, target |-> i, inv |-> inv, att |-> None, cus |-> NoCustody]
<1>1. s \in ClientStates
  BY DEF ClientStates, NoCustody, CustodyRecords, CustodyStates, CustodyNext, ActiveCounts
<1>2. cli' = [cli EXCEPT ![c] = s]
  BY DEF Start
<1> HIDE DEF s
<1>3. s.pc = l /\ s.target = i
  BY DEF s
<1> QED BY <1>1, <1>2, <1>3, ReplaceLocals

LEMMA ContinueLocals ==
  ASSUME Locals, NEW c \in Clients, NEW l \in Labels, Continue(c, l),
         l \notin {"idle", "save_operator"} => cli[c].target \in Invocations,
         l \in DOMAIN AfterAttempt \cup RecoverPC => cli[c].att \in AttemptRecords
  PROVE  Locals'
BY GotoLocals, ReturnLocals DEF Continue

\* A checked invocation or custody update is held, with a new label.
LEMMA HoldLocals ==
  ASSUME Locals, NEW c \in Clients, NEW l \in Labels, NEW s \in ClientStates,
         cli' = [cli EXCEPT ![c] = s], s.pc = l, s.target = cli[c].target,
         s.att = cli[c].att,
         l \notin {"idle", "save_operator"} => cli[c].target \in Invocations,
         l \in DOMAIN AfterAttempt \cup RecoverPC => cli[c].att \in AttemptRecords
  PROVE  Locals'
BY ReplaceLocals

LEMMA CheckInvocationLocals ==
  ASSUME Locals, NEW c \in Clients, NEW new \in InvocationRecords, NEW l \in Labels,
         CheckInvocation(c, new, l), cli[c].target \in Invocations,
         l \notin DOMAIN AfterAttempt,
         l \in RecoverPC => cli[c].att \in AttemptRecords
  PROVE  Locals'
<1>1. CASE invocation[Inv(c)] = cli[c].inv
  <2> DEFINE s == [cli[c] EXCEPT !.inv = new, !.pc = l]
  <2>1. s \in ClientStates /\ s.pc = l /\ s.target = cli[c].target /\ s.att = cli[c].att
    BY DEF Locals, ClientStates
  <2>2. cli' = [cli EXCEPT ![c] = s]
    BY <1>1 DEF CheckInvocation
  <2> HIDE DEF s
  <2> QED BY <2>1, <2>2, HoldLocals
<1>2. CASE invocation[Inv(c)] # cli[c].inv
  BY <1>2, ReturnLocals DEF CheckInvocation
<1> QED BY <1>1, <1>2

LEMMA CheckAttemptLocals ==
  ASSUME Locals, NEW c \in Clients, NEW ok \in BOOLEAN, NEW new \in AttemptRecords, NEW l \in Labels,
         CheckAttempt(c, ok, new, l), cli[c].target \in Invocations
  PROVE  Locals'
<1>1. CASE ok /\ LegalAttemptMove(attempt, new)
  <2> DEFINE s == [cli[c] EXCEPT !.att = new, !.pc = l]
  <2>1. s \in ClientStates /\ s.pc = l /\ s.target = cli[c].target /\ s.att = new
    BY DEF Locals, ClientStates
  <2>2. cli' = [cli EXCEPT ![c] = s]
    BY <1>1 DEF CheckAttempt
  <2> HIDE DEF s
  <2> QED BY <2>1, <2>2, ReplaceLocals
<1>2. CASE ~(ok /\ LegalAttemptMove(attempt, new))
  BY <1>2, ReturnLocals DEF CheckAttempt
<1> QED BY <1>1, <1>2

CustodyOK == custody \in [Invocations -> CustodyRecords]

LEMMA SaveCustodyTypes ==
  ASSUME Locals, CustodyOK, NEW c \in Clients, NEW new \in CustodyRecords,
         NEW l \in Labels, SaveCustody(c, new, l), cli[c].target \in Invocations,
         l \notin DOMAIN AfterAttempt,
         l \in RecoverPC => cli[c].att \in AttemptRecords
  PROVE  Locals' /\ CustodyOK'
<1>1. CASE custody[Inv(c)] = cli[c].cus /\ ValidCustody(new) /\ l # "idle"
  <2> DEFINE s == [cli[c] EXCEPT !.cus = new, !.pc = l]
  <2>1. s \in ClientStates /\ s.pc = l /\ s.target = cli[c].target /\ s.att = cli[c].att
    BY DEF Locals, ClientStates
  <2>2. cli' = [cli EXCEPT ![c] = s]
    BY <1>1 DEF SaveCustody, Locals
  <2> HIDE DEF s
  <2>3. Locals'
    BY <2>1, <2>2, HoldLocals
  <2>4. CustodyOK'
    BY <1>1 DEF SaveCustody, CustodyOK, Inv
  <2> QED BY <2>3, <2>4
<1>2. CASE custody[Inv(c)] = cli[c].cus /\ ValidCustody(new) /\ l = "idle"
  <2>1. cli' = [cli EXCEPT ![c] = IdleClient] /\ CustodyOK'
    BY <1>2 DEF SaveCustody, CustodyOK, Inv, Locals
  <2> QED BY <2>1, ReturnLocals DEF Return
<1>3. CASE ~(custody[Inv(c)] = cli[c].cus /\ ValidCustody(new))
  BY <1>3, ReturnLocals DEF SaveCustody, CustodyOK
<1> QED BY <1>1, <1>2, <1>3

-----------------------------------------------------------------------------
(* Type correctness *)

\* The parts of TypeOK other than the commands' local state.
DataOK ==
  /\ attempt \in AttemptRecords
  /\ invocation \in [Invocations -> InvocationRecords]
  /\ CustodyOK
  /\ result \in [Invocations -> Clients \cup {None}]
  /\ workspace \in {"clean", "changed"}
  /\ adapter \in [Invocations -> [Clients -> AdapterStates]]
  /\ sends \in [Invocations -> 0 .. 2]
  /\ crashes \in 0 .. MaxCrashes

TypeInv == DataOK /\ Locals

LEMMA TypeInit == Init => TypeInv
<1> SUFFICES ASSUME Init PROVE TypeInv
  OBVIOUS
<1>1. DataOK
  BY DispatchAssumption
  DEF Init, DataOK, CustodyOK, AttemptRecords, AttemptStates, AttemptNext, InvocationRecords,
      InvocationStates, InvocationNext, NoInvocation, CustodyRecords, CustodyStates,
      CustodyNext, NoCustody, ActiveCounts, AdapterStates
<1>2. Locals
  BY IdleType DEF Init, Locals, HeldOK, IdleClient, AfterAttempt, RecoverPC
<1> QED BY <1>1, <1>2 DEF TypeInv

\* The first step of each command.
LEMMA TypeRead ==
  ASSUME TypeInv, NEW c \in Clients, Read(c)
  PROVE  TypeInv'
<1> USE DEF TypeInv, records, world
<1>. DEFINE Plain == {"save_prepared", "save_authorized", "save_rejected",
                      "save_cancelled", "d_bind"}
<1>0. /\ Plain \subseteq Labels
      /\ \A l \in Plain : l \notin DOMAIN AfterAttempt \cup RecoverPC
  BY DEF Labels, DispatchPC, AfterAttempt, RecoverPC
<1>1. ASSUME NEW i \in Invocations, PrepareScan(c, i)
      PROVE  TypeInv'
  <2>1. [NoInvocation EXCEPT !.state = "PREPARED"] \in InvocationRecords
    BY DEF NoInvocation, InvocationRecords, InvocationStates, InvocationNext
  <2>2. Locals'
    BY <1>0, <1>1, <2>1, StartLocals DEF PrepareScan
  <2>3. DataOK'
    BY <1>1 DEF PrepareScan, DataOK, CustodyOK
  <2> QED BY <2>2, <2>3
<1>2. ASSUME NEW i \in Invocations, RejectCheck(c, i)
      PROVE  TypeInv'
  <2>1. [invocation[i] EXCEPT !.state = "REJECTED"] \in InvocationRecords
    BY DEF DataOK, InvocationRecords, InvocationStates, InvocationNext
  <2>2. Locals'
    BY <1>0, <1>2, <2>1, StartLocals DEF RejectCheck
  <2>3. DataOK'
    BY <1>2 DEF RejectCheck, DataOK, CustodyOK
  <2> QED BY <2>2, <2>3
<1>3. ASSUME NEW i \in Invocations, NEW k \in Controllers, AuthorizeCheck(c, i, k)
      PROVE  TypeInv'
  <2>1. [invocation[i] EXCEPT !.state = "AUTHORIZED", !.by = k] \in InvocationRecords
    BY DEF DataOK, InvocationRecords, InvocationStates, InvocationNext
  <2>2. Locals'
    BY <1>0, <1>3, <2>1, StartLocals DEF AuthorizeCheck
  <2>3. DataOK'
    BY <1>3 DEF AuthorizeCheck, DataOK, CustodyOK
  <2> QED BY <2>2, <2>3
<1>4. ASSUME NEW i \in Invocations, NEW k \in Controllers, CancelCheck(c, i, k)
      PROVE  TypeInv'
  <2>1. [invocation[i] EXCEPT !.state = "ABORTED"] \in InvocationRecords
    BY DEF DataOK, InvocationRecords, InvocationStates, InvocationNext
  <2>2. Locals'
    BY <1>0, <1>4, <2>1, StartLocals DEF CancelCheck
  <2>3. DataOK'
    BY <1>4 DEF CancelCheck, DataOK, CustodyOK
  <2> QED BY <2>2, <2>3
<1>5. ASSUME NEW i \in Invocations, NEW k \in Controllers, Admit(c, i, k)
      PROVE  TypeInv'
  <2>1. invocation[i] \in InvocationRecords
    BY DEF DataOK
  <2>2. Locals'
    BY <1>0, <1>5, <2>1, StartLocals DEF Admit
  <2>3. DataOK'
    BY <1>5 DEF Admit, DataOK, CustodyOK
  <2> QED BY <2>2, <2>3
<1>6. ASSUME NEW i \in Invocations, NEW k \in Controllers, RecoverRead(c, i, k)
      PROVE  TypeInv'
  <2> DEFINE s == [pc |-> "v_inspect", target |-> i, inv |-> invocation[i],
                   att |-> attempt, cus |-> NoCustody]
  <2>1. s \in ClientStates
    BY DEF DataOK, ClientStates, Labels, RecoverPC, NoCustody, CustodyRecords,
           CustodyStates, CustodyNext, ActiveCounts
  <2>2. cli' = [cli EXCEPT ![c] = s]
    BY <1>6 DEF RecoverRead
  <2>3. s.target \in Invocations /\ s.att \in AttemptRecords
    BY DEF DataOK
  <2> HIDE DEF s
  <2>4. Locals'
    BY <2>1, <2>2, <2>3, ReplaceLocals
  <2>5. DataOK'
    BY <1>6 DEF RecoverRead, DataOK, CustodyOK
  <2> QED BY <2>4, <2>5
<1>7. ASSUME NEW t \in AttemptStates, OperatorCheck(c, t)
      PROVE  TypeInv'
  <2> DEFINE new == [attempt EXCEPT !.state = t,
                       !.candidate = IF t = "CANDIDATE" THEN Typed ELSE @,
                       !.cleanup = IF t \in AttemptTerminal THEN "operator" ELSE @]
             s == [cli[c] EXCEPT !.pc = "save_operator", !.att = new]
  <2>1. new \in AttemptRecords
    BY DEF DataOK, AttemptRecords
  <2>2. cli' = [cli EXCEPT ![c] = s]
    BY <1>7 DEF OperatorCheck
  <2> HIDE DEF new
  <2>3. s \in ClientStates /\ s.pc = "save_operator" /\ s.att = new
    BY <2>1 DEF Locals, ClientStates, Labels
  <2> HIDE DEF s
  <2>4. Locals'
    BY <2>1, <2>2, <2>3, ReplaceLocals
  <2>5. DataOK'
    BY <1>7 DEF OperatorCheck, DataOK, CustodyOK
  <2> QED BY <2>4, <2>5
<1> QED BY <1>1, <1>2, <1>3, <1>4, <1>5, <1>6, <1>7 DEF Read

\* What a command holds while it runs.
LEMMA HeldTypes ==
  ASSUME TypeInv, NEW c \in Clients
  PROVE  /\ cli[c].inv \in InvocationRecords /\ cli[c].cus \in CustodyRecords
         /\ cli[c].pc \notin {"idle", "save_operator"} => Inv(c) \in Invocations
         /\ cli[c].pc \in DOMAIN AfterAttempt \cup RecoverPC => cli[c].att \in AttemptRecords
BY DEF TypeInv, Locals, HeldOK, ClientStates, Inv

\* The two writes of checked records.
LEMMA TypeCommit ==
  ASSUME TypeInv, NEW c \in Clients, CommitInvocation(c) \/ CommitAttempt(c)
  PROVE  TypeInv'
<1> USE DEF TypeInv, world
<1>1. CASE CommitInvocation(c)
  <2> DEFINE l == AfterInvocation[cli[c].pc]
  <2>1. /\ l \in Labels /\ l \notin DOMAIN AfterAttempt
        /\ l \in RecoverPC => cli[c].pc \in RecoverPC
        /\ cli[c].pc \notin {"idle", "save_operator"}
    BY <1>1 DEF CommitInvocation, AfterInvocation, AfterAttempt, Labels, DispatchPC,
                RunnerPC, AcceptPC, RecoverPC
  <2>2. Continue(c, l)
    BY <1>1 DEF CommitInvocation
  <2> HIDE DEF l
  <2>3. Locals'
    BY <2>1, <2>2, HeldTypes, ContinueLocals DEF Inv
  <2>4. DataOK'
    BY <1>1, HeldTypes DEF CommitInvocation, DataOK, CustodyOK
  <2> QED BY <2>3, <2>4
<1>2. CASE CommitAttempt(c)
  <2> DEFINE l == AfterAttempt[cli[c].pc]
  <2>1. /\ l \in Labels /\ l \notin DOMAIN AfterAttempt \cup RecoverPC
        /\ l # "idle" => cli[c].pc = "save_running"
    BY <1>2 DEF CommitAttempt, AfterAttempt, Labels, DispatchPC, RunnerPC, AcceptPC,
                RecoverPC
  <2>2. Continue(c, l)
    BY <1>2 DEF CommitAttempt
  <2> HIDE DEF l
  <2>3. Locals'
    BY <2>1, <2>2, HeldTypes, ContinueLocals DEF Inv
  <2>4. cli[c].att \in AttemptRecords
    BY <1>2, HeldTypes DEF CommitAttempt
  <2>5. DataOK'
    BY <1>2, <2>4 DEF CommitAttempt, DataOK, CustodyOK
  <2> QED BY <2>3, <2>5
<1> QED BY <1>1, <1>2

\* The checks of dispatch-invocation before and after the runner.
LEMMA TypeDispatch ==
  ASSUME TypeInv, NEW c \in Clients,
         \/ BindCheck(c) \/ DispatchCheck(c) \/ Accept(c) \/ StoreResult(c)
         \/ CompleteCheck(c) \/ CandidateCheck(c)
  PROVE  TypeInv'
<1> USE DEF TypeInv, records, world
<1>0. /\ {"save_running", "save_dispatching", "a_result", "a_complete", "save_completed",
          "save_candidate"} \subseteq Labels \ RecoverPC
      /\ {"save_dispatching", "a_result", "a_complete", "save_completed"}
           \cap DOMAIN AfterAttempt = {}
  BY DEF Labels, DispatchPC, RunnerPC, AcceptPC, RecoverPC, AfterAttempt
<1>1. CASE BindCheck(c)
  <2> DEFINE new == [attempt EXCEPT !.state = "RUNNING", !.runtime = Inv(c)]
             ok == invocation[Inv(c)].state = "AUTHORIZED"
  <2>1. Inv(c) \in Invocations
    BY <1>1, HeldTypes DEF BindCheck, At
  <2>2. new \in AttemptRecords
    BY <2>1 DEF DataOK, AttemptRecords, AttemptStates, AttemptNext
  <2>3. CheckAttempt(c, ok, new, "save_running")
    BY <1>1 DEF BindCheck
  <2>4. DataOK'
    BY <2>3 DEF CheckAttempt, DataOK, CustodyOK
  <2>5. ok \in BOOLEAN
    OBVIOUS
  <2> HIDE DEF new, ok
  <2>6. Locals'
    BY <1>0, <2>1, <2>2, <2>3, <2>5, CheckAttemptLocals DEF Inv
  <2> QED BY <2>4, <2>6
<1>2. CASE DispatchCheck(c)
  <2> DEFINE new == [cli[c].inv EXCEPT !.state = "DISPATCHING"]
  <2>1. Inv(c) \in Invocations
    BY <1>2, HeldTypes DEF DispatchCheck, At
  <2>2. new \in InvocationRecords
    BY HeldTypes DEF InvocationRecords, InvocationStates, InvocationNext
  <2>3. CheckInvocation(c, new, "save_dispatching")
    BY <1>2 DEF DispatchCheck
  <2>4. DataOK'
    BY <2>3 DEF CheckInvocation, DataOK, CustodyOK
  <2> HIDE DEF new
  <2>5. Locals'
    BY <1>0, <2>1, <2>2, <2>3, CheckInvocationLocals DEF Inv
  <2> QED BY <2>4, <2>5
<1>3. CASE Accept(c)
  <2>1. Inv(c) \in Invocations
    BY <1>3, HeldTypes DEF Accept, At
  <2>2. Locals'
    BY <1>0, <1>3, <2>1, GotoLocals, ReturnLocals DEF Accept, Inv
  <2>3. DataOK'
    BY <1>3 DEF Accept, DataOK, CustodyOK
  <2> QED BY <2>2, <2>3
<1>4. CASE StoreResult(c)
  <2>1. Inv(c) \in Invocations
    BY <1>4, HeldTypes DEF StoreResult, At
  <2>2. Locals'
    BY <1>0, <1>4, <2>1, GotoLocals DEF StoreResult, Inv
  <2>3. DataOK'
    BY <1>4 DEF StoreResult, DataOK, CustodyOK
  <2> QED BY <2>2, <2>3
<1>5. CASE CompleteCheck(c)
  <2> DEFINE new == [cli[c].inv EXCEPT !.state = "COMPLETED", !.result = c]
  <2>1. Inv(c) \in Invocations
    BY <1>5, HeldTypes DEF CompleteCheck, At
  <2>2. new \in InvocationRecords
    BY HeldTypes DEF InvocationRecords, InvocationStates, InvocationNext
  <2>3. CheckInvocation(c, new, "save_completed")
    BY <1>5 DEF CompleteCheck
  <2>4. DataOK'
    BY <2>3 DEF CheckInvocation, DataOK, CustodyOK
  <2> HIDE DEF new
  <2>5. Locals'
    BY <1>0, <2>1, <2>2, <2>3, CheckInvocationLocals DEF Inv
  <2> QED BY <2>4, <2>5
<1>6. CASE CandidateCheck(c)
  <2> DEFINE new == [attempt EXCEPT !.state = "CANDIDATE", !.candidate = c]
             ok == /\ attempt.state = "RUNNING"
                   /\ attempt.runtime = Inv(c) /\ attempt.candidate = None
  <2>1. Inv(c) \in Invocations
    BY <1>6, HeldTypes DEF CandidateCheck, At
  <2>2. new \in AttemptRecords
    BY DEF DataOK, AttemptRecords, AttemptStates, AttemptNext
  <2>3. CheckAttempt(c, ok, new, "save_candidate")
    BY <1>6 DEF CandidateCheck
  <2>4. DataOK'
    BY <2>3 DEF CheckAttempt, DataOK, CustodyOK
  <2>5. ok \in BOOLEAN
    OBVIOUS
  <2> HIDE DEF new, ok
  <2>6. Locals'
    BY <1>0, <2>1, <2>2, <2>3, <2>5, CheckAttemptLocals DEF Inv
  <2> QED BY <2>4, <2>6
<1> QED BY <1>1, <1>2, <1>3, <1>4, <1>5, <1>6

AdapterType == [Invocations -> [Clients -> AdapterStates]]

\* A step whose only record change is a custody save.
LEMMA TypeSave ==
  ASSUME TypeInv, NEW c \in Clients, NEW new \in CustodyRecords, NEW l \in Labels,
         SaveCustody(c, new, l), cli[c].pc \notin {"idle", "save_operator"},
         l \notin DOMAIN AfterAttempt,
         l \in RecoverPC => cli[c].att \in AttemptRecords,
         UNCHANGED <<attempt, invocation, result, workspace, sends, crashes>>,
         adapter' \in AdapterType
  PROVE  TypeInv'
<1>1. Locals' /\ CustodyOK'
  BY SaveCustodyTypes, HeldTypes DEF TypeInv, DataOK, Inv
<1> QED BY <1>1 DEF TypeInv, DataOK, AdapterType

\* The updates of a custody record that the runner makes.
LEMMA CustodyUpdates ==
  ASSUME NEW r \in CustodyRecords, NEW s \in CustodyStates, NEW a \in ActiveCounts,
         NEW f \in BOOLEAN
  PROVE  /\ [r EXCEPT !.state = s] \in CustodyRecords
         /\ [r EXCEPT !.state = s, !.failed = f] \in CustodyRecords
         /\ [r EXCEPT !.state = s, !.assigned = f] \in CustodyRecords
         /\ [r EXCEPT !.state = s, !.sent = f] \in CustodyRecords
         /\ [r EXCEPT !.state = s, !.active = a, !.failed = f] \in CustodyRecords
<1>1. [r EXCEPT !.state = s] \in CustodyRecords
  BY DEF CustodyRecords
<1>2. [r EXCEPT !.state = s, !.failed = f] \in CustodyRecords
  BY DEF CustodyRecords
<1>3. [r EXCEPT !.state = s, !.assigned = f] \in CustodyRecords
  BY DEF CustodyRecords
<1>4. [r EXCEPT !.state = s, !.sent = f] \in CustodyRecords
  BY DEF CustodyRecords
<1>5. [r EXCEPT !.state = s, !.active = a, !.failed = f] \in CustodyRecords
  BY DEF CustodyRecords
<1> QED BY <1>1, <1>2, <1>3, <1>4, <1>5

\* The contained runner.
LEMMA TypeRun ==
  ASSUME TypeInv, NEW c \in Clients, Run(c) \/ JobFails(c) \/ AssignFails(c) \/ Fault(c)
  PROVE  TypeInv'
<1> USE DEF world, records, At
<1>0. /\ RunnerPC \cup {"idle", "a_accept"} \subseteq Labels
      /\ \A l \in RunnerPC \cup {"idle", "a_accept"} : l \notin DOMAIN AfterAttempt \cup RecoverPC
      /\ FaultPC \subseteq RunnerPC /\ "idle" \notin RunnerPC /\ "save_operator" \notin RunnerPC
  BY DEF Labels, DispatchPC, RunnerPC, AcceptPC, RecoverPC, AfterAttempt, FaultPC
<1>1. /\ {"r_make", "r_launch", "r_assign", "r_record", "r_mark", "r_send", "r_wait", "r_late",
          "r_verify"} \subseteq RunnerPC
      /\ adapter \in AdapterType
  BY DEF RunnerPC, TypeInv, DataOK, AdapterType
<1>2. ASSUME NEW left \in AdapterStates, NEW i \in Invocations
      PROVE  [adapter EXCEPT ![i][c] = left] \in AdapterType
  BY <1>1 DEF AdapterType
<1>3. /\ {"none", "outside", "waiting", "working", "remnant"} \subseteq AdapterStates
      /\ \A r \in CustodyRecords, s \in CustodyStates, a \in ActiveCounts, f \in BOOLEAN :
           /\ [r EXCEPT !.state = s] \in CustodyRecords
           /\ [r EXCEPT !.state = s, !.failed = f] \in CustodyRecords
           /\ [r EXCEPT !.state = s, !.assigned = f] \in CustodyRecords
           /\ [r EXCEPT !.state = s, !.sent = f] \in CustodyRecords
           /\ [r EXCEPT !.state = s, !.active = a, !.failed = f] \in CustodyRecords
      /\ {"PREPARED", "ASSIGNED", "DISPATCHING", "EXITED", "TERMINATED", "UNCERTAIN",
          "ABSENCE_VERIFIED"} \subseteq CustodyStates
      /\ {"unknown", "zero", "some"} \subseteq ActiveCounts
  BY CustodyUpdates DEF AdapterStates, CustodyStates, CustodyNext, ActiveCounts
<1>4. cli[c].pc \in RunnerPC => Inv(c) \in Invocations
  BY <1>0, HeldTypes
<1>5. cli[c].cus \in CustodyRecords
  BY HeldTypes
<1>6. CASE CustodyCheck(c)
  <2>1. Locals'
    BY <1>0, <1>1, <1>6, HeldTypes, GotoLocals, ReturnLocals DEF CustodyCheck, TypeInv, Inv
  <2> QED BY <1>6, <2>1 DEF CustodyCheck, TypeInv, DataOK, CustodyOK
<1>7. CASE CustodyCreate(c)
  <2> DEFINE new == [NoCustody EXCEPT !.state = "PREPARED", !.owner = c]
             s == [cli[c] EXCEPT !.cus = new, !.pc = "r_launch"]
  <2>1. new \in CustodyRecords
    BY DEF NoCustody, CustodyRecords, CustodyStates, CustodyNext, ActiveCounts
  <2>2. /\ custody' = [custody EXCEPT ![Inv(c)] = new]
        /\ cli' = [cli EXCEPT ![c] = s] /\ cli[c].pc = "r_make"
    BY <1>7 DEF CustodyCreate
  <2> HIDE DEF new
  <2>3. s \in ClientStates /\ s.pc = "r_launch" /\ s.target = cli[c].target /\ s.att = cli[c].att
    BY <1>0, <1>1, <2>1 DEF TypeInv, Locals, ClientStates
  <2> HIDE DEF s
  <2>4. Locals'
    BY <1>0, <1>1, <2>2, <2>3, HeldTypes, HoldLocals DEF TypeInv, Inv
  <2>5. CustodyOK'
    BY <2>1, <2>2 DEF TypeInv, DataOK, CustodyOK
  <2> QED BY <1>7, <2>4, <2>5 DEF CustodyCreate, TypeInv, DataOK
<1>8. CASE Launch(c)
  <2>1. Locals'
    BY <1>0, <1>1, <1>8, HeldTypes, GotoLocals DEF Launch, TypeInv, Inv
  <2>2. adapter' \in AdapterType
    BY <1>0, <1>1, <1>2, <1>3, <1>4, <1>8 DEF Launch
  <2> QED BY <1>8, <2>1, <2>2 DEF Launch, TypeInv, DataOK, CustodyOK, AdapterType
<1>9. CASE Assign(c)
  <2>1. Locals'
    BY <1>0, <1>1, <1>9, HeldTypes, GotoLocals DEF Assign, TypeInv, Inv
  <2>2. adapter' \in AdapterType
    BY <1>1, <1>3, <1>9 DEF Assign, AdapterType
  <2> QED BY <1>9, <2>1, <2>2 DEF Assign, TypeInv, DataOK, CustodyOK, AdapterType
<1>10. CASE RecordAssigned(c)
  BY <1>0, <1>1, <1>3, <1>5, <1>10, TypeSave DEF RecordAssigned
<1>11. CASE MarkDispatching(c)
  BY <1>0, <1>1, <1>3, <1>5, <1>11, TypeSave DEF MarkDispatching
<1>12. CASE Send(c)
  <2>1. Locals'
    BY <1>0, <1>1, <1>12, HeldTypes, GotoLocals DEF Send, Unread, TypeInv, Inv
  <2>2. adapter' \in AdapterType
    BY <1>1, <1>2, <1>3, <1>4, <1>12 DEF Send, Unread
  <2>3. sends' \in [Invocations -> 0 .. 2]
    <3> DEFINE n == sends[Inv(c)]
    <3>1. Inv(c) \in Invocations /\ sends \in [Invocations -> 0 .. 2]
      BY <1>1, <1>4, <1>12 DEF Send, Unread, TypeInv, DataOK
    <3>2. n \in 0 .. 2 => (IF n < 2 THEN n + 1 ELSE n) \in 0 .. 2
      OBVIOUS
    <3>3. sends' = [sends EXCEPT ![Inv(c)] = IF n < 2 THEN n + 1 ELSE n]
      BY <1>12 DEF Send, Unread
    <3>4. n \in 0 .. 2
      BY <3>1
    <3> HIDE DEF n
    <3> QED BY <3>1, <3>2, <3>3, <3>4
  <2> QED BY <1>12, <2>1, <2>2, <2>3 DEF Send, Unread, TypeInv, DataOK, CustodyOK, AdapterType
<1>13. CASE Timeout(c)
  <2>1. Locals'
    BY <1>0, <1>1, <1>13, HeldTypes, GotoLocals DEF Timeout, TypeInv, Inv
  <2>2. adapter' \in AdapterType
    BY <1>1, <1>2, <1>3, <1>4, <1>13 DEF Timeout
  <2> QED BY <1>13, <2>1, <2>2 DEF Timeout, TypeInv, DataOK, CustodyOK, AdapterType
<1>14. CASE Collect(c)
  <2>1. PICK failed \in BOOLEAN :
          SaveCustody(c, [cli[c].cus EXCEPT
                            !.state  = IF failed THEN "TERMINATED" ELSE "EXITED",
                            !.active = IF adapter[Inv(c)][c] = "none" THEN "zero" ELSE "some",
                            !.failed = failed],
                      IF adapter[Inv(c)][c] = "none" THEN "r_verify" ELSE "idle")
    BY <1>14 DEF Collect
  <2> QED BY <1>0, <1>1, <1>3, <1>5, <1>14, <2>1, TypeSave DEF Collect
<1>15. CASE Fault(c)
  <2>1. cli[c].pc \in RunnerPC /\ Inv(c) \in Invocations
    BY <1>0, <1>4, <1>15 DEF Fault
  <2>2. adapter[Inv(c)][c] \in AdapterStates
    BY <1>1, <2>1 DEF AdapterType
  <2>3. PICK left \in AdapterStates :
          \E active \in {"unknown", IF left = "remnant" THEN "some" ELSE "zero"} :
            /\ adapter' = [adapter EXCEPT ![Inv(c)][c] = left]
            /\ SaveCustody(c, [cli[c].cus EXCEPT
                                 !.state  = IF active = "zero" THEN "TERMINATED"
                                            ELSE "UNCERTAIN",
                                 !.active = active, !.failed = TRUE],
                           IF active = "zero" THEN "r_verify" ELSE "idle")
    BY <1>3, <1>15, <2>2 DEF Fault
  <2>0. PICK active \in {"unknown", IF left = "remnant" THEN "some" ELSE "zero"} :
            /\ adapter' = [adapter EXCEPT ![Inv(c)][c] = left]
            /\ SaveCustody(c, [cli[c].cus EXCEPT
                                 !.state  = IF active = "zero" THEN "TERMINATED"
                                            ELSE "UNCERTAIN",
                                 !.active = active, !.failed = TRUE],
                           IF active = "zero" THEN "r_verify" ELSE "idle")
    BY <2>3
  <2> DEFINE st == IF active = "zero" THEN "TERMINATED" ELSE "UNCERTAIN"
             l == IF active = "zero" THEN "r_verify" ELSE "idle"
  <2>4. active \in ActiveCounts /\ st \in CustodyStates /\ l \in {"r_verify", "idle"}
    BY <1>3
  <2>5. SaveCustody(c, [cli[c].cus EXCEPT !.state = st, !.active = active, !.failed = TRUE], l)
    BY <2>0
  <2> HIDE DEF st, l
  <2>6. adapter' \in AdapterType
    BY <1>2, <2>1, <2>0
  <2> QED BY <1>0, <1>1, <1>3, <1>5, <1>15, <2>1, <2>4, <2>5, <2>6, TypeSave DEF Fault
<1>16. CASE VerifyAbsence(c)
  BY <1>0, <1>1, <1>3, <1>5, <1>16, TypeSave DEF VerifyAbsence
<1>17. CASE JobFails(c)
  BY <1>0, <1>1, <1>3, <1>5, <1>17, TypeSave DEF JobFails
<1>18. CASE AssignFails(c)
  <2>1. adapter' \in AdapterType
    BY <1>0, <1>1, <1>2, <1>3, <1>4, <1>18 DEF AssignFails
  <2> QED BY <1>0, <1>1, <1>3, <1>5, <1>18, <2>1, TypeSave DEF AssignFails
<1> QED BY <1>6, <1>7, <1>8, <1>9, <1>10, <1>11, <1>12, <1>13, <1>14, <1>15, <1>16, <1>17,
           <1>18 DEF Run, BrokenPipe

\* recover-invocation after its first read.
LEMMA TypeRecover ==
  ASSUME TypeInv, NEW c \in Clients,
         \/ RecoverInspect(c) \/ RecoverCustody(c) \/ RecoverAbsence(c)
         \/ RecoverUncertain(c) \/ RecoverAbort(c) \/ RecoverAttempt(c)
  PROVE  TypeInv'
<1> USE DEF records, world, At
<1>0. /\ RecoverPC \subseteq Labels /\ "idle" \notin RecoverPC /\ "save_operator" \notin RecoverPC
      /\ {"v_inspect", "v_custody", "v_absent", "v_uncertain", "save_uncertain", "v_abort",
          "save_aborted", "v_attempt", "save_recovered"} = RecoverPC
      /\ \A l \in RecoverPC : l # "save_recovered" => l \notin DOMAIN AfterAttempt
  BY DEF RecoverPC, Labels, AfterAttempt
<1>1. cli[c].pc \in RecoverPC
  BY <1>0 DEF RecoverInspect, RecoverCustody, RecoverAbsence, RecoverUncertain, RecoverAbort,
              RecoverAttempt
<1>2. /\ cli[c].target \in Invocations /\ Inv(c) \in Invocations
      /\ cli[c].att \in AttemptRecords
      /\ cli[c].inv \in InvocationRecords /\ cli[c].cus \in CustodyRecords
  BY <1>0, <1>1, HeldTypes DEF Inv
<1>3. ASSUME NEW l \in RecoverPC, Goto(c, l), UNCHANGED <<records, world, crashes>>
      PROVE  TypeInv'
  BY <1>0, <1>2, <1>3, GotoLocals DEF TypeInv, DataOK, CustodyOK
<1>4. ASSUME Return(c), UNCHANGED <<records, world, crashes>>
      PROVE  TypeInv'
  BY <1>4, ReturnLocals DEF TypeInv, DataOK, CustodyOK
<1>5. CASE RecoverInspect(c)
  BY <1>0, <1>3, <1>4, <1>5 DEF RecoverInspect
<1>6. CASE RecoverCustody(c)
  <2> DEFINE r == custody[Inv(c)]
             l == IF r.state = "TERMINATED" THEN "v_absent" ELSE "v_uncertain"
             s == [cli[c] EXCEPT !.cus = r, !.pc = l]
  <2>1. r \in CustodyRecords
    BY <1>2 DEF TypeInv, DataOK, CustodyOK
  <2>2. CASE cli' = [cli EXCEPT ![c] = s]
    <3>1. l \in RecoverPC /\ l # "save_recovered"
      BY <1>0
    <3> HIDE DEF r, l
    <3>2. s \in ClientStates /\ s.pc = l /\ s.target = cli[c].target /\ s.att = cli[c].att
      BY <1>0, <2>1, <3>1 DEF TypeInv, Locals, ClientStates
    <3> HIDE DEF s
    <3>3. Locals'
      BY <1>0, <1>2, <2>2, <3>1, <3>2, HoldLocals DEF TypeInv
    <3> QED BY <1>6, <3>3 DEF RecoverCustody, TypeInv, DataOK, CustodyOK
  <2>3. CASE Return(c)
    BY <1>4, <1>6, <2>3 DEF RecoverCustody
  <2>4. cli' = [cli EXCEPT ![c].cus = r, ![c].pc = l] <=> cli' = [cli EXCEPT ![c] = s]
    BY DEF TypeInv, Locals
  <2> QED BY <1>6, <2>2, <2>3, <2>4 DEF RecoverCustody
<1>7. CASE RecoverAbsence(c)
  <2>1. [cli[c].cus EXCEPT !.state = "ABSENCE_VERIFIED"] \in CustodyRecords
    BY <1>2 DEF CustodyRecords, CustodyStates, CustodyNext
  <2>2. "v_uncertain" \in Labels /\ "v_uncertain" \notin DOMAIN AfterAttempt
    BY <1>0
  <2> QED BY <1>0, <1>1, <1>2, <1>7, <2>1, <2>2, TypeSave
          DEF RecoverAbsence, TypeInv, DataOK, AdapterType
<1>8. ASSUME NEW new \in InvocationRecords, NEW l \in {"save_uncertain", "save_aborted"},
             CheckInvocation(c, new, l)
      PROVE  TypeInv'
  <2>1. Locals'
    BY <1>0, <1>2, <1>8, CheckInvocationLocals DEF TypeInv
  <2> QED BY <1>8, <2>1 DEF CheckInvocation, TypeInv, DataOK, CustodyOK
<1>9. CASE RecoverUncertain(c)
  <2>1. [cli[c].inv EXCEPT !.state = "UNCERTAIN"] \in InvocationRecords
    BY <1>2 DEF InvocationRecords, InvocationStates, InvocationNext
  <2> QED BY <1>0, <1>3, <1>8, <1>9, <2>1 DEF RecoverUncertain
<1>10. CASE RecoverAbort(c)
  <2>1. [cli[c].inv EXCEPT !.state = "ABORTED"] \in InvocationRecords
    BY <1>2 DEF InvocationRecords, InvocationStates, InvocationNext
  <2> QED BY <1>0, <1>3, <1>8, <1>10, <2>1 DEF RecoverAbort
<1>11. CASE RecoverAttempt(c)
  <2> DEFINE new == [cli[c].att EXCEPT !.state = "ABORTED", !.cleanup = RecoveryOutcome]
  <2>1. new \in AttemptRecords
    BY <1>2 DEF AttemptRecords, AttemptStates, AttemptNext
  <2>2. CASE CheckAttempt(c, TRUE, new, "save_recovered")
    <3>1. Locals'
      BY <1>0, <1>2, <2>1, <2>2, CheckAttemptLocals DEF TypeInv
    <3> QED BY <2>2, <3>1 DEF CheckAttempt, TypeInv, DataOK, CustodyOK
  <2> QED BY <1>4, <1>11, <2>2 DEF RecoverAttempt
<1> QED BY <1>5, <1>6, <1>7, <1>9, <1>10, <1>11

\* Crashes, the adapter and the operating system.
LEMMA TypeWorld ==
  ASSUME TypeInv, (\E c \in Clients : Crash(c)) \/ Environment
  PROVE  TypeInv'
<1> USE DEF TypeInv, DataOK, CustodyOK, records
<1>1. ASSUME NEW c \in Clients, Crash(c)
      PROVE  TypeInv'
  BY <1>1, ReturnLocals, DispatchAssumption DEF Crash, world
<1>2. ASSUME NEW i \in Invocations, NEW c \in Clients, AdapterEnds(i, c)
      PROVE  TypeInv'
  <2>1. adapter' \in [Invocations -> [Clients -> AdapterStates]]
    BY <1>2 DEF AdapterEnds, AdapterStates
  <2> QED BY <1>2, <2>1 DEF AdapterEnds, Locals, HeldOK
<1>3. ASSUME NEW i \in Invocations, NEW c \in Clients, AdapterWrites(i, c)
      PROVE  TypeInv'
  BY <1>3 DEF AdapterWrites, Locals, HeldOK
<1> QED BY <1>1, <1>2, <1>3 DEF Environment

LEMMA TypeStep == TypeInv /\ [Next]_vars => TypeInv'
<1> SUFFICES ASSUME TypeInv, [Next]_vars PROVE TypeInv'
  OBVIOUS
<1>1. CASE UNCHANGED vars
  BY <1>1 DEF TypeInv, DataOK, CustodyOK, Locals, HeldOK, vars
<1>2. ASSUME NEW c \in Clients, Read(c) \/ Step(c) \/ Mishap(c)
      PROVE  TypeInv'
  BY <1>2, TypeRead, TypeCommit, TypeDispatch, TypeRun, TypeRecover, TypeWorld
  DEF Step, Mishap
<1>3. CASE Environment
  BY <1>3, TypeWorld
<1> QED BY <1>1, <1>2, <1>3 DEF Next

\* Every reachable state is well typed, for every set of clients, invocations
\* and controllers, whatever commands race or crash.
THEOREM TypeCorrect == Spec => []TypeOK
<1>1. TypeInv => TypeOK
  BY DEF TypeInv, DataOK, CustodyOK, Locals, TypeOK
<1> QED BY <1>1, TypeInit, TypeStep, PTL DEF Spec

-----------------------------------------------------------------------------
(* Containment, with one dispatching slot *)

LEMMA CustodyAtFacts ==
  /\ DOMAIN CustodyAt = {"r_make", "r_launch", "r_assign", "r_record", "r_mark", "r_send"}
  /\ CustodyAt["r_make"] = "MISSING" /\ CustodyAt["r_launch"] = "PREPARED"
  /\ CustodyAt["r_assign"] = "PREPARED" /\ CustodyAt["r_record"] = "PREPARED"
  /\ CustodyAt["r_mark"] = "ASSIGNED" /\ CustodyAt["r_send"] = "DISPATCHING"
  /\ DOMAIN CustodyAt \subseteq DispatchPC
BY DEF CustodyAt, DispatchPC, RunnerPC

LEMMA ContainmentInit == Init => ContainmentInv
<1> SUFFICES ASSUME Init PROVE ContainmentInv
  OBVIOUS
<1>1. \A c \in Clients : cli[c].pc = "idle"
  BY DEF Init, IdleClient
<1>2. "idle" \notin DispatchPC \cup {"r_verify", "v_absent", "r_send"}
  BY DEF DispatchPC, RunnerPC, AcceptPC
<1>3. OnlyDispatchers /\ RunnerCustody /\ HeldOutcome
  BY <1>1, <1>2, CustodyAtFacts DEF Init, OnlyDispatchers, RunnerCustody, HeldOutcome
<1>4. ZeroMeansDead /\ SentMeansMarked
  BY <1>1, <1>2 DEF Init, ZeroMeansDead, ClaimsDead, NoCustody, SentMeansMarked,
                    RequestAtMostOnce
<1> QED BY <1>3, <1>4 DEF ContainmentInv

\* A command that leaves custody, adapters and requests alone and moves to a label
\* that promises nothing about them.
LEMMA QuietStep ==
  ASSUME TypeInv, ContainmentInv, NEW c \in Clients, NEW s,
         cli' = [cli EXCEPT ![c] = s],
         s.pc \notin DOMAIN CustodyAt \cup {"r_verify", "v_absent"},
         s.pc \in DispatchPC => "dispatch" \in May[c],
         UNCHANGED <<custody, adapter, sends>>
  PROVE  ContainmentInv'
<1>1. /\ cli'[c] = s
      /\ \A d \in Clients : d # c => cli'[d] = cli[d]
  BY DEF TypeInv, Locals
<1>2. OnlyDispatchers'
  BY <1>1 DEF ContainmentInv, OnlyDispatchers
<1>3. RunnerCustody'
  BY <1>1 DEF ContainmentInv, RunnerCustody
<1>4. HeldOutcome'
  BY <1>1 DEF ContainmentInv, HeldOutcome
<1>5. ZeroMeansDead'
  BY DEF ContainmentInv, ZeroMeansDead
<1>6. SentMeansMarked'
  <2>1. s.pc # "r_send"
    BY CustodyAtFacts
  <2> QED BY <1>1, <2>1 DEF ContainmentInv, SentMeansMarked, RequestAtMostOnce
<1> QED BY <1>2, <1>3, <1>4, <1>5, <1>6 DEF ContainmentInv

LEMMA QuietGoto ==
  ASSUME TypeInv, ContainmentInv, NEW c \in Clients, NEW l, Goto(c, l),
         l \notin DOMAIN CustodyAt \cup {"r_verify", "v_absent"},
         l \in DispatchPC => "dispatch" \in May[c],
         UNCHANGED <<custody, adapter, sends>>
  PROVE  ContainmentInv'
<1> DEFINE s == [cli[c] EXCEPT !.pc = l]
<1>1. cli' = [cli EXCEPT ![c] = s] /\ s.pc = l
  BY DEF Goto, TypeInv, Locals, ClientStates
<1> HIDE DEF s
<1> QED BY <1>1, QuietStep

LEMMA QuietReturn ==
  ASSUME TypeInv, ContainmentInv, NEW c \in Clients, Return(c),
         UNCHANGED <<custody, adapter, sends>>
  PROVE  ContainmentInv'
<1>1. cli' = [cli EXCEPT ![c] = IdleClient]
  BY DEF Return
<1>2. /\ IdleClient.pc \notin DOMAIN CustodyAt \cup {"r_verify", "v_absent"}
      /\ IdleClient.pc \notin DispatchPC
  BY CustodyAtFacts DEF IdleClient, DispatchPC, RunnerPC, AcceptPC
<1> QED BY <1>1, <1>2, QuietStep

\* A custody save, when what it writes agrees with the label it moves to and with
\* the adapters left alive, and no other command relies on the record replaced.
LEMMA SaveStep ==
  ASSUME TypeInv, ContainmentInv, NEW c \in Clients, NEW new, NEW l,
         SaveCustody(c, new, l), Inv(c) \in Invocations,
         l \in DispatchPC => "dispatch" \in May[c],
         \A j \in Invocations, d \in Clients :
           /\ adapter'[j][d] # "none" => adapter[j][d] # "none"
           /\ adapter'[j][d] \in InJob => adapter[j][d] \in InJob,
         UNCHANGED sends,
         \A d \in Clients \ {c} :
           cli[d].pc \in DOMAIN CustodyAt /\ cli[d].target = Inv(c) =>
             custody[Inv(c)] # cli[c].cus,
         ClaimsDead(new) /\ custody[Inv(c)] = cli[c].cus =>
           \A d \in Clients : adapter'[Inv(c)][d] \notin InJob,
         new.state \in {"MISSING", "PREPARED", "ASSIGNED"} => sends[Inv(c)] = 0,
         l \in DOMAIN CustodyAt => new.state = CustodyAt[l],
         l = "r_send" => sends[Inv(c)] = 0,
         l = "r_verify" => new.state \in {"EXITED", "TERMINATED"} /\ new.active = "zero",
         l # "v_absent"
  PROVE  ContainmentInv'
<1>0. /\ custody \in [Invocations -> CustodyRecords] /\ cli \in [Clients -> ClientStates]
      /\ IdleClient.pc = "idle"
      /\ "idle" \notin DOMAIN CustodyAt \cup DispatchPC \cup {"r_verify", "v_absent", "r_send"}
  BY CustodyAtFacts
  DEF TypeInv, DataOK, CustodyOK, Locals, IdleClient, DispatchPC, RunnerPC, AcceptPC
<1>1. CASE custody[Inv(c)] = cli[c].cus /\ ValidCustody(new)
  <2> DEFINE s == cli'[c]
  <2>1. /\ custody' = [custody EXCEPT ![Inv(c)] = new]
        /\ \A d \in Clients : d # c => cli'[d] = cli[d]
        /\ s.pc = l
        /\ l # "idle" => s.cus = new /\ s.target = Inv(c)
    <3>1. CASE l = "idle"
      <4>1. cli' = [cli EXCEPT ![c] = IdleClient] /\ custody' = [custody EXCEPT ![Inv(c)] = new]
        BY <1>1, <3>1 DEF SaveCustody
      <4> QED BY <1>0, <3>1, <4>1
    <3>2. CASE l # "idle"
      <4> DEFINE t == [cli[c] EXCEPT !.cus = new, !.pc = l]
      <4>1. cli' = [cli EXCEPT ![c] = t] /\ custody' = [custody EXCEPT ![Inv(c)] = new]
        BY <1>0, <1>1, <3>2 DEF SaveCustody
      <4>2. t.pc = l /\ t.cus = new /\ t.target = Inv(c)
        BY <1>0 DEF ClientStates, Inv
      <4> HIDE DEF t
      <4> QED BY <1>0, <4>1, <4>2
    <3> QED BY <3>1, <3>2
  <2>2. /\ custody'[Inv(c)] = new
        /\ \A j \in Invocations : j # Inv(c) => custody'[j] = custody[j]
    BY <1>0, <2>1
  <2> HIDE DEF s
  <2>3. OnlyDispatchers'
    <3>1. ASSUME NEW d \in Clients, cli'[d].pc \in DispatchPC
          PROVE  "dispatch" \in May[d]
      BY <2>1, <3>1 DEF ContainmentInv, OnlyDispatchers, s
    <3> QED BY <3>1 DEF ContainmentInv, OnlyDispatchers
  <2>4. RunnerCustody'
    <3> SUFFICES ASSUME NEW d \in Clients, cli'[d].pc \in DOMAIN CustodyAt
                 PROVE  custody'[cli'[d].target].state = CustodyAt[cli'[d].pc]
      BY DEF RunnerCustody
    <3>1. CASE d = c
      BY <1>0, <2>1, <2>2, <3>1 DEF s
    <3>2. CASE d # c
      <4>1. /\ cli[d].pc \in DOMAIN CustodyAt /\ cli'[d] = cli[d]
            /\ cli[d].target # Inv(c)
        BY <1>1, <2>1, <3>2
      <4>2. cli[d].target \in Invocations
        BY <1>0, <4>1, CustodyAtFacts, HeldTypes DEF Inv
      <4> QED BY <2>2, <4>1, <4>2 DEF ContainmentInv, RunnerCustody
    <3> QED BY <3>1, <3>2
  <2>5. HeldOutcome'
    <3> SUFFICES ASSUME NEW d \in Clients
                 PROVE  /\ cli'[d].pc = "r_verify" =>
                             /\ cli'[d].cus.state \in {"EXITED", "TERMINATED"}
                             /\ cli'[d].cus.active = "zero"
                        /\ cli'[d].pc = "v_absent" =>
                             /\ cli'[d].cus.state = "TERMINATED"
                             /\ cli'[d].cus.active = "zero"
      BY DEF HeldOutcome
    <3>1. CASE d = c
      BY <1>0, <2>1, <3>1 DEF s
    <3>2. CASE d # c
      BY <2>1, <3>2 DEF ContainmentInv, HeldOutcome
    <3> QED BY <3>1, <3>2
  <2>6. ZeroMeansDead'
    BY <1>1, <2>2 DEF ContainmentInv, ZeroMeansDead
  <2>7. SentMeansMarked'
    <3>1. ASSUME NEW d \in Clients, cli'[d].pc = "r_send"
          PROVE  sends'[cli'[d].target] = 0
      <4>1. CASE d = c
        BY <1>0, <2>1, <3>1, <4>1 DEF s
      <4>2. CASE d # c
        BY <2>1, <3>1, <4>2 DEF ContainmentInv, SentMeansMarked
      <4> QED BY <4>1, <4>2
    <3>2. ASSUME NEW j \in Invocations,
                 custody'[j].state \in {"MISSING", "PREPARED", "ASSIGNED"}
          PROVE  sends'[j] = 0
      BY <2>2, <3>2 DEF ContainmentInv, SentMeansMarked
    <3> QED BY <3>1, <3>2 DEF ContainmentInv, SentMeansMarked, RequestAtMostOnce
  <2> QED BY <2>3, <2>4, <2>5, <2>6, <2>7 DEF ContainmentInv
<1>2. CASE ~(custody[Inv(c)] = cli[c].cus /\ ValidCustody(new))
  <2>1. cli' = [cli EXCEPT ![c] = IdleClient] /\ custody' = custody
    BY <1>2 DEF SaveCustody, Return
  <2>2. cli'[c].pc = "idle" /\ \A d \in Clients : d # c => cli'[d] = cli[d]
    BY <1>0, <2>1
  <2>3. OnlyDispatchers'
    BY <1>0, <2>2 DEF ContainmentInv, OnlyDispatchers
  <2>4. RunnerCustody' /\ HeldOutcome'
    BY <1>0, <2>1, <2>2 DEF ContainmentInv, RunnerCustody, HeldOutcome
  <2>5. ZeroMeansDead'
    BY <2>1 DEF ContainmentInv, ZeroMeansDead
  <2>6. SentMeansMarked'
    BY <1>0, <2>1, <2>2 DEF ContainmentInv, SentMeansMarked, RequestAtMostOnce
  <2> QED BY <2>3, <2>4, <2>5, <2>6 DEF ContainmentInv
<1> QED BY <1>1, <1>2

\* Every step that reads, checks and writes the attempt, the invocation or the
\* result is quiet.
LEMMA QuietCheck ==
  ASSUME TypeInv, ContainmentInv, NEW c \in Clients, NEW ok \in BOOLEAN, NEW new, NEW l,
         CheckInvocation(c, new, l) \/ CheckAttempt(c, ok, new, l),
         l \notin DOMAIN CustodyAt \cup {"r_verify", "v_absent"},
         l \in DispatchPC => "dispatch" \in May[c]
  PROVE  ContainmentInv'
<1> USE DEF records, world
<1>1. CASE cli' = [cli EXCEPT ![c].inv = new, ![c].pc = l]
  <2> DEFINE s == [cli[c] EXCEPT !.inv = new, !.pc = l]
  <2>1. cli' = [cli EXCEPT ![c] = s] /\ s.pc = l
    BY <1>1 DEF TypeInv, Locals, ClientStates
  <2> HIDE DEF s
  <2> QED BY <2>1, QuietStep DEF CheckInvocation, CheckAttempt
<1>2. CASE cli' = [cli EXCEPT ![c].att = new, ![c].pc = l]
  <2> DEFINE s == [cli[c] EXCEPT !.att = new, !.pc = l]
  <2>1. cli' = [cli EXCEPT ![c] = s] /\ s.pc = l
    BY <1>2 DEF TypeInv, Locals, ClientStates
  <2> HIDE DEF s
  <2> QED BY <2>1, QuietStep DEF CheckInvocation, CheckAttempt
<1>3. CASE Return(c)
  BY <1>3, QuietReturn DEF CheckInvocation, CheckAttempt
<1> QED BY <1>1, <1>2, <1>3 DEF CheckInvocation, CheckAttempt

LEMMA ContainmentRead ==
  ASSUME TypeInv, ContainmentInv, NEW c \in Clients, Read(c)
  PROVE  ContainmentInv'
<1> USE DEF records, world
<1>0. /\ {"save_prepared", "save_authorized", "save_rejected", "save_cancelled", "d_bind",
          "v_inspect", "save_operator"} \cap (DOMAIN CustodyAt \cup {"r_verify", "v_absent"}) = {}
      /\ {"save_prepared", "save_authorized", "save_rejected", "save_cancelled",
          "v_inspect", "save_operator"} \cap DispatchPC = {}
  BY CustodyAtFacts DEF DispatchPC, RunnerPC, AcceptPC
<1>1. ASSUME NEW i, NEW l, NEW inv, Start(c, i, l, inv),
             l \notin DOMAIN CustodyAt \cup {"r_verify", "v_absent"},
             l \in DispatchPC => "dispatch" \in May[c],
             UNCHANGED <<custody, adapter, sends>>
      PROVE  ContainmentInv'
  <2> DEFINE s == [pc |-> l, target |-> i, inv |-> inv, att |-> None, cus |-> NoCustody]
  <2>1. cli' = [cli EXCEPT ![c] = s] /\ s.pc = l
    BY <1>1 DEF Start
  <2> HIDE DEF s
  <2> QED BY <1>1, <2>1, QuietStep
<1>2. ASSUME NEW i \in Invocations, PrepareScan(c, i) \/ RejectCheck(c, i)
      PROVE  ContainmentInv'
  BY <1>0, <1>1, <1>2 DEF PrepareScan, RejectCheck
<1>3. ASSUME NEW i \in Invocations, NEW k \in Controllers,
             AuthorizeCheck(c, i, k) \/ CancelCheck(c, i, k)
      PROVE  ContainmentInv'
  BY <1>0, <1>1, <1>3 DEF AuthorizeCheck, CancelCheck
<1>4. ASSUME NEW i \in Invocations, NEW k \in Controllers, Admit(c, i, k)
      PROVE  ContainmentInv'
  BY <1>0, <1>1, <1>4 DEF Admit, Issue
<1>5. ASSUME NEW i \in Invocations, NEW k \in Controllers, RecoverRead(c, i, k)
      PROVE  ContainmentInv'
  <2> DEFINE s == [pc |-> "v_inspect", target |-> i, inv |-> invocation[i],
                   att |-> attempt, cus |-> NoCustody]
  <2>1. cli' = [cli EXCEPT ![c] = s] /\ s.pc = "v_inspect"
    BY <1>5 DEF RecoverRead
  <2> HIDE DEF s
  <2> QED BY <1>0, <1>5, <2>1, QuietStep DEF RecoverRead
<1>6. ASSUME NEW t \in AttemptStates, OperatorCheck(c, t)
      PROVE  ContainmentInv'
  <2> DEFINE new == [attempt EXCEPT !.state = t,
                       !.candidate = IF t = "CANDIDATE" THEN Typed ELSE @,
                       !.cleanup = IF t \in AttemptTerminal THEN "operator" ELSE @]
             s == [cli[c] EXCEPT !.pc = "save_operator", !.att = new]
  <2>1. cli' = [cli EXCEPT ![c] = s]
    BY <1>6 DEF OperatorCheck
  <2> HIDE DEF new
  <2>2. s.pc = "save_operator"
    BY DEF TypeInv, Locals, ClientStates
  <2> HIDE DEF s
  <2> QED BY <1>0, <1>6, <2>1, <2>2, QuietStep DEF OperatorCheck
<1> QED BY <1>2, <1>3, <1>4, <1>5, <1>6 DEF Read

LEMMA ContainmentQuiet ==
  ASSUME TypeInv, ContainmentInv, NEW c \in Clients,
         \/ CommitInvocation(c) \/ CommitAttempt(c) \/ BindCheck(c) \/ DispatchCheck(c)
         \/ Accept(c) \/ StoreResult(c) \/ CompleteCheck(c) \/ CandidateCheck(c)
         \/ RecoverInspect(c) \/ RecoverUncertain(c) \/ RecoverAbort(c) \/ RecoverAttempt(c)
         \/ Crash(c)
  PROVE  ContainmentInv'
<1> USE DEF records, world, At
<1> DEFINE Plain == DispatchPC \cup RecoverPC \cup {"idle"}
<1>0. /\ {"r_create", "save_running", "save_dispatching", "d_dispatch", "a_result", "a_complete",
          "save_completed", "a_attempt", "save_candidate", "v_custody", "save_uncertain",
          "v_abort", "save_aborted", "v_attempt", "save_recovered"}
           \cap (DOMAIN CustodyAt \cup {"r_verify", "v_absent"}) = {}
      /\ {"v_custody", "save_uncertain", "v_abort", "save_aborted", "v_attempt",
          "save_recovered"} \cap DispatchPC = {}
      /\ {"save_dispatching", "save_running", "save_completed", "d_bind", "d_dispatch",
          "a_accept", "a_result", "a_complete", "a_attempt"} \subseteq DispatchPC
  BY CustodyAtFacts DEF DispatchPC, RunnerPC, AcceptPC
<1>1. cli[c].pc \in DispatchPC => "dispatch" \in May[c]
  BY DEF ContainmentInv, OnlyDispatchers
<1>2. CASE CommitInvocation(c)
  <2> DEFINE l == AfterInvocation[cli[c].pc]
  <2>1. /\ l \in {"idle", "r_create", "a_attempt", "v_abort", "v_attempt"}
        /\ l \in {"r_create", "a_attempt"} => cli[c].pc \in DispatchPC
    BY <1>0, <1>2 DEF CommitInvocation, AfterInvocation
  <2>2. Continue(c, l) /\ UNCHANGED <<custody, adapter, sends>>
    BY <1>2 DEF CommitInvocation
  <2> HIDE DEF l
  <2> QED BY <1>0, <1>1, <2>1, <2>2, QuietGoto, QuietReturn DEF Continue
<1>3. CASE CommitAttempt(c)
  <2> DEFINE l == AfterAttempt[cli[c].pc]
  <2>1. /\ l \in {"idle", "d_dispatch"}
        /\ l = "d_dispatch" => cli[c].pc \in DispatchPC
    BY <1>0, <1>3 DEF CommitAttempt, AfterAttempt
  <2>2. Continue(c, l) /\ UNCHANGED <<custody, adapter, sends>>
    BY <1>3 DEF CommitAttempt
  <2> HIDE DEF l
  <2> QED BY <1>0, <1>1, <2>1, <2>2, QuietGoto, QuietReturn DEF Continue
<1>4. CASE BindCheck(c)
  BY <1>0, <1>1, <1>4, QuietCheck DEF BindCheck
<1>5. CASE DispatchCheck(c)
  BY <1>0, <1>1, <1>5, QuietCheck DEF DispatchCheck
<1>6. CASE Accept(c)
  BY <1>0, <1>1, <1>6, QuietGoto, QuietReturn DEF Accept
<1>7. CASE StoreResult(c)
  BY <1>0, <1>1, <1>7, QuietGoto DEF StoreResult
<1>8. CASE CompleteCheck(c)
  BY <1>0, <1>1, <1>8, QuietCheck DEF CompleteCheck
<1>9. CASE CandidateCheck(c)
  <2> DEFINE ok == /\ attempt.state = "RUNNING"
                   /\ attempt.runtime = Inv(c) /\ attempt.candidate = None
  <2>1. ok \in BOOLEAN
    OBVIOUS
  <2>2. CheckAttempt(c, ok, [attempt EXCEPT !.state = "CANDIDATE", !.candidate = c],
                     "save_candidate")
    BY <1>9 DEF CandidateCheck
  <2>3. "save_candidate" \in DispatchPC /\ cli[c].pc \in DispatchPC
    BY <1>0, <1>9 DEF CandidateCheck, DispatchPC, AcceptPC
  <2> HIDE DEF ok
  <2> QED BY <1>0, <1>1, <2>1, <2>2, <2>3, QuietCheck
<1>10. CASE RecoverInspect(c)
  BY <1>0, <1>10, QuietGoto, QuietReturn DEF RecoverInspect
<1>11. CASE RecoverUncertain(c)
  BY <1>0, <1>11, QuietGoto, QuietCheck DEF RecoverUncertain
<1>12. CASE RecoverAbort(c)
  BY <1>0, <1>12, QuietGoto, QuietCheck DEF RecoverAbort
<1>13. CASE RecoverAttempt(c)
  BY <1>0, <1>13, QuietReturn, QuietCheck DEF RecoverAttempt
<1>14. CASE Crash(c)
  BY <1>14, QuietReturn DEF Crash
<1> QED BY <1>2, <1>3, <1>4, <1>5, <1>6, <1>7, <1>8, <1>9, <1>10, <1>11, <1>12, <1>13, <1>14

\* While c dispatches, nobody else does, and every other adapter is gone.
LEMMA Alone ==
  ASSUME SingleDispatcher, ContainmentInv, NEW c \in Clients, cli[c].pc \in DispatchPC
  PROVE  \A d \in Clients \ {c} :
           /\ cli[d].pc \notin DispatchPC
           /\ \A i \in Invocations : adapter[i][d] = "none"
BY DEF SingleDispatcher, ContainmentInv, OnlyDispatchers

\* SaveStep for the runner, whose adapter is the only one: what it claims about the
\* dead need only be true of its own adapter.
LEMMA RunnerSave ==
  ASSUME SingleDispatcher, TypeInv, ContainmentInv, NEW c \in Clients, cli[c].pc \in RunnerPC,
         NEW new, NEW l, SaveCustody(c, new, l),
         NEW a \in AdapterStates,
         adapter' = [adapter EXCEPT ![Inv(c)][c] = a],
         a # "none" => adapter[Inv(c)][c] # "none",
         a \in InJob => adapter[Inv(c)][c] \in InJob,
         UNCHANGED sends,
         ClaimsDead(new) => a \notin InJob,
         new.state \in {"MISSING", "PREPARED", "ASSIGNED"} => sends[Inv(c)] = 0,
         l \in DispatchPC \cup {"idle"},
         l \in DOMAIN CustodyAt => new.state = CustodyAt[l],
         l = "r_send" => sends[Inv(c)] = 0,
         l = "r_verify" => new.state \in {"EXITED", "TERMINATED"} /\ new.active = "zero"
  PROVE  ContainmentInv'
<1>0. /\ cli[c].pc \in DispatchPC
      /\ cli[c].pc \notin {"idle", "save_operator"}
      /\ "v_absent" \notin DispatchPC \cup {"idle"} /\ "idle" \notin DispatchPC
      /\ DOMAIN CustodyAt \subseteq DispatchPC
  BY CustodyAtFacts DEF DispatchPC, RunnerPC, AcceptPC
<1>1. Inv(c) \in Invocations
  BY <1>0, HeldTypes
<1>2. l \in DispatchPC => "dispatch" \in May[c]
  BY <1>0 DEF ContainmentInv, OnlyDispatchers
<1>3. /\ adapter \in [Invocations -> [Clients -> AdapterStates]]
      /\ "none" \notin InJob
  BY DEF TypeInv, DataOK, InJob
<1>4. /\ \A j \in Invocations, d \in Clients :
           /\ (j = Inv(c) /\ d = c) => adapter'[j][d] = a
           /\ ~(j = Inv(c) /\ d = c) => adapter'[j][d] = adapter[j][d]
  BY <1>1, <1>3
<1>5. \A j \in Invocations, d \in Clients :
        /\ adapter'[j][d] # "none" => adapter[j][d] # "none"
        /\ adapter'[j][d] \in InJob => adapter[j][d] \in InJob
  BY <1>4
<1>6. \A d \in Clients \ {c} : cli[d].pc \notin DOMAIN CustodyAt
  BY <1>0, Alone
<1>7. ClaimsDead(new) => \A d \in Clients : adapter'[Inv(c)][d] \notin InJob
  BY <1>0, <1>1, <1>3, <1>4, Alone
<1> QED BY <1>0, <1>1, <1>2, <1>5, <1>6, <1>7, SaveStep

\* A runner step that moves on without writing custody: its own adapter changes to
\* a, and only while the record does not call that adapter dead.
LEMMA RunnerGoto ==
  ASSUME SingleDispatcher, TypeInv, ContainmentInv, NEW c \in Clients, cli[c].pc \in RunnerPC,
         NEW l \in DispatchPC, Goto(c, l),
         NEW a \in AdapterStates,
         adapter' = [adapter EXCEPT ![Inv(c)][c] = a],
         a \in InJob => adapter[Inv(c)][c] \in InJob \/ ~ClaimsDead(custody[Inv(c)]),
         UNCHANGED <<custody, sends>>,
         l \in DOMAIN CustodyAt => custody[Inv(c)].state = CustodyAt[l],
         l \notin {"r_send", "r_verify"}
  PROVE  ContainmentInv'
<1>0. /\ cli[c].pc \in DispatchPC
      /\ cli[c].pc \notin {"idle", "save_operator"}
      /\ l # "v_absent"
  BY DEF DispatchPC, RunnerPC, AcceptPC
<1>1. Inv(c) \in Invocations
  BY <1>0, HeldTypes
<1>2. "dispatch" \in May[c]
  BY <1>0 DEF ContainmentInv, OnlyDispatchers
<1>3. /\ cli'[c].pc = l /\ cli'[c].target = Inv(c)
      /\ \A d \in Clients : d # c => cli'[d] = cli[d]
  BY DEF Goto, TypeInv, Locals, ClientStates, Inv
<1>4. \A j \in Invocations, d \in Clients :
        /\ (j = Inv(c) /\ d = c) => adapter'[j][d] = a
        /\ ~(j = Inv(c) /\ d = c) => adapter'[j][d] = adapter[j][d]
  BY <1>1 DEF TypeInv, DataOK
<1>5. OnlyDispatchers'
  BY <1>2, <1>3, <1>4 DEF ContainmentInv, OnlyDispatchers
<1>6. RunnerCustody'
  BY <1>3 DEF ContainmentInv, RunnerCustody
<1>7. HeldOutcome'
  BY <1>0, <1>3 DEF ContainmentInv, HeldOutcome
<1>8. ZeroMeansDead'
  BY <1>4 DEF ContainmentInv, ZeroMeansDead
<1>9. SentMeansMarked'
  BY <1>3 DEF ContainmentInv, SentMeansMarked, RequestAtMostOnce
<1> QED BY <1>5, <1>6, <1>7, <1>8, <1>9 DEF ContainmentInv

\* The runner's first record, created where none was.
LEMMA ContainmentCreate ==
  ASSUME SingleDispatcher, TypeInv, ContainmentInv, NEW c \in Clients, CustodyCreate(c)
  PROVE  ContainmentInv'
<1> DEFINE new == [NoCustody EXCEPT !.state = "PREPARED", !.owner = c]
           s == [cli[c] EXCEPT !.cus = new, !.pc = "r_launch"]
<1>0. cli[c].pc = "r_make" /\ cli[c].pc \in DispatchPC
  BY DEF CustodyCreate, At, DispatchPC, RunnerPC
<1>1. Inv(c) \in Invocations
  BY <1>0, HeldTypes
<1>2. new.state = "PREPARED"
  BY DEF NoCustody
<1>3. /\ custody[Inv(c)].state = "MISSING"
      /\ "dispatch" \in May[c]
  BY <1>0, CustodyAtFacts DEF ContainmentInv, RunnerCustody, OnlyDispatchers, Inv
<1>4. /\ cli' = [cli EXCEPT ![c] = s]
      /\ custody' = [custody EXCEPT ![Inv(c)] = new]
      /\ adapter' = adapter /\ sends' = sends
  BY DEF CustodyCreate, world
<1>5. s.pc = "r_launch" /\ s.target = Inv(c)
  BY DEF TypeInv, Locals, ClientStates, Inv
<1> HIDE DEF new, s
<1>6. /\ cli'[c] = s
      /\ \A d \in Clients : d # c => cli'[d] = cli[d] /\ cli[d].pc \notin DispatchPC
      /\ custody'[Inv(c)] = new
      /\ \A j \in Invocations : j # Inv(c) => custody'[j] = custody[j]
  BY <1>0, <1>1, <1>4, Alone DEF TypeInv, DataOK, CustodyOK, Locals
<1>7. OnlyDispatchers'
  BY <1>3, <1>4, <1>6 DEF ContainmentInv, OnlyDispatchers
<1>8. RunnerCustody'
  BY <1>2, <1>5, <1>6, CustodyAtFacts DEF RunnerCustody
<1>9. HeldOutcome'
  BY <1>5, <1>6 DEF ContainmentInv, HeldOutcome
<1>10. ZeroMeansDead'
  BY <1>2, <1>4, <1>6 DEF ContainmentInv, ZeroMeansDead, ClaimsDead
<1>11. SentMeansMarked'
  BY <1>1, <1>3, <1>4, <1>5, <1>6 DEF ContainmentInv, SentMeansMarked, RequestAtMostOnce
<1> QED BY <1>7, <1>8, <1>9, <1>10, <1>11 DEF ContainmentInv

\* The request: its durable mark is there, and no earlier request is.
LEMMA ContainmentSend ==
  ASSUME SingleDispatcher, TypeInv, ContainmentInv, NEW c \in Clients, Send(c)
  PROVE  ContainmentInv'
<1>0. cli[c].pc = "r_send" /\ cli[c].pc \in DispatchPC
  BY DEF Send, Unread, At, DispatchPC, RunnerPC
<1>1. Inv(c) \in Invocations
  BY <1>0, HeldTypes
<1>2. /\ custody[Inv(c)].state = "DISPATCHING" /\ sends[Inv(c)] = 0
      /\ "dispatch" \in May[c]
  BY <1>0, CustodyAtFacts
  DEF ContainmentInv, RunnerCustody, SentMeansMarked, OnlyDispatchers, Inv
<1>3. /\ cli'[c].pc = "r_wait"
      /\ \A d \in Clients : d # c => cli'[d] = cli[d] /\ cli[d].pc \notin DispatchPC
      /\ custody' = custody
  BY <1>0, Alone DEF Send, Unread, Goto, TypeInv, Locals, ClientStates, records
<1>4. /\ adapter[Inv(c)][c] = "waiting"
      /\ \A j \in Invocations, d \in Clients :
           /\ (j = Inv(c) /\ d = c) => adapter'[j][d] = "working"
           /\ ~(j = Inv(c) /\ d = c) => adapter'[j][d] = adapter[j][d]
  BY <1>1 DEF Send, Unread, TypeInv, DataOK
<1>5. /\ sends'[Inv(c)] = 1
      /\ \A j \in Invocations : j # Inv(c) => sends'[j] = sends[j]
  BY <1>1, <1>2 DEF Send, Unread, TypeInv, DataOK
<1>6. {"r_send", "r_verify", "v_absent", "r_wait"} \cap DOMAIN CustodyAt = {"r_send"}
      /\ "r_send" \in DispatchPC /\ DOMAIN CustodyAt \subseteq DispatchPC
  BY CustodyAtFacts
<1>7. OnlyDispatchers'
  BY <1>2, <1>3, <1>4 DEF ContainmentInv, OnlyDispatchers
<1>8. RunnerCustody'
  BY <1>3, <1>6 DEF ContainmentInv, RunnerCustody
<1>9. HeldOutcome'
  BY <1>3 DEF ContainmentInv, HeldOutcome
<1>10. ZeroMeansDead'
  BY <1>2, <1>3, <1>4 DEF ContainmentInv, ZeroMeansDead, ClaimsDead
<1>11. SentMeansMarked'
  BY <1>1, <1>2, <1>3, <1>5, <1>6 DEF ContainmentInv, SentMeansMarked, RequestAtMostOnce
<1> QED BY <1>7, <1>8, <1>9, <1>10, <1>11 DEF ContainmentInv

\* The steps of the runner that record what became of the adapter.
LEMMA ContainmentRun ==
  ASSUME SingleDispatcher, TypeInv, ContainmentInv, NEW c \in Clients,
         Run(c) \/ JobFails(c) \/ AssignFails(c) \/ Fault(c)
  PROVE  ContainmentInv'
<1> USE DEF At
<1> DEFINE r == cli[c].cus
           mine == adapter[Inv(c)][c]
<1>0. /\ RunnerPC \subseteq DispatchPC /\ FaultPC \subseteq RunnerPC
      /\ {"r_create", "r_make", "r_launch", "r_assign", "r_record", "r_mark", "r_send",
          "r_wait", "r_late", "r_verify"} = RunnerPC
      /\ "a_accept" \in DispatchPC
      /\ RunnerPC \cap {"idle", "save_operator"} = {}
      /\ {"idle", "r_verify", "r_wait", "r_late", "a_accept"} \cap DOMAIN CustodyAt = {}
  BY CustodyAtFacts DEF RunnerPC, FaultPC, DispatchPC, AcceptPC
<1>1. cli[c].pc \in RunnerPC => Inv(c) \in Invocations
  BY <1>0, HeldTypes
<1>2. /\ adapter \in [Invocations -> [Clients -> AdapterStates]]
      /\ cli[c].pc \in RunnerPC => mine \in AdapterStates
      /\ r \in CustodyRecords
      /\ "none" \in AdapterStates /\ "outside" \in AdapterStates
      /\ "waiting" \in AdapterStates /\ "remnant" \in AdapterStates
  BY <1>1, HeldTypes DEF TypeInv, DataOK, AdapterStates
<1>3. cli[c].pc \in RunnerPC => adapter = [adapter EXCEPT ![Inv(c)][c] = mine]
  BY <1>1, <1>2
<1>4. "none" \notin InJob /\ "outside" \notin InJob
  BY DEF InJob
<1>5. cli[c].pc \in DOMAIN CustodyAt => custody[Inv(c)].state = CustodyAt[cli[c].pc]
  BY DEF ContainmentInv, RunnerCustody, Inv
<1> HIDE DEF mine
<1>6. CASE CustodyCheck(c)
  <2>1. UNCHANGED <<custody, adapter, sends>> /\ cli[c].pc \in RunnerPC
    BY <1>0, <1>6 DEF CustodyCheck, records, world
  <2>2. CASE Return(c)
    BY <2>1, <2>2, QuietReturn
  <2>3. CASE Goto(c, "r_make") /\ custody[Inv(c)].state = "MISSING"
    BY <1>0, <1>2, <1>3, <2>1, <2>3, CustodyAtFacts, RunnerGoto DEF mine
  <2> QED BY <1>6, <2>2, <2>3 DEF CustodyCheck
<1>7. CASE CustodyCreate(c)
  BY <1>7, ContainmentCreate
<1>8. CASE Launch(c)
  <2>1. /\ cli[c].pc = "r_launch" /\ Goto(c, "r_assign") /\ UNCHANGED <<custody, sends>>
        /\ adapter' = [adapter EXCEPT ![Inv(c)][c] = "outside"]
    BY <1>8 DEF Launch, records
  <2> QED BY <1>0, <1>2, <1>4, <1>5, <2>1, CustodyAtFacts, RunnerGoto
<1>9. CASE Assign(c)
  <2> DEFINE a == IF mine = "outside" THEN "waiting" ELSE mine
  <2>1. cli[c].pc = "r_assign" /\ Goto(c, "r_record") /\ UNCHANGED <<custody, sends>>
    BY <1>9 DEF Assign, records
  <2>2. adapter' = [adapter EXCEPT ![Inv(c)][c] = a]
    BY <1>0, <1>1, <1>2, <1>9 DEF Assign, mine
  <2>3. a \in AdapterStates
    BY <1>0, <1>2, <2>1
  <2>4. ~ClaimsDead(custody[Inv(c)])
    BY <1>5, <2>1, CustodyAtFacts DEF ClaimsDead
  <2> HIDE DEF a
  <2> QED BY <1>0, <1>5, <2>1, <2>2, <2>3, <2>4, CustodyAtFacts, RunnerGoto
<1>10. CASE Send(c)
  BY <1>10, ContainmentSend
<1>11. CASE Timeout(c)
  <2>1. /\ cli[c].pc = "r_wait" /\ Goto(c, "r_late") /\ UNCHANGED <<custody, sends>>
        /\ mine = "working"
    BY <1>11 DEF Timeout, records, mine
  <2>2. PICK left \in {"none", "remnant"} : adapter' = [adapter EXCEPT ![Inv(c)][c] = left]
    BY <1>11 DEF Timeout
  <2>3. mine \in InJob
    BY <2>1 DEF InJob
  <2> QED BY <1>0, <1>2, <2>1, <2>2, <2>3, RunnerGoto DEF mine
<1>12. CASE JobFails(c)
  <2> DEFINE new == [r EXCEPT !.state = "UNCERTAIN", !.failed = TRUE]
  <2>1. /\ cli[c].pc = "r_launch" /\ SaveCustody(c, new, "idle") /\ UNCHANGED sends
        /\ adapter' = [adapter EXCEPT ![Inv(c)][c] = mine]
    BY <1>0, <1>3, <1>12 DEF JobFails, world
  <2>2. new.state = "UNCERTAIN" /\ ~ClaimsDead(new)
    BY <1>2 DEF CustodyRecords, ClaimsDead
  <2> HIDE DEF new
  <2> QED BY <1>0, <1>2, <2>1, <2>2, RunnerSave DEF mine
<1>13. CASE AssignFails(c)
  <2> DEFINE dead == [r EXCEPT !.state = "TERMINATED", !.active = "zero", !.failed = TRUE]
             new == [r EXCEPT !.state = "UNCERTAIN", !.failed = TRUE]
  <2>1. /\ cli[c].pc = "r_assign" /\ UNCHANGED sends
        /\ SaveCustody(c, dead, "r_verify") \/ SaveCustody(c, new, "idle")
        /\ adapter' = [adapter EXCEPT ![Inv(c)][c] = "none"]
    BY <1>13 DEF AssignFails
  <2>2. /\ new.state = "UNCERTAIN" /\ ~ClaimsDead(new)
        /\ dead.state = "TERMINATED" /\ dead.active = "zero"
    BY <1>2 DEF CustodyRecords, ClaimsDead
  <2> HIDE DEF new, dead
  <2> QED BY <1>0, <1>2, <1>4, <2>1, <2>2, RunnerSave
<1>14. CASE RecordAssigned(c)
  <2> DEFINE new == [r EXCEPT !.state = "ASSIGNED", !.assigned = TRUE]
  <2>1. /\ cli[c].pc = "r_record" /\ SaveCustody(c, new, "r_mark") /\ UNCHANGED sends
        /\ adapter' = [adapter EXCEPT ![Inv(c)][c] = mine]
    BY <1>0, <1>3, <1>14 DEF RecordAssigned, world
  <2>2. new.state = "ASSIGNED" /\ ~ClaimsDead(new)
    BY <1>2 DEF CustodyRecords, ClaimsDead
  <2>3. sends[Inv(c)] = 0
    BY <1>0, <1>1, <1>5, <2>1, CustodyAtFacts DEF ContainmentInv, SentMeansMarked
  <2> HIDE DEF new
  <2> QED BY <1>0, <1>2, <2>1, <2>2, <2>3, CustodyAtFacts, RunnerSave DEF mine
<1>15. CASE MarkDispatching(c)
  <2> DEFINE new == [r EXCEPT !.state = "DISPATCHING", !.sent = TRUE]
  <2>1. /\ cli[c].pc = "r_mark" /\ SaveCustody(c, new, "r_send") /\ UNCHANGED sends
        /\ adapter' = [adapter EXCEPT ![Inv(c)][c] = mine]
    BY <1>0, <1>3, <1>15 DEF MarkDispatching, world
  <2>2. new.state = "DISPATCHING" /\ ~ClaimsDead(new)
    BY <1>2 DEF CustodyRecords, ClaimsDead
  <2>3. sends[Inv(c)] = 0
    BY <1>0, <1>1, <1>5, <2>1, CustodyAtFacts DEF ContainmentInv, SentMeansMarked
  <2> HIDE DEF new
  <2> QED BY <1>0, <1>2, <2>1, <2>2, <2>3, CustodyAtFacts, RunnerSave DEF mine
<1>16. CASE Collect(c)
  <2>1. PICK failed \in BOOLEAN :
          SaveCustody(c, [r EXCEPT !.state  = IF failed THEN "TERMINATED" ELSE "EXITED",
                                   !.active = IF mine = "none" THEN "zero" ELSE "some",
                                   !.failed = failed],
                      IF mine = "none" THEN "r_verify" ELSE "idle")
    BY <1>16 DEF Collect, mine
  <2> DEFINE new == [r EXCEPT !.state  = IF failed THEN "TERMINATED" ELSE "EXITED",
                              !.active = IF mine = "none" THEN "zero" ELSE "some",
                              !.failed = failed]
             l == IF mine = "none" THEN "r_verify" ELSE "idle"
  <2>2. /\ cli[c].pc \in {"r_wait", "r_late"} /\ UNCHANGED sends
        /\ cli[c].pc \in RunnerPC
        /\ adapter' = [adapter EXCEPT ![Inv(c)][c] = mine]
    BY <1>0, <1>3, <1>16 DEF Collect, world
  <2>3. new.state \in {"EXITED", "TERMINATED"}
        /\ new.active = IF mine = "none" THEN "zero" ELSE "some"
    BY <1>2 DEF CustodyRecords
  <2>4. SaveCustody(c, new, l)
    BY <2>1
  <2> HIDE DEF new
  <2>5. ClaimsDead(new) => mine = "none"
    BY <2>3 DEF ClaimsDead
  <2> QED BY <1>0, <1>2, <1>4, <2>2, <2>3, <2>4, <2>5, RunnerSave DEF mine
<1>17. CASE Fault(c) \/ BrokenPipe(c)
  <2>1. PICK left \in IF mine \in InJob THEN {"none", "remnant"} ELSE {mine} :
          \E active \in {"unknown", IF left = "remnant" THEN "some" ELSE "zero"} :
            /\ adapter' = [adapter EXCEPT ![Inv(c)][c] = left]
            /\ SaveCustody(c, [r EXCEPT !.state  = IF active = "zero" THEN "TERMINATED"
                                                   ELSE "UNCERTAIN",
                                        !.active = active, !.failed = TRUE],
                           IF active = "zero" THEN "r_verify" ELSE "idle")
    BY <1>17 DEF Fault, BrokenPipe, mine
  <2>2. PICK active \in {"unknown", IF left = "remnant" THEN "some" ELSE "zero"} :
          /\ adapter' = [adapter EXCEPT ![Inv(c)][c] = left]
          /\ SaveCustody(c, [r EXCEPT !.state  = IF active = "zero" THEN "TERMINATED"
                                                 ELSE "UNCERTAIN",
                                      !.active = active, !.failed = TRUE],
                         IF active = "zero" THEN "r_verify" ELSE "idle")
    BY <2>1
  <2> DEFINE new == [r EXCEPT !.state = IF active = "zero" THEN "TERMINATED" ELSE "UNCERTAIN",
                              !.active = active, !.failed = TRUE]
             l == IF active = "zero" THEN "r_verify" ELSE "idle"
  <2>3. cli[c].pc \in RunnerPC /\ UNCHANGED sends
    BY <1>0, <1>17 DEF Fault, BrokenPipe
  <2>4. /\ new.state = (IF active = "zero" THEN "TERMINATED" ELSE "UNCERTAIN")
        /\ new.active = active /\ SaveCustody(c, new, l)
    BY <1>2, <2>2 DEF CustodyRecords
  <2>5. active = "zero" => left # "remnant"
    BY <2>2
  <2>6. l \in {"idle", "r_verify"} /\ (l = "r_verify" => active = "zero")
    OBVIOUS
  <2> HIDE DEF new, l
  <2>7. /\ left \in AdapterStates
        /\ left # "none" => mine # "none"
        /\ left \in InJob => mine \in InJob
        /\ left # "remnant" => left \notin InJob
    BY <1>2, <1>4, <2>3 DEF InJob
  <2>8. ClaimsDead(new) => left \notin InJob
    BY <2>4, <2>5, <2>7 DEF ClaimsDead
  <2>9. /\ adapter' = [adapter EXCEPT ![Inv(c)][c] = left]
        /\ new.state \notin {"MISSING", "PREPARED", "ASSIGNED"}
        /\ l = "r_verify" => new.state \in {"EXITED", "TERMINATED"} /\ new.active = "zero"
        /\ l \in DispatchPC \cup {"idle"} /\ l \notin DOMAIN CustodyAt /\ l # "r_send"
        /\ SaveCustody(c, new, l)
    BY <1>0, <2>2, <2>4, <2>6
  <2> QED BY <2>3, <2>7, <2>8, <2>9, RunnerSave DEF mine
<1>18. CASE VerifyAbsence(c)
  <2> DEFINE new == [r EXCEPT !.state = "ABSENCE_VERIFIED"]
             l == IF r.failed THEN "idle" ELSE "a_accept"
  <2>1. /\ cli[c].pc = "r_verify" /\ SaveCustody(c, new, l) /\ UNCHANGED sends
        /\ adapter' = [adapter EXCEPT ![Inv(c)][c] = mine]
    BY <1>0, <1>3, <1>18 DEF VerifyAbsence, world
  <2>2. new.state = "ABSENCE_VERIFIED"
    BY <1>2 DEF CustodyRecords
  <2>3. ClaimsDead(r)
    BY <2>1 DEF ContainmentInv, HeldOutcome, ClaimsDead
  <2>4. custody[Inv(c)] = r => mine \notin InJob
    BY <1>0, <1>1, <2>1, <2>3 DEF ContainmentInv, ZeroMeansDead, mine
  <2> HIDE DEF new
  <2>5. CASE custody[Inv(c)] = r
    BY <1>0, <1>2, <2>1, <2>2, <2>4, <2>5, RunnerSave DEF mine
  <2>6. CASE custody[Inv(c)] # r
    BY <2>1, <2>6, <1>3, <1>0, QuietReturn DEF SaveCustody, VerifyAbsence
  <2> QED BY <2>5, <2>6
<1> QED BY <1>6, <1>7, <1>8, <1>9, <1>10, <1>11, <1>12, <1>13, <1>14, <1>15, <1>16, <1>17,
           <1>18 DEF Run

\* The steps of recover-invocation that read and write custody: they rely on what
\* the dispatching command left, and disturb none that still runs.
LEMMA ContainmentRecover ==
  ASSUME TypeInv, ContainmentInv, NEW c \in Clients, RecoverCustody(c) \/ RecoverAbsence(c)
  PROVE  ContainmentInv'
<1> USE DEF At
<1>0. /\ {"v_absent", "v_uncertain"} \cap (DispatchPC \cup DOMAIN CustodyAt) = {}
      /\ {"v_custody", "v_absent"} \subseteq RecoverPC
      /\ {"idle", "save_operator"} \cap RecoverPC = {}
  BY CustodyAtFacts DEF DispatchPC, RunnerPC, AcceptPC, RecoverPC
<1>1. CASE RecoverCustody(c)
  <2> DEFINE r == custody[Inv(c)]
             l == IF r.state = "TERMINATED" THEN "v_absent" ELSE "v_uncertain"
             s == [cli[c] EXCEPT !.cus = r, !.pc = l]
  <2>1. UNCHANGED <<custody, adapter, sends>>
    BY <1>1 DEF RecoverCustody, records, world
  <2>2. CASE Return(c)
    BY <2>1, <2>2, QuietReturn
  <2>3. CASE /\ cli' = [cli EXCEPT ![c] = s]
             /\ ProvableAbsence(r, Inv(c)) \/ r.state = "ABSENCE_VERIFIED"
    <3>1. s.pc = l /\ s.cus = r
      BY DEF TypeInv, Locals, ClientStates
    <3>2. l = "v_absent" => r.state = "TERMINATED" /\ r.active = "zero"
      BY <2>3 DEF ProvableAbsence
    <3>3. l \in {"v_absent", "v_uncertain"}
      OBVIOUS
    <3>4. /\ cli'[c] = s
          /\ \A d \in Clients : d # c => cli'[d] = cli[d]
      BY <2>3 DEF TypeInv, Locals
    <3> HIDE DEF s, l, r
    <3>5. OnlyDispatchers' /\ RunnerCustody'
      BY <1>0, <2>1, <3>1, <3>3, <3>4 DEF ContainmentInv, OnlyDispatchers, RunnerCustody
    <3>6. HeldOutcome'
      BY <3>1, <3>2, <3>3, <3>4 DEF ContainmentInv, HeldOutcome
    <3>7. ZeroMeansDead' /\ SentMeansMarked'
      BY <2>1, <3>1, <3>3, <3>4
      DEF ContainmentInv, ZeroMeansDead, SentMeansMarked, RequestAtMostOnce
    <3> QED BY <3>5, <3>6, <3>7 DEF ContainmentInv
  <2> QED BY <1>1, <2>2, <2>3 DEF RecoverCustody
<1>2. CASE RecoverAbsence(c)
  <2> DEFINE new == [cli[c].cus EXCEPT !.state = "ABSENCE_VERIFIED"]
  <2>1. /\ cli[c].pc = "v_absent" /\ SaveCustody(c, new, "v_uncertain")
        /\ UNCHANGED <<adapter, sends>>
    BY <1>2 DEF RecoverAbsence, world
  <2>2. Inv(c) \in Invocations
    BY <1>0, <2>1, HeldTypes
  <2>3. new.state = "ABSENCE_VERIFIED"
    BY HeldTypes DEF CustodyRecords
  <2> HIDE DEF new
  <2>4. cli[c].cus.state = "TERMINATED" /\ ClaimsDead(cli[c].cus)
    BY <2>1 DEF ContainmentInv, HeldOutcome, ClaimsDead
  <2>5. \A d \in Clients \ {c} :
          cli[d].pc \in DOMAIN CustodyAt /\ cli[d].target = Inv(c) =>
            custody[Inv(c)] # cli[c].cus
    BY <2>4, CustodyAtFacts DEF ContainmentInv, RunnerCustody
  <2>6. custody[Inv(c)] = cli[c].cus => \A d \in Clients : adapter'[Inv(c)][d] \notin InJob
    BY <2>1, <2>2, <2>4 DEF ContainmentInv, ZeroMeansDead
  <2> QED BY <1>0, <2>1, <2>2, <2>3, <2>5, <2>6, SaveStep
<1> QED BY <1>1, <1>2

\* The adapter's tree only shrinks by itself, and its writes touch no record.
LEMMA ContainmentWorld ==
  ASSUME TypeInv, ContainmentInv, NEW i \in Invocations, NEW c \in Clients,
         AdapterEnds(i, c) \/ AdapterWrites(i, c)
  PROVE  ContainmentInv'
<1> USE DEF records
<1>1. UNCHANGED <<custody, sends, cli>>
  BY DEF AdapterEnds, AdapterWrites
<1>2. \A j \in Invocations, d \in Clients :
        /\ adapter'[j][d] # "none" => adapter[j][d] # "none"
        /\ adapter'[j][d] \in InJob => adapter[j][d] \in InJob
  BY DEF AdapterEnds, AdapterWrites, TypeInv, DataOK, InJob
<1>3. OnlyDispatchers' /\ RunnerCustody' /\ HeldOutcome'
  BY <1>1, <1>2 DEF ContainmentInv, OnlyDispatchers, RunnerCustody, HeldOutcome
<1>4. ZeroMeansDead' /\ SentMeansMarked'
  BY <1>1, <1>2 DEF ContainmentInv, ZeroMeansDead, SentMeansMarked, RequestAtMostOnce
<1> QED BY <1>3, <1>4 DEF ContainmentInv

LEMMA ContainmentStep ==
  ASSUME SingleDispatcher, TypeInv, ContainmentInv, [Next]_vars
  PROVE  ContainmentInv'
<1>1. ASSUME NEW c \in Clients, Read(c) \/ Step(c) \/ Mishap(c)
      PROVE  ContainmentInv'
  BY <1>1, ContainmentRead, ContainmentQuiet, ContainmentRun, ContainmentRecover
  DEF Step, Mishap
<1>2. CASE Environment
  BY <1>2, ContainmentWorld DEF Environment
<1>3. CASE UNCHANGED vars
  BY <1>3 DEF vars, ContainmentInv, OnlyDispatchers, RunnerCustody, HeldOutcome,
              ZeroMeansDead, SentMeansMarked, RequestAtMostOnce
<1> QED BY <1>1, <1>2, <1>3 DEF Next

-----------------------------------------------------------------------------
(* With one dispatching slot *)

\* The inductive invariant holds of every behaviour.
THEOREM ContainmentCorrect == SingleDispatcher => (Spec => []ContainmentInv)
<1> SUFFICES ASSUME SingleDispatcher PROVE Spec => []ContainmentInv
  OBVIOUS
<1>1. Init => TypeInv /\ ContainmentInv
  BY TypeInit, ContainmentInit
<1>2. TypeInv /\ ContainmentInv /\ [Next]_vars => (TypeInv /\ ContainmentInv)'
  BY TypeStep, ContainmentStep
<1> QED BY <1>1, <1>2, PTL DEF Spec

\* Recorded absence is true: once custody of an invocation is ABSENCE_VERIFIED, no
\* process of its job is alive, for any number of clients, invocations and crashes.
THEOREM AbsenceProven == SingleDispatcher => (Spec => []AbsenceProofTrue)
<1>1. ContainmentInv => AbsenceProofTrue
  BY DEF ContainmentInv, ZeroMeansDead, ClaimsDead, AbsenceProofTrue
<1> QED BY <1>1, ContainmentCorrect, PTL

\* No crash, retry or recovery delivers the request of an invocation twice.
THEOREM DeliveredOnce == SingleDispatcher => (Spec => []RequestAtMostOnce)
<1>1. ContainmentInv => RequestAtMostOnce
  BY DEF ContainmentInv, SentMeansMarked
<1> QED BY <1>1, ContainmentCorrect, PTL
=============================================================================

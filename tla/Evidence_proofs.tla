---------------------------- MODULE Evidence_proofs ----------------------------
(***************************************************************************)
(* Proofs that the records a dispatch or a recovery leaves behind rest on  *)
(* the evidence they claim.  With one dispatching slot, whatever the other *)
(* slots race: a stored result and a recorded outcome.  With one command   *)
(* at a time: the records agree with each other, a candidate passes its    *)
(* review, a recovery keeps its evidence, and the commands implement       *)
(* AttemptContract.                                                        *)
(***************************************************************************)
EXTENDS Dispatch_proofs

-----------------------------------------------------------------------------
(* The inductive invariant *)

AttemptSaves == {"save_running", "save_candidate", "save_recovered", "save_operator"}
Waiting      == {"r_wait", "r_late"}
Stored       == {"a_complete", "save_completed", "a_attempt"}
Absent       == {"v_uncertain", "save_uncertain", "v_abort", "save_aborted", "v_attempt"}
Recovering   == {"v_inspect", "v_custody", "v_absent"} \cup Absent

\* What an attempt record a claims about results and custody is there.
OutcomeOK(a) ==
  /\ a.candidate \in Clients => a.runtime \in Invocations /\ result[a.runtime] = a.candidate
  /\ a.cleanup = RecoveryOutcome =>
       /\ a.runtime \in Invocations
       /\ custody[a.runtime].state = "ABSENCE_VERIFIED" /\ custody[a.runtime].sent

\* What a command relies on between two of its accesses, at the label it is at:
\* s is the local state of c.
HeldEvidence(c, s) ==
  /\ s.pc \in Waiting => custody[s.target].state = "DISPATCHING" /\ sends[s.target] = 1
  /\ s.pc = "a_result" => VerifiedSuccess(custody[s.target])
  /\ s.pc \in Stored => result[s.target] = c
  /\ s.pc \in Recovering => s.att.runtime = s.target /\ s.att.candidate = None
  /\ s.pc = "v_absent" => s.cus.sent
  /\ s.pc \in Absent => custody[s.target].state = "ABSENCE_VERIFIED" /\ custody[s.target].sent
  /\ s.pc \in AttemptSaves => OutcomeOK(s.att)

\* An execution that ended without failure was sent its request.
CleanEndSent ==
  \A i \in Invocations :
    custody[i].state \in {"EXITED", "ABSENCE_VERIFIED"} /\ ~custody[i].failed => sends[i] = 1

ResultOwned == \A i \in Invocations : result[i] # None => "dispatch" \in May[result[i]]

StoredOK ==
  /\ \A i \in Invocations : ValidCustody(custody[i])
  /\ CleanEndSent /\ ResultHasEvidence /\ ResultOwned
  /\ OutcomeOK(attempt)

EvidenceInv == StoredOK /\ \A c \in Clients : HeldEvidence(c, cli[c])

-----------------------------------------------------------------------------
(* What a step of one command leaves of the others' evidence *)

\* The labels the evidence speaks of.
LEMMA LabelFacts ==
  /\ DOMAIN AfterAttempt = AttemptSaves
  /\ AttemptSaves \cap Recovering = {"save_recovered"} \cap Recovering
  /\ "save_recovered" \notin Recovering
  /\ Recovering \subseteq RecoverPC /\ RecoverPC \cap DispatchPC = {}
  /\ Waiting \subseteq DispatchPC /\ Stored \subseteq DispatchPC /\ "a_result" \in DispatchPC
  /\ "idle" \notin Waiting \cup Stored \cup Recovering \cup AttemptSaves \cup {"a_result"}
BY DEF AfterAttempt, AttemptSaves, Recovering, Absent, RecoverPC, Waiting, Stored, DispatchPC,
       RunnerPC, AcceptPC

\* A command at a label without evidence relies on none.
LEMMA NoEvidence ==
  ASSUME NEW c, NEW s,
         s.pc \notin Waiting \cup Stored \cup Recovering \cup AttemptSaves \cup {"a_result"}
  PROVE  HeldEvidence(c, s)
BY DEF HeldEvidence, Recovering

\* Evidence only grows: proven absence, delivered requests and results stay.
Lasting ==
  \A i \in Invocations :
    /\ custody[i].state = "ABSENCE_VERIFIED" => custody'[i] = custody[i]
    /\ sends[i] = 1 => sends'[i] = 1
    /\ result[i] # None => result'[i] = result[i]

\* The commands that do not move keep their evidence.
LEMMA OthersKeep ==
  ASSUME TypeInv, EvidenceInv, Lasting, NEW d \in Clients, cli'[d] = cli[d],
         cli[d].pc \in Waiting =>
           custody'[cli[d].target].state = custody[cli[d].target].state
  PROVE  HeldEvidence(d, cli[d])'
<1>0. /\ HeldEvidence(d, cli[d]) /\ None \notin Clients
      /\ cli[d].pc \in Waiting \cup Stored \cup Recovering \cup {"a_result"} =>
           cli[d].target \in Invocations
  BY DispatchAssumption, HeldTypes
  DEF EvidenceInv, Inv, Waiting, Stored, Recovering, Absent
<1>1. Absent \subseteq Recovering
  BY DEF Recovering
<1>2. CASE cli[d].pc \in Waiting \cup Stored \cup {"a_result"}
  <2>1. cli[d].pc \notin Recovering \cup AttemptSaves
    BY <1>2 DEF Waiting, Stored, Recovering, Absent, AttemptSaves
  <2> QED BY <1>0, <1>1, <1>2, <2>1 DEF HeldEvidence, Lasting, VerifiedSuccess
<1>3. CASE cli[d].pc \in Recovering
  BY <1>0, <1>1, <1>3, LabelFacts DEF HeldEvidence, Lasting
<1>4. CASE cli[d].pc \in AttemptSaves
  <2>1. cli[d].pc \notin Waiting \cup Stored \cup Recovering \cup {"a_result", "v_absent"}
    BY <1>4 DEF Waiting, Stored, Recovering, Absent, AttemptSaves
  <2> QED BY <1>0, <1>1, <1>4, <2>1 DEF HeldEvidence, Lasting, OutcomeOK
<1>5. CASE cli[d].pc \notin Waiting \cup Stored \cup Recovering \cup AttemptSaves \cup {"a_result"}
  BY <1>0, <1>1, <1>5 DEF HeldEvidence, Recovering
<1> QED BY <1>2, <1>3, <1>4, <1>5

\* A step that writes neither custody, nor results, nor requests, and moves its
\* command to a label whose evidence is there.
LEMMA QuietEvidence ==
  ASSUME TypeInv, EvidenceInv, NEW c \in Clients, NEW s,
         cli' = [cli EXCEPT ![c] = s], HeldEvidence(c, s),
         UNCHANGED <<custody, result, sends>>,
         attempt' = attempt \/ OutcomeOK(attempt')
  PROVE  EvidenceInv'
<1>1. Lasting
  BY DEF Lasting
<1>2. cli'[c] = s /\ \A d \in Clients \ {c} : cli'[d] = cli[d]
  BY DEF TypeInv, Locals
<1>3. \A d \in Clients \ {c} : HeldEvidence(d, cli[d])'
  BY <1>1, <1>2, OthersKeep
<1>4. HeldEvidence(c, cli[c])'
  BY <1>2 DEF HeldEvidence, VerifiedSuccess, OutcomeOK
<1>5. StoredOK'
  BY DEF EvidenceInv, StoredOK, CleanEndSent, ResultHasEvidence, ResultOwned, VerifiedSuccess,
         OutcomeOK
<1> QED BY <1>3, <1>4, <1>5 DEF EvidenceInv

LEMMA ReturnEvidence ==
  ASSUME TypeInv, EvidenceInv, NEW c \in Clients, Return(c), UNCHANGED <<custody, result, sends>>,
         attempt' = attempt \/ OutcomeOK(attempt')
  PROVE  EvidenceInv'
<1>1. HeldEvidence(c, IdleClient)
  BY NoEvidence, LabelFacts DEF IdleClient
<1> QED BY <1>1, QuietEvidence DEF Return

LEMMA GotoEvidence ==
  ASSUME TypeInv, EvidenceInv, NEW c \in Clients, NEW l, Goto(c, l),
         \A s : s.pc = l /\ s.target = cli[c].target /\ s.att = cli[c].att /\ s.cus = cli[c].cus
           => HeldEvidence(c, s),
         UNCHANGED <<custody, result, sends>>,
         attempt' = attempt \/ OutcomeOK(attempt')
  PROVE  EvidenceInv'
<1> DEFINE s == [cli[c] EXCEPT !.pc = l]
<1>1. /\ cli' = [cli EXCEPT ![c] = s] /\ s.pc = l
      /\ s.target = cli[c].target /\ s.att = cli[c].att /\ s.cus = cli[c].cus
  BY DEF Goto, TypeInv, Locals, ClientStates
<1> HIDE DEF s
<1> QED BY <1>1, QuietEvidence

LEMMA EvidenceInit == Init => EvidenceInv
<1> SUFFICES ASSUME Init PROVE EvidenceInv
  OBVIOUS
<1>1. \A c \in Clients : HeldEvidence(c, cli[c])
  BY NoEvidence, LabelFacts DEF Init, IdleClient
<1>2. StoredOK
  BY DispatchAssumption
  DEF Init, StoredOK, ValidCustody, NoCustody, CleanEndSent, ResultHasEvidence, ResultOwned,
      OutcomeOK, RecoveryOutcome
<1> QED BY <1>1, <1>2 DEF EvidenceInv

\* The first step of each command holds only what it has just read.
LEMMA EvidenceRead ==
  ASSUME TypeInv, EvidenceInv, NEW c \in Clients, Read(c)
  PROVE  EvidenceInv'
<1> USE DEF records, world
<1>0. \A l \in {"save_prepared", "save_authorized", "save_rejected", "save_cancelled", "d_bind"} :
        l \notin Waiting \cup Stored \cup Recovering \cup AttemptSaves \cup {"a_result"}
  BY DEF Waiting, Stored, Recovering, Absent, AttemptSaves
<1>1. ASSUME NEW i, NEW inv, NEW l, Start(c, i, l, inv),
             l \in {"save_prepared", "save_authorized", "save_rejected", "save_cancelled", "d_bind"},
             UNCHANGED <<attempt, custody, result, sends>>
      PROVE  EvidenceInv'
  <2> DEFINE s == [pc |-> l, target |-> i, inv |-> inv, att |-> None, cus |-> NoCustody]
  <2>1. cli' = [cli EXCEPT ![c] = s] /\ s.pc = l
    BY <1>1 DEF Start
  <2> HIDE DEF s
  <2>2. HeldEvidence(c, s)
    BY <1>0, <1>1, <2>1, NoEvidence
  <2> QED BY <1>1, <2>1, <2>2, QuietEvidence
<1>2. ASSUME NEW i \in Invocations, PrepareScan(c, i) \/ RejectCheck(c, i)
      PROVE  EvidenceInv'
  BY <1>1, <1>2 DEF PrepareScan, RejectCheck
<1>3. ASSUME NEW i \in Invocations, NEW k \in Controllers,
             AuthorizeCheck(c, i, k) \/ CancelCheck(c, i, k) \/ Admit(c, i, k)
      PROVE  EvidenceInv'
  BY <1>1, <1>3 DEF AuthorizeCheck, CancelCheck, Admit
<1>4. ASSUME NEW i \in Invocations, NEW k \in Controllers, RecoverRead(c, i, k)
      PROVE  EvidenceInv'
  <2> DEFINE s == [pc |-> "v_inspect", target |-> i, inv |-> invocation[i],
                   att |-> attempt, cus |-> NoCustody]
  <2>1. cli' = [cli EXCEPT ![c] = s] /\ attempt.runtime = i /\ attempt.candidate = None
        /\ UNCHANGED <<attempt, custody, result, sends>>
    BY <1>4 DEF RecoverRead
  <2>2. s.pc = "v_inspect" /\ s.att.runtime = s.target /\ s.att.candidate = None
    BY <2>1
  <2> HIDE DEF s
  <2>3. HeldEvidence(c, s)
    BY <2>2 DEF HeldEvidence, Waiting, Stored, Absent, AttemptSaves
  <2> QED BY <2>1, <2>3, QuietEvidence
<1>5. ASSUME NEW t \in AttemptStates, OperatorCheck(c, t)
      PROVE  EvidenceInv'
  <2> DEFINE new == [attempt EXCEPT !.state = t,
                       !.candidate = IF t = "CANDIDATE" THEN Typed ELSE @,
                       !.cleanup = IF t \in AttemptTerminal THEN "operator" ELSE @]
             s == [cli[c] EXCEPT !.pc = "save_operator", !.att = new]
  <2>1. cli' = [cli EXCEPT ![c] = s] /\ UNCHANGED <<attempt, custody, result, sends>>
    BY <1>5 DEF OperatorCheck
  <2>2. /\ new.candidate \in {Typed, attempt.candidate} /\ new.runtime = attempt.runtime
        /\ new.cleanup \in {"operator", attempt.cleanup}
    BY DEF TypeInv, DataOK, AttemptRecords
  <2> HIDE DEF new
  <2>3. OutcomeOK(new)
    BY <2>2, DispatchAssumption DEF EvidenceInv, StoredOK, OutcomeOK, RecoveryOutcome
  <2>4. s.pc = "save_operator" /\ s.att = new
    BY DEF TypeInv, Locals, ClientStates
  <2> HIDE DEF s
  <2>5. HeldEvidence(c, s)
    BY <2>3, <2>4 DEF HeldEvidence, Waiting, Stored, Recovering, Absent
  <2> QED BY <2>1, <2>5, QuietEvidence
<1> QED BY <1>2, <1>3, <1>4, <1>5 DEF Read

\* Writing a checked record: the attempt record written is one whose claims hold.
LEMMA EvidenceCommit ==
  ASSUME TypeInv, EvidenceInv, NEW c \in Clients, CommitInvocation(c) \/ CommitAttempt(c)
  PROVE  EvidenceInv'
<1> USE DEF world
<1>0. HeldEvidence(c, cli[c])
  BY DEF EvidenceInv
<1>1. CASE CommitInvocation(c)
  <2> DEFINE l == AfterInvocation[cli[c].pc]
  <2>1. /\ l \in {"idle", "r_create", "a_attempt", "v_abort", "v_attempt"}
        /\ l = "a_attempt" => cli[c].pc = "save_completed"
        /\ l \in {"v_abort", "v_attempt"} => cli[c].pc \in Absent
    BY <1>1 DEF CommitInvocation, AfterInvocation, Absent
  <2>2. Continue(c, l) /\ UNCHANGED <<attempt, custody, result, sends>>
    BY <1>1 DEF CommitInvocation
  <2> HIDE DEF l
  <2>3. CASE l = "idle"
    BY <2>2, <2>3, ReturnEvidence DEF Continue
  <2>4. CASE l = "r_create"
    <3>1. l \notin Waiting \cup Stored \cup Recovering \cup AttemptSaves \cup {"a_result"}
      BY <2>4 DEF Waiting, Stored, Recovering, Absent, AttemptSaves
    <3> QED BY <2>2, <2>4, <3>1, NoEvidence, GotoEvidence DEF Continue
  <2>5. CASE l = "a_attempt"
    <3>1. result[cli[c].target] = c
      BY <1>0, <2>1, <2>5 DEF HeldEvidence, Stored
    <3>2. \A s : s.pc = l /\ s.target = cli[c].target => HeldEvidence(c, s)
      BY <2>5, <3>1 DEF HeldEvidence, Waiting, Recovering, Absent, AttemptSaves
    <3> QED BY <2>2, <2>5, <3>2, GotoEvidence DEF Continue
  <2>6. CASE l \in {"v_abort", "v_attempt"}
    <3>1. cli[c].pc \in Recovering
      BY <2>1, <2>6 DEF Recovering
    <3>2. \A s : s.pc = l /\ s.target = cli[c].target /\ s.att = cli[c].att => HeldEvidence(c, s)
      BY <1>0, <2>1, <2>6, <3>1 DEF HeldEvidence, Waiting, Stored, AttemptSaves
    <3> QED BY <2>2, <2>6, <3>2, GotoEvidence DEF Continue
  <2> QED BY <2>1, <2>3, <2>4, <2>5, <2>6
<1>2. CASE CommitAttempt(c)
  <2> DEFINE l == AfterAttempt[cli[c].pc]
  <2>1. l \in {"idle", "d_dispatch"} /\ cli[c].pc \in AttemptSaves
    BY <1>2 DEF CommitAttempt, AfterAttempt, AttemptSaves
  <2>2. Continue(c, l) /\ UNCHANGED <<custody, result, sends>> /\ attempt' = cli[c].att
    BY <1>2 DEF CommitAttempt
  <2>3. OutcomeOK(attempt')
    BY <1>0, <2>1, <2>2 DEF HeldEvidence
  <2>4. "d_dispatch" \notin Waiting \cup Stored \cup Recovering \cup AttemptSaves \cup {"a_result"}
    BY DEF Waiting, Stored, Recovering, Absent, AttemptSaves
  <2> HIDE DEF l
  <2> QED BY <2>1, <2>2, <2>3, <2>4, NoEvidence, ReturnEvidence, GotoEvidence DEF Continue
<1> QED BY <1>1, <1>2

\* A checked invocation is held; a stale snapshot ends the command.
LEMMA CheckInvocationEvidence ==
  ASSUME TypeInv, EvidenceInv, NEW c \in Clients, NEW new, NEW l, CheckInvocation(c, new, l),
         \A s : s.pc = l /\ s.target = cli[c].target /\ s.att = cli[c].att /\ s.cus = cli[c].cus
           => HeldEvidence(c, s)
  PROVE  EvidenceInv'
<1> USE DEF records, world
<1>1. CASE Return(c)
  BY <1>1, ReturnEvidence DEF CheckInvocation
<1>2. CASE ~Return(c)
  <2> DEFINE s == [cli[c] EXCEPT !.inv = new, !.pc = l]
  <2>1. cli' = [cli EXCEPT ![c] = s] /\ UNCHANGED <<attempt, custody, result, sends>>
    BY <1>2 DEF CheckInvocation
  <2>2. s.pc = l /\ s.target = cli[c].target /\ s.att = cli[c].att /\ s.cus = cli[c].cus
    BY DEF TypeInv, Locals, ClientStates
  <2> HIDE DEF s
  <2> QED BY <2>1, <2>2, QuietEvidence
<1> QED BY <1>1, <1>2

\* A checked attempt is held, and what it claims is there.
LEMMA CheckAttemptEvidence ==
  ASSUME TypeInv, EvidenceInv, NEW c \in Clients, NEW ok \in BOOLEAN, NEW new,
         NEW l \in AttemptSaves, CheckAttempt(c, ok, new, l),
         ok /\ LegalAttemptMove(attempt, new) => OutcomeOK(new)
  PROVE  EvidenceInv'
<1> USE DEF records, world
<1>1. CASE ~(ok /\ LegalAttemptMove(attempt, new))
  BY <1>1, ReturnEvidence DEF CheckAttempt
<1>2. CASE ok /\ LegalAttemptMove(attempt, new)
  <2> DEFINE s == [cli[c] EXCEPT !.att = new, !.pc = l]
  <2>1. cli' = [cli EXCEPT ![c] = s] /\ UNCHANGED <<attempt, custody, result, sends>>
    BY <1>2 DEF CheckAttempt
  <2>2. s.pc = l /\ s.att = new
    BY DEF TypeInv, Locals, ClientStates
  <2> HIDE DEF s
  <2>3. HeldEvidence(c, s)
    BY <1>2, <2>2 DEF HeldEvidence, Waiting, Stored, Recovering, Absent, AttemptSaves
  <2> QED BY <2>1, <2>3, QuietEvidence
<1> QED BY <1>1, <1>2

\* The checks of dispatch-invocation around the runner.  Binding needs a record
\* without runtime identity, so it never rebinds one whose claims name another
\* invocation.
LEMMA EvidenceDispatch ==
  ASSUME TypeInv, EvidenceInv, NEW c \in Clients,
         BindCheck(c) \/ DispatchCheck(c) \/ Accept(c) \/ CompleteCheck(c) \/ CandidateCheck(c)
  PROVE  EvidenceInv'
<1> USE DEF At
<1>0. HeldEvidence(c, cli[c])
  BY DEF EvidenceInv
<1>1. CASE BindCheck(c)
  <2> DEFINE new == [attempt EXCEPT !.state = "RUNNING", !.runtime = Inv(c)]
             ok == invocation[Inv(c)].state = "AUTHORIZED"
  <2>1. ok \in BOOLEAN /\ CheckAttempt(c, ok, new, "save_running")
    BY <1>1 DEF BindCheck
  <2>2. /\ new.candidate = attempt.candidate /\ new.cleanup = attempt.cleanup
        /\ new.state = "RUNNING"
    BY DEF TypeInv, DataOK, AttemptRecords
  <2> HIDE DEF new, ok
  <2>3. LegalAttemptMove(attempt, new) => OutcomeOK(new)
    BY <2>2, DispatchAssumption DEF LegalAttemptMove, EvidenceInv, StoredOK, OutcomeOK
  <2> QED BY <2>1, <2>3, CheckAttemptEvidence DEF AttemptSaves
<1>2. CASE DispatchCheck(c)
  <2>1. \A s : s.pc = "save_dispatching" => HeldEvidence(c, s)
    BY DEF HeldEvidence, Waiting, Stored, Recovering, Absent, AttemptSaves
  <2> QED BY <1>2, <2>1, CheckInvocationEvidence DEF DispatchCheck
<1>3. CASE Accept(c)
  <2>1. CASE Return(c)
    BY <1>3, <2>1, ReturnEvidence DEF Accept, records, world
  <2>2. CASE VerifiedSuccess(custody[cli[c].target]) /\ Goto(c, "a_result")
    <3>1. \A s : s.pc = "a_result" /\ s.target = cli[c].target => HeldEvidence(c, s)
      BY <2>2 DEF HeldEvidence, Waiting, Stored, Recovering, Absent, AttemptSaves
    <3> QED BY <1>3, <2>2, <3>1, GotoEvidence DEF Accept, records, world
  <2> QED BY <1>3, <2>1, <2>2 DEF Accept, Inv
<1>4. CASE CompleteCheck(c)
  <2>1. result[cli[c].target] = c
    BY <1>0, <1>4 DEF CompleteCheck, HeldEvidence, Stored
  <2>2. \A s : s.pc = "save_completed" /\ s.target = cli[c].target => HeldEvidence(c, s)
    BY <2>1 DEF HeldEvidence, Waiting, Stored, Recovering, Absent, AttemptSaves
  <2> QED BY <1>4, <2>2, CheckInvocationEvidence DEF CompleteCheck
<1>5. CASE CandidateCheck(c)
  <2> DEFINE new == [attempt EXCEPT !.state = "CANDIDATE", !.candidate = c]
             ok == /\ attempt.state = "RUNNING"
                   /\ attempt.runtime = Inv(c) /\ attempt.candidate = None
  <2>1. CheckAttempt(c, ok, new, "save_candidate") /\ cli[c].pc = "a_attempt"
    BY <1>5 DEF CandidateCheck
  <2>2. result[Inv(c)] = c /\ Inv(c) \in Invocations
    BY <1>0, <2>1, HeldTypes DEF HeldEvidence, Stored, Inv
  <2>3. /\ new.candidate = c /\ new.cleanup = attempt.cleanup /\ new.runtime = attempt.runtime
    BY DEF TypeInv, DataOK, AttemptRecords
  <2>4. ok \in BOOLEAN /\ (ok => attempt.runtime = Inv(c))
    OBVIOUS
  <2> HIDE DEF new, ok
  <2>5. ok => OutcomeOK(new)
    BY <2>2, <2>3, <2>4 DEF EvidenceInv, StoredOK, OutcomeOK
  <2> QED BY <2>1, <2>4, <2>5, CheckAttemptEvidence DEF AttemptSaves
<1> QED BY <1>1, <1>2, <1>3, <1>4, <1>5

\* Storing the result: its custody is a verified success, so its request was sent.
LEMMA EvidenceStore ==
  ASSUME TypeInv, ContainmentInv, EvidenceInv, SingleDispatcher, NEW c \in Clients, StoreResult(c)
  PROVE  EvidenceInv'
<1>0. /\ cli[c].pc = "a_result" /\ cli[c].pc \in DispatchPC /\ None \notin Clients
      /\ HeldEvidence(c, cli[c])
  BY LabelFacts, DispatchAssumption DEF StoreResult, At, EvidenceInv
<1>1. Inv(c) \in Invocations /\ "dispatch" \in May[c]
  BY <1>0, HeldTypes DEF ContainmentInv, OnlyDispatchers
<1>2. VerifiedSuccess(custody[Inv(c)]) /\ sends[Inv(c)] = 1
  BY <1>0, <1>1 DEF HeldEvidence, VerifiedSuccess, EvidenceInv, StoredOK, CleanEndSent, Inv
<1>3. /\ result'[Inv(c)] = c
      /\ \A i \in Invocations : i # Inv(c) => result'[i] = result[i]
      /\ UNCHANGED <<attempt, custody, sends>>
  BY <1>1 DEF StoreResult, TypeInv, DataOK, world
<1>4. \A i \in Invocations : result[i] \in Clients \cup {None}
  BY DEF TypeInv, DataOK
<1>5. \A i \in Invocations : result[i] # None => result'[i] = result[i]
  BY <1>1, <1>3, <1>4 DEF EvidenceInv, StoredOK, ResultOwned, SingleDispatcher
<1>6. Lasting
  BY <1>3, <1>5 DEF Lasting
<1>7. StoredOK'
  <2>1. ResultHasEvidence' /\ ResultOwned'
    BY <1>1, <1>2, <1>3
    DEF EvidenceInv, StoredOK, ResultHasEvidence, ResultOwned, VerifiedSuccess
  <2>2. OutcomeOK(attempt)'
    BY <1>0, <1>3, <1>5 DEF EvidenceInv, StoredOK, OutcomeOK
  <2> QED BY <1>3, <2>1, <2>2 DEF EvidenceInv, StoredOK, CleanEndSent
<1>8. /\ cli'[c].pc = "a_complete" /\ cli'[c].target = Inv(c)
      /\ \A d \in Clients \ {c} : cli'[d] = cli[d]
  BY DEF StoreResult, Goto, TypeInv, Locals, ClientStates, Inv
<1>9. \A d \in Clients \ {c} : HeldEvidence(d, cli[d])'
  BY <1>3, <1>6, <1>8, OthersKeep
<1>10. HeldEvidence(c, cli[c])'
  BY <1>3, <1>8 DEF HeldEvidence, Waiting, Stored, Recovering, Absent, AttemptSaves
<1> QED BY <1>7, <1>9, <1>10 DEF EvidenceInv

SavingPC == {"r_launch", "r_assign", "r_record", "r_mark", "r_send", "r_wait", "r_late",
             "r_verify", "v_absent"}

\* A custody save replaces a record that does not claim absence, and none that
\* another command waits on.
LEMMA SaveKeeps ==
  ASSUME TypeInv, ContainmentInv, EvidenceInv, SingleDispatcher, NEW c \in Clients,
         cli[c].pc \in SavingPC, custody[Inv(c)] = cli[c].cus
  PROVE  /\ custody[Inv(c)].state # "ABSENCE_VERIFIED"
         /\ \A d \in Clients \ {c} : cli[d].pc \in Waiting => cli[d].target # Inv(c)
<1>0. HeldEvidence(c, cli[c])
  BY DEF EvidenceInv
<1>1. CASE cli[c].pc \in DOMAIN CustodyAt
  <2>1. custody[Inv(c)].state = CustodyAt[cli[c].pc] /\ cli[c].pc \in DispatchPC
    BY <1>1, CustodyAtFacts DEF ContainmentInv, RunnerCustody, Inv
  <2> QED BY <1>1, <2>1, CustodyAtFacts, Alone, LabelFacts
<1>2. CASE cli[c].pc \in Waiting
  BY <1>0, <1>2, Alone, LabelFacts DEF HeldEvidence, Inv
<1>3. CASE cli[c].pc = "r_verify"
  <2>1. cli[c].pc \in DispatchPC
    BY <1>3 DEF DispatchPC, RunnerPC
  <2> QED BY <1>3, <2>1, Alone, LabelFacts DEF ContainmentInv, HeldOutcome
<1>4. CASE cli[c].pc = "v_absent"
  <2>1. custody[Inv(c)].state = "TERMINATED"
    BY <1>4 DEF ContainmentInv, HeldOutcome
  <2>2. \A d \in Clients : cli[d].pc \in Waiting => custody[cli[d].target].state = "DISPATCHING"
    BY DEF EvidenceInv, HeldEvidence
  <2> QED BY <2>1, <2>2
<1> QED BY <1>1, <1>2, <1>3, <1>4, CustodyAtFacts DEF SavingPC, Waiting

\* A custody save, when a record that ends without failure had its request sent.
LEMMA SaveEvidence ==
  ASSUME TypeInv, ContainmentInv, EvidenceInv, SingleDispatcher, NEW c \in Clients,
         cli[c].pc \in SavingPC, NEW new, NEW l, SaveCustody(c, new, l),
         UNCHANGED <<attempt, result, sends>>,
         custody[Inv(c)] = cli[c].cus /\ new.state \in {"EXITED", "ABSENCE_VERIFIED"} /\ ~new.failed
           => sends[Inv(c)] = 1,
         l \notin Waiting \cup Stored \cup AttemptSaves \cup {"a_result"},
         l \in Recovering =>
           cli[c].pc = "v_absent" /\ l = "v_uncertain" /\ new.state = "ABSENCE_VERIFIED" /\ new.sent
  PROVE  EvidenceInv'
<1>0. /\ HeldEvidence(c, cli[c]) /\ Inv(c) \in Invocations
      /\ custody \in [Invocations -> CustodyRecords]
  BY HeldTypes DEF EvidenceInv, SavingPC, TypeInv, DataOK, CustodyOK
<1>1. CASE ~(custody[Inv(c)] = cli[c].cus /\ ValidCustody(new))
  BY <1>1, ReturnEvidence DEF SaveCustody
<1>2. CASE custody[Inv(c)] = cli[c].cus /\ ValidCustody(new)
  <2>1. /\ custody'[Inv(c)] = new
        /\ \A i \in Invocations : i # Inv(c) => custody'[i] = custody[i]
    BY <1>0, <1>2 DEF SaveCustody
  <2>2. \A d \in Clients \ {c} : cli'[d] = cli[d]
    BY <1>2 DEF SaveCustody, TypeInv, Locals
  <2>3. Lasting
    BY <1>2, <2>1, SaveKeeps DEF Lasting
  <2>4. \A d \in Clients \ {c} : HeldEvidence(d, cli[d])'
    <3> SUFFICES ASSUME NEW d \in Clients \ {c} PROVE HeldEvidence(d, cli[d])'
      OBVIOUS
    <3>1. cli[d].pc \in Waiting => cli[d].target \in Invocations
      BY HeldTypes DEF Waiting, Inv
    <3> QED BY <1>2, <2>1, <2>2, <2>3, <3>1, SaveKeeps, OthersKeep
  <2>5. HeldEvidence(c, cli[c])'
    <3>1. CASE l = "idle"
      <4>1. cli' = [cli EXCEPT ![c] = IdleClient]
        BY <1>2, <3>1 DEF SaveCustody
      <4>2. cli'[c] = IdleClient
        BY <4>1 DEF TypeInv, Locals
      <4>3. cli'[c].pc = "idle"
        BY <4>2 DEF IdleClient
      <4> QED BY <4>3 DEF HeldEvidence, Waiting, Stored, Recovering, Absent, AttemptSaves
    <3>2. CASE l # "idle"
      <4> DEFINE s == [cli[c] EXCEPT !.cus = new, !.pc = l]
      <4>a. cli' = [cli EXCEPT ![c] = s]
        BY <1>2, <3>2 DEF SaveCustody, TypeInv, Locals
      <4>b. s.pc = l /\ s.target = Inv(c) /\ s.att = cli[c].att
        BY DEF TypeInv, Locals, ClientStates, Inv
      <4> HIDE DEF s
      <4>1. /\ cli'[c].pc = l /\ cli'[c].target = Inv(c) /\ cli'[c].att = cli[c].att
        BY <4>a, <4>b DEF TypeInv, Locals
      <4>2. CASE l \notin Recovering
        BY <4>1, <4>2 DEF HeldEvidence, Recovering
      <4>3. CASE l \in Recovering
        <5>1. cli[c].att.runtime = Inv(c) /\ cli[c].att.candidate = None
          BY <1>0, <4>3 DEF HeldEvidence, Recovering, Inv
        <5> QED BY <2>1, <4>1, <4>3, <5>1 DEF HeldEvidence
      <4> QED BY <4>2, <4>3
    <3> QED BY <3>1, <3>2
  <2>6. StoredOK'
    <3>1. (\A i \in Invocations : ValidCustody(custody[i]))'
      BY <1>2, <2>1 DEF EvidenceInv, StoredOK, ValidCustody
    <3>2. CleanEndSent'
      BY <1>2, <2>1 DEF EvidenceInv, StoredOK, CleanEndSent
    <3>3. ResultHasEvidence' /\ ResultOwned'
      BY <1>2, <2>1, SaveKeeps
      DEF EvidenceInv, StoredOK, ResultHasEvidence, ResultOwned, VerifiedSuccess
    <3>4. OutcomeOK(attempt)'
      BY <1>2, <2>1, SaveKeeps DEF EvidenceInv, StoredOK, OutcomeOK
    <3> QED BY <3>1, <3>2, <3>3, <3>4 DEF StoredOK
  <2> QED BY <2>4, <2>5, <2>6 DEF EvidenceInv
<1> QED BY <1>1, <1>2

\* The runner's first record is created where none was.
LEMMA EvidenceCreate ==
  ASSUME TypeInv, ContainmentInv, EvidenceInv, SingleDispatcher, NEW c \in Clients, CustodyCreate(c)
  PROVE  EvidenceInv'
<1> DEFINE new == [NoCustody EXCEPT !.state = "PREPARED", !.owner = c]
           s == [cli[c] EXCEPT !.cus = new, !.pc = "r_launch"]
<1>0. cli[c].pc = "r_make" /\ cli[c].pc \in DispatchPC
  BY DEF CustodyCreate, At, DispatchPC, RunnerPC
<1>1. Inv(c) \in Invocations
  BY <1>0, HeldTypes
<1>2. new.state = "PREPARED" /\ ValidCustody(new)
  BY DEF NoCustody, ValidCustody
<1>3. custody[Inv(c)].state = "MISSING"
  BY <1>0, CustodyAtFacts DEF ContainmentInv, RunnerCustody, Inv
<1>4. /\ cli' = [cli EXCEPT ![c] = s]
      /\ custody' = [custody EXCEPT ![Inv(c)] = new]
      /\ UNCHANGED <<attempt, result, sends>>
  BY DEF CustodyCreate, world
<1>5. s.pc = "r_launch"
  BY DEF TypeInv, Locals, ClientStates
<1> HIDE DEF new, s
<1>6. /\ cli'[c] = s
      /\ \A d \in Clients \ {c} : cli'[d] = cli[d] /\ cli[d].pc \notin Waiting
      /\ custody'[Inv(c)] = new
      /\ \A i \in Invocations : i # Inv(c) => custody'[i] = custody[i]
  BY <1>0, <1>1, <1>4, Alone, LabelFacts DEF TypeInv, DataOK, CustodyOK, Locals
<1>7. Lasting
  BY <1>3, <1>4, <1>6 DEF Lasting
<1>8. \A d \in Clients \ {c} : HeldEvidence(d, cli[d])'
  BY <1>6, <1>7, OthersKeep
<1>9. HeldEvidence(c, cli[c])'
  BY <1>5, <1>6 DEF HeldEvidence, Waiting, Stored, Recovering, Absent, AttemptSaves
<1>10. StoredOK'
  BY <1>2, <1>3, <1>4, <1>6
  DEF EvidenceInv, StoredOK, CleanEndSent, ResultHasEvidence, ResultOwned, VerifiedSuccess,
      OutcomeOK
<1> QED BY <1>8, <1>9, <1>10 DEF EvidenceInv

\* The request is delivered for the first time.
LEMMA EvidenceSend ==
  ASSUME TypeInv, ContainmentInv, EvidenceInv, NEW c \in Clients, Send(c)
  PROVE  EvidenceInv'
<1>0. cli[c].pc = "r_send"
  BY DEF Send, Unread, At
<1>1. Inv(c) \in Invocations
  BY <1>0, HeldTypes
<1>2. custody[Inv(c)].state = "DISPATCHING" /\ sends[Inv(c)] = 0
  BY <1>0, CustodyAtFacts DEF ContainmentInv, RunnerCustody, SentMeansMarked, Inv
<1>3. /\ sends'[Inv(c)] = 1
      /\ \A i \in Invocations : i # Inv(c) => sends'[i] = sends[i]
      /\ UNCHANGED <<attempt, custody, result>>
  BY <1>1, <1>2 DEF Send, Unread, TypeInv, DataOK, records
<1>4. /\ cli'[c].pc = "r_wait" /\ cli'[c].target = Inv(c)
      /\ \A d \in Clients \ {c} : cli'[d] = cli[d]
  BY DEF Send, Unread, Goto, TypeInv, Locals, ClientStates, Inv
<1>5. Lasting
  BY <1>2, <1>3 DEF Lasting
<1>6. \A d \in Clients \ {c} : HeldEvidence(d, cli[d])'
  BY <1>3, <1>4, <1>5, OthersKeep
<1>7. HeldEvidence(c, cli[c])'
  BY <1>2, <1>3, <1>4 DEF HeldEvidence, Stored, Recovering, Absent, AttemptSaves
<1>8. StoredOK'
  BY <1>2, <1>3
  DEF EvidenceInv, StoredOK, CleanEndSent, ResultHasEvidence, ResultOwned, VerifiedSuccess,
      OutcomeOK
<1> QED BY <1>6, <1>7, <1>8 DEF EvidenceInv

\* The contained runner: the wait is entered only after the delivered request, and
\* the outcome saved there is the first that can be without failure.
LEMMA EvidenceRun ==
  ASSUME TypeInv, ContainmentInv, EvidenceInv, SingleDispatcher, NEW c \in Clients,
         Run(c) \/ JobFails(c) \/ AssignFails(c) \/ Fault(c)
  PROVE  EvidenceInv'
<1> USE DEF At, records, world
<1> DEFINE r == cli[c].cus
<1>0. /\ \A l \in {"idle", "r_make", "r_launch", "r_assign", "r_record", "r_mark", "r_send",
                   "r_verify", "a_accept"} :
           l \notin Waiting \cup Stored \cup Recovering \cup AttemptSaves \cup {"a_result"}
      /\ FaultPC \subseteq SavingPC /\ Waiting = {"r_wait", "r_late"}
      /\ {"r_launch", "r_assign", "r_record", "r_mark", "r_wait", "r_late", "r_verify"}
           \subseteq SavingPC
  BY DEF Waiting, Stored, Recovering, Absent, AttemptSaves, FaultPC, SavingPC
<1>1. r \in CustodyRecords /\ HeldEvidence(c, cli[c])
  BY HeldTypes DEF EvidenceInv
<1>2. cli[c].pc \in Waiting =>
        custody[Inv(c)].state = "DISPATCHING" /\ sends[Inv(c)] = 1
  BY <1>1 DEF HeldEvidence, Inv
<1>3. ASSUME NEW new, NEW l, SaveCustody(c, new, l), cli[c].pc \in SavingPC,
             UNCHANGED <<attempt, result, sends>>,
             custody[Inv(c)] = r /\ new.state \in {"EXITED", "ABSENCE_VERIFIED"} /\ ~new.failed
               => sends[Inv(c)] = 1,
             l \in {"idle", "r_mark", "r_send", "r_verify", "a_accept"}
      PROVE  EvidenceInv'
  <2> HIDE DEF r
  <2>1. l \notin Waiting \cup Stored \cup Recovering \cup AttemptSaves \cup {"a_result"}
    BY <1>0, <1>3
  <2> QED BY <1>3, <2>1, SaveEvidence DEF r
<1>4. ASSUME NEW l, Goto(c, l), UNCHANGED <<attempt, custody, result, sends>>,
             l \in {"r_make", "r_assign", "r_record"}
      PROVE  EvidenceInv'
  BY <1>0, <1>4, NoEvidence, GotoEvidence
<1>5. CASE CustodyCheck(c)
  BY <1>4, <1>5, ReturnEvidence DEF CustodyCheck
<1>6. CASE Launch(c) \/ Assign(c)
  BY <1>4, <1>6 DEF Launch, Assign
<1>7. CASE Timeout(c)
  <2>1. cli[c].pc = "r_wait" /\ Goto(c, "r_late") /\ UNCHANGED <<attempt, custody, result, sends>>
    BY <1>7 DEF Timeout
  <2>2. \A s : s.pc = "r_late" /\ s.target = cli[c].target => HeldEvidence(c, s)
    BY <1>0, <1>2, <2>1 DEF HeldEvidence, Stored, Recovering, Absent, AttemptSaves, Inv
  <2> QED BY <2>1, <2>2, GotoEvidence
<1>8. CASE CustodyCreate(c)
  BY <1>8, EvidenceCreate
<1>9. CASE Send(c)
  BY <1>9, EvidenceSend
<1>10. CASE JobFails(c) \/ AssignFails(c) \/ RecordAssigned(c) \/ MarkDispatching(c)
  <2>1. /\ [r EXCEPT !.state = "UNCERTAIN", !.failed = TRUE].state = "UNCERTAIN"
        /\ [r EXCEPT !.state = "TERMINATED", !.active = "zero", !.failed = TRUE].state = "TERMINATED"
        /\ [r EXCEPT !.state = "ASSIGNED", !.assigned = TRUE].state = "ASSIGNED"
        /\ [r EXCEPT !.state = "DISPATCHING", !.sent = TRUE].state = "DISPATCHING"
    BY <1>1 DEF CustodyRecords
  <2> QED BY <1>0, <1>3, <1>10, <2>1 DEF JobFails, AssignFails, RecordAssigned, MarkDispatching
<1>11. CASE Collect(c)
  <2>1. PICK new, l : /\ SaveCustody(c, new, l) /\ l \in {"r_verify", "idle"}
    BY <1>11 DEF Collect
  <2>2. cli[c].pc \in Waiting /\ UNCHANGED <<attempt, result, sends>>
    BY <1>0, <1>11 DEF Collect
  <2> QED BY <1>0, <1>2, <1>3, <2>1, <2>2
<1>12. CASE Fault(c) \/ BrokenPipe(c)
  <2>1. PICK active : \E l \in {"r_verify", "idle"} :
          SaveCustody(c, [r EXCEPT !.state  = IF active = "zero" THEN "TERMINATED" ELSE "UNCERTAIN",
                                   !.active = active, !.failed = TRUE], l)
    BY <1>12 DEF Fault, BrokenPipe
  <2>2. cli[c].pc \in SavingPC /\ UNCHANGED <<attempt, result, sends>>
    BY <1>0, <1>12 DEF Fault, BrokenPipe
  <2> DEFINE new == [r EXCEPT !.state  = IF active = "zero" THEN "TERMINATED" ELSE "UNCERTAIN",
                              !.active = active, !.failed = TRUE]
  <2>3. new.state \in {"TERMINATED", "UNCERTAIN"}
    BY <1>1 DEF CustodyRecords
  <2>4. PICK l \in {"r_verify", "idle"} : SaveCustody(c, new, l)
    BY <2>1
  <2> HIDE DEF new
  <2> QED BY <1>3, <2>2, <2>3, <2>4
<1>13. CASE VerifyAbsence(c)
  <2> DEFINE new == [r EXCEPT !.state = "ABSENCE_VERIFIED"]
             l == IF r.failed THEN "idle" ELSE "a_accept"
  <2>1. /\ cli[c].pc = "r_verify" /\ SaveCustody(c, new, l)
        /\ UNCHANGED <<attempt, result, sends>>
    BY <1>13 DEF VerifyAbsence
  <2>2. new.failed = r.failed /\ l \in {"idle", "a_accept"} /\ r.state \in {"EXITED", "TERMINATED"}
    BY <1>1, <2>1 DEF CustodyRecords, ContainmentInv, HeldOutcome
  <2>3. Inv(c) \in Invocations
    BY <2>1, HeldTypes
  <2> HIDE DEF new, l
  <2>4. custody[Inv(c)] = r /\ ~new.failed => sends[Inv(c)] = 1
    BY <2>2, <2>3 DEF EvidenceInv, StoredOK, ValidCustody, CleanEndSent
  <2> QED BY <1>0, <1>3, <2>1, <2>2, <2>4
<1> QED BY <1>5, <1>6, <1>7, <1>8, <1>9, <1>10, <1>11, <1>12, <1>13 DEF Run

\* recover-invocation aborts only what it found bound to its invocation, once the
\* proven absence is on disk.
LEMMA EvidenceRecover ==
  ASSUME TypeInv, ContainmentInv, EvidenceInv, SingleDispatcher, NEW c \in Clients,
         \/ RecoverInspect(c) \/ RecoverCustody(c) \/ RecoverAbsence(c)
         \/ RecoverUncertain(c) \/ RecoverAbort(c) \/ RecoverAttempt(c)
  PROVE  EvidenceInv'
<1> USE DEF At, records, world
<1>0. /\ Recovering = {"v_inspect", "v_custody", "v_absent"} \cup Absent
      /\ Absent = {"v_uncertain", "save_uncertain", "v_abort", "save_aborted", "v_attempt"}
      /\ \A l \in Recovering : l \notin Waiting \cup Stored \cup AttemptSaves \cup {"a_result"}
  BY DEF Waiting, Stored, Recovering, Absent, AttemptSaves
<1>1. /\ HeldEvidence(c, cli[c]) /\ cli[c].pc \in Recovering
      /\ Inv(c) \in Invocations /\ Inv(c) = cli[c].target
  BY <1>0, LabelFacts, HeldTypes
  DEF EvidenceInv, Inv, RecoverInspect, RecoverCustody, RecoverAbsence, RecoverUncertain,
      RecoverAbort, RecoverAttempt, RecoverPC
<1>2. cli[c].att.runtime = Inv(c) /\ cli[c].att.candidate = None
  BY <1>1 DEF HeldEvidence
<1>3. cli[c].pc \in Absent =>
        custody[Inv(c)].state = "ABSENCE_VERIFIED" /\ custody[Inv(c)].sent
  BY <1>1 DEF HeldEvidence
<1>4. ASSUME NEW l \in Absent, cli[c].pc \in Absent
      PROVE  \A s : s.pc = l /\ s.target = cli[c].target /\ s.att = cli[c].att
               => HeldEvidence(c, s)
  BY <1>0, <1>1, <1>2, <1>3, <1>4 DEF HeldEvidence
<1>5. CASE RecoverInspect(c)
  <2>1. \A s : s.pc = "v_custody" /\ s.target = cli[c].target /\ s.att = cli[c].att
          => HeldEvidence(c, s)
    BY <1>0, <1>1, <1>2 DEF HeldEvidence
  <2> QED BY <1>5, <2>1, GotoEvidence, ReturnEvidence DEF RecoverInspect
<1>6. CASE RecoverCustody(c)
  <2> DEFINE r == custody[Inv(c)]
             l == IF r.state = "TERMINATED" THEN "v_absent" ELSE "v_uncertain"
             s == [cli[c] EXCEPT !.cus = r, !.pc = l]
  <2>1. UNCHANGED <<attempt, custody, result, sends>>
    BY <1>6 DEF RecoverCustody
  <2>2. CASE /\ cli' = [cli EXCEPT ![c] = s]
             /\ r.sent /\ r.state \in {"TERMINATED", "ABSENCE_VERIFIED"}
    <3>1. s.pc = l /\ s.target = cli[c].target /\ s.att = cli[c].att /\ s.cus = r
      BY DEF TypeInv, Locals, ClientStates
    <3>2. CASE l = "v_absent"
      <4> HIDE DEF s, l, r
      <4>1. HeldEvidence(c, s)
        BY <1>0, <1>1, <1>2, <2>2, <3>1, <3>2 DEF HeldEvidence
      <4> QED BY <2>1, <2>2, <4>1, QuietEvidence
    <3>3. CASE l = "v_uncertain"
      <4>1. custody[s.target].state = "ABSENCE_VERIFIED" /\ custody[s.target].sent
        BY <1>1, <2>2, <3>1, <3>3
      <4> HIDE DEF s, l, r
      <4>2. HeldEvidence(c, s)
        BY <1>0, <1>1, <1>2, <3>1, <3>3, <4>1 DEF HeldEvidence
      <4> QED BY <2>1, <2>2, <4>2, QuietEvidence
    <3> QED BY <3>2, <3>3
  <2>3. CASE Return(c)
    BY <2>1, <2>3, ReturnEvidence
  <2>4. cli' = [cli EXCEPT ![c].cus = r, ![c].pc = l] <=> cli' = [cli EXCEPT ![c] = s]
    BY DEF TypeInv, Locals
  <2> QED BY <1>6, <2>2, <2>3, <2>4 DEF RecoverCustody, ProvableAbsence
<1>7. CASE RecoverAbsence(c)
  <2> DEFINE new == [cli[c].cus EXCEPT !.state = "ABSENCE_VERIFIED"]
  <2>1. /\ cli[c].pc = "v_absent" /\ SaveCustody(c, new, "v_uncertain")
        /\ UNCHANGED <<attempt, result, sends>>
    BY <1>7 DEF RecoverAbsence
  <2>2. /\ new.state = "ABSENCE_VERIFIED" /\ new.sent = cli[c].cus.sent
        /\ new.failed = cli[c].cus.failed
    BY HeldTypes DEF CustodyRecords
  <2> HIDE DEF new
  <2>3. new.sent
    BY <1>1, <2>1, <2>2 DEF HeldEvidence
  <2>4. custody[Inv(c)] = cli[c].cus => new.failed
    BY <1>1, <2>1, <2>2
    DEF ContainmentInv, HeldOutcome, EvidenceInv, StoredOK, ValidCustody
  <2>5. "v_uncertain" \notin Waiting \cup Stored \cup AttemptSaves \cup {"a_result"}
        /\ cli[c].pc \in SavingPC
    BY <1>0, <2>1 DEF SavingPC
  <2> QED BY <2>1, <2>2, <2>3, <2>4, <2>5, SaveEvidence
<1>8. CASE RecoverUncertain(c)
  <2>1. cli[c].pc \in Absent /\ {"save_uncertain", "v_abort"} \subseteq Absent
    BY <1>0, <1>8 DEF RecoverUncertain
  <2> QED BY <1>4, <1>8, <2>1, GotoEvidence, CheckInvocationEvidence DEF RecoverUncertain
<1>9. CASE RecoverAbort(c)
  <2>1. cli[c].pc \in Absent /\ {"save_aborted", "v_attempt"} \subseteq Absent
    BY <1>0, <1>9 DEF RecoverAbort
  <2> QED BY <1>4, <1>9, <2>1, GotoEvidence, CheckInvocationEvidence DEF RecoverAbort
<1>10. CASE RecoverAttempt(c)
  <2> DEFINE done == [cli[c].att EXCEPT !.state = "ABORTED", !.cleanup = RecoveryOutcome]
  <2>1. cli[c].pc \in Absent /\ cli[c].att \in AttemptRecords
    BY <1>0, <1>1, <1>10, HeldTypes, LabelFacts DEF RecoverAttempt
  <2>2. CASE Return(c)
    BY <1>10, <2>2, ReturnEvidence DEF RecoverAttempt, CheckAttempt
  <2>3. CASE CheckAttempt(c, TRUE, done, "save_recovered")
    <3>1. done.runtime = cli[c].att.runtime /\ done.candidate = cli[c].att.candidate
      BY <2>1 DEF AttemptRecords
    <3> HIDE DEF done
    <3>2. OutcomeOK(done)
      BY <1>1, <1>2, <1>3, <2>1, <3>1, DispatchAssumption DEF OutcomeOK
    <3> QED BY <2>3, <3>2, CheckAttemptEvidence DEF AttemptSaves
  <2> QED BY <1>10, <2>2, <2>3 DEF RecoverAttempt
<1> QED BY <1>5, <1>6, <1>7, <1>8, <1>9, <1>10

LEMMA EvidenceStep ==
  ASSUME SingleDispatcher, TypeInv, ContainmentInv, EvidenceInv, [Next]_vars
  PROVE  EvidenceInv'
<1>1. ASSUME NEW c \in Clients, Crash(c)
      PROVE  EvidenceInv'
  BY <1>1, ReturnEvidence DEF Crash, records, world
<1>2. ASSUME NEW c \in Clients, Read(c) \/ Step(c) \/ Mishap(c)
      PROVE  EvidenceInv'
  BY <1>1, <1>2, EvidenceRead, EvidenceCommit, EvidenceDispatch, EvidenceStore, EvidenceRun,
     EvidenceRecover DEF Step, Mishap
<1>3. CASE Environment \/ UNCHANGED vars
  <2>1. UNCHANGED <<attempt, custody, result, sends, cli>>
    BY <1>3 DEF Environment, AdapterEnds, AdapterWrites, records, vars
  <2> QED BY <2>1
      DEF EvidenceInv, StoredOK, CleanEndSent, ResultHasEvidence, ResultOwned, VerifiedSuccess,
          OutcomeOK, HeldEvidence
<1> QED BY <1>2, <1>3 DEF Next

-----------------------------------------------------------------------------
(* With one dispatching slot, whatever the others race *)

\* The inductive invariant holds of every behaviour.
THEOREM EvidenceCorrect == SingleDispatcher => (Spec => []EvidenceInv)
<1> SUFFICES ASSUME SingleDispatcher PROVE Spec => []EvidenceInv
  OBVIOUS
<1>1. Init => TypeInv /\ ContainmentInv /\ EvidenceInv
  BY TypeInit, ContainmentInit, EvidenceInit
<1>2. TypeInv /\ ContainmentInv /\ EvidenceInv /\ [Next]_vars
        => (TypeInv /\ ContainmentInv /\ EvidenceInv)'
  BY TypeStep, ContainmentStep, EvidenceStep
<1> QED BY <1>1, <1>2, PTL DEF Spec

\* A stored result rests on one delivered request and a custody record without
\* failure that proves absence, for any number of commands that race the dispatch.
THEOREM ResultProven == SingleDispatcher => (Spec => []ResultHasEvidence)
<1>1. EvidenceInv => ResultHasEvidence
  BY DEF EvidenceInv, StoredOK
<1> QED BY <1>1, EvidenceCorrect, PTL

\* A recorded candidate is one whose own result is stored behind a verified success,
\* and a recovered attempt one whose adapter is proven absent.
THEOREM OutcomeProven == SingleDispatcher => (Spec => []OutcomeHasEvidence)
<1>1. EvidenceInv => OutcomeHasEvidence
  <2> SUFFICES ASSUME EvidenceInv PROVE OutcomeHasEvidence
    OBVIOUS
  <2>1. None \notin Clients /\ OutcomeOK(attempt) /\ ResultHasEvidence
    BY DispatchAssumption DEF EvidenceInv, StoredOK
  <2> QED BY <2>1 DEF OutcomeOK, OutcomeHasEvidence, ResultHasEvidence
<1> QED BY <1>1, EvidenceCorrect, PTL

-----------------------------------------------------------------------------
(* One command at a time: the records move as AttemptContract says *)

\* One operator runs one command after the other; any of them may stop half way.
OneCommand == \A c, d \in Clients : c = d

RunningOn(i) == attempt.state = "RUNNING" /\ attempt.runtime = i /\ attempt.candidate = None

\* What the four records say of each other: the contract alone preserves it.
AgreementOf(i) ==
  LET v == invocation[i]  r == custody[i]
  IN /\ (v.state = "COMPLETED") = (v.result # None)
     /\ v.state = "MISSING" => v.by = None
     /\ IF r.state = "MISSING" THEN r = NoCustody ELSE r.owner \in Clients
     /\ v.state \in {"MISSING", "PREPARED", "AUTHORIZED", "REJECTED"} =>
          r.state = "MISSING" /\ result[i] = None
     /\ v.state = "DISPATCHING" /\ result[i] # None => r.state = "ABSENCE_VERIFIED"
     /\ v.state = "UNCERTAIN" => r.state = "ABSENCE_VERIFIED" /\ r.sent /\ result[i] = None
     /\ v.state = "ABORTED" => r.state \in {"MISSING", "ABSENCE_VERIFIED"} /\ result[i] = None
     /\ v.state = "COMPLETED" => r.state = "ABSENCE_VERIFIED" /\ result[i] = v.result

AttemptAgrees ==
  /\ attempt.state # "DRAFT"
  /\ attempt.state = "READY" => attempt.runtime = None /\ attempt.candidate = None
  /\ attempt.candidate \in Clients =>
       /\ attempt.runtime \in Invocations
       /\ invocation[attempt.runtime].state = "COMPLETED"
       /\ invocation[attempt.runtime].result = attempt.candidate
  /\ attempt.cleanup = RecoveryOutcome =>
       /\ attempt.runtime \in Invocations
       /\ invocation[attempt.runtime].state = "ABORTED"
       /\ custody[attempt.runtime].state = "ABSENCE_VERIFIED"

OneInvocation ==
  \A i, j \in Invocations :
    invocation[i].state # "MISSING" /\ invocation[j].state # "MISSING" => i = j

RecordsAgree ==
  OneInvocation /\ AttemptAgrees /\ \A i \in Invocations : AgreementOf(i)

\* What the world around the records adds: custody that is still open has seen no
\* failure, adapters belong to the one invocation, and a recovered attempt kept its
\* workspace.
WorldAgrees ==
  /\ \A i \in Invocations :
       custody[i].state \in {"PREPARED", "ASSIGNED", "DISPATCHING"} => ~custody[i].failed
  /\ \A i \in Invocations, d \in Clients :
       adapter[i][d] # "none" => invocation[i].state # "MISSING"
  /\ attempt.cleanup = RecoveryOutcome => workspace = "clean"

\* What the command in progress knows of the records, label by label.
Bound      == {"d_dispatch", "save_dispatching"} \cup RunnerPC \cup
              {"a_accept", "a_result", "a_complete", "save_completed", "save_candidate"}
InFlight   == RunnerPC \cup {"a_accept", "a_result", "a_complete", "save_completed"}
Unanswered == RunnerPC \cup {"a_accept", "a_result"}
CopyHeld   == {"d_bind", "save_running", "d_dispatch", "a_accept", "a_result", "a_complete",
               "v_inspect", "v_custody", "v_absent", "v_uncertain", "v_abort", "v_attempt"}
                \cup RunnerPC
CleanHeld  == {"v_absent"} \cup Absent \cup {"save_recovered"}

\* A checked record that is about to be written is the legal next one.
ViewWrites(c, s) ==
  LET v == invocation[s.target]
  IN /\ s.pc = "save_prepared" =>
          /\ attempt.state = "READY" /\ \A j \in Invocations : invocation[j].state = "MISSING"
          /\ s.inv = [NoInvocation EXCEPT !.state = "PREPARED"]
     /\ s.pc = "save_authorized" =>
          v.state = "PREPARED" /\ \E k \in Controllers : s.inv = [v EXCEPT !.state = "AUTHORIZED", !.by = k]
     /\ s.pc = "save_rejected" => v.state = "PREPARED" /\ s.inv = [v EXCEPT !.state = "REJECTED"]
     /\ s.pc = "save_cancelled" =>
          v.state \in {"AUTHORIZED", "UNCERTAIN"} /\ s.inv = [v EXCEPT !.state = "ABORTED"]
     /\ s.pc = "save_dispatching" => s.inv = [v EXCEPT !.state = "DISPATCHING"]
     /\ s.pc = "save_completed" => s.inv = [v EXCEPT !.state = "COMPLETED", !.result = c]
     /\ s.pc = "save_uncertain" =>
          v.state = "DISPATCHING" /\ s.inv = [v EXCEPT !.state = "UNCERTAIN"]
     /\ s.pc = "save_aborted" => v.state = "UNCERTAIN" /\ s.inv = [v EXCEPT !.state = "ABORTED"]

ViewAttempt(c, s) ==
  /\ s.pc \in AttemptSaves => LegalAttemptMove(attempt, s.att)
  /\ s.pc = "save_running" => s.att = [attempt EXCEPT !.state = "RUNNING", !.runtime = s.target]
  /\ s.pc = "save_candidate" => s.att = [attempt EXCEPT !.state = "CANDIDATE", !.candidate = c]
  /\ s.pc = "save_recovered" =>
       /\ RunningOn(s.target)
       /\ s.att = [attempt EXCEPT !.state = "ABORTED", !.cleanup = RecoveryOutcome]
  /\ s.pc = "save_operator" =>
       /\ attempt.state # "READY"
       /\ \E t \in AttemptStates, d \in {attempt.candidate, Typed} :
            s.att = [attempt EXCEPT !.state = t, !.candidate = d,
                       !.cleanup = IF t \in AttemptTerminal THEN "operator" ELSE @]

ViewDispatch(c, s) ==
  LET v == invocation[s.target]
  IN /\ s.pc \in CopyHeld => s.inv = v
     /\ s.pc \in {"d_bind", "save_running", "d_dispatch", "save_dispatching"} => v.state = "AUTHORIZED"
     /\ s.pc \in Bound => RunningOn(s.target)
     /\ s.pc \in InFlight => v.state = "DISPATCHING"
     /\ s.pc \in Unanswered => result[s.target] = None
     /\ s.pc \in SavingPC => s.cus = custody[s.target]
     /\ s.pc \in {"a_attempt", "save_candidate"} => v.state = "COMPLETED" /\ v.result = c

ViewRecover(s) ==
  LET v == invocation[s.target]
  IN /\ s.pc \in Recovering =>
          /\ s.att = attempt /\ v.state \in {"DISPATCHING", "UNCERTAIN", "ABORTED"}
          /\ attempt.state = "RUNNING" \/ v.state = "ABORTED"
     /\ s.pc \in Recovering \ {"v_inspect"} => result[s.target] = None
     /\ s.pc = "v_custody" => (ClaimsDead(custody[s.target]) => workspace = "clean")
     /\ s.pc \in CleanHeld => ClaimsDead(custody[s.target]) /\ workspace = "clean"
     /\ s.pc = "v_abort" => v.state # "DISPATCHING"
     /\ s.pc \in {"v_attempt", "save_recovered"} =>
          v.state = "ABORTED" /\ custody[s.target].state = "ABSENCE_VERIFIED"

View(c, s) == ViewWrites(c, s) /\ ViewAttempt(c, s) /\ ViewDispatch(c, s) /\ ViewRecover(s)

AgreementInv == RecordsAgree /\ WorldAgrees /\ \A c \in Clients : View(c, cli[c])

-----------------------------------------------------------------------------
(* The contract alone keeps the records in agreement *)

\* The record operators are the same on both sides.
LEMMA ContractTerms ==
  /\ Contract!NoInvocation = NoInvocation /\ Contract!NoCustody = NoCustody
  /\ Contract!InvocationNext = InvocationNext /\ Contract!CustodyNext = CustodyNext
  /\ Contract!AttemptNext = AttemptNext /\ Contract!AttemptStates = AttemptStates
  /\ Contract!AttemptTerminal = AttemptTerminal /\ Contract!ActiveCounts = ActiveCounts
  /\ \A a, b : Contract!LegalAttemptMove(a, b) <=> LegalAttemptMove(a, b)
  /\ \A a, b : Contract!LegalInvocationMove(a, b) <=> LegalInvocationMove(a, b)
  /\ \A r : Contract!ValidCustody(r) <=> ValidCustody(r)
  /\ \A i : Contract!Running(i) <=> RunningOn(i)
<1>1. /\ Contract!NoInvocation = NoInvocation /\ Contract!NoCustody = NoCustody
      /\ Contract!InvocationNext = InvocationNext /\ Contract!CustodyNext = CustodyNext
      /\ Contract!AttemptNext = AttemptNext /\ Contract!AttemptStates = AttemptStates
      /\ Contract!AttemptTerminal = AttemptTerminal /\ Contract!ActiveCounts = ActiveCounts
  BY DEF Contract!NoInvocation, NoInvocation, Contract!NoCustody, NoCustody,
         Contract!InvocationNext, InvocationNext, Contract!CustodyNext, CustodyNext,
         Contract!AttemptNext, AttemptNext, Contract!AttemptStates, AttemptStates,
         Contract!AttemptTerminal, AttemptTerminal, Contract!ActiveCounts, ActiveCounts
<1>2. \A a, b : Contract!LegalAttemptMove(a, b) <=> LegalAttemptMove(a, b)
  BY <1>1 DEF Contract!LegalAttemptMove, LegalAttemptMove
<1>3. \A a, b : Contract!LegalInvocationMove(a, b) <=> LegalInvocationMove(a, b)
  BY <1>1 DEF Contract!LegalInvocationMove, LegalInvocationMove
<1>4. \A r : Contract!ValidCustody(r) <=> ValidCustody(r)
  BY DEF Contract!ValidCustody, ValidCustody
<1>5. \A i : Contract!Running(i) <=> RunningOn(i)
  BY DEF Contract!Running, RunningOn
<1> QED BY <1>1, <1>2, <1>3, <1>4, <1>5

RecordTypes ==
  /\ attempt \in AttemptRecords
  /\ invocation \in [Invocations -> InvocationRecords]
  /\ custody \in [Invocations -> CustodyRecords]
  /\ result \in [Invocations -> Clients \cup {None}]

\* An invocation moves legally, and what the records say of its new state is true.
LEMMA InvocationAgrees ==
  ASSUME RecordTypes, RecordsAgree, NEW i \in Invocations, NEW new,
         LegalInvocationMove(invocation[i], new),
         invocation' = [invocation EXCEPT ![i] = new],
         UNCHANGED <<attempt, custody, result>>,
         invocation[i].state = "MISSING" =>
           \A j \in Invocations : invocation[j].state = "MISSING",
         new.state = "UNCERTAIN" =>
           custody[i].state = "ABSENCE_VERIFIED" /\ custody[i].sent /\ result[i] = None,
         new.state = "COMPLETED" => result[i] # None /\ new.result = result[i]
  PROVE  RecordsAgree'
<1>1. /\ invocation'[i] = new
      /\ \A j \in Invocations : j # i => invocation'[j] = invocation[j]
  BY DEF RecordTypes
<1>2. /\ invocation[i].state \notin {"COMPLETED", "REJECTED", "ABORTED"}
      /\ invocation[i].state = "MISSING" => new.state = "PREPARED"
      /\ invocation[i].state = "PREPARED" => new.state \in {"AUTHORIZED", "REJECTED"}
      /\ invocation[i].state = "AUTHORIZED" => new.state \in {"DISPATCHING", "ABORTED"}
      /\ invocation[i].state = "DISPATCHING" => new.state \in {"COMPLETED", "UNCERTAIN"}
      /\ invocation[i].state = "UNCERTAIN" => new.state = "ABORTED"
      /\ invocation[i].state \in {"MISSING", "PREPARED", "AUTHORIZED", "DISPATCHING", "UNCERTAIN"}
      /\ (new.state = "COMPLETED") = (new.result # None)
  BY DEF LegalInvocationMove, InvocationNext, RecordTypes, InvocationRecords, InvocationStates
<1>3. OneInvocation'
  BY <1>1, <1>2 DEF RecordsAgree, OneInvocation
<1>4. AttemptAgrees'
  BY <1>1, <1>2 DEF RecordsAgree, AttemptAgrees
<1>5. AgreementOf(i)'
  BY <1>1, <1>2 DEF RecordsAgree, AgreementOf
<1>6. \A j \in Invocations : j # i => AgreementOf(j)'
  BY <1>1 DEF RecordsAgree, AgreementOf
<1> QED BY <1>3, <1>4, <1>5, <1>6 DEF RecordsAgree

\* The attempt moves legally, and what its new state claims is true.
LEMMA AttemptMoves ==
  ASSUME RecordTypes, RecordsAgree, NEW new, LegalAttemptMove(attempt, new), attempt' = new,
         UNCHANGED <<invocation, custody, result>>,
         new.candidate \in Clients => new.candidate = attempt.candidate \/
           /\ attempt.runtime \in Invocations /\ invocation[attempt.runtime].state = "COMPLETED"
           /\ invocation[attempt.runtime].result = new.candidate,
         new.cleanup = RecoveryOutcome => new.cleanup = attempt.cleanup \/
           /\ attempt.runtime \in Invocations /\ invocation[attempt.runtime].state = "ABORTED"
           /\ custody[attempt.runtime].state = "ABSENCE_VERIFIED"
  PROVE  RecordsAgree'
<1>1. new.state \notin {"DRAFT", "READY"}
  BY DEF LegalAttemptMove, AttemptNext, RecordsAgree, AttemptAgrees, RecordTypes,
         AttemptRecords, AttemptStates
<1>2. new.runtime = attempt.runtime \/ attempt.runtime = None
  BY DEF LegalAttemptMove
<1>3. None \notin Invocations
  BY DispatchAssumption
<1>4. AttemptAgrees'
  BY <1>1, <1>2, <1>3 DEF RecordsAgree, AttemptAgrees
<1> QED BY <1>4 DEF RecordsAgree, OneInvocation, AgreementOf

\* A custody record or a result changes while its invocation is in flight.
LEMMA InFlightAgrees ==
  ASSUME RecordTypes, RecordsAgree, NEW i \in Invocations,
         invocation[i].state = "DISPATCHING", RunningOn(i), result[i] = None,
         UNCHANGED <<attempt, invocation>>,
         \/ /\ result' = result
            /\ \E new : /\ custody' = [custody EXCEPT ![i] = new] /\ new.state # "MISSING"
                        /\ new.owner \in Clients
         \/ /\ custody' = custody /\ custody[i].state = "ABSENCE_VERIFIED"
            /\ \E c \in Clients : result' = [result EXCEPT ![i] = c]
  PROVE  RecordsAgree'
<1>1. \A j \in Invocations : j # i => custody'[j] = custody[j] /\ result'[j] = result[j]
  BY DEF RecordTypes
<1>2. AgreementOf(i)'
  BY DEF RecordsAgree, AgreementOf, RecordTypes
<1>3. \A j \in Invocations : j # i => AgreementOf(j)'
  BY <1>1 DEF RecordsAgree, AgreementOf
<1>4. AttemptAgrees'
  BY <1>1, DispatchAssumption DEF RecordsAgree, AttemptAgrees, RunningOn
<1> QED BY <1>2, <1>3, <1>4 DEF RecordsAgree, OneInvocation

LEMMA ContractAgrees ==
  ASSUME RecordTypes, RecordsAgree, Contract!Next
  PROVE  RecordsAgree'
<1> USE ContractTerms
<1>1. ASSUME NEW i \in Invocations, Contract!Prepare(i)
      PROVE  RecordsAgree'
  <2>1. [NoInvocation EXCEPT !.state = "PREPARED"].state = "PREPARED"
    BY DEF NoInvocation
  <2> QED BY <1>1, <2>1, InvocationAgrees DEF Contract!Prepare, Contract!InvocationBecomes
<1>2. ASSUME NEW i \in Invocations, Contract!Decide(i)
      PROVE  RecordsAgree'
  <2>1. PICK new : /\ Contract!InvocationBecomes(i, new)
                   /\ new.state \in {"AUTHORIZED", "REJECTED", "ABORTED"}
    <3>1. ASSUME NEW k
          PROVE  [invocation[i] EXCEPT !.state = "AUTHORIZED", !.by = k].state = "AUTHORIZED"
      BY DEF RecordTypes, InvocationRecords
    <3>2. /\ [invocation[i] EXCEPT !.state = "REJECTED"].state = "REJECTED"
          /\ [invocation[i] EXCEPT !.state = "ABORTED"].state = "ABORTED"
      BY DEF RecordTypes, InvocationRecords
    <3> QED BY <1>2, <3>1, <3>2 DEF Contract!Decide
  <2>2. invocation[i].state # "MISSING"
    BY <2>1 DEF Contract!InvocationBecomes, LegalInvocationMove, InvocationNext
  <2> QED BY <2>1, <2>2, InvocationAgrees DEF Contract!InvocationBecomes
<1>3. ASSUME NEW i \in Invocations, Contract!Dispatched(i) \/ Contract!Complete(i) \/ Contract!Doubt(i)
      PROVE  RecordsAgree'
  <2>1. PICK new : /\ Contract!InvocationBecomes(i, new)
                   /\ new.state \in {"DISPATCHING", "COMPLETED", "UNCERTAIN"}
                   /\ new.state = "UNCERTAIN" =>
                        custody[i].state = "ABSENCE_VERIFIED" /\ custody[i].sent /\ result[i] = None
                   /\ new.state = "COMPLETED" => result[i] # None /\ new.result = result[i]
    <3>1. /\ [invocation[i] EXCEPT !.state = "DISPATCHING"].state = "DISPATCHING"
          /\ [invocation[i] EXCEPT !.state = "UNCERTAIN"].state = "UNCERTAIN"
          /\ [invocation[i] EXCEPT !.state = "COMPLETED", !.result = result[i]].state = "COMPLETED"
          /\ [invocation[i] EXCEPT !.state = "COMPLETED", !.result = result[i]].result = result[i]
      BY DEF RecordTypes, InvocationRecords
    <3> QED BY <1>3, <3>1 DEF Contract!Dispatched, Contract!Complete, Contract!Doubt
  <2>2. invocation[i].state # "MISSING"
    BY <2>1 DEF Contract!InvocationBecomes, LegalInvocationMove, InvocationNext
  <2> QED BY <2>1, <2>2, InvocationAgrees DEF Contract!InvocationBecomes
<1>4. ASSUME NEW i \in Invocations, Contract!Bind(i) \/ Contract!Capture(i) \/ Contract!Recover(i)
      PROVE  RecordsAgree'
  <2>1. PICK new : /\ Contract!AttemptBecomes(new)
                   /\ new.candidate = attempt.candidate \/
                        /\ RunningOn(i) /\ invocation[i].state = "COMPLETED"
                        /\ new.candidate = invocation[i].result
                   /\ new.cleanup = attempt.cleanup \/
                        /\ RunningOn(i) /\ invocation[i].state = "ABORTED"
                        /\ custody[i].state = "ABSENCE_VERIFIED"
    <3>1. /\ [attempt EXCEPT !.state = "RUNNING", !.runtime = i].candidate = attempt.candidate
          /\ [attempt EXCEPT !.state = "RUNNING", !.runtime = i].cleanup = attempt.cleanup
      BY DEF RecordTypes, AttemptRecords
    <3>2. /\ [attempt EXCEPT !.state = "CANDIDATE", !.candidate = invocation[i].result].candidate
                = invocation[i].result
          /\ [attempt EXCEPT !.state = "CANDIDATE", !.candidate = invocation[i].result].cleanup
                = attempt.cleanup
      BY DEF RecordTypes, AttemptRecords
    <3>3. [attempt EXCEPT !.state = "ABORTED", !.cleanup = "recovered"].candidate
                = attempt.candidate
      BY DEF RecordTypes, AttemptRecords
    <3>4. CASE Contract!Bind(i)
      BY <3>1, <3>4 DEF Contract!Bind
    <3>5. CASE Contract!Capture(i)
      BY <3>2, <3>5 DEF Contract!Capture
    <3>6. CASE Contract!Recover(i)
      BY <3>3, <3>6 DEF Contract!Recover
    <3> QED BY <1>4, <3>4, <3>5, <3>6
  <2> QED BY <2>1, AttemptMoves DEF Contract!AttemptBecomes, RunningOn
<1>5. ASSUME NEW i \in Invocations, Contract!Contain(i) \/ Contract!Store(i)
      PROVE  RecordsAgree'
  <2>1. CASE Contract!Contain(i)
    <3>1. PICK new \in [state : CustodyNext[custody[i].state], owner : Clients,
                        assigned : BOOLEAN, sent : BOOLEAN, active : ActiveCounts,
                        failed : BOOLEAN] :
            custody' = [custody EXCEPT ![i] = new]
      BY <2>1 DEF Contract!Contain
    <3>2. new.state # "MISSING" /\ new.owner \in Clients
      BY <3>1 DEF CustodyNext, RecordTypes, CustodyRecords, CustodyStates
    <3> QED BY <2>1, <3>1, <3>2, InFlightAgrees DEF Contract!Contain
  <2>2. CASE Contract!Store(i)
    BY <2>2, InFlightAgrees DEF Contract!Store
  <2> QED BY <1>5, <2>1, <2>2
<1>6. CASE Contract!Operate
  <2>1. PICK t \in AttemptStates, d \in {attempt.candidate, "typed"} :
          Contract!AttemptBecomes([attempt EXCEPT !.state = t, !.candidate = d,
                         !.cleanup = IF t \in AttemptTerminal THEN "operator" ELSE @])
    BY <1>6 DEF Contract!Operate
  <2> DEFINE new == [attempt EXCEPT !.state = t, !.candidate = d,
                       !.cleanup = IF t \in AttemptTerminal THEN "operator" ELSE @]
  <2>2. new.candidate = d /\ new.cleanup \in {"operator", attempt.cleanup}
    BY DEF RecordTypes, AttemptRecords
  <2>3. Contract!AttemptBecomes(new)
    BY <2>1
  <2> HIDE DEF new
  <2> QED BY <2>2, <2>3, AttemptMoves, DispatchAssumption
          DEF Contract!AttemptBecomes, Typed, RecoveryOutcome
<1> QED BY <1>1, <1>2, <1>3, <1>4, <1>5, <1>6 DEF Contract!Next

-----------------------------------------------------------------------------
(* Every step of the one command is a step of the contract or none *)

cvars == <<attempt, invocation, custody, result>>

Facts == TypeInv /\ ContainmentInv /\ EvidenceInv /\ AgreementInv

\* A step is in order: it keeps the agreement and is the contract's, or a stutter.
InOrder == AgreementInv' /\ [Contract!Next]_cvars

LEMMA FactsTypes == ASSUME TypeInv PROVE RecordTypes
BY DEF TypeInv, DataOK, CustodyOK, RecordTypes

\* The command moves and writes no record.
LEMMA QuietView ==
  ASSUME Facts, OneCommand, NEW c \in Clients, NEW s, cli' = [cli EXCEPT ![c] = s], View(c, s),
         UNCHANGED <<attempt, invocation, custody, result, workspace>>,
         \A i \in Invocations, d \in Clients :
           adapter'[i][d] # "none" => invocation[i].state # "MISSING"
  PROVE  InOrder
<1>1. cli'[c] = s /\ \A d \in Clients : d = c
  BY DEF Facts, TypeInv, Locals, OneCommand
<1>2. RecordsAgree'
  BY DEF Facts, AgreementInv, RecordsAgree, OneInvocation, AttemptAgrees, AgreementOf
<1>3. WorldAgrees'
  BY DEF Facts, AgreementInv, WorldAgrees
<1>4. View(c, cli[c])'
  <2>1. ViewWrites(c, cli[c])'
    BY <1>1 DEF View, ViewWrites
  <2>2. ViewAttempt(c, cli[c])'
    BY <1>1 DEF View, ViewAttempt, RunningOn
  <2>3. ViewDispatch(c, cli[c])'
    BY <1>1 DEF View, ViewDispatch, RunningOn
  <2>4. ViewRecover(cli[c])'
    BY <1>1 DEF View, ViewRecover, ClaimsDead
  <2> QED BY <2>1, <2>2, <2>3, <2>4 DEF View
<1> QED BY <1>1, <1>2, <1>3, <1>4 DEF InOrder, AgreementInv, cvars

\* The adapters only belong to invocations that exist.
LEMMA AdaptersStay ==
  ASSUME Facts, UNCHANGED adapter
  PROVE  \A i \in Invocations, d \in Clients :
           adapter'[i][d] # "none" => invocation[i].state # "MISSING"
BY DEF Facts, AgreementInv, WorldAgrees

LEMMA ReturnView ==
  ASSUME Facts, OneCommand, NEW c \in Clients, Return(c),
         UNCHANGED <<attempt, invocation, custody, result, workspace, adapter>>
  PROVE  InOrder
<1>1. \A s : s.pc = "idle" => View(c, s)
  BY DEF View, ViewWrites, ViewAttempt, ViewDispatch, ViewRecover, AttemptSaves, CopyHeld, Bound,
         InFlight, Unanswered, SavingPC, Recovering, Absent, CleanHeld, RunnerPC
<1>2. IdleClient.pc = "idle"
  BY DEF IdleClient
<1> QED BY <1>1, <1>2, AdaptersStay, QuietView DEF Return

LEMMA GotoView ==
  ASSUME Facts, OneCommand, NEW c \in Clients, NEW l, Goto(c, l),
         \A s : s.pc = l /\ s.target = cli[c].target /\ s.inv = cli[c].inv /\ s.att = cli[c].att
                  /\ s.cus = cli[c].cus => View(c, s),
         UNCHANGED <<attempt, invocation, custody, result, workspace>>,
         \A i \in Invocations, d \in Clients :
           adapter'[i][d] # "none" => invocation[i].state # "MISSING"
  PROVE  InOrder
<1> DEFINE s == [cli[c] EXCEPT !.pc = l]
<1>1. /\ cli' = [cli EXCEPT ![c] = s] /\ s.pc = l /\ s.target = cli[c].target
      /\ s.inv = cli[c].inv /\ s.att = cli[c].att /\ s.cus = cli[c].cus
  BY DEF Goto, Facts, TypeInv, Locals, ClientStates
<1> HIDE DEF s
<1> QED BY <1>1, QuietView

LEMMA CheckInvocationView ==
  ASSUME Facts, OneCommand, NEW c \in Clients, NEW new, NEW l, CheckInvocation(c, new, l),
         \A s : s.pc = l /\ s.target = cli[c].target /\ s.inv = new /\ s.att = cli[c].att
                  /\ s.cus = cli[c].cus => View(c, s)
  PROVE  InOrder
<1> USE DEF records, world
<1>1. CASE Return(c)
  BY <1>1, ReturnView DEF CheckInvocation
<1>2. CASE ~Return(c)
  <2> DEFINE s == [cli[c] EXCEPT !.inv = new, !.pc = l]
  <2>1. cli' = [cli EXCEPT ![c] = s] /\ UNCHANGED <<records, world>>
    BY <1>2 DEF CheckInvocation
  <2>2. s.pc = l /\ s.target = cli[c].target /\ s.inv = new /\ s.att = cli[c].att
        /\ s.cus = cli[c].cus
    BY DEF Facts, TypeInv, Locals, ClientStates
  <2> HIDE DEF s
  <2> QED BY <2>1, <2>2, AdaptersStay, QuietView
<1> QED BY <1>1, <1>2

LEMMA CheckAttemptView ==
  ASSUME Facts, OneCommand, NEW c \in Clients, NEW ok \in BOOLEAN, NEW new, NEW l,
         CheckAttempt(c, ok, new, l),
         ok /\ LegalAttemptMove(attempt, new) =>
           \A s : s.pc = l /\ s.target = cli[c].target /\ s.inv = cli[c].inv /\ s.att = new
                    /\ s.cus = cli[c].cus => View(c, s)
  PROVE  InOrder
<1> USE DEF records, world
<1>1. CASE ~(ok /\ LegalAttemptMove(attempt, new))
  BY <1>1, ReturnView DEF CheckAttempt
<1>2. CASE ok /\ LegalAttemptMove(attempt, new)
  <2> DEFINE s == [cli[c] EXCEPT !.att = new, !.pc = l]
  <2>1. cli' = [cli EXCEPT ![c] = s] /\ UNCHANGED <<records, world>>
    BY <1>2 DEF CheckAttempt
  <2>2. s.pc = l /\ s.target = cli[c].target /\ s.inv = cli[c].inv /\ s.att = new
        /\ s.cus = cli[c].cus
    BY DEF Facts, TypeInv, Locals, ClientStates
  <2> HIDE DEF s
  <2> QED BY <1>2, <2>1, <2>2, AdaptersStay, QuietView
<1> QED BY <1>1, <1>2

\* The first step of each command knows what it has just read.
LEMMA ReadView ==
  ASSUME Facts, OneCommand, NEW c \in Clients, Read(c)
  PROVE  InOrder
<1> USE DEF records, world
<1>0. RecordTypes
  BY FactsTypes DEF Facts
<1>1. ASSUME NEW i \in Invocations, NEW l, NEW inv, Start(c, i, l, inv),
             UNCHANGED <<records, world>>,
             \A s : s.pc = l /\ s.target = i /\ s.inv = inv => View(c, s)
      PROVE  InOrder
  <2> DEFINE s == [pc |-> l, target |-> i, inv |-> inv, att |-> None, cus |-> NoCustody]
  <2>1. cli' = [cli EXCEPT ![c] = s] /\ s.pc = l /\ s.target = i /\ s.inv = inv
    BY <1>1 DEF Start
  <2> HIDE DEF s
  <2> QED BY <1>1, <2>1, AdaptersStay, QuietView
<1> USE DEF View, ViewWrites, ViewAttempt, ViewDispatch, ViewRecover, AttemptSaves, CopyHeld, Bound,
            InFlight, Unanswered, SavingPC, Recovering, Absent, CleanHeld, RunnerPC
<1>2. ASSUME NEW i \in Invocations, PrepareScan(c, i)
      PROVE  InOrder
  BY <1>1, <1>2 DEF PrepareScan
<1>3. ASSUME NEW i \in Invocations, RejectCheck(c, i)
      PROVE  InOrder
  BY <1>1, <1>3 DEF RejectCheck
<1>4. ASSUME NEW i \in Invocations, NEW k \in Controllers, AuthorizeCheck(c, i, k)
      PROVE  InOrder
  BY <1>1, <1>4 DEF AuthorizeCheck
<1>5. ASSUME NEW i \in Invocations, NEW k \in Controllers, CancelCheck(c, i, k)
      PROVE  InOrder
  <2>1. invocation[i].state \in {"AUTHORIZED", "UNCERTAIN"}
    BY <1>0, <1>5 DEF CancelCheck, InvocationNext, RecordTypes, InvocationRecords, InvocationStates
  <2> QED BY <1>1, <1>5, <2>1 DEF CancelCheck
<1>6. ASSUME NEW i \in Invocations, NEW k \in Controllers, Admit(c, i, k)
      PROVE  InOrder
  BY <1>1, <1>6 DEF Admit
<1>7. ASSUME NEW i \in Invocations, NEW k \in Controllers, RecoverRead(c, i, k)
      PROVE  InOrder
  <2> DEFINE s == [pc |-> "v_inspect", target |-> i, inv |-> invocation[i],
                   att |-> attempt, cus |-> NoCustody]
  <2>1. cli' = [cli EXCEPT ![c] = s] /\ UNCHANGED <<records, world>>
    BY <1>7 DEF RecoverRead
  <2>2. /\ s.pc = "v_inspect" /\ s.target = i /\ s.inv = invocation[i] /\ s.att = attempt
        /\ invocation[i].state \in {"DISPATCHING", "UNCERTAIN", "ABORTED"}
        /\ attempt.state = "RUNNING" \/ invocation[i].state = "ABORTED"
    BY <1>7 DEF RecoverRead
  <2> HIDE DEF s
  <2>3. View(c, s)
    BY <2>2
  <2> QED BY <2>1, <2>3, AdaptersStay, QuietView
<1>8. ASSUME NEW t \in AttemptStates, OperatorCheck(c, t)
      PROVE  InOrder
  <2> DEFINE d == IF t = "CANDIDATE" THEN Typed ELSE attempt.candidate
             new == [attempt EXCEPT !.state = t, !.candidate = d,
                       !.cleanup = IF t \in AttemptTerminal THEN "operator" ELSE @]
             s == [cli[c] EXCEPT !.pc = "save_operator", !.att = new]
  <2>1. /\ cli' = [cli EXCEPT ![c] = s] /\ UNCHANGED <<records, world>>
        /\ LegalAttemptMove(attempt, new) /\ t # "RUNNING"
        /\ ~(attempt.state = "READY" /\ t = "ABORTED")
    BY <1>8 DEF OperatorCheck
  <2>2. new.state = t /\ d \in {attempt.candidate, Typed}
    BY <1>0 DEF RecordTypes, AttemptRecords
  <2>3. attempt.state # "READY"
    BY <2>1, <2>2 DEF LegalAttemptMove, AttemptNext
  <2>4. \E u \in AttemptStates, e \in {attempt.candidate, Typed} :
          new = [attempt EXCEPT !.state = u, !.candidate = e,
                   !.cleanup = IF u \in AttemptTerminal THEN "operator" ELSE @]
    BY <2>2
  <2> HIDE DEF new
  <2>5. s.pc = "save_operator" /\ s.att = new
    BY DEF Facts, TypeInv, Locals, ClientStates
  <2> HIDE DEF s
  <2>6. View(c, s)
    BY <2>1, <2>3, <2>4, <2>5
  <2> QED BY <2>1, <2>6, AdaptersStay, QuietView
<1> QED BY <1>2, <1>3, <1>4, <1>5, <1>6, <1>7, <1>8 DEF Read

\* What the one command knows.
LEMMA Known ==
  ASSUME Facts, NEW c \in Clients
  PROVE  /\ View(c, cli[c]) /\ HeldEvidence(c, cli[c]) /\ RecordTypes
         /\ cli[c].pc \notin {"idle", "save_operator"} =>
              /\ cli[c].target \in Invocations
              /\ Inv(c) = cli[c].target /\ AgreementOf(cli[c].target)
BY HeldTypes, FactsTypes DEF Facts, EvidenceInv, AgreementInv, RecordsAgree, Inv

\* What suffices at each label of dispatch-invocation ...
LEMMA DispatchLabels ==
  ASSUME NEW c, NEW s, NEW v, v = invocation[s.target],
         \/ /\ s.pc = "save_running" /\ s.inv = v /\ v.state = "AUTHORIZED"
            /\ s.att = [attempt EXCEPT !.state = "RUNNING", !.runtime = s.target]
            /\ LegalAttemptMove(attempt, s.att)
         \/ s.pc = "d_dispatch" /\ s.inv = v /\ v.state = "AUTHORIZED" /\ RunningOn(s.target)
         \/ /\ s.pc = "save_dispatching" /\ s.inv = [v EXCEPT !.state = "DISPATCHING"]
            /\ v.state = "AUTHORIZED" /\ RunningOn(s.target)
         \/ /\ s.pc \in RunnerPC \cup {"a_accept", "a_result"} /\ s.inv = v
            /\ v.state = "DISPATCHING" /\ RunningOn(s.target) /\ result[s.target] = None
            /\ s.pc \in SavingPC => s.cus = custody[s.target]
         \/ s.pc = "a_complete" /\ s.inv = v /\ v.state = "DISPATCHING" /\ RunningOn(s.target)
         \/ /\ s.pc = "save_completed" /\ v.state = "DISPATCHING" /\ RunningOn(s.target)
            /\ s.inv = [v EXCEPT !.state = "COMPLETED", !.result = c]
         \/ s.pc = "a_attempt" /\ v.state = "COMPLETED" /\ v.result = c
         \/ /\ s.pc = "save_candidate" /\ v.state = "COMPLETED" /\ v.result = c
            /\ RunningOn(s.target)
            /\ s.att = [attempt EXCEPT !.state = "CANDIDATE", !.candidate = c]
            /\ LegalAttemptMove(attempt, s.att)
  PROVE  View(c, s)
BY DEF View, ViewWrites, ViewAttempt, ViewDispatch, ViewRecover, AttemptSaves, CopyHeld, Bound,
       InFlight, Unanswered, SavingPC, Recovering, Absent, CleanHeld, RunnerPC

\* ... and of recover-invocation.
LEMMA RecoverLabels ==
  ASSUME NEW c, NEW s, NEW v, v = invocation[s.target],
         s.att = attempt, v.state \in {"DISPATCHING", "UNCERTAIN", "ABORTED"},
         attempt.state = "RUNNING" \/ v.state = "ABORTED",
         result[s.target] = None, workspace = "clean",
         \/ s.pc = "v_custody" /\ s.inv = v
         \/ /\ s.pc \in {"v_absent", "v_uncertain"} /\ s.inv = v /\ ClaimsDead(custody[s.target])
            /\ s.pc = "v_absent" => s.cus = custody[s.target]
         \/ /\ s.pc = "save_uncertain" /\ v.state = "DISPATCHING" /\ ClaimsDead(custody[s.target])
            /\ s.inv = [v EXCEPT !.state = "UNCERTAIN"]
         \/ s.pc = "v_abort" /\ s.inv = v /\ ClaimsDead(custody[s.target]) /\ v.state # "DISPATCHING"
         \/ /\ s.pc = "save_aborted" /\ v.state = "UNCERTAIN" /\ ClaimsDead(custody[s.target])
            /\ s.inv = [v EXCEPT !.state = "ABORTED"]
         \/ /\ s.pc = "v_attempt" /\ s.inv = v /\ custody[s.target].state = "ABSENCE_VERIFIED"
            /\ v.state = "ABORTED"
  PROVE  View(c, s)
<1>1. custody[s.target].state = "ABSENCE_VERIFIED" => ClaimsDead(custody[s.target])
  BY DEF ClaimsDead
<1> QED
  BY <1>1
  DEF View, ViewWrites, ViewAttempt, ViewDispatch, ViewRecover, AttemptSaves, CopyHeld, Bound,
      InFlight, Unanswered, SavingPC, Recovering, Absent, CleanHeld, RunnerPC

\* What the command knows at each label of dispatch-invocation ...
LEMMA DispatchKnown ==
  ASSUME Facts, NEW c \in Clients, NEW v, v = invocation[cli[c].target]
  PROVE  /\ cli[c].pc \in {"d_bind", "d_dispatch"} => cli[c].inv = v /\ v.state = "AUTHORIZED"
         /\ cli[c].pc = "d_dispatch" => RunningOn(cli[c].target)
         /\ cli[c].pc \in RunnerPC \cup {"a_accept", "a_result", "a_complete"} =>
              cli[c].inv = v /\ v.state = "DISPATCHING" /\ RunningOn(cli[c].target)
         /\ cli[c].pc \in RunnerPC \cup {"a_accept", "a_result"} => result[cli[c].target] = None
         /\ cli[c].pc \in SavingPC => cli[c].cus = custody[cli[c].target]
         /\ cli[c].pc = "a_attempt" => v.state = "COMPLETED" /\ v.result = c
BY Known DEF View, ViewDispatch, CopyHeld, Bound, InFlight, Unanswered, RunnerPC

\* ... and of recover-invocation.
LEMMA RecoverKnown ==
  ASSUME Facts, NEW c \in Clients, NEW v, v = invocation[cli[c].target],
         cli[c].pc \in Recovering
  PROVE  /\ cli[c].pc \in {"v_inspect", "v_custody", "v_absent", "v_uncertain", "v_abort",
                           "v_attempt"} => cli[c].inv = v
         /\ cli[c].att = attempt /\ v.state \in {"DISPATCHING", "UNCERTAIN", "ABORTED"}
         /\ attempt.state = "RUNNING" \/ v.state = "ABORTED"
         /\ attempt.runtime = cli[c].target /\ attempt.candidate = None
         /\ cli[c].pc # "v_inspect" => result[cli[c].target] = None
         /\ cli[c].pc = "v_custody" => (ClaimsDead(custody[cli[c].target]) => workspace = "clean")
         /\ cli[c].pc \in {"v_absent"} \cup Absent =>
              ClaimsDead(custody[cli[c].target]) /\ workspace = "clean"
         /\ cli[c].pc = "v_absent" => cli[c].cus = custody[cli[c].target] /\ cli[c].cus.sent
         /\ cli[c].pc \in Absent =>
              custody[cli[c].target].state = "ABSENCE_VERIFIED" /\ custody[cli[c].target].sent
         /\ cli[c].pc = "v_abort" => v.state # "DISPATCHING"
         /\ cli[c].pc = "v_attempt" => v.state = "ABORTED"
<1>1. View(c, cli[c]) /\ HeldEvidence(c, cli[c])
  BY Known
<1>2. cli[c].att = attempt
  BY <1>1 DEF View, ViewRecover
<1>3. attempt.runtime = cli[c].target /\ attempt.candidate = None
  BY <1>1, <1>2 DEF HeldEvidence
<1>4. cli[c].pc \in Absent => custody[cli[c].target].state = "ABSENCE_VERIFIED" /\ custody[cli[c].target].sent
  BY <1>1 DEF HeldEvidence
<1> QED BY <1>1, <1>2, <1>3, <1>4
        DEF View, ViewDispatch, ViewRecover, HeldEvidence, CopyHeld, Recovering, Absent, CleanHeld,
            SavingPC

\* The checks of dispatch-invocation around the runner.
LEMMA DispatchView ==
  ASSUME Facts, OneCommand, NEW c \in Clients,
         BindCheck(c) \/ DispatchCheck(c) \/ Accept(c) \/ CompleteCheck(c) \/ CandidateCheck(c)
  PROVE  InOrder
<1> USE DEF At
<1> DEFINE v == invocation[cli[c].target]
<1>1. CASE BindCheck(c)
  <2>1. v.state = "AUTHORIZED" /\ cli[c].inv = v /\ Inv(c) = cli[c].target
    BY <1>1, DispatchKnown DEF BindCheck, Inv
  <2> DEFINE ok == invocation[Inv(c)].state = "AUTHORIZED"
             new == [attempt EXCEPT !.state = "RUNNING", !.runtime = Inv(c)]
  <2>2. CheckAttempt(c, ok, new, "save_running") /\ ok \in BOOLEAN
    BY <1>1 DEF BindCheck
  <2>3. LegalAttemptMove(attempt, new) =>
          \A s : s.pc = "save_running" /\ s.target = cli[c].target /\ s.inv = cli[c].inv
                 /\ s.att = new /\ s.cus = cli[c].cus => View(c, s)
    <3> SUFFICES ASSUME LegalAttemptMove(attempt, new), NEW s, s.pc = "save_running",
                        s.target = cli[c].target, s.inv = cli[c].inv, s.att = new
                 PROVE  View(c, s)
      OBVIOUS
    <3>1. s.att = [attempt EXCEPT !.state = "RUNNING", !.runtime = s.target]
      BY <2>1, Zenon
    <3>2. LegalAttemptMove(attempt, s.att) /\ s.inv = invocation[s.target]
          /\ invocation[s.target].state = "AUTHORIZED"
      BY <2>1
    <3> QED BY <3>1, <3>2, DispatchLabels
  <2> HIDE DEF ok, new
  <2> QED BY <2>2, <2>3, CheckAttemptView, Zenon
<1>2. CASE DispatchCheck(c)
  <2>1. v.state = "AUTHORIZED" /\ cli[c].inv = v /\ RunningOn(cli[c].target)
    BY <1>2, DispatchKnown DEF DispatchCheck
  <2> DEFINE new == [cli[c].inv EXCEPT !.state = "DISPATCHING"]
  <2>2. \A s : s.pc = "save_dispatching" /\ s.target = cli[c].target
               /\ s.inv = new => View(c, s)
    <3> SUFFICES ASSUME NEW s, s.pc = "save_dispatching", s.target = cli[c].target, s.inv = new
                 PROVE  View(c, s)
      OBVIOUS
    <3>1. s.inv = [invocation[s.target] EXCEPT !.state = "DISPATCHING"]
      BY <2>1, Zenon
    <3>2. invocation[s.target].state = "AUTHORIZED" /\ RunningOn(s.target)
      BY <2>1
    <3> QED BY <3>1, <3>2, DispatchLabels
  <2>3. CheckInvocation(c, new, "save_dispatching")
    BY <1>2 DEF DispatchCheck
  <2> HIDE DEF new
  <2> QED BY <2>2, <2>3, CheckInvocationView
<1>3. CASE Accept(c)
  <2>1. /\ v.state = "DISPATCHING" /\ cli[c].inv = v /\ RunningOn(cli[c].target)
        /\ result[cli[c].target] = None
    BY <1>3, DispatchKnown DEF Accept
  <2>2. \A s : s.pc = "a_result" /\ s.target = cli[c].target /\ s.inv = cli[c].inv => View(c, s)
    BY <2>1, DispatchLabels DEF SavingPC
  <2>3. UNCHANGED <<attempt, invocation, custody, result, workspace, adapter>>
    BY <1>3 DEF Accept, records, world
  <2>4. CASE Return(c)
    BY <2>3, <2>4, ReturnView
  <2>5. CASE Goto(c, "a_result")
    BY <2>2, <2>3, <2>5, AdaptersStay, GotoView
  <2> QED BY <1>3, <2>4, <2>5 DEF Accept
<1>4. CASE CompleteCheck(c)
  <2>1. /\ v.state = "DISPATCHING" /\ cli[c].inv = v /\ RunningOn(cli[c].target)
    BY <1>4, DispatchKnown DEF CompleteCheck
  <2> DEFINE new == [cli[c].inv EXCEPT !.state = "COMPLETED", !.result = c]
  <2>2. \A s : s.pc = "save_completed" /\ s.target = cli[c].target /\ s.inv = new => View(c, s)
    <3> SUFFICES ASSUME NEW s, s.pc = "save_completed", s.target = cli[c].target, s.inv = new
                 PROVE  View(c, s)
      OBVIOUS
    <3>1. s.inv = [invocation[s.target] EXCEPT !.state = "COMPLETED", !.result = c]
      BY <2>1, Zenon
    <3>2. invocation[s.target].state = "DISPATCHING" /\ RunningOn(s.target)
      BY <2>1
    <3> QED BY <3>1, <3>2, DispatchLabels
  <2>3. CheckInvocation(c, new, "save_completed")
    BY <1>4 DEF CompleteCheck
  <2> HIDE DEF new
  <2> QED BY <2>2, <2>3, CheckInvocationView
<1>5. CASE CandidateCheck(c)
  <2>1. v.state = "COMPLETED" /\ v.result = c /\ Inv(c) = cli[c].target
    BY <1>5, DispatchKnown DEF CandidateCheck, Inv
  <2> DEFINE ok == /\ attempt.state = "RUNNING"
                   /\ attempt.runtime = Inv(c) /\ attempt.candidate = None
             new == [attempt EXCEPT !.state = "CANDIDATE", !.candidate = c]
  <2>2. CheckAttempt(c, ok, new, "save_candidate") /\ ok \in BOOLEAN
    BY <1>5 DEF CandidateCheck
  <2>3. ok /\ LegalAttemptMove(attempt, new) =>
          \A s : s.pc = "save_candidate" /\ s.target = cli[c].target /\ s.inv = cli[c].inv
                 /\ s.att = new /\ s.cus = cli[c].cus => View(c, s)
    <3> SUFFICES ASSUME ok, LegalAttemptMove(attempt, new), NEW s, s.pc = "save_candidate",
                        s.target = cli[c].target, s.att = new
                 PROVE  View(c, s)
      OBVIOUS
    <3>1. s.att = [attempt EXCEPT !.state = "CANDIDATE", !.candidate = c]
      BY Zenon
    <3>2. /\ LegalAttemptMove(attempt, s.att) /\ RunningOn(s.target)
          /\ invocation[s.target].state = "COMPLETED" /\ invocation[s.target].result = c
      BY <2>1 DEF RunningOn
    <3> QED BY <3>1, <3>2, DispatchLabels
  <2> HIDE DEF ok, new
  <2> QED BY <2>2, <2>3, CheckAttemptView, Zenon
<1> QED BY <1>1, <1>2, <1>3, <1>4, <1>5

\* The runner's steps that write no record.
LEMMA RunnerView ==
  ASSUME Facts, OneCommand, NEW c \in Clients,
         CustodyCheck(c) \/ Launch(c) \/ Assign(c) \/ Send(c) \/ Timeout(c)
  PROVE  InOrder
<1> USE DEF At, records
<1> DEFINE t == cli[c].target
<1>0. /\ cli[c].pc \in RunnerPC /\ cli[c].pc # "idle" /\ cli[c].pc # "save_operator"
      /\ CustodyCheck(c) \/ cli[c].pc \in SavingPC
  BY DEF RunnerPC, SavingPC, CustodyCheck, Launch, Assign, Send, Unread, Timeout
<1>1. /\ invocation[t].state = "DISPATCHING" /\ cli[c].inv = invocation[t] /\ RunningOn(t)
      /\ result[t] = None /\ t \in Invocations /\ Inv(c) = t
      /\ CustodyCheck(c) \/ cli[c].cus = custody[t]
  BY <1>0, Known, DispatchKnown
<1>2. ASSUME NEW l \in {"r_make", "r_assign", "r_record", "r_wait", "r_late"},
             l = "r_make" \/ cli[c].cus = custody[t]
      PROVE  \A s : s.pc = l /\ s.target = cli[c].target /\ s.inv = cli[c].inv
                    /\ s.cus = cli[c].cus => View(c, s)
  <2> SUFFICES ASSUME NEW s, s.pc = l, s.target = cli[c].target, s.inv = cli[c].inv,
                      s.cus = cli[c].cus
               PROVE  View(c, s)
    OBVIOUS
  <2>1. s.pc \in RunnerPC /\ (s.pc \in SavingPC => s.cus = custody[s.target])
    BY <1>2 DEF RunnerPC, SavingPC
  <2> QED BY <1>1, <2>1, DispatchLabels
<1>3. /\ \A i \in Invocations, d \in Clients :
           adapter[i][d] # "none" => invocation[i].state # "MISSING"
      /\ adapter \in [Invocations -> [Clients -> AdapterStates]]
  BY DEF Facts, AgreementInv, WorldAgrees, TypeInv, DataOK
<1>4. CASE CustodyCheck(c)
  <2>1. UNCHANGED <<attempt, invocation, custody, result, workspace, adapter>>
    BY <1>4 DEF CustodyCheck, world
  <2>2. \A s : s.pc = "r_make" /\ s.target = cli[c].target /\ s.inv = cli[c].inv
                /\ s.cus = cli[c].cus => View(c, s)
    BY <1>2
  <2>3. CASE Goto(c, "r_make")
    BY <2>1, <2>2, <2>3, AdaptersStay, GotoView
  <2>4. CASE Return(c)
    BY <2>1, <2>4, ReturnView
  <2> QED BY <1>4, <2>3, <2>4 DEF CustodyCheck
<1>5. CASE Launch(c) \/ Assign(c) \/ Send(c) \/ Timeout(c)
  <2>0. cli[c].cus = custody[t]
    BY <1>1, <1>5 DEF CustodyCheck, Launch, Assign, Send, Unread, Timeout
  <2>1. PICK l, a :
          /\ l \in {"r_assign", "r_record", "r_wait", "r_late"} /\ Goto(c, l)
          /\ adapter' = [adapter EXCEPT ![t][c] = a]
          /\ UNCHANGED <<attempt, invocation, custody, result, workspace>>
    BY <1>1, <1>5 DEF Launch, Assign, Send, Unread, Timeout
  <2>2. \A i \in Invocations, d \in Clients :
          adapter'[i][d] # "none" => invocation[i].state # "MISSING"
    BY <1>1, <1>3, <2>1
  <2>3. \A s : s.pc = l /\ s.target = cli[c].target /\ s.inv = cli[c].inv
                /\ s.cus = cli[c].cus => View(c, s)
    BY <1>2, <2>0, <2>1
  <2> QED BY <2>1, <2>2, <2>3, GotoView
<1> QED BY <1>4, <1>5

\* recover-invocation's reads and checks.
LEMMA RecoverView ==
  ASSUME Facts, OneCommand, NEW c \in Clients,
         RecoverInspect(c) \/ RecoverCustody(c) \/ RecoverUncertain(c) \/ RecoverAbort(c)
         \/ RecoverAttempt(c)
  PROVE  InOrder
<1> USE DEF At, records, world
<1> DEFINE t == cli[c].target
           v == invocation[t]
<1>0. cli[c].pc \in Recovering /\ cli[c].pc # "idle" /\ cli[c].pc # "save_operator"
  BY DEF Recovering, Absent, RecoverInspect, RecoverCustody, RecoverUncertain, RecoverAbort,
         RecoverAttempt
<1>1. /\ t \in Invocations /\ Inv(c) = t
      /\ cli[c].att = attempt /\ v.state \in {"DISPATCHING", "UNCERTAIN", "ABORTED"}
      /\ attempt.state = "RUNNING" \/ v.state = "ABORTED"
      /\ attempt.runtime = t /\ attempt.candidate = None
  BY <1>0, Known, RecoverKnown
<1>2. ASSUME NEW s, s.target = t, s.att = cli[c].att, result[t] = None, workspace = "clean",
             \/ s.pc = "v_custody" /\ s.inv = v
             \/ /\ s.pc \in {"v_absent", "v_uncertain"} /\ s.inv = v /\ ClaimsDead(custody[t])
                /\ s.pc = "v_absent" => s.cus = custody[t]
             \/ s.pc = "save_uncertain" /\ v.state = "DISPATCHING" /\ ClaimsDead(custody[t])
                /\ s.inv = [v EXCEPT !.state = "UNCERTAIN"]
             \/ s.pc = "v_abort" /\ s.inv = v /\ ClaimsDead(custody[t]) /\ v.state # "DISPATCHING"
             \/ /\ s.pc = "save_aborted" /\ v.state = "UNCERTAIN" /\ ClaimsDead(custody[t])
                /\ s.inv = [v EXCEPT !.state = "ABORTED"]
             \/ /\ s.pc = "v_attempt" /\ s.inv = v /\ custody[t].state = "ABSENCE_VERIFIED"
                /\ v.state = "ABORTED"
      PROVE  View(c, s)
  <2>1. v = invocation[s.target] /\ result[s.target] = None /\ custody[t] = custody[s.target]
    BY <1>2
  <2>2. s.att = attempt
    BY <1>1, <1>2
  <2> HIDE DEF v
  <2> QED BY <1>1, <1>2, <2>1, <2>2, RecoverLabels
<1>3. CASE RecoverInspect(c)
  <2>1. cli[c].inv = v /\ cli[c].pc = "v_inspect"
    BY <1>0, <1>3, RecoverKnown DEF RecoverInspect
  <2>2. CASE Return(c)
    BY <1>3, <2>2, ReturnView DEF RecoverInspect
  <2>3. CASE ~Return(c)
    <3>1. Goto(c, "v_custody") /\ result[t] = None /\ workspace = "clean"
      BY <1>1, <1>3, <2>3 DEF RecoverInspect
    <3>2. \A s : s.pc = "v_custody" /\ s.target = t /\ s.inv = cli[c].inv
                 /\ s.att = cli[c].att => View(c, s)
      BY <1>2, <2>1, <3>1
    <3>3. UNCHANGED <<attempt, invocation, custody, result, workspace, adapter>>
      BY <1>3 DEF RecoverInspect
    <3> QED BY <3>1, <3>2, <3>3, AdaptersStay, GotoView
  <2> QED BY <2>2, <2>3
<1>4. CASE RecoverCustody(c)
  <2> DEFINE r == custody[t]
             l == IF r.state = "TERMINATED" THEN "v_absent" ELSE "v_uncertain"
             s == [cli[c] EXCEPT !.cus = r, !.pc = l]
  <2>1. UNCHANGED <<attempt, invocation, custody, result, workspace, adapter>>
    BY <1>4 DEF RecoverCustody
  <2>2. /\ cli[c].inv = v /\ result[t] = None
        /\ ClaimsDead(r) => workspace = "clean"
    BY <1>0, <1>4, RecoverKnown DEF RecoverCustody
  <2>3. CASE Return(c)
    BY <2>1, <2>3, ReturnView
  <2>4. CASE ~Return(c)
    <3>1. /\ cli' = [cli EXCEPT ![c].cus = r, ![c].pc = l]
          /\ (r.state = "TERMINATED" /\ r.active = "zero") \/ r.state = "ABSENCE_VERIFIED"
      BY <1>1, <1>4, <2>4 DEF RecoverCustody, ProvableAbsence
    <3>2. cli' = [cli EXCEPT ![c] = s]
      BY <3>1 DEF Facts, TypeInv, Locals
    <3>3. /\ s.pc = l /\ s.target = t /\ s.inv = cli[c].inv /\ s.att = cli[c].att /\ s.cus = r
      BY DEF Facts, TypeInv, Locals, ClientStates
    <3>4. ClaimsDead(r) /\ workspace = "clean"
      BY <2>2, <3>1 DEF ClaimsDead
    <3> HIDE DEF s
    <3>5. View(c, s)
      BY <1>2, <2>2, <3>1, <3>3, <3>4
    <3> QED BY <2>1, <3>2, <3>5, AdaptersStay, QuietView
  <2> QED BY <2>3, <2>4
<1>5. CASE RecoverUncertain(c)
  <2>1. ClaimsDead(custody[t]) /\ workspace = "clean" /\ result[t] = None /\ cli[c].inv = v
    BY <1>0, <1>5, RecoverKnown DEF RecoverUncertain, Absent
  <2>2. CASE v.state = "DISPATCHING"
    <3> DEFINE new == [cli[c].inv EXCEPT !.state = "UNCERTAIN"]
    <3>0. new = [v EXCEPT !.state = "UNCERTAIN"]
      BY <2>1, Zenon
    <3>1. CheckInvocation(c, new, "save_uncertain")
      BY <1>5, <2>1, <2>2 DEF RecoverUncertain
    <3> HIDE DEF new
    <3>2. \A s : s.pc = "save_uncertain" /\ s.target = t /\ s.inv = new
                 /\ s.att = cli[c].att => View(c, s)
      BY <1>2, <2>1, <2>2, <3>0
    <3> QED BY <3>1, <3>2, CheckInvocationView
  <2>3. CASE v.state # "DISPATCHING"
    <3>1. \A s : s.pc = "v_abort" /\ s.target = t /\ s.inv = cli[c].inv
                 /\ s.att = cli[c].att => View(c, s)
      BY <1>2, <2>1, <2>3
    <3> QED BY <1>5, <2>1, <2>3, <3>1, AdaptersStay, GotoView DEF RecoverUncertain
  <2> QED BY <2>2, <2>3
<1>6. CASE RecoverAbort(c)
  <2>1. /\ ClaimsDead(custody[t]) /\ workspace = "clean" /\ result[t] = None /\ cli[c].inv = v
        /\ custody[t].state = "ABSENCE_VERIFIED" /\ v.state # "DISPATCHING"
    BY <1>0, <1>6, RecoverKnown DEF RecoverAbort, Absent
  <2>2. CASE v.state = "UNCERTAIN"
    <3> DEFINE new == [cli[c].inv EXCEPT !.state = "ABORTED"]
    <3>0. new = [v EXCEPT !.state = "ABORTED"]
      BY <2>1, Zenon
    <3>1. CheckInvocation(c, new, "save_aborted")
      BY <1>6, <2>1, <2>2 DEF RecoverAbort
    <3> HIDE DEF new
    <3>2. \A s : s.pc = "save_aborted" /\ s.target = t /\ s.inv = new
                 /\ s.att = cli[c].att => View(c, s)
      BY <1>2, <2>1, <2>2, <3>0
    <3> QED BY <3>1, <3>2, CheckInvocationView
  <2>3. CASE v.state # "UNCERTAIN"
    <3>1. \A s : s.pc = "v_attempt" /\ s.target = t /\ s.inv = cli[c].inv
                 /\ s.att = cli[c].att => View(c, s)
      BY <1>1, <1>2, <2>1, <2>3
    <3> QED BY <1>6, <2>1, <2>3, <3>1, AdaptersStay, GotoView DEF RecoverAbort
  <2> QED BY <2>2, <2>3
<1>7. CASE RecoverAttempt(c)
  <2>1. /\ ClaimsDead(custody[t]) /\ workspace = "clean" /\ result[t] = None
        /\ custody[t].state = "ABSENCE_VERIFIED" /\ v.state = "ABORTED"
    BY <1>0, <1>7, RecoverKnown DEF RecoverAttempt, Absent
  <2>2. CASE attempt.state = "RUNNING"
    <3> DEFINE new == [cli[c].att EXCEPT !.state = "ABORTED", !.cleanup = RecoveryOutcome]
    <3>0. new = [attempt EXCEPT !.state = "ABORTED", !.cleanup = RecoveryOutcome]
      BY <1>1, Zenon
    <3>1. CheckAttempt(c, TRUE, new, "save_recovered")
      BY <1>1, <1>7, <2>2 DEF RecoverAttempt
    <3> HIDE DEF new
    <3>2. RunningOn(t)
      BY <1>1, <2>2 DEF RunningOn
    <3>3. LegalAttemptMove(attempt, new) =>
            \A s : s.pc = "save_recovered" /\ s.target = t /\ s.att = new => View(c, s)
      BY <2>1, <3>0, <3>2
      DEF View, ViewWrites, ViewAttempt, ViewDispatch, ViewRecover, AttemptSaves, CopyHeld, Bound,
          InFlight, Unanswered, SavingPC, Recovering, Absent, CleanHeld, RunnerPC
    <3> QED BY <3>1, <3>3, CheckAttemptView
  <2>3. CASE attempt.state # "RUNNING"
    BY <1>1, <1>7, <2>3, ReturnView DEF RecoverAttempt
  <2> QED BY <2>2, <2>3
<1> QED BY <1>3, <1>4, <1>5, <1>6, <1>7

\* An idle command knows nothing.
LEMMA IdleView ==
  ASSUME NEW c, cli'[c].pc = "idle"
  PROVE  View(c, cli[c])'
BY DEF View, ViewWrites, ViewAttempt, ViewDispatch, ViewRecover, AttemptSaves, CopyHeld, Bound,
       InFlight, Unanswered, SavingPC, Recovering, Absent, CleanHeld, RunnerPC

\* A step of the contract, when the command's view and the world follow it.
LEMMA MovedView ==
  ASSUME Facts, OneCommand, NEW c \in Clients, Contract!Next, WorldAgrees', View(c, cli[c])'
  PROVE  InOrder
<1>1. RecordsAgree'
  BY FactsTypes, ContractAgrees DEF Facts, AgreementInv
<1>2. \A d \in Clients : View(d, cli[d])'
  BY DEF OneCommand
<1> QED BY <1>1, <1>2 DEF InOrder, AgreementInv

\* The write of a checked invocation record is the contract's move.
LEMMA InvocationMoves ==
  ASSUME Facts, NEW c \in Clients, CommitInvocation(c)
  PROVE  /\ Contract!Next
         /\ LegalInvocationMove(invocation[cli[c].target], cli[c].inv)
<1> DEFINE t == cli[c].target
           v == invocation[t]
           new == cli[c].inv
<1> USE ContractTerms
<1>1. /\ invocation' = [invocation EXCEPT ![t] = new]
      /\ UNCHANGED <<attempt, custody, result>>
      /\ cli[c].pc \in {"save_prepared", "save_authorized", "save_rejected", "save_cancelled",
                        "save_dispatching", "save_completed", "save_uncertain", "save_aborted"}
  BY DEF CommitInvocation, AfterInvocation, Inv, world
<1>2. View(c, cli[c]) /\ HeldEvidence(c, cli[c]) /\ RecordTypes /\ t \in Invocations /\ AgreementOf(t)
  BY <1>1, Known
<1>3. v \in InvocationRecords /\ v.state \in InvocationStates
  BY <1>2 DEF RecordTypes, InvocationRecords
<1>4. v.state # "COMPLETED" => v.result = None
  BY <1>2 DEF AgreementOf
<1>5. SUFFICES ASSUME LegalInvocationMove(v, new) => Contract!InvocationBecomes(t, new)
               PROVE  Contract!Next /\ LegalInvocationMove(v, new)
  BY <1>1 DEF Contract!InvocationBecomes
<1>6. CASE cli[c].pc = "save_prepared"
  <2>1. /\ attempt.state = "READY" /\ \A j \in Invocations : invocation[j].state = "MISSING"
        /\ new = [NoInvocation EXCEPT !.state = "PREPARED"]
    BY <1>2, <1>6 DEF View, ViewWrites
  <2>2. LegalInvocationMove(v, new)
    BY <1>2, <2>1 DEF LegalInvocationMove, InvocationNext, NoInvocation, AgreementOf
  <2>3. Contract!Prepare(t)
    BY <1>2, <1>5, <2>1, <2>2, Zenon DEF Contract!Prepare
  <2> QED BY <1>2, <2>2, <2>3 DEF Contract!Next
<1>7. CASE cli[c].pc \in {"save_authorized", "save_rejected", "save_cancelled", "save_aborted"}
  <2>1. \/ \E k \in Controllers : new = [v EXCEPT !.state = "AUTHORIZED", !.by = k]
        \/ new = [v EXCEPT !.state = "REJECTED"]
        \/ new = [v EXCEPT !.state = "ABORTED"]
    BY <1>2, <1>7, Zenon DEF View, ViewWrites
  <2>2. LegalInvocationMove(v, new)
    <3>1. /\ cli[c].pc = "save_authorized" =>
               v.state = "PREPARED" /\ \E k \in Controllers : new = [v EXCEPT !.state = "AUTHORIZED", !.by = k]
          /\ cli[c].pc = "save_rejected" => v.state = "PREPARED" /\ new = [v EXCEPT !.state = "REJECTED"]
          /\ cli[c].pc = "save_cancelled" =>
               v.state \in {"AUTHORIZED", "UNCERTAIN"} /\ new = [v EXCEPT !.state = "ABORTED"]
          /\ cli[c].pc = "save_aborted" => v.state = "UNCERTAIN" /\ new = [v EXCEPT !.state = "ABORTED"]
      BY <1>2, <1>7 DEF View, ViewWrites
    <3>2. CASE cli[c].pc = "save_authorized"
      <4>1. PICK k \in Controllers : new = [v EXCEPT !.state = "AUTHORIZED", !.by = k]
        BY <3>1, <3>2
      <4>2. new.state = "AUTHORIZED" /\ new.by = k /\ new.result = v.result
        BY <1>3, <4>1 DEF InvocationRecords
      <4>3. v.state = "PREPARED" /\ k # None
        BY <3>1, <3>2, DispatchAssumption
      <4> QED BY <1>4, <4>2, <4>3 DEF LegalInvocationMove, InvocationNext
    <3>3. CASE cli[c].pc = "save_rejected"
      BY <1>3, <1>4, <3>1, <3>3 DEF LegalInvocationMove, InvocationNext, InvocationRecords
    <3>4. CASE cli[c].pc = "save_cancelled"
      BY <1>3, <1>4, <3>1, <3>4 DEF LegalInvocationMove, InvocationNext, InvocationRecords
    <3>5. CASE cli[c].pc = "save_aborted"
      BY <1>3, <1>4, <3>1, <3>5 DEF LegalInvocationMove, InvocationNext, InvocationRecords
    <3> QED BY <1>7, <3>2, <3>3, <3>4, <3>5
  <2>3. Contract!Decide(t)
    BY <1>5, <2>1, <2>2, Zenon DEF Contract!Decide
  <2> QED BY <1>2, <2>2, <2>3 DEF Contract!Next
<1>8. CASE cli[c].pc = "save_dispatching"
  <2>1. new = [v EXCEPT !.state = "DISPATCHING"] /\ v.state = "AUTHORIZED" /\ RunningOn(t)
    BY <1>2, <1>8 DEF View, ViewWrites, ViewDispatch, Bound
  <2>2. LegalInvocationMove(v, new)
    BY <1>3, <1>4, <2>1 DEF LegalInvocationMove, InvocationNext, InvocationRecords
  <2>3. custody[t].state = "MISSING"
    BY <1>2, <2>1 DEF AgreementOf
  <2>4. Contract!Dispatched(t)
    BY <1>5, <2>1, <2>2, <2>3, Zenon DEF Contract!Dispatched
  <2> QED BY <1>2, <2>2, <2>4 DEF Contract!Next
<1>9. CASE cli[c].pc = "save_completed"
  <2>1. new = [v EXCEPT !.state = "COMPLETED", !.result = c] /\ v.state = "DISPATCHING"
        /\ RunningOn(t) /\ result[t] = c
    BY <1>2, <1>9
    DEF View, ViewWrites, ViewDispatch, Bound, InFlight, HeldEvidence, Stored
  <2>2. LegalInvocationMove(v, new)
    BY <1>3, <2>1, DispatchAssumption DEF LegalInvocationMove, InvocationNext, InvocationRecords
  <2>3. new = [v EXCEPT !.state = "COMPLETED", !.result = result[t]] /\ result[t] # None
    BY <2>1, DispatchAssumption, Zenon
  <2>4. Contract!Complete(t)
    BY <1>5, <2>1, <2>2, <2>3, Zenon DEF Contract!Complete
  <2> QED BY <1>2, <2>2, <2>4 DEF Contract!Next
<1>10. CASE cli[c].pc = "save_uncertain"
  <2>1. new = [v EXCEPT !.state = "UNCERTAIN"] /\ v.state = "DISPATCHING"
    BY <1>2, <1>10 DEF View, ViewWrites
  <2>2. /\ attempt.state = "RUNNING" /\ attempt.runtime = t /\ attempt.candidate = None
        /\ result[t] = None /\ custody[t].state = "ABSENCE_VERIFIED" /\ custody[t].sent
    BY <1>10, <2>1, RecoverKnown DEF Recovering, Absent
  <2>3. LegalInvocationMove(v, new)
    BY <1>3, <1>4, <2>1 DEF LegalInvocationMove, InvocationNext, InvocationRecords
  <2>4. Contract!Doubt(t)
    BY <1>5, <2>1, <2>2, <2>3 DEF Contract!Doubt, RunningOn
  <2> QED BY <1>2, <2>3, <2>4 DEF Contract!Next
<1> QED BY <1>1, <1>6, <1>7, <1>8, <1>9, <1>10

\* Writing it keeps what the command knows at its next label.
LEMMA InvocationView ==
  ASSUME Facts, OneCommand, NEW c \in Clients, CommitInvocation(c)
  PROVE  InOrder
<1> DEFINE t == cli[c].target
           new == cli[c].inv
<1>1. /\ invocation' = [invocation EXCEPT ![t] = new]
      /\ UNCHANGED <<attempt, custody, result, workspace, adapter>>
      /\ cli[c].pc \in {"save_prepared", "save_authorized", "save_rejected", "save_cancelled",
                        "save_dispatching", "save_completed", "save_uncertain", "save_aborted"}
  BY DEF CommitInvocation, AfterInvocation, Inv, world
<1>2. View(c, cli[c]) /\ RecordTypes /\ t \in Invocations /\ AgreementOf(t)
  BY <1>1, Known
<1>3. Contract!Next /\ LegalInvocationMove(invocation[t], new)
  BY InvocationMoves
<1>4. /\ invocation'[t] = new /\ new.state # "MISSING"
      /\ \A j \in Invocations : j # t => invocation'[j] = invocation[j]
  BY <1>1, <1>2, <1>3
  DEF RecordTypes, LegalInvocationMove, InvocationNext, InvocationRecords, InvocationStates
<1>5. WorldAgrees'
  BY <1>1, <1>4 DEF Facts, AgreementInv, WorldAgrees
<1>6. CASE cli[c].pc \in {"save_prepared", "save_authorized", "save_rejected", "save_cancelled"}
  <2>1. cli'[c].pc = "idle"
    BY <1>6 DEF CommitInvocation, AfterInvocation, Continue, Return, IdleClient, Facts, TypeInv, Locals
  <2> QED BY <1>3, <1>5, <2>1, IdleView, MovedView
<1> DEFINE l == AfterInvocation[cli[c].pc]
<1>7. CASE cli[c].pc \in {"save_dispatching", "save_completed", "save_uncertain", "save_aborted"}
  <2>0. Goto(c, l)
    BY <1>7 DEF CommitInvocation, AfterInvocation, Continue
  <2>1. /\ cli'[c].pc = l /\ cli'[c].target = t /\ cli'[c].inv = new
        /\ cli'[c].att = cli[c].att
    BY <2>0 DEF Goto, Facts, TypeInv, Locals, ClientStates
  <2>2. CASE cli[c].pc = "save_dispatching"
    <3>1. /\ invocation[t].state = "AUTHORIZED" /\ RunningOn(t)
          /\ new = [invocation[t] EXCEPT !.state = "DISPATCHING"]
      BY <1>2, <2>2 DEF View, ViewWrites, ViewDispatch, Bound
    <3>2. new.state = "DISPATCHING" /\ result[t] = None /\ cli'[c].pc = "r_create"
      BY <1>2, <2>1, <2>2, <3>1 DEF AgreementOf, RecordTypes, InvocationRecords, AfterInvocation
    <3>3. ViewDispatch(c, cli[c])'
      <4>1. attempt'.state = "RUNNING" /\ attempt'.runtime = t /\ attempt'.candidate = None
        BY <1>1, <3>1 DEF RunningOn
      <4>2. invocation'[t] = cli'[c].inv /\ invocation'[t].state = "DISPATCHING" /\ result'[t] = None
        BY <1>1, <1>4, <2>1, <3>2
      <4>3. cli'[c].target = t /\ cli'[c].pc = "r_create"
        BY <2>1, <3>2
      <4> QED BY <4>1, <4>2, <4>3
              DEF ViewDispatch, CopyHeld, Bound, InFlight, Unanswered, SavingPC, RunnerPC, RunningOn
    <3>4. ViewWrites(c, cli[c])' /\ ViewAttempt(c, cli[c])' /\ ViewRecover(cli[c])'
      BY <2>1, <3>2
      DEF ViewWrites, ViewAttempt, ViewRecover, AttemptSaves, Recovering, Absent, CleanHeld
    <3>5. View(c, cli[c])'
      BY <3>3, <3>4 DEF View
    <3> QED BY <1>3, <1>5, <3>5, MovedView
  <2>3. CASE cli[c].pc = "save_completed"
    <3>1. new = [invocation[t] EXCEPT !.state = "COMPLETED", !.result = c]
      BY <1>2, <2>3 DEF View, ViewWrites
    <3>2. new.state = "COMPLETED" /\ new.result = c /\ cli'[c].pc = "a_attempt"
      BY <1>2, <2>1, <2>3, <3>1 DEF RecordTypes, InvocationRecords, AfterInvocation
    <3>3. View(c, cli[c])'
      BY <1>4, <2>1, <3>2
      DEF View, ViewWrites, ViewAttempt, ViewDispatch, ViewRecover, AttemptSaves, CopyHeld, Bound,
          InFlight, Unanswered, SavingPC, Recovering, Absent, CleanHeld, RunnerPC
    <3> QED BY <1>3, <1>5, <3>3, MovedView
  <2>4. CASE cli[c].pc \in {"save_uncertain", "save_aborted"}
    <3>0. cli[c].pc \in Absent /\ cli[c].pc \in Recovering
      BY <2>4 DEF Absent, Recovering
    <3>1. /\ cli[c].att = attempt /\ result[t] = None /\ workspace = "clean"
          /\ attempt.state = "RUNNING" \/ invocation[t].state = "ABORTED"
          /\ custody[t].state = "ABSENCE_VERIFIED"
      BY <2>4, <3>0, RecoverKnown
    <3>2. /\ cli[c].pc = "save_uncertain" => new = [invocation[t] EXCEPT !.state = "UNCERTAIN"]
                                             /\ invocation[t].state = "DISPATCHING"
          /\ cli[c].pc = "save_aborted" => new = [invocation[t] EXCEPT !.state = "ABORTED"]
      BY <1>2, <2>4 DEF View, ViewWrites
    <3>3. \/ cli'[c].pc = "v_abort" /\ new.state = "UNCERTAIN" /\ attempt.state = "RUNNING"
          \/ cli'[c].pc = "v_attempt" /\ new.state = "ABORTED"
      BY <1>2, <2>1, <2>4, <3>1, <3>2 DEF RecordTypes, InvocationRecords, AfterInvocation
    <3>4. View(c, cli[c])'
      BY <1>1, <1>4, <2>1, <3>1, <3>3
      DEF View, ViewWrites, ViewAttempt, ViewDispatch, ViewRecover, AttemptSaves, CopyHeld, Bound,
          InFlight, Unanswered, SavingPC, Recovering, Absent, CleanHeld, RunnerPC, ClaimsDead
    <3> QED BY <1>3, <1>5, <3>4, MovedView
  <2> QED BY <1>7, <2>2, <2>3, <2>4
<1> QED BY <1>1, <1>6, <1>7

\* The write of a checked attempt record is the contract's move.
LEMMA AttemptView ==
  ASSUME Facts, OneCommand, NEW c \in Clients, CommitAttempt(c)
  PROVE  InOrder
<1> DEFINE t == cli[c].target
           new == cli[c].att
<1> USE ContractTerms
<1>1. /\ attempt' = new /\ UNCHANGED <<invocation, custody, result, workspace, adapter>>
      /\ cli[c].pc \in {"save_running", "save_candidate", "save_recovered", "save_operator"}
  BY DEF CommitAttempt, AfterAttempt, world
<1>2. View(c, cli[c]) /\ RecordTypes /\ attempt \in AttemptRecords
  BY Known DEF RecordTypes
<1>3. LegalAttemptMove(attempt, new)
  BY <1>1, <1>2 DEF View, ViewAttempt, AttemptSaves
<1>4. Contract!AttemptBecomes(new)
  BY <1>1, <1>3 DEF Contract!AttemptBecomes
<1>5. cli[c].pc # "save_operator" => t \in Invocations /\ AgreementOf(t)
  BY <1>1, Known
<1>6. new.cleanup = RecoveryOutcome => workspace = "clean"
  <2>1. attempt.cleanup = RecoveryOutcome => workspace = "clean"
    BY DEF Facts, AgreementInv, WorldAgrees
  <2>2. CASE cli[c].pc = "save_running"
    BY <1>2, <2>1, <2>2 DEF View, ViewAttempt, AttemptRecords
  <2>3. CASE cli[c].pc = "save_candidate"
    BY <1>2, <2>1, <2>3 DEF View, ViewAttempt, AttemptRecords
  <2>4. CASE cli[c].pc = "save_recovered"
    BY <1>2, <2>4 DEF View, ViewRecover, CleanHeld
  <2>5. CASE cli[c].pc = "save_operator"
    <3>1. PICK u \in AttemptStates, d \in {attempt.candidate, Typed} :
            new = [attempt EXCEPT !.state = u, !.candidate = d,
                     !.cleanup = IF u \in AttemptTerminal THEN "operator" ELSE @]
      BY <1>2, <2>5 DEF View, ViewAttempt
    <3>2. new.cleanup \in {"operator", attempt.cleanup}
      BY <1>2, <3>1 DEF AttemptRecords
    <3> QED BY <2>1, <3>2 DEF RecoveryOutcome
  <2> QED BY <1>1, <2>2, <2>3, <2>4, <2>5
<1>7. WorldAgrees'
  BY <1>1, <1>6 DEF Facts, AgreementInv, WorldAgrees
<1>8. CASE cli[c].pc = "save_running"
  <2>1. /\ new = [attempt EXCEPT !.state = "RUNNING", !.runtime = t]
        /\ invocation[t].state = "AUTHORIZED"
    BY <1>2, <1>8 DEF View, ViewAttempt, ViewDispatch
  <2>2. Contract!Bind(t)
    BY <1>4, <2>1, Zenon DEF Contract!Bind
  <2>3. Contract!Next
    BY <1>5, <1>8, <2>2 DEF Contract!Next
  <2>4. new.state = "RUNNING" /\ new.runtime = t /\ new.candidate = None
    <3>1. attempt.state = "READY"
      BY <1>2, <1>3, <2>1 DEF LegalAttemptMove, AttemptNext, AttemptRecords, AttemptStates,
                              Facts, AgreementInv, RecordsAgree, AttemptAgrees
    <3> QED BY <1>2, <2>1, <3>1 DEF AttemptRecords, Facts, AgreementInv, RecordsAgree, AttemptAgrees
  <2>5. cli'[c].pc = "d_dispatch" /\ cli'[c].target = t /\ cli'[c].inv = cli[c].inv
    BY <1>8 DEF CommitAttempt, AfterAttempt, Continue, Goto, Facts, TypeInv, Locals, ClientStates
  <2>6. cli[c].inv = invocation[t]
    BY <1>2, <1>8 DEF View, ViewDispatch, CopyHeld
  <2>7. View(c, cli[c])'
    BY <1>1, <2>1, <2>4, <2>5, <2>6
    DEF View, ViewWrites, ViewAttempt, ViewDispatch, ViewRecover, AttemptSaves, CopyHeld, Bound,
        InFlight, Unanswered, SavingPC, Recovering, Absent, CleanHeld, RunnerPC, RunningOn
  <2> QED BY <1>7, <2>3, <2>7, MovedView
<1>9. CASE cli[c].pc # "save_running"
  <2>1. cli'[c].pc = "idle"
    BY <1>1, <1>9
    DEF CommitAttempt, AfterAttempt, Continue, Return, IdleClient, Facts, TypeInv, Locals
  <2>2. Contract!Next
    <3>1. CASE cli[c].pc = "save_candidate"
      <4>1. /\ new = [attempt EXCEPT !.state = "CANDIDATE", !.candidate = c]
            /\ invocation[t].state = "COMPLETED" /\ invocation[t].result = c /\ RunningOn(t)
        BY <1>2, <3>1 DEF View, ViewAttempt, ViewDispatch, Bound
      <4>2. Contract!Capture(t)
        BY <1>4, <4>1, Zenon DEF Contract!Capture
      <4> QED BY <1>5, <3>1, <4>2 DEF Contract!Next
    <3>2. CASE cli[c].pc = "save_recovered"
      <4>1. /\ new = [attempt EXCEPT !.state = "ABORTED", !.cleanup = RecoveryOutcome]
            /\ invocation[t].state = "ABORTED" /\ custody[t].state = "ABSENCE_VERIFIED"
            /\ RunningOn(t)
        BY <1>2, <3>2 DEF View, ViewAttempt, ViewRecover
      <4>2. result[t] = None
        BY <1>5, <3>2, <4>1 DEF AgreementOf
      <4>3. Contract!Recover(t)
        BY <1>4, <4>1, <4>2, Zenon DEF Contract!Recover, RecoveryOutcome
      <4> QED BY <1>5, <3>2, <4>3 DEF Contract!Next
    <3>3. CASE cli[c].pc = "save_operator"
      <4>1. PICK u \in AttemptStates, d \in {attempt.candidate, Typed} :
              new = [attempt EXCEPT !.state = u, !.candidate = d,
                       !.cleanup = IF u \in AttemptTerminal THEN "operator" ELSE @]
        BY <1>2, <3>3 DEF View, ViewAttempt
      <4>2. attempt.state # "READY"
        BY <1>2, <3>3 DEF View, ViewAttempt
      <4> DEFINE moved == [attempt EXCEPT !.state = u, !.candidate = d,
                             !.cleanup = IF u \in Contract!AttemptTerminal THEN "operator" ELSE @]
      <4>3. Contract!Operate
        <5>1. u \in Contract!AttemptStates /\ d \in {attempt.candidate, "typed"}
          BY <4>1 DEF Typed
        <5>2. new = moved
          BY <4>1, Zenon
        <5>3. Contract!AttemptBecomes(moved)
          BY <1>4, <5>2, Zenon
        <5> QED BY <4>2, <5>1, <5>3, Zenon DEF Contract!Operate
      <4> QED BY <4>3 DEF Contract!Next
    <3> QED BY <1>1, <1>9, <3>1, <3>2, <3>3
  <2> QED BY <1>7, <2>1, <2>2, IdleView, MovedView
<1> QED BY <1>8, <1>9

\* The state of the custody a command is about to save over.
LEMMA SavingStates ==
  ASSUME Facts, NEW c \in Clients, cli[c].pc \in SavingPC
  PROVE  /\ cli[c].target \in Invocations /\ cli[c].cus = custody[cli[c].target]
         /\ cli[c].cus \in CustodyRecords /\ cli[c].cus.owner \in Clients
         /\ cli[c].pc \in {"r_launch", "r_assign", "r_record"} => cli[c].cus.state = "PREPARED"
         /\ cli[c].pc = "r_mark" => cli[c].cus.state = "ASSIGNED"
         /\ cli[c].pc \in {"r_send", "r_wait", "r_late"} => cli[c].cus.state = "DISPATCHING"
         /\ cli[c].pc = "r_verify" => cli[c].cus.state \in {"EXITED", "TERMINATED"}
         /\ cli[c].pc = "v_absent" => cli[c].cus.state = "TERMINATED"
         /\ cli[c].cus.state \in {"PREPARED", "ASSIGNED", "DISPATCHING"} => ~cli[c].cus.failed
         /\ invocation[cli[c].target].state = "DISPATCHING" /\ RunningOn(cli[c].target)
         /\ result[cli[c].target] = None
<1> DEFINE t == cli[c].target
<1>1. /\ t \in Invocations /\ AgreementOf(t) /\ HeldEvidence(c, cli[c])
      /\ cli[c].cus = custody[t] /\ cli[c].cus \in CustodyRecords
  BY Known, DispatchKnown, HeldTypes DEF SavingPC, Facts
<1>2. /\ cli[c].pc \in {"r_launch", "r_assign", "r_record"} => cli[c].cus.state = "PREPARED"
      /\ cli[c].pc = "r_mark" => cli[c].cus.state = "ASSIGNED"
      /\ cli[c].pc = "r_send" => cli[c].cus.state = "DISPATCHING"
  BY <1>1, CustodyAtFacts DEF Facts, ContainmentInv, RunnerCustody
<1>3. cli[c].pc \in Waiting => cli[c].cus.state = "DISPATCHING"
  BY <1>1 DEF HeldEvidence
<1>4. /\ cli[c].pc = "r_verify" => cli[c].cus.state \in {"EXITED", "TERMINATED"}
      /\ cli[c].pc = "v_absent" => cli[c].cus.state = "TERMINATED"
  BY DEF Facts, ContainmentInv, HeldOutcome
<1>5. cli[c].cus.state # "MISSING"
  BY <1>2, <1>3, <1>4 DEF SavingPC, Waiting
<1>6. cli[c].cus.owner \in Clients
  BY <1>1, <1>5 DEF AgreementOf
<1>7. cli[c].cus.state \in {"PREPARED", "ASSIGNED", "DISPATCHING"} => ~cli[c].cus.failed
  BY <1>1 DEF Facts, AgreementInv, WorldAgrees
<1>8. invocation[t].state = "DISPATCHING" /\ RunningOn(t) /\ result[t] = None
  <2>1. CASE cli[c].pc \in RunnerPC
    BY <2>1, DispatchKnown
  <2>2. CASE cli[c].pc = "v_absent"
    <3>1. /\ attempt.runtime = t /\ attempt.candidate = None /\ result[t] = None
          /\ invocation[t].state \in {"DISPATCHING", "UNCERTAIN", "ABORTED"}
          /\ attempt.state = "RUNNING" \/ invocation[t].state = "ABORTED"
      BY <2>2, RecoverKnown DEF Recovering
    <3>2. invocation[t].state = "DISPATCHING"
      BY <1>1, <1>4, <2>2, <3>1 DEF AgreementOf
    <3> QED BY <3>1, <3>2 DEF RunningOn
  <2> QED BY <2>1, <2>2 DEF SavingPC, RunnerPC
<1> QED BY <1>1, <1>2, <1>3, <1>4, <1>6, <1>7, <1>8 DEF Waiting

\* A custody save is the contract's Contain, or nothing.
LEMMA SaveView ==
  ASSUME Facts, OneCommand, NEW c \in Clients, cli[c].pc \in SavingPC, NEW new, NEW l,
         SaveCustody(c, new, l), UNCHANGED <<attempt, invocation, result, workspace>>,
         \E a : adapter' = [adapter EXCEPT ![cli[c].target][c] = a],
         new \in CustodyRecords, new.state \in CustodyNext[cli[c].cus.state],
         new.owner = cli[c].cus.owner,
         cli[c].cus.assigned => new.assigned, cli[c].cus.sent => new.sent,
         cli[c].cus.failed => new.failed,
         new.state \in {"PREPARED", "ASSIGNED", "DISPATCHING"} => ~new.failed,
         l \in {"idle", "a_accept", "v_uncertain"} \cup (SavingPC \ {"v_absent"}),
         l = "v_uncertain" <=> cli[c].pc = "v_absent",
         l = "v_uncertain" => new.state = "ABSENCE_VERIFIED"
  PROVE  InOrder
<1> DEFINE t == cli[c].target
<1> USE ContractTerms
<1>0. /\ t \in Invocations /\ Inv(c) = t /\ cli[c].cus = custody[t] /\ cli[c].cus.owner \in Clients
      /\ invocation[t].state = "DISPATCHING" /\ RunningOn(t) /\ result[t] = None
  BY SavingStates DEF Inv
<1>1. /\ \A i \in Invocations, d \in Clients :
           adapter'[i][d] # "none" => invocation[i].state # "MISSING"
  <2>1. PICK a : adapter' = [adapter EXCEPT ![t][c] = a]
    OBVIOUS
  <2>2. \A i \in Invocations, d \in Clients :
          adapter[i][d] # "none" => invocation[i].state # "MISSING"
    BY DEF Facts, AgreementInv, WorldAgrees
  <2>3. adapter \in [Invocations -> [Clients -> AdapterStates]]
    BY DEF Facts, TypeInv, DataOK
  <2> QED BY <1>0, <2>1, <2>2, <2>3
<1>2. CASE ~(custody[t] = cli[c].cus /\ ValidCustody(new))
  <2>1. cli' = [cli EXCEPT ![c] = IdleClient] /\ UNCHANGED custody
    BY <1>0, <1>2 DEF SaveCustody, Return
  <2>2. View(c, IdleClient)
    BY DEF View, ViewWrites, ViewAttempt, ViewDispatch, ViewRecover, AttemptSaves, CopyHeld, Bound,
           InFlight, Unanswered, SavingPC, Recovering, Absent, CleanHeld, RunnerPC, IdleClient
  <2> QED BY <1>1, <2>1, <2>2, QuietView
<1>3. CASE ValidCustody(new)
  <2>1. custody' = [custody EXCEPT ![t] = new]
    BY <1>0, <1>3 DEF SaveCustody
  <2>2. Contract!Contain(t)
    <3>1. new \in [state : CustodyNext[custody[t].state], owner : Clients, assigned : BOOLEAN,
                   sent : BOOLEAN, active : ActiveCounts, failed : BOOLEAN]
      BY <1>0 DEF CustodyRecords
    <3>2. /\ custody[t].state # "MISSING" => new.owner = custody[t].owner
          /\ custody[t].assigned => new.assigned
          /\ custody[t].sent => new.sent
          /\ custody[t].failed => new.failed
      BY <1>0
    <3> QED BY <1>0, <1>3, <2>1, <3>1, <3>2 DEF Contract!Contain
  <2>3. Contract!Next
    BY <1>0, <2>2 DEF Contract!Next
  <2>4. /\ custody'[t] = new
        /\ \A i \in Invocations : i # t => custody'[i] = custody[i]
    BY <1>0, <2>1, FactsTypes DEF RecordTypes, Facts
  <2>5. WorldAgrees'
    BY <1>1, <2>4 DEF Facts, AgreementInv, WorldAgrees
  <2>6. View(c, cli[c])'
    <3>1. CASE l = "idle"
      <4>1. cli'[c].pc = "idle"
        BY <1>0, <1>3, <3>1 DEF SaveCustody, Facts, TypeInv, Locals, IdleClient
      <4> QED BY <4>1, IdleView
    <3>2. CASE l # "idle"
      <4>1. /\ cli'[c].pc = l /\ cli'[c].target = t /\ cli'[c].inv = cli[c].inv
            /\ cli'[c].att = cli[c].att /\ cli'[c].cus = new
        <5> DEFINE s == [cli[c] EXCEPT !.cus = new, !.pc = l]
        <5>1. cli' = [cli EXCEPT ![c] = s]
          BY <1>0, <1>3, <3>2 DEF SaveCustody, Facts, TypeInv, Locals
        <5>2. /\ s.pc = l /\ s.target = t /\ s.inv = cli[c].inv /\ s.att = cli[c].att
              /\ s.cus = new
          BY DEF Facts, TypeInv, Locals, ClientStates
        <5> HIDE DEF s
        <5> QED BY <5>1, <5>2 DEF Facts, TypeInv, Locals
      <4>2. cli[c].inv = invocation[t]
        BY Known DEF View, ViewDispatch, CopyHeld, SavingPC, RunnerPC
      <4>3. /\ attempt'.state = "RUNNING" /\ attempt'.runtime = t /\ attempt'.candidate = None
            /\ invocation'[t].state = "DISPATCHING" /\ result'[t] = None
            /\ cli'[c].inv = invocation'[t] /\ cli'[c].cus = custody'[t]
        BY <1>0, <2>4, <4>1, <4>2 DEF RunningOn
      <4>4. CASE l # "v_uncertain"
        <5>1. l \in RunnerPC \cup {"a_accept"}
          BY <3>2, <4>4 DEF SavingPC, RunnerPC
        <5>2. ViewDispatch(c, cli[c])'
          BY <4>1, <4>3, <5>1 DEF ViewDispatch, CopyHeld, Bound, InFlight, Unanswered, SavingPC,
                                  RunnerPC, RunningOn
        <5>3. ViewWrites(c, cli[c])' /\ ViewAttempt(c, cli[c])' /\ ViewRecover(cli[c])'
          BY <4>1, <5>1 DEF ViewWrites, ViewAttempt, ViewRecover, AttemptSaves, Recovering, Absent,
                            CleanHeld, RunnerPC
        <5> QED BY <5>2, <5>3 DEF View
      <4>5. CASE l = "v_uncertain"
        <5>1. cli[c].att = attempt /\ workspace = "clean"
          BY <4>5, RecoverKnown DEF Recovering
        <5>2. ViewDispatch(c, cli[c])'
          BY <4>1, <4>3, <4>5 DEF ViewDispatch, CopyHeld, Bound, InFlight, Unanswered, SavingPC,
                                  RunnerPC
        <5>3. ViewWrites(c, cli[c])' /\ ViewAttempt(c, cli[c])'
          BY <4>1, <4>5 DEF ViewWrites, ViewAttempt, AttemptSaves
        <5>4. ViewRecover(cli[c])'
          BY <2>4, <4>1, <4>3, <4>5, <5>1
          DEF ViewRecover, Recovering, Absent, CleanHeld, ClaimsDead
        <5> QED BY <5>2, <5>3, <5>4 DEF View
      <4> QED BY <4>4, <4>5
    <3> QED BY <3>1, <3>2
  <2> QED BY <2>3, <2>5, <2>6, MovedView
<1> QED BY <1>0, <1>2, <1>3

\* Every custody save of the runner and of recovery.
LEMMA CustodyView ==
  ASSUME Facts, OneCommand, NEW c \in Clients,
         \/ JobFails(c) \/ AssignFails(c) \/ RecordAssigned(c) \/ MarkDispatching(c)
         \/ Fault(c) \/ Collect(c) \/ VerifyAbsence(c) \/ RecoverAbsence(c)
  PROVE  InOrder
<1> USE DEF At, records, world
<1> DEFINE t == cli[c].target
           r == cli[c].cus
<1>0. /\ cli[c].pc \in SavingPC
      /\ r \in CustodyRecords /\ Inv(c) = t /\ t \in Invocations
      /\ adapter \in [Invocations -> [Clients -> AdapterStates]]
      /\ r.state \in {"PREPARED", "ASSIGNED", "DISPATCHING"} => ~r.failed
  <2>1. cli[c].pc \in SavingPC
    BY DEF SavingPC, FaultPC, JobFails, AssignFails, RecordAssigned, MarkDispatching, Fault, Collect,
           VerifyAbsence, RecoverAbsence
  <2> QED BY <2>1, SavingStates DEF Inv, Facts, TypeInv, DataOK
<1>1. adapter' = adapter => \E a : adapter' = [adapter EXCEPT ![t][c] = a]
  <2>1. adapter = [adapter EXCEPT ![t][c] = adapter[t][c]]
    BY <1>0
  <2> QED BY <2>1, Zenon
<1>2. ASSUME NEW s \in CustodyStates, NEW a \in ActiveCounts, NEW f \in BOOLEAN, NEW l,
             NEW new, new = [r EXCEPT !.state = s, !.active = a, !.failed = f],
             SaveCustody(c, new, l), UNCHANGED <<attempt, invocation, result, workspace>>,
             \E b : adapter' = [adapter EXCEPT ![t][c] = b],
             s \in CustodyNext[r.state], r.failed => f, s \notin {"PREPARED", "ASSIGNED", "DISPATCHING"},
             l \in {"idle", "a_accept", "v_uncertain", "r_verify"},
             l = "v_uncertain" <=> cli[c].pc = "v_absent",
             l = "v_uncertain" => s = "ABSENCE_VERIFIED"
      PROVE  InOrder
  <2>1. new \in CustodyRecords
    BY <1>0, <1>2, CustodyUpdates
  <2>2. /\ new.state = s /\ new.owner = r.owner /\ new.assigned = r.assigned /\ new.sent = r.sent
        /\ new.failed = f
    BY <1>0, <1>2 DEF CustodyRecords
  <2>3. l \in {"idle", "a_accept", "v_uncertain"} \cup (SavingPC \ {"v_absent"})
    BY <1>2 DEF SavingPC
  <2> QED BY <1>0, <1>2, <2>1, <2>2, <2>3, SaveView
<1>3. /\ {"TERMINATED", "UNCERTAIN", "EXITED", "ABSENCE_VERIFIED"} \subseteq CustodyStates
      /\ {"unknown", "zero", "some"} \subseteq ActiveCounts
      /\ r.state \in {"PREPARED", "ASSIGNED", "DISPATCHING"} =>
           {"TERMINATED", "UNCERTAIN"} \subseteq CustodyNext[r.state]
      /\ r.state = "DISPATCHING" => "EXITED" \in CustodyNext[r.state]
      /\ r.state \in {"EXITED", "TERMINATED"} => "ABSENCE_VERIFIED" \in CustodyNext[r.state]
      /\ "ASSIGNED" \in CustodyNext["PREPARED"] /\ "DISPATCHING" \in CustodyNext["ASSIGNED"]
  BY DEF CustodyStates, CustodyNext, ActiveCounts
<1>4. CASE JobFails(c)
  <2> DEFINE new == [r EXCEPT !.state = "UNCERTAIN", !.failed = TRUE]
  <2>1. new = [r EXCEPT !.state = "UNCERTAIN", !.active = r.active, !.failed = TRUE]
    BY <1>0 DEF CustodyRecords
  <2>2. r.state = "PREPARED" /\ r.active \in ActiveCounts /\ cli[c].pc = "r_launch"
    BY <1>0, <1>4, SavingStates DEF JobFails, CustodyRecords
  <2>3. SaveCustody(c, new, "idle") /\ UNCHANGED <<attempt, invocation, result, workspace, adapter>>
    BY <1>4 DEF JobFails
  <2> HIDE DEF new
  <2> QED BY <1>1, <1>2, <1>3, <2>1, <2>2, <2>3
<1>5. CASE AssignFails(c)
  <2>1. r.state = "PREPARED" /\ r.active \in ActiveCounts /\ cli[c].pc = "r_assign"
    BY <1>0, <1>5, SavingStates DEF AssignFails, CustodyRecords
  <2>2. /\ UNCHANGED <<attempt, invocation, result, workspace>>
        /\ adapter' = [adapter EXCEPT ![t][c] = "none"]
    BY <1>0, <1>5 DEF AssignFails
  <2> DEFINE new == [r EXCEPT !.state = "TERMINATED", !.active = "zero", !.failed = TRUE]
  <2>3. CASE SaveCustody(c, new, "r_verify")
    <3> HIDE DEF new
    <3> QED BY <1>2, <1>3, <2>1, <2>2, <2>3 DEF new
  <2> DEFINE doubt == [r EXCEPT !.state = "UNCERTAIN", !.failed = TRUE]
  <2>4. CASE SaveCustody(c, doubt, "idle")
    <3>1. doubt = [r EXCEPT !.state = "UNCERTAIN", !.active = r.active, !.failed = TRUE]
      BY <1>0 DEF CustodyRecords
    <3> HIDE DEF doubt
    <3> QED BY <1>2, <1>3, <2>1, <2>2, <2>4, <3>1
  <2> QED BY <1>5, <2>3, <2>4 DEF AssignFails
<1>6. CASE RecordAssigned(c) \/ MarkDispatching(c)
  <2>1. PICK new, l : /\ SaveCustody(c, new, l)
                      /\ \/ /\ new = [r EXCEPT !.state = "ASSIGNED", !.assigned = TRUE]
                            /\ l = "r_mark" /\ cli[c].pc = "r_record"
                         \/ /\ new = [r EXCEPT !.state = "DISPATCHING", !.sent = TRUE]
                            /\ l = "r_send" /\ cli[c].pc = "r_mark"
    BY <1>6 DEF RecordAssigned, MarkDispatching
  <2>2. UNCHANGED <<attempt, invocation, result, workspace, adapter>>
    BY <1>6 DEF RecordAssigned, MarkDispatching
  <2>3. new \in CustodyRecords
    <3>1. /\ [r EXCEPT !.state = "ASSIGNED", !.assigned = TRUE] \in CustodyRecords
          /\ [r EXCEPT !.state = "DISPATCHING", !.sent = TRUE] \in CustodyRecords
      BY <1>0 DEF CustodyRecords, CustodyStates, CustodyNext
    <3> QED BY <2>1, <3>1, Zenon
  <2>4. /\ new.owner = r.owner /\ new.failed = r.failed
        /\ r.assigned => new.assigned
        /\ r.sent => new.sent
        /\ new.state \in CustodyNext[r.state] /\ ~r.failed
    BY <1>0, <1>3, <2>1, SavingStates DEF CustodyRecords
  <2>5. /\ l \in {"idle", "a_accept", "v_uncertain"} \cup (SavingPC \ {"v_absent"})
        /\ l # "v_uncertain" /\ cli[c].pc # "v_absent"
    BY <2>1 DEF SavingPC
  <2> QED BY <1>0, <1>1, <2>1, <2>2, <2>3, <2>4, <2>5, SaveView
<1>7. CASE Fault(c)
  <2>1. r.state \in {"PREPARED", "ASSIGNED", "DISPATCHING"} /\ cli[c].pc # "v_absent"
    BY <1>0, <1>7, SavingStates DEF Fault, FaultPC
  <2>2. PICK left : \E active \in ActiveCounts :
          /\ adapter' = [adapter EXCEPT ![t][c] = left]
          /\ SaveCustody(c, [r EXCEPT !.state = IF active = "zero" THEN "TERMINATED" ELSE "UNCERTAIN",
                                      !.active = active, !.failed = TRUE],
                         IF active = "zero" THEN "r_verify" ELSE "idle")
    <3>1. PICK left :
            \E active \in {"unknown", IF left = "remnant" THEN "some" ELSE "zero"} :
              /\ adapter' = [adapter EXCEPT ![t][c] = left]
              /\ SaveCustody(c, [r EXCEPT !.state = IF active = "zero" THEN "TERMINATED" ELSE "UNCERTAIN",
                                          !.active = active, !.failed = TRUE],
                             IF active = "zero" THEN "r_verify" ELSE "idle")
      BY <1>7, Zenon DEF Fault, Inv
    <3>2. {"unknown", IF left = "remnant" THEN "some" ELSE "zero"} \subseteq ActiveCounts
      BY DEF ActiveCounts
    <3> QED BY <3>1, <3>2, Zenon
  <2>a. PICK active \in ActiveCounts :
          /\ adapter' = [adapter EXCEPT ![t][c] = left]
          /\ SaveCustody(c, [r EXCEPT !.state = IF active = "zero" THEN "TERMINATED" ELSE "UNCERTAIN",
                                      !.active = active, !.failed = TRUE],
                         IF active = "zero" THEN "r_verify" ELSE "idle")
    BY <2>2, Zenon
  <2> DEFINE state == IF active = "zero" THEN "TERMINATED" ELSE "UNCERTAIN"
             new == [r EXCEPT !.state = state, !.active = active, !.failed = TRUE]
             l == IF active = "zero" THEN "r_verify" ELSE "idle"
  <2>3. SaveCustody(c, new, l) /\ UNCHANGED <<attempt, invocation, result, workspace>>
    BY <1>7, <2>a DEF Fault
  <2>4. state \in {"TERMINATED", "UNCERTAIN"} /\ l \in {"r_verify", "idle"}
    OBVIOUS
  <2>5. new = [r EXCEPT !.state = state, !.active = active, !.failed = TRUE]
    OBVIOUS
  <2> HIDE DEF new, l, state
  <2> QED BY <1>2, <1>3, <2>1, <2>a, <2>3, <2>4, <2>5
<1>8. CASE Collect(c)
  <2>1. r.state = "DISPATCHING" /\ cli[c].pc # "v_absent"
    BY <1>0, <1>8, SavingStates DEF Collect
  <2>2. PICK failed \in BOOLEAN, active \in {"zero", "some"}, l \in {"r_verify", "idle"} :
          SaveCustody(c, [r EXCEPT !.state = IF failed THEN "TERMINATED" ELSE "EXITED",
                                   !.active = active, !.failed = failed], l)
    BY <1>8 DEF Collect
  <2> DEFINE state == IF failed THEN "TERMINATED" ELSE "EXITED"
             new == [r EXCEPT !.state = state, !.active = active, !.failed = failed]
  <2>3. /\ SaveCustody(c, new, l) /\ UNCHANGED <<attempt, invocation, result, workspace, adapter>>
    BY <1>8, <2>2 DEF Collect
  <2>4. state \in {"TERMINATED", "EXITED"} /\ ~r.failed
    BY <1>0, <2>1
  <2>5. new = [r EXCEPT !.state = state, !.active = active, !.failed = failed]
    OBVIOUS
  <2> HIDE DEF new, state
  <2>6. /\ state \in CustodyStates /\ state \in CustodyNext[r.state] /\ active \in ActiveCounts
        /\ state \notin {"PREPARED", "ASSIGNED", "DISPATCHING"}
    BY <1>3, <2>1, <2>4
  <2>7. \E b : adapter' = [adapter EXCEPT ![t][c] = b]
    BY <1>1, <2>3
  <2>8. failed \in BOOLEAN /\ l # "v_uncertain" /\ l \in {"idle", "a_accept", "v_uncertain", "r_verify"}
    OBVIOUS
  <2> QED BY <1>2, <2>1, <2>3, <2>4, <2>5, <2>6, <2>7, <2>8
<1>9. CASE VerifyAbsence(c) \/ RecoverAbsence(c)
  <2> DEFINE new == [r EXCEPT !.state = "ABSENCE_VERIFIED"]
  <2>1. new = [r EXCEPT !.state = "ABSENCE_VERIFIED", !.active = r.active, !.failed = r.failed]
    BY <1>0 DEF CustodyRecords
  <2>2. /\ r.state \in {"EXITED", "TERMINATED"} /\ r.active \in ActiveCounts /\ r.failed \in BOOLEAN
    BY <1>0, <1>9, SavingStates DEF VerifyAbsence, RecoverAbsence, CustodyRecords
  <2>3. PICK l \in {"idle", "a_accept", "v_uncertain"} :
          SaveCustody(c, new, l) /\ (l = "v_uncertain" <=> cli[c].pc = "v_absent")
    BY <1>9 DEF VerifyAbsence, RecoverAbsence
  <2>4. UNCHANGED <<attempt, invocation, result, workspace, adapter>>
    BY <1>9 DEF VerifyAbsence, RecoverAbsence
  <2> HIDE DEF new
  <2> QED BY <1>1, <1>2, <1>3, <2>1, <2>2, <2>3, <2>4
<1> QED BY <1>4, <1>5, <1>6, <1>7, <1>8, <1>9

\* The first custody record and the result are written once, while the invocation is
\* in flight.
LEMMA WriteView ==
  ASSUME Facts, OneCommand, NEW c \in Clients, CustodyCreate(c) \/ StoreResult(c)
  PROVE  InOrder
<1> USE DEF At, world
<1> USE ContractTerms
<1> DEFINE t == cli[c].target
<1>1. /\ t \in Invocations /\ Inv(c) = t /\ AgreementOf(t) /\ HeldEvidence(c, cli[c])
      /\ invocation[t].state = "DISPATCHING" /\ RunningOn(t) /\ result[t] = None
      /\ cli[c].inv = invocation[t] /\ RecordTypes
  BY Known, DispatchKnown DEF CustodyCreate, StoreResult, RunnerPC
<1>2. UNCHANGED <<attempt, invocation, workspace, adapter>>
  BY DEF CustodyCreate, StoreResult
<1>3. CASE CustodyCreate(c)
  <2> DEFINE new == [NoCustody EXCEPT !.state = "PREPARED", !.owner = c]
             s == [cli[c] EXCEPT !.cus = new, !.pc = "r_launch"]
  <2>1. /\ custody' = [custody EXCEPT ![t] = new] /\ UNCHANGED result
        /\ cli' = [cli EXCEPT ![c] = s]
    BY <1>1, <1>3 DEF CustodyCreate, Facts, TypeInv, Locals
  <2>2. custody[t] = NoCustody
    <3>1. custody[t].state = "MISSING"
      BY <1>3, CustodyAtFacts DEF CustodyCreate, Facts, ContainmentInv, RunnerCustody
    <3> QED BY <1>1, <3>1 DEF AgreementOf
  <2>3. /\ new \in [state : CustodyNext[custody[t].state], owner : Clients, assigned : BOOLEAN,
                    sent : BOOLEAN, active : ActiveCounts, failed : BOOLEAN]
        /\ ValidCustody(new) /\ new.state = "PREPARED" /\ ~new.failed
    <3>1. /\ new.state = "PREPARED" /\ new.owner = c /\ ~new.assigned /\ ~new.sent /\ ~new.failed
          /\ new \in [state : {"PREPARED"}, owner : Clients, assigned : BOOLEAN, sent : BOOLEAN,
                      active : ActiveCounts, failed : BOOLEAN]
      BY DEF NoCustody, ActiveCounts
    <3>2. "PREPARED" \in CustodyNext[custody[t].state]
      BY <2>2 DEF NoCustody, CustodyNext
    <3> HIDE DEF new
    <3>3. ValidCustody(new) /\ new.state = "PREPARED" /\ ~new.failed
      BY <3>1 DEF ValidCustody
    <3> QED BY <3>1, <3>2, <3>3
  <2>4. s.pc = "r_launch" /\ s.target = t /\ s.inv = cli[c].inv /\ s.cus = new
    BY DEF Facts, TypeInv, Locals, ClientStates
  <2> HIDE DEF new, s
  <2>5. Contract!Contain(t)
    <3>1. custody[t].state = "MISSING" /\ ~custody[t].assigned /\ ~custody[t].sent /\ ~custody[t].failed
      BY <2>2 DEF NoCustody
    <3> QED BY <1>1, <1>2, <2>1, <2>3, <3>1 DEF Contract!Contain
  <2>6. Contract!Next
    BY <1>1, <2>5 DEF Contract!Next
  <2>7. /\ custody'[t] = new /\ cli'[c] = s
        /\ \A i \in Invocations : i # t => custody'[i] = custody[i]
    BY <1>1, <2>1 DEF RecordTypes, Facts, TypeInv, Locals
  <2>8. WorldAgrees'
    BY <1>2, <2>3, <2>7 DEF Facts, AgreementInv, WorldAgrees
  <2>9. View(c, cli[c])'
    <3>1. ViewDispatch(c, cli[c])'
      BY <1>1, <1>2, <2>1, <2>4, <2>7
      DEF ViewDispatch, CopyHeld, Bound, InFlight, Unanswered, SavingPC, RunnerPC, RunningOn
    <3>2. ViewWrites(c, cli[c])' /\ ViewAttempt(c, cli[c])' /\ ViewRecover(cli[c])'
      BY <2>4, <2>7 DEF ViewWrites, ViewAttempt, ViewRecover, AttemptSaves, Recovering, Absent, CleanHeld
    <3> QED BY <3>1, <3>2 DEF View
  <2> QED BY <2>6, <2>8, <2>9, MovedView
<1>4. CASE StoreResult(c)
  <2>1. /\ result' = [result EXCEPT ![t] = c] /\ UNCHANGED custody
        /\ Goto(c, "a_complete") /\ VerifiedSuccess(custody[t])
    BY <1>1, <1>4 DEF StoreResult, HeldEvidence
  <2>2. Contract!Store(t)
    BY <1>1, <1>2, <2>1 DEF Contract!Store, VerifiedSuccess
  <2>3. Contract!Next
    BY <1>1, <2>2 DEF Contract!Next
  <2>4. WorldAgrees'
    BY <1>2, <2>1 DEF Facts, AgreementInv, WorldAgrees
  <2>5. cli'[c].pc = "a_complete" /\ cli'[c].target = t /\ cli'[c].inv = cli[c].inv
    BY <2>1 DEF Goto, Facts, TypeInv, Locals, ClientStates
  <2>6. View(c, cli[c])'
    <3>1. ViewDispatch(c, cli[c])'
      BY <1>1, <1>2, <2>5
      DEF ViewDispatch, CopyHeld, Bound, InFlight, Unanswered, SavingPC, RunnerPC, RunningOn
    <3>2. ViewWrites(c, cli[c])' /\ ViewAttempt(c, cli[c])' /\ ViewRecover(cli[c])'
      BY <2>5 DEF ViewWrites, ViewAttempt, ViewRecover, AttemptSaves, Recovering, Absent, CleanHeld
    <3> QED BY <3>1, <3>2 DEF View
  <2> QED BY <2>3, <2>4, <2>6, MovedView
<1> QED BY <1>3, <1>4

\* The adapter of the one invocation ends or writes: where the record says it is dead
\* it does neither, so the workspace stays what recovery saw.
LEMMA WorldView ==
  ASSUME Facts, OneCommand, NEW i \in Invocations, NEW c \in Clients,
         AdapterEnds(i, c) \/ AdapterWrites(i, c)
  PROVE  InOrder
<1> USE DEF records
<1>1. CASE AdapterEnds(i, c)
  <2>1. cli' = [cli EXCEPT ![c] = cli[c]] /\ View(c, cli[c])
    BY <1>1, Known DEF AdapterEnds, Facts, TypeInv, Locals
  <2>2. \A j \in Invocations, d \in Clients :
          adapter'[j][d] # "none" => invocation[j].state # "MISSING"
    <3>1. PICK left : adapter' = [adapter EXCEPT ![i][c] = left]
      BY <1>1 DEF AdapterEnds
    <3> QED BY <1>1, <3>1 DEF AdapterEnds, Facts, AgreementInv, WorldAgrees, TypeInv, DataOK
  <2> QED BY <1>1, <2>1, <2>2, QuietView DEF AdapterEnds
<1>2. CASE AdapterWrites(i, c)
  <2>1. /\ UNCHANGED <<attempt, invocation, custody, result, adapter, cli>>
        /\ adapter[i][c] \in InJob
    BY <1>2 DEF AdapterWrites, InJob
  <2>2. ~ClaimsDead(custody[i])
    BY <2>1 DEF Facts, ContainmentInv, ZeroMeansDead
  <2>3. \A j \in Invocations : invocation[j].state # "MISSING" => ~ClaimsDead(custody[j])
    BY <2>1, <2>2 DEF Facts, AgreementInv, WorldAgrees, RecordsAgree, OneInvocation, InJob
  <2>4. attempt.cleanup # RecoveryOutcome
    BY <2>3 DEF Facts, AgreementInv, RecordsAgree, AttemptAgrees, ClaimsDead
  <2>5. RecordsAgree'
    BY <2>1 DEF Facts, AgreementInv, RecordsAgree, OneInvocation, AttemptAgrees, AgreementOf
  <2>6. WorldAgrees'
    BY <2>1, <2>4 DEF Facts, AgreementInv, WorldAgrees
  <2>7. View(c, cli[c])'
    <3>1. View(c, cli[c])
      BY Known
    <3>2. ViewWrites(c, cli[c])'
      BY <2>1, <3>1 DEF View, ViewWrites
    <3>a. ViewAttempt(c, cli[c])'
      BY <2>1, <3>1 DEF View, ViewAttempt, RunningOn
    <3>b. ViewDispatch(c, cli[c])'
      BY <2>1, <3>1 DEF View, ViewDispatch, RunningOn
    <3>3. cli[c].pc \in CleanHeld \cup {"v_custody"} =>
            cli[c].target \in Invocations /\ ~ClaimsDead(custody[cli[c].target])
      <4>1. cli[c].pc \in CleanHeld \cup {"v_custody"} =>
              cli[c].target \in Invocations /\ invocation[cli[c].target].state # "MISSING"
        BY <3>1, Known DEF View, ViewRecover, CleanHeld, Recovering, Absent
      <4> QED BY <2>3, <4>1
    <3>4. ViewRecover(cli[c])'
      BY <2>1, <3>1, <3>3 DEF View, ViewRecover, ClaimsDead, CleanHeld, RunningOn
    <3> QED BY <3>2, <3>a, <3>b, <3>4 DEF View
  <2>8. \A d \in Clients : View(d, cli[d])'
    BY <2>7 DEF OneCommand
  <2> QED BY <2>1, <2>5, <2>6, <2>8 DEF InOrder, AgreementInv, cvars
<1> QED BY <1>1, <1>2

LEMMA AgreementInit == Init => AgreementInv /\ Contract!Init
<1> SUFFICES ASSUME Init PROVE AgreementInv /\ Contract!Init
  OBVIOUS
<1>1. /\ NoInvocation.state = "MISSING" /\ NoInvocation.by = None /\ NoInvocation.result = None
      /\ NoCustody.state = "MISSING" /\ None # RecoveryOutcome /\ None \notin Clients
  BY DispatchAssumption DEF NoInvocation, NoCustody, RecoveryOutcome
<1>2. RecordsAgree
  BY <1>1 DEF Init, RecordsAgree, OneInvocation, AttemptAgrees, AgreementOf
<1>3. WorldAgrees
  BY <1>1 DEF Init, WorldAgrees
<1>4. \A c \in Clients : View(c, cli[c])
  BY DEF Init, View, ViewWrites, ViewAttempt, ViewDispatch, ViewRecover, AttemptSaves, CopyHeld,
         Bound, InFlight, Unanswered, SavingPC, Recovering, Absent, CleanHeld, RunnerPC, IdleClient
<1>5. Contract!Init
  BY ContractTerms DEF Init, Contract!Init
<1> QED BY <1>2, <1>3, <1>4, <1>5 DEF AgreementInv

\* Every step of Dispatch keeps the agreement and is a step of the contract or none.
LEMMA AgreementStep ==
  ASSUME Facts, OneCommand, [Next]_vars
  PROVE  InOrder
<1>1. ASSUME NEW c \in Clients, Crash(c)
      PROVE  InOrder
  BY <1>1, ReturnView DEF Crash, records, world
<1>2. ASSUME NEW c \in Clients, Run(c)
      PROVE  InOrder
  BY <1>2, RunnerView, CustodyView, WriteView DEF Run, BrokenPipe
<1>3. ASSUME NEW c \in Clients, Read(c) \/ Step(c) \/ Mishap(c)
      PROVE  InOrder
  BY <1>1, <1>2, <1>3, ReadView, InvocationView, AttemptView, DispatchView, WriteView, CustodyView,
     RecoverView DEF Step, Mishap
<1>4. CASE Environment
  BY <1>4, WorldView DEF Environment
<1>5. CASE UNCHANGED vars
  <2>1. UNCHANGED <<attempt, invocation, custody, result, workspace, adapter, cli>>
    BY <1>5 DEF vars
  <2>2. RecordsAgree' /\ WorldAgrees'
    BY <2>1 DEF Facts, AgreementInv, RecordsAgree, OneInvocation, AttemptAgrees, AgreementOf, WorldAgrees
  <2>3. \A c \in Clients : View(c, cli[c])'
    <3> SUFFICES ASSUME NEW c \in Clients PROVE View(c, cli[c])'
      OBVIOUS
    <3>1. View(c, cli[c])
      BY DEF Facts, AgreementInv
    <3>2. ViewWrites(c, cli[c])'
      BY <2>1, <3>1 DEF View, ViewWrites
    <3>3. ViewAttempt(c, cli[c])'
      BY <2>1, <3>1 DEF View, ViewAttempt, RunningOn
    <3>4. ViewDispatch(c, cli[c])'
      BY <2>1, <3>1 DEF View, ViewDispatch, RunningOn
    <3>5. ViewRecover(cli[c])'
      BY <2>1, <3>1 DEF View, ViewRecover, ClaimsDead, RunningOn
    <3> QED BY <3>2, <3>3, <3>4, <3>5 DEF View
  <2> QED BY <2>1, <2>2, <2>3 DEF InOrder, AgreementInv, cvars
<1> QED BY <1>3, <1>4, <1>5 DEF Next

-----------------------------------------------------------------------------
(* One command at a time *)

LEMMA OneDispatches == OneCommand => SingleDispatcher
BY DEF OneCommand, SingleDispatcher

LEMMA FactsInit == Init => Facts
BY TypeInit, ContainmentInit, EvidenceInit, AgreementInit DEF Facts

LEMMA FactsStep == OneCommand /\ Facts /\ [Next]_vars => Facts' /\ InOrder
BY OneDispatches, TypeStep, ContainmentStep, EvidenceStep, AgreementStep DEF Facts, InOrder

\* The inductive invariant holds of every behaviour, crashes and recoveries included.
THEOREM AgreementCorrect == OneCommand => (Spec => []Facts)
<1> SUFFICES ASSUME OneCommand PROVE Spec => []Facts
  OBVIOUS
<1>1. Facts /\ [Next]_vars => Facts'
  BY FactsStep
<1> QED BY <1>1, FactsInit, PTL DEF Spec

\* A candidate a dispatch recorded is one review-candidate accepts: exactly one
\* invocation, COMPLETED, whose digest, stored result and runtime identity agree.
THEOREM CandidateProven == OneCommand => (Spec => []CandidateReviewable)
<1>1. Facts => CandidateReviewable
  BY DEF Facts, AgreementInv, RecordsAgree, OneInvocation, AttemptAgrees, AgreementOf,
         CandidateReviewable
<1> QED BY <1>1, AgreementCorrect, PTL

\* A recovered attempt keeps the evidence OPERATIONS.md names: both records terminal,
\* absence proven, no result and the launch workspace unchanged.
THEOREM RecoveryProven == OneCommand => (Spec => []RecoveryRetainsEvidence)
<1>1. Facts => RecoveryRetainsEvidence
  BY DEF Facts, AgreementInv, RecordsAgree, AttemptAgrees, AgreementOf, WorldAgrees,
         RecoveryRetainsEvidence
<1> QED BY <1>1, AgreementCorrect, PTL

\* Run one after the other, the commands move the records as AttemptContract says,
\* whatever the crashes between their accesses.
THEOREM ContractImplemented == OneCommand => (Spec => ImplementsContract)
<1> SUFFICES ASSUME OneCommand PROVE Spec => ImplementsContract
  OBVIOUS
<1>1. Init => Contract!Init
  BY AgreementInit
<1>2. Facts /\ [Next]_vars => [Contract!Next]_(Contract!cvars)
  BY FactsStep DEF InOrder, cvars, Contract!cvars
<1>3. Spec => []Facts
  BY AgreementCorrect
<1> QED BY <1>1, <1>2, <1>3, PTL DEF Spec, ImplementsContract, Contract!Spec
=============================================================================

--------------------------- MODULE AttemptContract ---------------------------
(***************************************************************************)
(* What the records of one attempt promise to a reader of state/: the      *)
(* attempt, its invocations, their custody and results move together, one  *)
(* record at a time, and each move is backed by what the other records     *)
(* already say.  Commands, processes, in-memory copies and crashes are     *)
(* absent: a move is one atomic step.  Dispatch implements it as long as   *)
(* commands run one after the other.                                       *)
(***************************************************************************)
EXTENDS LabRecords

CONSTANTS Clients, Invocations, Controllers

VARIABLES attempt, invocation, custody, result

cvars == <<attempt, invocation, custody, result>>

Running(i) == attempt.state = "RUNNING" /\ attempt.runtime = i /\ attempt.candidate = None

Init ==
  /\ attempt = [state |-> "READY", runtime |-> None, candidate |-> None, cleanup |-> None]
  /\ invocation = [i \in Invocations |-> NoInvocation]
  /\ custody = [i \in Invocations |-> NoCustody]
  /\ result = [i \in Invocations |-> None]

\* Invocation i moves to new; the other records stay.
InvocationBecomes(i, new) ==
  /\ LegalInvocationMove(invocation[i], new)
  /\ invocation' = [invocation EXCEPT ![i] = new]
  /\ UNCHANGED <<attempt, custody, result>>

AttemptBecomes(new) ==
  /\ LegalAttemptMove(attempt, new)
  /\ attempt' = new
  /\ UNCHANGED <<invocation, custody, result>>

\* One invocation per attempt, prepared while the attempt is READY.
Prepare(i) ==
  /\ attempt.state = "READY"
  /\ \A j \in Invocations : invocation[j].state = "MISSING"
  /\ InvocationBecomes(i, [NoInvocation EXCEPT !.state = "PREPARED"])

Decide(i) ==
  \/ \E k \in Controllers :
       InvocationBecomes(i, [invocation[i] EXCEPT !.state = "AUTHORIZED", !.by = k])
  \/ InvocationBecomes(i, [invocation[i] EXCEPT !.state = "REJECTED"])
  \/ InvocationBecomes(i, [invocation[i] EXCEPT !.state = "ABORTED"])

\* The attempt runs for an authorized invocation only, ...
Bind(i) ==
  /\ invocation[i].state = "AUTHORIZED"
  /\ AttemptBecomes([attempt EXCEPT !.state = "RUNNING", !.runtime = i])

\* ... which is dispatched only for the attempt bound to it.
Dispatched(i) ==
  /\ Running(i) /\ custody[i].state = "MISSING"
  /\ InvocationBecomes(i, [invocation[i] EXCEPT !.state = "DISPATCHING"])

\* Custody moves only while the invocation is DISPATCHING and has no result, and
\* keeps what earlier states recorded: owner, adapter, sent request and failure.
Contain(i) ==
  /\ Running(i) /\ invocation[i].state = "DISPATCHING" /\ result[i] = None
  /\ \E new \in [state : CustodyNext[custody[i].state], owner : Clients,
                 assigned : BOOLEAN, sent : BOOLEAN, active : ActiveCounts,
                 failed : BOOLEAN] :
       /\ ValidCustody(new)
       /\ custody[i].state # "MISSING" => new.owner = custody[i].owner
       /\ custody[i].assigned => new.assigned
       /\ custody[i].sent => new.sent
       /\ custody[i].failed => new.failed
       /\ custody' = [custody EXCEPT ![i] = new]
  /\ UNCHANGED <<attempt, invocation, result>>

\* A result is stored once, behind a complete verified success.
Store(i) ==
  /\ Running(i) /\ invocation[i].state = "DISPATCHING" /\ result[i] = None
  /\ custody[i].state = "ABSENCE_VERIFIED" /\ custody[i].assigned /\ ~custody[i].failed
  /\ \E c \in Clients : result' = [result EXCEPT ![i] = c]
  /\ UNCHANGED <<attempt, invocation, custody>>

Complete(i) ==
  /\ Running(i) /\ result[i] # None
  /\ InvocationBecomes(i, [invocation[i] EXCEPT !.state = "COMPLETED", !.result = result[i]])

Capture(i) ==
  /\ Running(i) /\ invocation[i].state = "COMPLETED"
  /\ AttemptBecomes([attempt EXCEPT !.state = "CANDIDATE", !.candidate = invocation[i].result])

\* Recovery: with absence proven and no result, UNCERTAIN first, then the aborts.
Doubt(i) ==
  /\ Running(i) /\ result[i] = None
  /\ custody[i].state = "ABSENCE_VERIFIED" /\ custody[i].sent
  /\ InvocationBecomes(i, [invocation[i] EXCEPT !.state = "UNCERTAIN"])

Recover(i) ==
  /\ Running(i) /\ invocation[i].state = "ABORTED" /\ result[i] = None
  /\ custody[i].state = "ABSENCE_VERIFIED"
  /\ AttemptBecomes([attempt EXCEPT !.state = "ABORTED", !.cleanup = "recovered"])

\* The operator moves the attempt; READY is left by Bind only.
Operate ==
  /\ attempt.state # "READY"
  /\ \E t \in AttemptStates : \E d \in {attempt.candidate, "typed"} :
       AttemptBecomes([attempt EXCEPT !.state = t, !.candidate = d,
                         !.cleanup = IF t \in AttemptTerminal THEN "operator" ELSE @])

Next ==
  \/ \E i \in Invocations :
       \/ Prepare(i) \/ Decide(i) \/ Bind(i) \/ Dispatched(i) \/ Contain(i) \/ Store(i)
       \/ Complete(i) \/ Capture(i) \/ Doubt(i) \/ Recover(i)
  \/ Operate

Spec == Init /\ [][Next]_cvars
=============================================================================

------------------------------ MODULE LabFiles ------------------------------
(* The durable files of a lab that holds one synthetic attempt: what its       *)
(* commands write and what a backup of it walks over.                          *)
EXTENDS LabRecords, Naturals, Sequences

(* In the order of their paths under curricula/ and state/.  The workspace's   *)
(* receipt is not among them: it lies in state/workspaces, and a backup leaves *)
(* every directory of that name out.                                           *)
Names == <<"definitions", "attempt", "plan", "invocation", "activation",
           "authorization", "recovery", "custody", "result">>

Directories == <<"attempts", "evaluation-plans", "invocations", "operator",
                 "process-custody", "results">>

StateDirectories == {Directories[i] : i \in DOMAIN Directories}

First(x, S, order) ==
  /\ x \in S
  /\ \E i \in DOMAIN order : order[i] = x /\ \A j \in 1 .. i - 1 : order[j] \notin S

In ==
  [definitions |-> "curricula", attempt |-> "attempts", plan |-> "evaluation-plans",
   invocation |-> "invocations", activation |-> "operator",
   authorization |-> "operator", recovery |-> "operator",
   custody |-> "process-custody", result |-> "results"]

Records == DOMAIN In

(* The states of a custody; a TERMINATED one from which absence cannot be       *)
(* derived later is kept apart as INCOMPLETE: it lacks the adapter's identity,  *)
(* the request or the count of zero.                                            *)
CustodyContents ==
  {"PREPARED", "ASSIGNED", "DISPATCHING", "EXITED", "TERMINATED", "INCOMPLETE",
   "UNCERTAIN", "ABSENCE_VERIFIED"}

Contents ==
  [definitions |-> {"written"}, attempt |-> AttemptStates, plan |-> {"sealed"},
   invocation |-> InvocationStates, activation |-> {"ENABLED"},
   authorization |-> {"written"}, custody |-> CustodyContents,
   result |-> {"written"}, recovery |-> {"REJECTED", "ABORTED"}]

ASSUME ContentsAssumption == \A r \in Records : None \notin Contents[r]

VARIABLE files   \* the content of each file; None where there is none

Put(record, value) == files' = [files EXCEPT ![record] = value]
=============================================================================

----------------------------- MODULE MCDispatch -----------------------------
(* Instances of Dispatch for TLC: who may issue which command. *)
EXTENDS Dispatch

CONSTANTS c1, c2

\* One operator terminal, one command at a time.
MayOne == [c \in Clients |-> Commands]

\* One terminal dispatches; the other decides, cancels and recovers meanwhile.
MayRace ==
  [c \in Clients |-> IF c = c1 THEN {"prepare", "authorize", "dispatch"}
                     ELSE {"reject", "cancel", "recover", "transition"}]

\* One terminal dispatches and cancels; the other only recovers, again and again.
MayRecover ==
  [c \in Clients |-> IF c = c1 THEN {"prepare", "authorize", "cancel", "dispatch"}
                     ELSE {"recover"}]
=============================================================================

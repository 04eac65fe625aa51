---------------------------- MODULE MCWorkspace ----------------------------
(* Instances of Workspace for TLC: who may issue which command. *)
EXTENDS Workspace

CONSTANTS c1, c2

\* One operator terminal, one command at a time.
MayOne == [c \in Clients |-> Commands]

\* Two terminals prepare and dispose of the same attempt.
MayBoth == [c \in Clients |-> {"prepare", "discard"}]

\* One terminal prepares and dispatches while the other disposes.
MayDispatch == [c \in Clients |-> IF c = c1 THEN {"prepare", "dispatch"} ELSE {"discard"}]

\* One terminal prepares while the other moves the attempt by hand.
MayMove == [c \in Clients |-> IF c = c1 THEN {"prepare"} ELSE {"transition"}]
=============================================================================

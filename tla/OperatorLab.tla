---------------------------- MODULE OperatorLab -----------------------------
(* The lab of a synthetic run, its recovery, and a backup taken of the lab     *)
(* while either is at work.                                                    *)
EXTENDS SyntheticRun, Backup, FiniteSets

CONSTANT MaxAtWork   \* how many of the three commands are at work at a time

ASSUME AtWorkAssumption == MaxAtWork \in 1..3

AtWork ==
  {c \in Commands : Alive(c)} \cup
  {t \in {taker} : t \in {"curricula", "state", "copying"}}

vars == <<labVars, backupVars>>

Init == SyntheticInit /\ BackupInit

Next ==
  /\ \/ LabNext /\ UNCHANGED backupVars
     \/ /\ BackupNext
        /\ UNCHANGED <<receipt, workspace, adapter, cli, recoveries, resumes, overlapped>>
  /\ Cardinality(AtWork') <= MaxAtWork

Spec == Init /\ [][Next]_vars

(* A backup misses no file that was there when its walk began, and one taken   *)
(* while a command replaces the records holds the records of                   *)
(* one instant: every file in it is as it was when the last of them was        *)
(* hashed.  That rests on no record returning to an earlier content, which     *)
(* racing commands can bring about: with a recovery that overtakes a live run  *)
(* it need not hold.                                                           *)
BackupHoldsInstant == backup # "none" => complete /\ (overlapped \/ instant)
=============================================================================

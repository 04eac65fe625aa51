------------------------------- MODULE Backup -------------------------------
(* create-backup, verify-backup and restore-backup.  A backup is taken without *)
(* any lock: it walks curricula/ and then state/, hashing every file it meets, *)
(* copies the files it has met, and publishes the copies if they still have    *)
(* their digests.  Commands replace records under it all the time, but each    *)
(* replacement is atomic.                                                      *)
(*                                                                             *)
(* A digest is the content itself.  Of a copy only what the verification tells *)
(* apart is kept: that it agrees with the manifest, or not.                    *)
EXTENDS LabFiles

CONSTANT MaxMishaps   \* failing calls, stops and damage to the backup

ASSUME MishapAssumption == MaxMishaps \in Nat

VARIABLES
  taker,       \* create_backup: where it is
  walk,        \*   the directories of state/ it has listed and not yet entered
  names,       \*   the files of the directory at hand still to hash
  manifest,    \*   the digest of every file met
  copying,     \*   the files still to copy
  intact,      \*   what is copied agrees with the manifest
  began,       \* the files there were when the walk began
  complete,    \* the published backup has them all
  instant,     \* when the last file was hashed, all were as the manifest says
  backup,      \* the published backup: none, whole, or damaged since
  restorer,    \* restore_backup: where it is
  staging,     \*   what it has copied
  present,     \*   the destination was an empty directory
  target,      \* the destination
  mishaps

takerVars == <<taker, walk, names, manifest, copying, intact, began, instant, complete>>
restoreVars == <<restorer, staging, present, target>>
backupVars == <<takerVars, restoreVars, backup, mishaps>>

There == {r \in Records : files[r] # None}
Listed(d) == {r \in There : In[r] = d}
NoFiles == [r \in {} |-> None]

BackupInit ==
  /\ taker = "idle"
  /\ walk = {} /\ names = {} /\ manifest = NoFiles /\ copying = {}
  /\ intact = TRUE /\ began = {} /\ instant = FALSE /\ complete = FALSE
  /\ backup = "none"
  /\ restorer = "idle" /\ staging = "none" /\ present = FALSE
  /\ target = "absent"
  /\ mishaps = 0

Mishap == mishaps < MaxMishaps /\ mishaps' = mishaps + 1

-----------------------------------------------------------------------------
(* create_backup *)

BackupBegin ==
  /\ taker = "idle"
  /\ taker' = "curricula"
  /\ names' = Listed("curricula")
  /\ began' = There
  /\ UNCHANGED <<files, walk, manifest, copying, intact, instant, complete, restoreVars, backup,
                 mishaps>>

HashFile ==
  /\ taker \in {"curricula", "state"}
  /\ \E f \in names :
       /\ First(f, names, Names)
       /\ manifest' = [r \in {f} \cup DOMAIN manifest |->
                         IF r = f THEN files[r] ELSE manifest[r]]
       /\ names' = names \ {f}
  /\ UNCHANGED <<files, taker, walk, copying, intact, began, instant, complete, restoreVars,
                 backup, mishaps>>

(* state/ is listed once: a directory made later is not visited. *)
ListState ==
  /\ taker = "curricula" /\ names = {}
  /\ taker' = "state"
  /\ walk' = {d \in StateDirectories : Listed(d) # {}}
  /\ UNCHANGED <<files, names, manifest, copying, intact, began, instant, complete, restoreVars,
                 backup, mishaps>>

ListDirectory ==
  /\ taker = "state" /\ names = {}
  /\ \E d \in walk :
       /\ First(d, walk, Directories)
       /\ names' = Listed(d)
       /\ walk' = walk \ {d}
  /\ UNCHANGED <<files, taker, manifest, copying, intact, began, instant, complete, restoreVars,
                 backup, mishaps>>

(* Every file has its digest: the copying begins. *)
Hashed ==
  /\ taker = "state" /\ names = {} /\ walk = {}
  /\ taker' = "copying"
  /\ copying' = DOMAIN manifest
  /\ instant' = (\A r \in DOMAIN manifest : files[r] = manifest[r])
  /\ UNCHANGED <<files, walk, names, manifest, intact, began, complete, restoreVars, backup,
                 mishaps>>

CopyFile ==
  /\ taker = "copying"
  /\ \E f \in copying :
       /\ First(f, copying, Names)
       /\ copying' = copying \ {f}
       /\ intact' = (intact /\ files[f] = manifest[f])
  /\ UNCHANGED <<files, taker, walk, names, manifest, began, instant, complete, restoreVars,
                 backup, mishaps>>

(* The command ends: its temporary directory is gone. *)
Ends(how) ==
  /\ taker' = how
  /\ walk' = {} /\ names' = {} /\ manifest' = NoFiles /\ copying' = {}
  /\ intact' = TRUE /\ began' = {}

Published ==
  /\ Ends("done")
  /\ backup' = "whole"
  /\ complete' = (began \subseteq DOMAIN manifest)
  /\ UNCHANGED instant

(* Mutant: the copies are not verified. *)
PublishUnverified ==
  /\ taker = "copying" /\ copying = {}
  /\ Published
  /\ UNCHANGED <<files, restoreVars, mishaps>>

(* The staged copies are verified like any backup, and published by a rename. *)
PublishBackup ==
  /\ taker = "copying" /\ copying = {}
  /\ \/ intact /\ Published
     \/ ~intact /\ Ends("refused") /\ instant' = FALSE /\ UNCHANGED <<complete, backup>>
  /\ UNCHANGED <<files, restoreVars, mishaps>>

BackupFails ==
  /\ taker \in {"curricula", "state", "copying"}
  /\ Mishap /\ Ends("refused") /\ instant' = FALSE
  /\ UNCHANGED <<files, restoreVars, complete, backup>>

(* A file of the published backup is changed or lost. *)
Damage ==
  /\ backup = "whole" /\ Mishap
  /\ backup' = "damaged"
  /\ UNCHANGED <<files, takerVars, restoreVars>>

-----------------------------------------------------------------------------
(* restore_backup, and verify_backup as its first step.  The destination does  *)
(* not exist or is an empty directory.                                         *)

RestoreVerify ==
  /\ restorer = "idle" /\ backup # "none"
  /\ restorer' = IF backup = "whole" THEN "verified" ELSE "refused"
  /\ target' \in {"absent", "empty"}
  /\ present' = (target' = "empty")
  /\ UNCHANGED <<files, takerVars, staging, backup, mishaps>>

RestoreCopy ==
  /\ restorer = "verified"
  /\ staging' = backup
  /\ restorer' = "copied"
  /\ UNCHANGED <<files, takerVars, present, target, backup, mishaps>>

(* Mutant: what was verified before the copy is taken to be what was copied. *)
RestoreTrusting ==
  /\ restorer = "copied"
  /\ restorer' = "checked"
  /\ UNCHANGED <<files, takerVars, staging, present, target, backup, mishaps>>

(* The restored tree is hashed and compared, and the backup verified again. *)
RestoreCheck ==
  /\ restorer = "copied"
  /\ IF staging = "whole" /\ backup = "whole"
     THEN restorer' = "checked" /\ UNCHANGED staging
     ELSE restorer' = "refused" /\ staging' = "none"
  /\ UNCHANGED <<files, takerVars, present, target, backup, mishaps>>

RestoreMakeRoom ==
  /\ restorer = "checked"
  /\ restorer' = "publishing"
  /\ target' = "absent"
  /\ UNCHANGED <<files, takerVars, staging, present, backup, mishaps>>

RestorePublish ==
  /\ restorer = "publishing"
  /\ restorer' = "done"
  /\ target' = staging /\ staging' = "none"
  /\ UNCHANGED <<files, takerVars, present, backup, mishaps>>

(* A call raises: the copies go, and the destination is as it was. *)
RestoreFails ==
  /\ restorer \in {"verified", "copied", "checked", "publishing"}
  /\ Mishap
  /\ restorer' = "refused" /\ staging' = "none"
  /\ target' = IF present THEN "empty" ELSE target
  /\ UNCHANGED <<files, takerVars, present, backup>>

BackupNext ==
  \/ BackupBegin \/ HashFile \/ ListState \/ ListDirectory \/ Hashed
  \/ CopyFile \/ PublishBackup \/ BackupFails \/ Damage
  \/ RestoreVerify \/ RestoreCopy \/ RestoreCheck \/ RestoreMakeRoom
  \/ RestorePublish \/ RestoreFails

-----------------------------------------------------------------------------
(* A destination holds the whole of what the backup's manifest names or        *)
(* nothing at all, although the backup may be damaged while it is restored,    *)
(* and a restore that fails leaves an empty destination as it found it.        *)
RestoreWhole ==
  /\ target \in {"absent", "empty", "whole"}
  /\ restorer = "refused" /\ present => target = "empty"
=============================================================================

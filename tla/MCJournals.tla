------------------------------- MODULE MCJournals -------------------------------
(***************************************************************************)
(* What is put back from a journal in one run: the desktop's proxy         *)
(* settings (SystemProxy), the files of a profile transaction              *)
(* (ConfigTransaction) and those of an import (CvrImport).  A behaviour is *)
(* one of a single part; the others rest in an initial state, so that the  *)
(* properties of a part hold of the others' behaviours.                    *)
(***************************************************************************)
EXTENDS SystemProxy, TLC

CONSTANTS
  FileCount, Versions, Absent, MaxJournals,   \* of ConfigTransaction
  BundleSize, Items, Scripts, MaxInputs       \* of CvrImport

VARIABLES
  part,                                                   \* the part in play
  disk, journals, await, tx, todo, answer, unprotected,   \* of ConfigTransaction
  root, catalogs, rollback, backup, at, left, said,       \* of CvrImport
  unjournaled, inputs

Store == INSTANCE ConfigTransaction WITH pc <- await, gaps <- unprotected
Cvr == INSTANCE CvrImport WITH
  FileCount <- BundleSize, Profiles <- Items, disk <- root, journal <- rollback,
  todo <- left, answer <- said, gaps <- unjournaled

ASSUME JournalsAssumption == Store!ConstantsAssumption /\ Cvr!ImportAssumption

ofStore == <<disk, journals, await, tx, todo, answer, unprotected>>
ofCvr == <<root, catalogs, rollback, backup, at, left, said, unjournaled, inputs>>
allVars == <<part, vars, ofStore, ofCvr>>

JournalsInit ==
  /\ Init /\ Store!Init /\ Cvr!Init
  /\ part \in {"proxy", "store", "import"}
  /\ part # "proxy" => settings = [endpoint |-> None, url |-> None, mode |-> "none"]
  /\ part # "import" =>
       /\ root = [p \in Cvr!Paths |-> Absent]
       /\ catalogs.source = [items |-> {}, current |-> Absent, scripted |-> {}]

ProxyNext == part = "proxy" /\ Next /\ UNCHANGED <<part, ofStore, ofCvr>>
StoreNext == part = "store" /\ Store!Next /\ UNCHANGED <<part, vars, ofCvr>>
CvrNext == part = "import" /\ Cvr!Next /\ UNCHANGED <<part, vars, ofStore>>

JournalsNext == ProxyNext \/ StoreNext \/ CvrNext

JournalsSpec == JournalsInit /\ [][JournalsNext]_allVars

Symmetry == Permutations(Endpoints)

\* The properties say nothing of settings that were left half written, nor of a commit that
\* ran unprotected: nothing is explored beyond them, but the end of an aborted task.
Bound == /\ gaps = {} \/ (gaps = {"aborted"} /\ orphan # None)
         /\ unprotected = {}

\* Of ConfigTransaction: a commit that returned Ok is on the disk and stays there, one that
\* returned an error left no trace, and no catalog lists a profile that is missing.
CommitsAreTrue ==
  /\ Store!TypeOK /\ Store!CommittedSurvives /\ Store!FailedIsRestored
  /\ Store!CatalogFilesExist

\* Of ConfigTransaction: whatever is recovered changes in the one step that removes the
\* journal, from all of the old to all of the new.
OneCommitPoint == Store!OneCommitPoint

\* Of CvrImport: an import is there as a whole or not at all, with a backup of what was the
\* application's own and a catalog that is closed.
ImportIsWhole == Cvr!TypeOK /\ Cvr!ImportIsWhole /\ Cvr!ImportIsSound
=============================================================================

-------------------------- MODULE ConfigTransaction --------------------------
(***************************************************************************)
(* The crash-safe commit of crates/rsclash-config: ProfileTransaction      *)
(* (transaction.rs) writes several profile files and the catalog that      *)
(* lists them under a RollbackJournal (store.rs), and ProfileStore::open   *)
(* or RuntimeStore::open replays the journals it finds.  One process owns  *)
(* the directory; it may be killed between any two file operations, and    *)
(* any file operation may fail.                                            *)
(*                                                                         *)
(* A file operation has three outcomes (store.rs atomic_write,             *)
(* remove_file): "done"; "refused", an error with nothing changed; and     *)
(* "unsynced", where the rename or unlink took effect and syncing the      *)
(* directory then failed, so the caller sees an error although the change  *)
(* is on disk.                                                             *)
(*                                                                         *)
(* Paths are numbered in the order of the transaction's BTreeMap, the      *)
(* profile files first and the catalog last; a profile's content is a      *)
(* version, the catalog's content is the set of files it lists.            *)
(***************************************************************************)
EXTENDS Naturals, FiniteSets, FiniteSetsExt

CONSTANTS
  FileCount,     \* number of profile file names
  Versions,      \* contents of a profile file
  Absent,        \* the content of a path without a file
  MaxJournals    \* bound on the journals on disk, and the names they sort by

ConstantsAssumption ==
  /\ FileCount \in Nat \ {0}
  /\ MaxJournals \in Nat \ {0}
  /\ Absent \notin Versions
  /\ \A S \in SUBSET (1 .. FileCount) : Absent # S

VARIABLES
  disk,       \* the content of every path
  journals,   \* the journal files: name -> the snapshots it holds
  pc,         \* where the process is
  tx,         \* the transaction being committed, or the last one
  todo,       \* paths the current loop still has to write
  answer,     \* what the last commit returned
  gaps        \* history: the ways in which a commit ran unprotected

vars == <<disk, journals, pc, tx, todo, answer, gaps>>

Files == 1 .. FileCount
Catalog == FileCount + 1
Paths == 1 .. FileCount + 1
Names == 1 .. MaxJournals

Content == Versions \cup {Absent} \cup SUBSET Files

(* A partial map of paths to contents: the writes of a transaction and the *)
(* snapshots of its journal.                                               *)
IsPartial(f) ==
  /\ DOMAIN f \subseteq Paths
  /\ \A p \in DOMAIN f : f[p] \in Content

Outcomes(p, content) ==
  IF content = Absent /\ disk[p] = Absent
    THEN {"done"}
    ELSE {"done", "refused", "unsynced"}

Put(p, content, outcome) ==
  disk' = IF outcome = "refused" THEN disk ELSE [disk EXCEPT ![p] = content]

Without(name) == [n \in DOMAIN journals \ {name} |-> journals[n]]

Unlink(name, outcome) ==
  journals' = IF outcome = "refused" THEN journals ELSE Without(name)

(* load_catalog: a directory without a catalog has the empty one.          *)
Listed(d) == IF d[Catalog] = Absent THEN {} ELSE d[Catalog]

(* What recovery would make of the directory: the journals are replayed in *)
(* the order of their names, so the greatest name that saved a path wins.  *)
Recovered ==
  [p \in Paths |->
     LET saved == {n \in DOMAIN journals : p \in DOMAIN journals[n]}
     IN IF saved = {} THEN disk[p] ELSE journals[Max(saved)][p]]

(* The paths of the journal that sorts first.                              *)
FirstJournal == Min(DOMAIN journals)

FirstEntries(js) == IF DOMAIN js = {} THEN {} ELSE DOMAIN js[Min(DOMAIN js)]

(* Every variable has its type, and a loop only has paths of its own left. *)
TypeOK ==
  /\ DOMAIN disk = Paths
  /\ \A f \in Files : disk[f] \in Versions \cup {Absent}
  /\ disk[Catalog] \in {Absent} \cup SUBSET Files
  /\ DOMAIN journals \subseteq Names
  /\ \A n \in DOMAIN journals : IsPartial(journals[n])
  /\ pc \in {"closed", "booting", "recovering", "open",
             "apply", "undo", "undo_committed"}
  /\ IsPartial(tx.writes) /\ IsPartial(tx.before)
  /\ tx.journal \in Names \cup {0}
  /\ todo \subseteq
       CASE pc \in {"booting", "recovering"} -> FirstEntries(journals)
         [] pc = "apply" -> DOMAIN tx.writes
         [] pc \in {"undo", "undo_committed"} -> DOMAIN tx.before
         [] OTHER -> {}
  /\ answer \in {"none", "committed", "failed", "unrestored"}
  /\ gaps \subseteq {"leftover", "unjournaled"}

Init ==
  /\ disk = [p \in Paths |-> Absent]
  /\ journals = [n \in {} |-> <<>>]
  /\ pc = "closed"
  /\ tx = [writes |-> [p \in {} |-> Absent], before |-> [p \in {} |-> Absent],
           journal |-> 0]
  /\ todo = {}
  /\ answer = "none"
  /\ gaps = {}

-----------------------------------------------------------------------------
(* Recovery                                                                *)

(* ProfileStore::open when the application starts ("booting"), and         *)
(* RuntimeStore::open in every activation of the running one.              *)
Open ==
  /\ \/ pc = "closed" /\ pc' = "booting"
     \/ pc = "open" /\ pc' = "recovering"
  /\ todo' = FirstEntries(journals)
  /\ UNCHANGED <<disk, journals, tx, answer, gaps>>

(* The first error ends recovery: open returns it.                         *)
RecoveryStops ==
  /\ pc' = (IF pc = "booting" THEN "closed" ELSE "open")
  /\ todo' = {}

(* recover_journal: one entry, in the reverse order of the manifest.       *)
RecoverEntry ==
  /\ pc \in {"booting", "recovering"}
  /\ todo # {}
  /\ LET p == Max(todo)
         content == journals[FirstJournal][p]
     IN \E outcome \in Outcomes(p, content) :
          /\ Put(p, content, outcome)
          /\ IF outcome = "done"
               THEN todo' = todo \ {p} /\ UNCHANGED pc
               ELSE RecoveryStops
  /\ UNCHANGED <<journals, tx, answer, gaps>>

RecoverJournal ==
  /\ pc \in {"booting", "recovering"}
  /\ todo = {}
  /\ DOMAIN journals # {}
  /\ \E outcome \in {"done", "refused", "unsynced"} :
       /\ Unlink(FirstJournal, outcome)
       /\ IF outcome = "done"
            THEN todo' = FirstEntries(journals') /\ UNCHANGED pc
            ELSE RecoveryStops
  /\ UNCHANGED <<disk, tx, answer, gaps>>

Recover ==
  /\ pc \in {"booting", "recovering"}
  /\ DOMAIN journals = {}
  /\ pc' = "open"
  /\ UNCHANGED <<disk, journals, tx, todo, answer, gaps>>

-----------------------------------------------------------------------------
(* Committing                                                              *)

(* What a transaction may stage: new content for some files and the        *)
(* removal of some listed ones; the catalog drops the removed ones and     *)
(* lists the others (stage_profile, add_profile, remove_profile).          *)
Changes(S) ==
  {c \in [S -> Versions \cup {Absent}] :
     \A f \in S : c[f] = Absent => f \in Listed(disk)}

Staged(c) ==
  LET removed == {f \in DOMAIN c : c[f] = Absent}
  IN [p \in DOMAIN c \cup {Catalog} |->
        IF p = Catalog THEN (Listed(disk) \cup DOMAIN c) \ removed ELSE c[p]]

(* Mutant: only the profile files are saved.                               *)
SnapshotsWithoutCatalog(writes) ==
  [p \in DOMAIN writes \ {Catalog} |-> disk[p]]

Snapshots(writes) == [p \in DOMAIN writes |-> disk[p]]

Return(result) ==
  /\ pc' = "open"
  /\ answer' = result
  /\ todo' = {}

(* commit up to RollbackJournal::create: the snapshots are saved under a   *)
(* name no other journal has.  A journal whose directory could not be      *)
(* synced stays on disk although create returns its error.                 *)
Begin ==
  /\ pc = "open"
  /\ \E S \in SUBSET Files \ {{}} :
     \E c \in Changes(S), name \in Names \ DOMAIN journals,
        outcome \in {"done", "refused", "unsynced"} :
       LET before == Snapshots(Staged(c))
       IN /\ tx' = [writes |-> Staged(c), before |-> before, journal |-> name]
          /\ journals' = IF outcome = "refused" THEN journals
                         ELSE [n \in DOMAIN journals \cup {name} |->
                                 IF n = name THEN before ELSE journals[n]]
          /\ IF outcome = "done"
               THEN /\ pc' = "apply"
                    /\ answer' = "none"
                    /\ todo' = DOMAIN Staged(c)
               ELSE Return("failed")
          /\ gaps' = IF DOMAIN journals = {} THEN gaps
                     ELSE gaps \cup {"leftover"}
  /\ UNCHANGED disk

(* Mutant: only the writes that were not made are undone.                  *)
StartUndoOfRest(phase) ==
  /\ pc' = phase
  /\ todo' = todo

StartUndo(phase) ==
  /\ pc' = phase
  /\ todo' = DOMAIN tx.before

(* apply_writes: the files in path order, the catalog last.                *)
Apply ==
  /\ pc = "apply"
  /\ todo # {}
  /\ LET p == Min(todo)
     IN \E outcome \in Outcomes(p, tx.writes[p]) :
          /\ Put(p, tx.writes[p], outcome)
          /\ IF outcome = "done"
               THEN todo' = todo \ {p} /\ UNCHANGED pc
               ELSE StartUndo("undo")
  /\ UNCHANGED <<journals, tx, answer, gaps>>

(* Mutant: commit returns Ok whatever became of the journal.               *)
CompleteIgnoresErrors ==
  /\ pc = "apply"
  /\ todo = {}
  /\ \E outcome \in {"done", "refused", "unsynced"} : Unlink(tx.journal, outcome)
  /\ Return("committed")
  /\ UNCHANGED <<disk, tx, gaps>>

(* journal.complete() after every write succeeded.  Its failure undoes the *)
(* writes, whether or not the journal is still there to protect the undo.  *)
Complete ==
  /\ pc = "apply"
  /\ todo = {}
  /\ \E outcome \in {"done", "refused", "unsynced"} :
       /\ Unlink(tx.journal, outcome)
       /\ IF outcome = "done"
            THEN Return("committed")
            ELSE StartUndo("undo_committed") /\ UNCHANGED answer
       /\ gaps' = IF outcome = "unsynced" THEN gaps \cup {"unjournaled"} ELSE gaps
  /\ UNCHANGED <<disk, tx>>

(* restore_snapshots: every path of the transaction in reverse order,      *)
(* including those that were not written; its first error is returned as   *)
(* Error::CommitRollback.                                                  *)
Undo ==
  /\ pc \in {"undo", "undo_committed"}
  /\ todo # {}
  /\ LET p == Max(todo)
     IN \E outcome \in Outcomes(p, tx.before[p]) :
          /\ Put(p, tx.before[p], outcome)
          /\ IF outcome = "done"
               THEN todo' = todo \ {p} /\ UNCHANGED <<pc, answer>>
               ELSE Return("unrestored")
  /\ UNCHANGED <<journals, tx, gaps>>

(* After a failed write the journal is removed; after a failed complete it *)
(* is left where it is.                                                    *)
UndoReturns ==
  /\ pc \in {"undo", "undo_committed"}
  /\ todo = {}
  /\ IF pc = "undo_committed"
       THEN Return("failed") /\ UNCHANGED journals
       ELSE \E outcome \in {"done", "refused", "unsynced"} :
              /\ Unlink(tx.journal, outcome)
              /\ Return(IF outcome = "done" THEN "failed" ELSE "unrestored")
  /\ UNCHANGED <<disk, tx, gaps>>

(* The process is killed, or the machine loses power.                      *)
Crash ==
  /\ pc # "closed"
  /\ pc' = "closed"
  /\ todo' = {}
  /\ UNCHANGED <<disk, journals, tx, answer, gaps>>

Next ==
  \/ Open \/ RecoverEntry \/ RecoverJournal \/ Recover
  \/ Begin \/ Apply \/ Complete \/ Undo \/ UndoReturns
  \/ Crash

Spec == Init /\ [][Next]_vars

-----------------------------------------------------------------------------
(* Properties                                                              *)

Merge(d, changes) ==
  [p \in Paths |-> IF p \in DOMAIN changes THEN changes[p] ELSE d[p]]

(* Removing the journal is the one commit point: whatever the process is   *)
(* doing and wherever it is killed, what recovery would make of the        *)
(* directory changes in a single step, from the old content to the content *)
(* of the whole transaction (transaction.rs commit, store.rs recovery).    *)
OneCommitPoint ==
  [][gaps' = {} =>
       \/ Recovered' = Recovered
       \/ /\ Complete
          /\ Recovered' = Merge(Recovered, tx.writes)]_vars

(* A directory at rest never lists a profile whose file is missing, nor    *)
(* would a recovery from the present moment leave one that does            *)
(* (transaction.rs apply_writes puts the catalog last).                    *)
ListsFiles(d) == \A f \in Listed(d) : d[f] # Absent

CatalogFilesExist ==
  gaps = {} =>
    /\ ListsFiles(Recovered)
    /\ pc = "open" /\ answer # "unrestored" => ListsFiles(disk)

(* A commit that returned Ok is still there after any number of later      *)
(* recoveries and restarts (commit 190-234, recover_pending_transactions). *)
Survives ==
  pc \in {"open", "closed"} /\ answer = "committed" =>
    \A p \in DOMAIN tx.writes : disk[p] = tx.writes[p]

CommittedSurvives == gaps = {} => Survives

(* An error that is not CommitRollback means that every path of the        *)
(* transaction has its old content (transaction.rs 205-231).               *)
FailedIsRestored ==
  gaps = {} /\ pc = "open" /\ answer = "failed" =>
    \A p \in DOMAIN tx.before : disk[p] = tx.before[p]

(* Opening the store recovers unfinished transactions only (test              *)
(* opening_store_recovers_an_unfinished_file_transaction, store.rs:516).   *)
RecoversOnlyUnfinished == "unjournaled" \notin gaps => Survives
=============================================================================

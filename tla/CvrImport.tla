------------------------------- MODULE CvrImport -------------------------------
(***************************************************************************)
(* CvrImporter::import (rsclash-config/import.rs) takes over the files of  *)
(* another application, once: it writes them, and a marker last, under a   *)
(* RollbackJournal, after it has backed up what was there.  Between any    *)
(* two file operations the process may be killed; each may fail, with the  *)
(* outcomes that ConfigTransaction has.  The store is opened by the import *)
(* and by the rest of the application, and replays the journal it finds.   *)
(*                                                                         *)
(* Paths are numbered in the order of the BTreeMap: 0 is the marker, whose *)
(* name sorts first, then the files, the catalog among them.  A file is    *)
(* the application's own or the imported one; a profile is a script or     *)
(* not, and a profile's option may refer to a script.                      *)
(***************************************************************************)
EXTENDS Naturals, FiniteSets, FiniteSetsExt

CONSTANTS
  FileCount,   \* the files of the bundle, the catalog being the last
  Profiles,    \* profiles of the source's catalog
  Scripts,     \* those that are scripts
  Absent,      \* the content of a path without a file
  MaxInputs    \* bound on imports, openings, failures and crashes

ImportAssumption ==
  /\ FileCount \in Nat \ {0} /\ MaxInputs \in Nat
  /\ Scripts \subseteq Profiles
  /\ Absent \notin Profiles \cup {"own", "cvr"}
  /\ \A first \in {0, 1} : Absent \notin [first..FileCount -> {"own", "cvr", Absent}]

VARIABLES
  disk,      \* the content of every path
  catalogs,  \* the catalog of the source, and the one that a bundle holds
  journal,   \* the snapshots of the journal on disk, or Absent
  backup,    \* the backup that is under way, or the last one made
  at,        \* where the import or the opening is
  todo,      \* the paths that its loop has left
  answer,    \* what the last import answered
  gaps,      \* history: a journal was removed although its removal was reported as failed
  inputs     \* how many inputs there have been

vars == <<disk, catalogs, journal, backup, at, todo, answer, gaps, inputs>>

Marker == 0
Files == 1..FileCount
Paths == 0..FileCount
Contents == {"own", "cvr", Absent}
Catalogs == [items : SUBSET Profiles, current : Profiles \cup {Absent},
             scripted : SUBSET Profiles]
IsCatalog(c) == /\ c.current \in c.items \cup {Absent}
                /\ c.scripted \subseteq c.items \ Scripts

\* Every loop has only paths left.
TypeOK ==
  /\ disk \in [Paths -> Contents] /\ disk[Marker] # "own"
  /\ IsCatalog(catalogs.source)
  /\ journal = Absent \/ journal \in [Paths -> Contents]
  /\ backup = Absent \/ backup \in [Files -> Contents]
  /\ at \in {"idle", "marker", "load", "recover", "opening", "recheck", "backup", "journal",
             "write", "undo"}
  /\ todo \subseteq Paths
  /\ answer \in {"none", "imported", "already", "failed", "unrestored"}

Init ==
  /\ \E own \in [Files -> {"own", Absent}] :
       disk = [p \in Paths |-> IF p = Marker THEN Absent ELSE own[p]]
  /\ \E c \in Catalogs : IsCatalog(c) /\ catalogs = [source |-> c, bundle |-> Absent]
  /\ journal = Absent /\ backup = Absent
  /\ at = "idle" /\ todo = {} /\ answer = "none" /\ gaps = {} /\ inputs = 0

Input == inputs < MaxInputs /\ inputs' = inputs + 1

Outcomes == {"done", "refused", "unsynced"}

Put(p, content, outcome) ==
  disk' = IF outcome = "refused" THEN disk ELSE [disk EXCEPT ![p] = content]

\* A failure is an input.
Counted(outcome) == IF outcome = "done" THEN UNCHANGED inputs ELSE Input

Answer(result) == at' = "idle" /\ todo' = {} /\ answer' = result

-----------------------------------------------------------------------------
(* Opening the store                                                       *)

\* By the import, or ("opening") by the application
RecoverEntry ==
  /\ at \in {"recover", "opening"} /\ journal # Absent /\ todo # {}
  /\ \E outcome \in Outcomes :
       /\ Put(Max(todo), journal[Max(todo)], outcome) /\ Counted(outcome)
       /\ IF outcome = "done" THEN todo' = todo \ {Max(todo)} /\ UNCHANGED <<at, answer>>
          ELSE IF at = "recover" THEN Answer("failed")
          ELSE at' = "idle" /\ todo' = {} /\ UNCHANGED answer
  /\ UNCHANGED <<catalogs, journal, backup, gaps>>

\* The journal that has been replayed is removed.
RecoverJournal ==
  /\ at \in {"recover", "opening"} /\ todo = {}
  /\ \E outcome \in IF journal = Absent THEN {"done"} ELSE Outcomes :
       /\ Counted(outcome)
       /\ journal' = IF outcome = "refused" THEN journal ELSE Absent
       /\ IF outcome = "done" /\ at = "recover"
          THEN at' = "recheck" /\ UNCHANGED <<todo, answer>>
          ELSE IF at = "recover" THEN Answer("failed")
          ELSE at' = "idle" /\ UNCHANGED <<todo, answer>>
  /\ UNCHANGED <<disk, catalogs, backup, gaps>>

ToReplay == IF journal = Absent THEN {} ELSE Paths

\* ProfileStore::open, when the application starts
Open ==
  /\ Input /\ at = "idle" /\ at' = "opening" /\ todo' = ToReplay
  /\ UNCHANGED <<disk, catalogs, journal, backup, answer, gaps>>

-----------------------------------------------------------------------------
(* import                                                                  *)

Import ==
  /\ Input /\ at = "idle" /\ at' = "marker"
  /\ UNCHANGED <<disk, catalogs, journal, backup, todo, answer, gaps>>

\* The first look at the marker, before the store is opened
CheckMarker ==
  /\ at = "marker"
  /\ IF disk[Marker] # Absent
     THEN Answer("already")
     ELSE at' = "load" /\ UNCHANGED <<todo, answer>>
  /\ UNCHANGED <<disk, catalogs, journal, backup, gaps, inputs>>

\* remove_script_profiles
ScriptsRemoved(c) ==
  [items |-> c.items \ Scripts, scripted |-> {},
   current |-> IF c.current \in Scripts THEN Absent ELSE c.current]

\* ImportBundle::load: all of the source is read and validated, or nothing is done.
Load ==
  /\ at = "load"
  /\ catalogs' = [catalogs EXCEPT !.bundle = ScriptsRemoved(catalogs.source)]
  /\ at' = "recover" /\ todo' = ToReplay
  /\ UNCHANGED <<disk, journal, backup, answer, gaps, inputs>>

LoadFails ==
  /\ Input /\ at = "load" /\ Answer("failed")
  /\ UNCHANGED <<disk, catalogs, journal, backup, gaps>>

\* The second look, at what recovery has left
RecheckMarker ==
  /\ at = "recheck"
  /\ IF disk[Marker] # Absent
     THEN Answer("already")
     ELSE at' = "backup" /\ UNCHANGED <<todo, answer>>
  /\ UNCHANGED <<disk, catalogs, journal, backup, gaps, inputs>>

\* create_backup and make_backup_read_only, of a directory of its own each time
Backup ==
  /\ at = "backup" /\ at' = "journal"
  /\ backup' = [f \in Files |-> disk[f]]
  /\ UNCHANGED <<disk, catalogs, journal, todo, answer, gaps, inputs>>

BackupFails ==
  /\ Input /\ at = "backup" /\ Answer("failed")
  /\ UNCHANGED <<disk, catalogs, journal, backup, gaps>>

CreateJournal ==
  /\ at = "journal"
  /\ \E outcome \in Outcomes :
       /\ Counted(outcome)
       /\ journal' = IF outcome = "refused" THEN journal ELSE disk
       /\ IF outcome = "done" THEN at' = "write" /\ todo' = Paths /\ UNCHANGED answer
                              ELSE Answer("failed")
  /\ UNCHANGED <<disk, catalogs, backup, gaps>>

\* apply_import_writes: in the order of the paths, the marker after all others
NextWrite == IF todo = {Marker} THEN Marker ELSE Min(todo \ {Marker})

\* Mutant: only what was not written is put back.
StartUndoOfRest == at' = "undo" /\ todo' = todo

StartUndo == at' = "undo" /\ todo' = Paths

Write ==
  /\ at = "write" /\ todo # {}
  /\ \E outcome \in Outcomes :
       /\ Put(NextWrite, "cvr", outcome) /\ Counted(outcome)
       /\ IF outcome = "done" THEN todo' = todo \ {NextWrite} /\ UNCHANGED at ELSE StartUndo
  /\ UNCHANGED <<catalogs, journal, backup, answer, gaps>>

Complete ==
  /\ at = "write" /\ todo = {}
  /\ \E outcome \in Outcomes :
       /\ Counted(outcome)
       /\ journal' = IF outcome = "refused" THEN journal ELSE Absent
       /\ gaps' = IF outcome = "unsynced" THEN gaps \cup {"unjournaled"} ELSE gaps
       /\ IF outcome = "done" THEN Answer("imported") ELSE StartUndo /\ UNCHANGED answer
  /\ UNCHANGED <<disk, catalogs, backup>>

\* rollback_import: every path, in reverse order, ending with the marker
Undo ==
  /\ at = "undo" /\ todo # {}
  /\ \E outcome \in Outcomes :
       /\ Put(Max(todo), IF Max(todo) = Marker THEN Absent ELSE backup[Max(todo)], outcome)
       /\ Counted(outcome)
       /\ IF outcome = "done"
          THEN todo' = todo \ {Max(todo)} /\ UNCHANGED <<at, answer>>
          ELSE Answer("unrestored")
  /\ UNCHANGED <<catalogs, journal, backup, gaps>>

UndoReturns ==
  /\ at = "undo" /\ todo = {}
  /\ \E outcome \in IF journal = Absent THEN {"done"} ELSE Outcomes :
       /\ Counted(outcome)
       /\ journal' = IF outcome = "refused" THEN journal ELSE Absent
       /\ Answer(IF outcome = "done" THEN "failed" ELSE "unrestored")
  /\ UNCHANGED <<disk, catalogs, backup, gaps>>

Crash ==
  /\ Input /\ at # "idle"
  /\ at' = "idle" /\ todo' = {}
  /\ UNCHANGED <<disk, catalogs, journal, backup, answer, gaps>>

Next ==
  \/ Open \/ RecoverEntry \/ RecoverJournal
  \/ Import \/ CheckMarker \/ Load \/ LoadFails \/ RecheckMarker \/ Backup \/ BackupFails
  \/ CreateJournal \/ Write \/ Complete \/ Undo \/ UndoReturns \/ Crash

Spec == Init /\ [][Next]_vars

-----------------------------------------------------------------------------
(* Properties                                                              *)

\* A directory without a journal that nobody is at is as it was, or the import is there as a
\* whole, with its marker: whatever failed and wherever it was killed in between.
Whole(d) == \/ d[Marker] = Absent /\ \A f \in Files : d[f] # "cvr"
            \/ \A p \in Paths : d[p] = "cvr"

ImportIsWhole ==
  at \in {"idle", "backup", "journal"} /\ journal = Absent /\ gaps = {} => Whole(disk)

\* The backup that a marker's receipt names holds what was there before the import, so that
\* nothing of the application's own is lost, and the catalog refers to no script.
ImportIsSound ==
  /\ disk[Marker] # Absent /\ gaps = {} => \A f \in Files : backup[f] # "cvr"
  /\ answer = "imported" =>
       LET c == catalogs.bundle
       IN c.items \cap Scripts = {} /\ c.scripted = {} /\ c.current \in c.items \cup {Absent}

=============================================================================

------------------------------ MODULE SystemProxy ------------------------------
(***************************************************************************)
(* The desktop's proxy settings in the hands of rsclash: the               *)
(* SystemProxyService of rsclash-platform with its recovery journal, over  *)
(* the gsettings backend (linux_proxy.rs), as the startup audit, the       *)
(* system proxy worker and the shutdown of the application call it.        *)
(*                                                                         *)
(* The settings are written key by key in a blocking task.  The task goes  *)
(* on when the operation that awaits it is aborted, and dies with the      *)
(* process.  The user, or another program, may change the same keys at any *)
(* time.                                                                   *)
(*                                                                         *)
(* Reading all the keys is one step, and so is saving what was read to the *)
(* journal: a change made in between is as good as one made right after.   *)
(* Three keys stand for the eight that are written: the endpoints, the PAC *)
(* URL and, last, the mode.                                                *)
(***************************************************************************)
EXTENDS Naturals

CONSTANTS
  Endpoints,   \* proxy endpoints
  Urls,        \* PAC URLs
  None         \* Option::None: no endpoint, no URL, no file

Modes == {"none", "manual", "auto"}
Snapshot == [endpoint : Endpoints \cup {None}, url : Urls \cup {None}, mode : Modes]
Pending == [original : Snapshot, target : Snapshot]

Keys == <<"endpoint", "url", "mode">>
Last == 3

\* A blocking task: the values it writes and the key it writes next.
Task == [values : Snapshot, next : 1 .. Last + 1]
NewTask(values) == [values |-> values, next |-> 1]

ASSUME NoneAssumption == None \notin Pending \cup Snapshot \cup Task

VARIABLES
  settings,   \* the desktop's proxy settings
  journal,    \* system-recovery.json
  target,     \* what the service enabled: SystemProxyService::target
  phase,      \* the life of the application
  pc,         \* where the operation in progress is suspended
  task,       \* the blocking task it awaits
  orphan,     \* a blocking task nobody awaits any more
  outcome,    \* what the last operation returned
  user,       \* history: the settings as the user last left them
  gaps        \* history: how the settings came to be half written

vars == <<settings, journal, target, phase, pc, task, orphan, outcome, user, gaps>>

Phases == {"off", "audit", "running", "shutdown", "exiting"}
Pcs == {"idle", "read", "apply", "undo", "compare", "compare_again", "restore"}
Outcomes == {"none", "enabled", "nothing", "restored", "preserved", "error"}
Tasks == Task \cup {None}

\* Every variable has its type, and an operation awaits a task exactly while it
\* writes.
TypeOK ==
  /\ settings \in Snapshot
  /\ journal \in Pending \cup {None}
  /\ target \in Snapshot \cup {None}
  /\ phase \in Phases
  /\ pc \in Pcs
  /\ task \in Tasks
  /\ orphan \in Tasks
  /\ outcome \in Outcomes
  /\ user \in Snapshot
  /\ gaps \subseteq {"failed", "aborted", "killed", "raced"}
  /\ task # None <=> pc \in {"apply", "undo", "restore"}

Init ==
  /\ settings \in Snapshot
  /\ journal = None
  /\ target = None
  /\ phase = "off"
  /\ pc = "idle"
  /\ task = None
  /\ orphan = None
  /\ outcome = "none"
  /\ user = settings
  /\ gaps = {}

-----------------------------------------------------------------------------
(* The journal file and the blocking tasks                                 *)

\* RecoveryStore::save and clear: done, refused, or done with an error because
\* the directory could not be synced.
FileResults == {"done", "refused", "unsynced"}
Write(pending, result) ==
  journal' = IF result = "refused" THEN journal ELSE pending

Start(values, at) == task' = NewTask(values) /\ pc' = at

Return(result) == pc' = "idle" /\ task' = None /\ outcome' = result

Finished(t) == t.next > Last

\* Half written: neither what was there before nor what was to be there.
Torn == settings \notin {journal.original, journal.target}

\* One key of a task reaches the desktop.
WriteKey ==
  /\ task # None
  /\ ~Finished(task)
  /\ settings' = [settings EXCEPT ![Keys[task.next]] = task.values[Keys[task.next]]]
  /\ task' = [task EXCEPT !.next = @ + 1]
  /\ UNCHANGED <<journal, target, phase, pc, orphan, outcome, user, gaps>>

OrphanWritesKey ==
  /\ orphan # None
  /\ ~Finished(orphan)
  /\ settings' = [settings EXCEPT ![Keys[orphan.next]] = orphan.values[Keys[orphan.next]]]
  /\ orphan' = [orphan EXCEPT !.next = @ + 1]
  /\ UNCHANGED <<journal, target, phase, pc, task, outcome, user, gaps>>

\* The task ends after its last key, or when a key is refused.
OrphanEnds ==
  /\ orphan # None
  /\ orphan' = None
  /\ UNCHANGED <<settings, journal, target, phase, pc, task, outcome, user, gaps>>

-----------------------------------------------------------------------------
(* enable                                                                  *)

\* enable_target: the gate is free, the journal is read.
CallEnable ==
  /\ phase = "running"
  /\ pc = "idle"
  /\ \/ journal = None /\ pc' = "read" /\ UNCHANGED outcome
     \/ pc' = "idle" /\ outcome' = "error"
  /\ UNCHANGED <<settings, journal, target, phase, task, orphan, user, gaps>>

\* What enable and enable_pac make of the settings they find.
Targets ==
  {[settings EXCEPT !.endpoint = e, !.mode = "manual"] : e \in Endpoints}
    \cup {[settings EXCEPT !.url = u, !.mode = "auto"] : u \in Urls}

MarkPending(result) ==
  \E values \in Targets :
    /\ Write([original |-> settings, target |-> values], result)
    /\ IF result = "done"
       THEN Start(values, "apply") /\ UNCHANGED outcome
       ELSE Return("error")

\* current() returned: the original is saved before the first key is written.
EnableReads ==
  /\ pc = "read"
  /\ \/ \E result \in FileResults : MarkPending(result)
     \/ Return("error") /\ UNCHANGED journal
  /\ UNCHANGED <<settings, target, phase, orphan, user, gaps>>

ApplyReturns ==
  /\ pc = "apply"
  /\ Finished(task)
  /\ target' = task.values
  /\ Return("enabled")
  /\ UNCHANGED <<settings, journal, phase, orphan, user, gaps>>

\* A key was refused: the original is written again.
ApplyFails ==
  /\ pc = "apply"
  /\ ~Finished(task)
  /\ Start(journal.original, "undo")
  /\ UNCHANGED <<settings, journal, target, phase, orphan, outcome, user, gaps>>

\* The journal goes once the original is back.
UndoReturns ==
  /\ pc = "undo"
  /\ Finished(task)
  /\ \E result \in FileResults : Write(None, result)
  /\ Return("error")
  /\ UNCHANGED <<settings, target, phase, orphan, user, gaps>>

Failing == gaps' = IF Torn THEN gaps \cup {"failed"} ELSE gaps

UndoFails ==
  /\ pc = "undo"
  /\ ~Finished(task)
  /\ Return("error")
  /\ Failing
  /\ UNCHANGED <<settings, journal, target, phase, orphan, user>>

-----------------------------------------------------------------------------
(* disable and restore_pending                                             *)

\* An operation of the startup audit or the shutdown is the last of its phase.
Ends ==
  phase' = CASE phase = "audit" -> "running"
             [] phase = "shutdown" -> "exiting"
             [] OTHER -> phase

\* disable, called by the worker, and restore_pending, by the audit and the
\* shutdown: the journal is read.
CallRestore ==
  /\ phase \in {"audit", "running", "shutdown"}
  /\ pc = "idle"
  /\ \/ /\ journal = None
        /\ target' = None
        /\ Return("nothing")
        /\ Ends
     \/ /\ journal # None
        /\ pc' = "compare"
        /\ UNCHANGED <<target, phase, task, outcome>>
     \/ Return("error") /\ Ends /\ UNCHANGED target
  /\ UNCHANGED <<settings, journal, orphan, user, gaps>>

\* Clearing the journal ends the operation; an error leaves `target' alone.
Clear(success) ==
  /\ \E result \in FileResults :
       /\ Write(None, result)
       /\ IF result = "done"
          THEN target' = None /\ Return(success)
          ELSE UNCHANGED target /\ Return("error")
  /\ Ends

ReadFails == Return("error") /\ Ends /\ UNCHANGED <<journal, target>>

\* restore_if_owned: settings other than the target are the user's.
Compare ==
  /\ pc = "compare"
  /\ \/ settings # journal.target /\ Clear("preserved")
     \/ /\ settings = journal.target
        /\ pc' = "compare_again"
        /\ UNCHANGED <<journal, target, phase, task, outcome>>
     \/ ReadFails
  /\ UNCHANGED <<settings, orphan, user, gaps>>

\* Mutant: what the second look finds is overwritten.
CompareOnce ==
  /\ pc = "compare_again"
  /\ Start(journal.original, "restore")
  /\ UNCHANGED <<settings, journal, target, phase, orphan, outcome, user, gaps>>

\* The backend's restore looks again before it writes.
CompareAgain ==
  /\ pc = "compare_again"
  /\ \/ settings # journal.target /\ Clear("restored")
     \/ /\ settings = journal.target
        /\ Start(journal.original, "restore")
        /\ UNCHANGED <<journal, target, phase, outcome>>
     \/ ReadFails
  /\ UNCHANGED <<settings, orphan, user, gaps>>

RestoreReturns ==
  /\ pc = "restore"
  /\ Finished(task)
  /\ Clear("restored")
  /\ UNCHANGED <<settings, orphan, user, gaps>>

\* The journal stays for the next attempt.
RestoreFails ==
  /\ pc = "restore"
  /\ ~Finished(task)
  /\ Return("error")
  /\ Ends
  /\ Failing
  /\ UNCHANGED <<settings, journal, target, orphan, user>>

-----------------------------------------------------------------------------
(* The life of the application                                             *)

\* The audit comes before the worker is spawned.
Launch ==
  /\ phase = "off"
  /\ phase' = "audit"
  /\ outcome' = "none"
  /\ UNCHANGED <<settings, journal, target, pc, task, orphan, user, gaps>>

\* BackendHandle::shutdown aborts the worker at the await it is suspended at;
\* its blocking task goes on.
Shutdown ==
  /\ phase = "running"
  /\ phase' = "shutdown"
  /\ pc' = "idle"
  /\ task' = None
  /\ orphan' = task
  /\ gaps' = IF task = None THEN gaps ELSE gaps \cup {"aborted"}
  /\ UNCHANGED <<settings, journal, target, outcome, user>>

\* Mutant: the application exits without restoring what is pending.
ExitAtOnce ==
  /\ phase \in {"shutdown", "exiting"}
  /\ pc = "idle"
  /\ orphan = None
  /\ phase' = "off"
  /\ target' = None
  /\ UNCHANGED <<settings, journal, pc, task, orphan, outcome, user, gaps>>

\* The runtime waits for its blocking tasks.
Exit ==
  /\ phase = "exiting"
  /\ orphan = None
  /\ phase' = "off"
  /\ target' = None
  /\ UNCHANGED <<settings, journal, pc, task, orphan, outcome, user, gaps>>

Kill ==
  /\ phase # "off"
  /\ phase' = "off"
  /\ pc' = "idle"
  /\ task' = None
  /\ orphan' = None
  /\ target' = None
  /\ outcome' = "error"
  /\ gaps' = IF journal # None /\ Torn THEN gaps \cup {"killed"} ELSE gaps
  /\ UNCHANGED <<settings, journal, user>>

\* The user changes a key.  Back at what rsclash set, the settings are rsclash's
\* again: nobody can tell.
UserWrites ==
  /\ \E s \in Snapshot :
       /\ s # settings
       /\ settings' = s
       /\ user' = IF journal # None /\ s = journal.target
                  THEN journal.original ELSE s
  /\ gaps' = IF task # None \/ orphan # None THEN gaps \cup {"raced"} ELSE gaps
  /\ UNCHANGED <<journal, target, phase, pc, task, orphan, outcome>>

Next ==
  \/ WriteKey \/ OrphanWritesKey \/ OrphanEnds
  \/ CallEnable \/ EnableReads
  \/ ApplyReturns \/ ApplyFails \/ UndoReturns \/ UndoFails
  \/ CallRestore \/ Compare \/ CompareAgain \/ RestoreReturns \/ RestoreFails
  \/ Launch \/ Shutdown \/ Exit \/ Kill
  \/ UserWrites

Spec == Init /\ [][Next]_vars

-----------------------------------------------------------------------------
(* Properties                                                              *)

\* At every moment, whatever failed and wherever the application was killed, the
\* settings the user chose are in force or the journal can bring them back; the
\* exceptions are settings left half written.
UserSettingsAreSafe ==
  gaps = {} =>
    settings = user \/ (journal # None /\ journal.original = user)

\* An application that shut down without an error leaves no trace on the desktop:
\* the proxy is not left pointing at a core that is gone.
CleanShutdownRestores ==
  [][Exit /\ outcome # "error" /\ gaps = {} =>
       settings = user /\ journal = None]_vars

\* "preserved a system proxy change made outside rsclash" (main.rs:128): what is
\* preserved, and from then on forgotten, is what the user left.
PreservedIsTheUsers ==
  outcome = "preserved" /\ pc = "idle" /\ "raced" \notin gaps /\ journal = None =>
    settings = user
=============================================================================

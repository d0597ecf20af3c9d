----------------------------- MODULE JournalsProofs -----------------------------
(***************************************************************************)
(* The properties of the three journals of MCJournals, for every value of  *)
(* its constants.                                                          *)
(*                                                                         *)
(* The proxy settings.  UserSettingsAreSafe is not inductive: whether      *)
(* clearing the journal is right depends on what the settings are when it  *)
(* is cleared.  Between two operations they are the target exactly when    *)
(* the original is still the user's choice (AtRest); while a task writes,  *)
(* the keys written so far are the task's and the user chose the original  *)
(* (Writing).                                                              *)
(*                                                                         *)
(* A transaction.  Until a journal is left behind or an undo runs without  *)
(* one (the gaps), the journals on disk are at most one, that of the last  *)
(* transaction (Journaled); what the loops have passed has its new or its  *)
(* old content (TxPassed); and the directory that a recovery would make    *)
(* lists what it has, before the transaction and with its writes (Closed). *)
(*                                                                         *)
(* The import.  It rests on what the journal and the backup hold (Saved)   *)
(* and on what a loop has passed (Passed), until a journal is lost whose   *)
(* removal was reported as failed.                                         *)
(***************************************************************************)
EXTENDS MCJournals, WellFoundedInduction, TLAPS

LEMMA StoreRuns == JournalsSpec => Store!Init /\ [][Store!Next]_(Store!vars)
<1>1. JournalsInit => Store!Init
  BY DEF JournalsInit
<1>2. [JournalsNext]_allVars => [Store!Next]_(Store!vars)
  BY DEF JournalsNext, ProxyNext, StoreNext, CvrNext, allVars, ofStore, Store!vars
<1> QED BY <1>1, <1>2, PTL DEF JournalsSpec

LEMMA ProxyRuns == JournalsSpec => Spec
<1>1. JournalsInit => Init
  BY DEF JournalsInit
<1>2. [JournalsNext]_allVars => [Next]_vars
  BY DEF JournalsNext, ProxyNext, StoreNext, CvrNext, allVars
<1> QED BY <1>1, <1>2, PTL DEF JournalsSpec, Spec

LEMMA CvrRuns == JournalsSpec => Cvr!Init /\ [][Cvr!Next]_(Cvr!vars)
<1>1. JournalsInit => Cvr!Init
  BY DEF JournalsInit
<1>2. [JournalsNext]_allVars => [Cvr!Next]_(Cvr!vars)
  BY DEF JournalsNext, ProxyNext, StoreNext, CvrNext, allVars, ofCvr, Cvr!vars
<1> QED BY <1>1, <1>2, PTL DEF JournalsSpec

-----------------------------------------------------------------------------
(* The proxy settings                                                      *)

\* From the first look at the journal to the end of the operation it is there.
Journalled == pc \notin {"idle", "read"} => journal # None

\* Settings other than the target are the user's; the target hides them.
AtRest ==
  /\ journal = None => settings = user
  /\ pc = "read" => journal = None
  /\ journal # None /\ task = None =>
       IF settings = journal.target THEN user = journal.original
                                    ELSE settings = user

\* The keys before the next one have the values of the task.
Written ==
  /\ task.next > 1 => settings.endpoint = task.values.endpoint
  /\ task.next > 2 => settings.url = task.values.url
  /\ task.next > 3 => settings.mode = task.values.mode

\* A task writes the target or the original, and the user chose the original.
Writing ==
  task # None =>
    /\ user = journal.original
    /\ task.values = IF pc = "apply" THEN journal.target ELSE journal.original
    /\ Written

\* What holds unless settings were left half written.
Unharmed == gaps = {} => orphan = None /\ AtRest /\ Writing

\* The application exits after the restoration, whose error is in `outcome'.
Exiting ==
  phase = "exiting" => pc = "idle" /\ (outcome # "error" => journal = None)

ProxyInv == TypeOK /\ Journalled /\ Unharmed /\ Exiting

\* The order in which the keys are written.
LEMMA KeyOrder == Keys[1] = "endpoint" /\ Keys[2] = "url" /\ Keys[3] = "mode"
  BY DEF Keys

\* Two snapshots with the same keys are the same.
LEMMA SameKeys ==
  ASSUME NEW s \in Snapshot, NEW t \in Snapshot,
         s.endpoint = t.endpoint, s.url = t.url, s.mode = t.mode
  PROVE  s = t
  BY DEF Snapshot

\* A finished task left its values in force.
LEMMA FinishedTask ==
  ASSUME TypeOK, Written, task # None, Finished(task)
  PROVE  settings = task.values
  <1>1. task \in Task
    BY DEF TypeOK, Tasks
  <1>2. task.next > 3
    BY DEF Finished, Last
  <1>3. settings \in Snapshot /\ task.values \in Snapshot
    BY <1>1 DEF TypeOK, Task
  <1> QED
    BY <1>1, <1>2, <1>3, SameKeys DEF Written, Task, Last

-----------------------------------------------------------------------------
(* Types                                                                   *)

\* A new task is a task.
LEMMA NewTaskType ==
  ASSUME NEW values \in Snapshot
  PROVE  NewTask(values) \in Task /\ NewTask(values) # None
  BY NoneAssumption DEF NewTask, Task, Last

\* What enable makes of the settings is a snapshot.
LEMMA TargetTypes == ASSUME TypeOK PROVE Targets \subseteq Snapshot
<1>1. settings \in Snapshot BY DEF TypeOK
<1>2. \A e \in Endpoints : [settings EXCEPT !.endpoint = e, !.mode = "manual"] \in Snapshot
  BY <1>1 DEF Snapshot, Modes
<1>3. \A u \in Urls : [settings EXCEPT !.url = u, !.mode = "auto"] \in Snapshot
  BY <1>1 DEF Snapshot, Modes
<1> QED BY <1>2, <1>3 DEF Targets

\* A pending restoration holds two snapshots.
LEMMA PendingTypes ==
  ASSUME TypeOK, journal # None
  PROVE  journal \in Pending /\ journal.original \in Snapshot /\ journal.target \in Snapshot
  BY DEF TypeOK, Pending

\* An awaited task that has not finished writes one more key.
LEMMA WriteKeyType ==
  ASSUME NEW s \in Snapshot, NEW t \in Task, ~Finished(t)
  PROVE  /\ [s EXCEPT ![Keys[t.next]] = t.values[Keys[t.next]]] \in Snapshot
         /\ [t EXCEPT !.next = @ + 1] \in Task
  <1>1. t.next \in {1, 2, 3}
    BY DEF Finished, Task, Last
  <1>2. t.values \in Snapshot
    BY DEF Task
  <1>3. [t EXCEPT !.next = @ + 1] \in Task
    BY <1>1 DEF Task, Last
  <1>4. CASE t.next = 1
    BY <1>2, <1>3, <1>4, KeyOrder DEF Snapshot
  <1>5. CASE t.next = 2
    BY <1>2, <1>3, <1>5, KeyOrder DEF Snapshot
  <1>6. CASE t.next = 3
    BY <1>2, <1>3, <1>6, KeyOrder DEF Snapshot
  <1> QED
    BY <1>1, <1>4, <1>5, <1>6

\* The end of an operation keeps the types.
LEMMA EndsType == ASSUME TypeOK, Ends PROVE phase' \in Phases
  BY DEF TypeOK, Ends, Phases

\* So does clearing the journal.
LEMMA ClearType ==
  ASSUME TypeOK, NEW success \in Outcomes, Clear(success)
  PROVE  /\ journal' \in Pending \cup {None}
         /\ target' \in Snapshot \cup {None}
         /\ phase' \in Phases
         /\ pc' = "idle"
         /\ task' = None
         /\ outcome' \in Outcomes
  <1>1. phase' \in Phases
    BY EndsType DEF Clear
  <1>2. "error" \in Outcomes
    BY DEF Outcomes
  <1> QED
    BY <1>1, <1>2 DEF Clear, Write, Return, TypeOK

\* Every step keeps the types.
LEMMA TypeStep == ASSUME TypeOK, Journalled, [Next]_vars PROVE TypeOK'
  <1> USE DEF Pcs, Phases, Outcomes
  <1>1. CASE WriteKey
    <2>1. task \in Task /\ settings \in Snapshot
      BY <1>1 DEF WriteKey, TypeOK, Tasks
    <2>2. settings' \in Snapshot /\ task' \in Task
      BY <1>1, <2>1, WriteKeyType DEF WriteKey
    <2>3. task' # None
      BY <2>2, NoneAssumption
    <2> QED
      BY <1>1, <2>2, <2>3 DEF WriteKey, TypeOK, Tasks
  <1>2. CASE OrphanWritesKey
    <2>1. orphan \in Task /\ settings \in Snapshot
      BY <1>2 DEF OrphanWritesKey, TypeOK, Tasks
    <2>2. settings' \in Snapshot /\ orphan' \in Task
      BY <1>2, <2>1, WriteKeyType DEF OrphanWritesKey
    <2> QED
      BY <1>2, <2>2 DEF OrphanWritesKey, TypeOK, Tasks
  <1>3. CASE OrphanEnds
    BY <1>3 DEF OrphanEnds, TypeOK, Tasks
  <1>4. CASE CallEnable
    BY <1>4 DEF CallEnable, TypeOK
  <1>5. CASE EnableReads
    <2>1. CASE \E result \in FileResults : MarkPending(result)
      <3>1. PICK result \in FileResults, values \in Targets :
              /\ Write([original |-> settings, target |-> values], result)
              /\ IF result = "done"
                 THEN Start(values, "apply") /\ UNCHANGED outcome
                 ELSE Return("error")
        BY <2>1 DEF MarkPending
      <3>2. values \in Snapshot
        BY TargetTypes
      <3>3. [original |-> settings, target |-> values] \in Pending
        BY <3>2 DEF TypeOK, Pending
      <3>4. journal' \in Pending \cup {None}
        BY <3>1, <3>3 DEF Write, TypeOK
      <3>5. CASE result = "done"
        BY <1>5, <3>1, <3>2, <3>4, <3>5, NewTaskType
           DEF EnableReads, Start, TypeOK, Tasks
      <3>6. CASE result # "done"
        BY <1>5, <3>1, <3>4, <3>6 DEF EnableReads, Return, TypeOK, Tasks
      <3> QED
        BY <3>5, <3>6
    <2>2. CASE Return("error") /\ UNCHANGED journal
      BY <1>5, <2>2 DEF EnableReads, Return, TypeOK, Tasks
    <2> QED
      BY <1>5, <2>1, <2>2 DEF EnableReads
  <1>6. CASE ApplyReturns
    <2>1. task \in Task
      BY <1>6 DEF ApplyReturns, TypeOK, Tasks
    <2> QED
      BY <1>6, <2>1 DEF ApplyReturns, Return, TypeOK, Tasks, Task
  <1>7. CASE ApplyFails
    <2>1. journal.original \in Snapshot
      BY <1>7, PendingTypes DEF ApplyFails, Journalled
    <2> QED
      BY <1>7, <2>1, NewTaskType DEF ApplyFails, Start, TypeOK, Tasks
  <1>8. CASE UndoReturns
    BY <1>8 DEF UndoReturns, Write, Return, TypeOK, Tasks
  <1>9. CASE UndoFails
    BY <1>9 DEF UndoFails, Failing, Return, TypeOK, Tasks
  <1>10. CASE CallRestore
    <2>1. phase' \in Phases
      BY <1>10, EndsType DEF CallRestore, TypeOK
    <2> QED
      BY <1>10, <2>1 DEF CallRestore, Return, TypeOK, Tasks
  <1>11. CASE Compare
    <2>1. CASE Clear("preserved")
      BY <1>11, <2>1, ClearType DEF Compare, TypeOK, Tasks
    <2>2. CASE ReadFails
      BY <1>11, <2>2, EndsType DEF Compare, ReadFails, Return, TypeOK, Tasks
    <2>3. CASE pc' = "compare_again" /\ UNCHANGED <<journal, target, phase, task, outcome>>
      BY <1>11, <2>3 DEF Compare, TypeOK, Tasks
    <2> QED
      BY <1>11, <2>1, <2>2, <2>3 DEF Compare
  <1>12. CASE CompareAgain
    <2>1. CASE Clear("restored")
      BY <1>12, <2>1, ClearType DEF CompareAgain, TypeOK, Tasks
    <2>2. CASE ReadFails
      BY <1>12, <2>2, EndsType DEF CompareAgain, ReadFails, Return, TypeOK, Tasks
    <2>3. CASE Start(journal.original, "restore") /\ UNCHANGED <<journal, target, phase, outcome>>
      <3>1. journal.original \in Snapshot
        BY <1>12, PendingTypes DEF CompareAgain, Journalled
      <3> QED
        BY <1>12, <2>3, <3>1, NewTaskType DEF CompareAgain, Start, TypeOK, Tasks
    <2> QED
      BY <1>12, <2>1, <2>2, <2>3 DEF CompareAgain
  <1>13. CASE RestoreReturns
    BY <1>13, ClearType DEF RestoreReturns, TypeOK, Tasks
  <1>14. CASE RestoreFails
    BY <1>14, EndsType DEF RestoreFails, Failing, Return, TypeOK, Tasks
  <1>15. CASE Launch
    BY <1>15 DEF Launch, TypeOK
  <1>16. CASE Shutdown
    BY <1>16 DEF Shutdown, TypeOK, Tasks
  <1>17. CASE Exit
    BY <1>17 DEF Exit, TypeOK
  <1>18. CASE Kill
    BY <1>18 DEF Kill, TypeOK, Tasks
  <1>19. CASE UserWrites
    <2>1. PICK s \in Snapshot :
            settings' = s /\ user' = IF journal # None /\ s = journal.target
                                     THEN journal.original ELSE s
      BY <1>19 DEF UserWrites
    <2>2. user' \in Snapshot
      BY <2>1, PendingTypes
    <2> QED
      BY <1>19, <2>1, <2>2 DEF UserWrites, TypeOK
  <1>20. CASE UNCHANGED vars
    BY <1>20 DEF vars, TypeOK
  <1> QED
    BY <1>1, <1>2, <1>3, <1>4, <1>5, <1>6, <1>7, <1>8, <1>9, <1>10, <1>11, <1>12,
       <1>13, <1>14, <1>15, <1>16, <1>17, <1>18, <1>19, <1>20 DEF Next

-----------------------------------------------------------------------------
(* The invariant                                                           *)

\* Only the end of an operation takes the journal away.
LEMMA JournalledStep ==
  ASSUME TypeOK, Journalled, [Next]_vars PROVE Journalled'
  <1>1. CASE EnableReads
    <2>1. \A values \in Targets : [original |-> settings, target |-> values] \in Pending
      BY TargetTypes DEF TypeOK, Pending
    <2>2. CASE \E result \in FileResults : MarkPending(result)
      BY <1>1, <2>1, <2>2, NoneAssumption
         DEF MarkPending, Write, Start, Return, Journalled
    <2>3. CASE Return("error")
      BY <2>3 DEF Return, Journalled
    <2> QED
      BY <1>1, <2>2, <2>3 DEF EnableReads
  <1>2. CASE Compare \/ CompareAgain \/ RestoreReturns
    BY <1>2 DEF Compare, CompareAgain, RestoreReturns, ReadFails, Clear, Write, Start,
                Return, Journalled
  <1>3. CASE CallRestore
    BY <1>3 DEF CallRestore, Return, Journalled
  <1>4. CASE WriteKey \/ OrphanWritesKey \/ OrphanEnds \/ Launch \/ UserWrites
    BY <1>4 DEF WriteKey, OrphanWritesKey, OrphanEnds, Launch, UserWrites, Journalled
  <1>5. CASE CallEnable \/ ApplyReturns \/ ApplyFails \/ UndoReturns \/ UndoFails \/ RestoreFails
    BY <1>5 DEF CallEnable, ApplyReturns, ApplyFails, UndoReturns, UndoFails, RestoreFails,
                Start, Return, Journalled
  <1>6. CASE Shutdown \/ Exit \/ Kill \/ UNCHANGED vars
    BY <1>6 DEF Shutdown, Exit, Kill, vars, Journalled
  <1> QED
    BY <1>1, <1>2, <1>3, <1>4, <1>5, <1>6 DEF Next

\* An operation ends with its error, or with the journal gone.
LEMMA ExitingStep ==
  ASSUME TypeOK, Exiting, [Next]_vars PROVE Exiting'
  <1>1. CASE Compare \/ CompareAgain \/ RestoreReturns
    BY <1>1 DEF Compare, CompareAgain, RestoreReturns, ReadFails, Clear, Write, Start,
                Return, Ends, Exiting
  <1>2. CASE CallRestore \/ RestoreFails
    BY <1>2 DEF CallRestore, RestoreFails, Return, Ends, Exiting
  <1>3. CASE WriteKey \/ OrphanWritesKey \/ OrphanEnds \/ UserWrites \/ UNCHANGED vars
    <2>1. UNCHANGED <<journal, phase, pc, outcome>>
      BY <1>3 DEF WriteKey, OrphanWritesKey, OrphanEnds, UserWrites, vars
    <2> QED
      BY <2>1 DEF Exiting
  <1>4. CASE CallEnable \/ EnableReads
    BY <1>4 DEF CallEnable, EnableReads, Exiting, TypeOK
  <1>5. CASE ApplyReturns \/ ApplyFails \/ UndoReturns \/ UndoFails
    BY <1>5 DEF ApplyReturns, ApplyFails, UndoReturns, UndoFails, Exiting
  <1>6. CASE Launch \/ Shutdown \/ Exit \/ Kill
    BY <1>6 DEF Launch, Shutdown, Exit, Kill, Exiting
  <1> QED
    BY <1>1, <1>2, <1>3, <1>4, <1>5, <1>6 DEF Next

\* A key is written as the task wants it.
LEMMA WriteKeyWrites ==
  ASSUME TypeOK, WriteKey, Written PROVE Written'
  <1>1. task \in Task /\ settings \in Snapshot
    BY DEF WriteKey, TypeOK, Tasks
  <1>2. task.next \in {1, 2, 3} /\ task.values \in Snapshot
    BY <1>1 DEF WriteKey, Finished, Task, Last
  <1>3. task' = [task EXCEPT !.next = @ + 1]
    BY DEF WriteKey
  <1>4. task'.next = task.next + 1 /\ task'.values = task.values
    BY <1>1, <1>3 DEF Task
  <1>5. CASE task.next = 1
    <2>1. settings' = [settings EXCEPT !.endpoint = task.values.endpoint]
      BY <1>5, KeyOrder, <1>2 DEF WriteKey, Snapshot
    <2>2. settings'.endpoint = task.values.endpoint
      BY <1>1, <2>1 DEF Snapshot
    <2> QED
      BY <1>4, <1>5, <2>2 DEF Written
  <1>6. CASE task.next = 2
    <2>1. settings' = [settings EXCEPT !.url = task.values.url]
      BY <1>6, KeyOrder, <1>2 DEF WriteKey, Snapshot
    <2>2. settings'.url = task.values.url /\ settings'.endpoint = settings.endpoint
      BY <1>1, <2>1 DEF Snapshot
    <2> QED
      BY <1>4, <1>6, <2>2 DEF Written
  <1>7. CASE task.next = 3
    <2>1. settings' = [settings EXCEPT !.mode = task.values.mode]
      BY <1>7, KeyOrder, <1>2 DEF WriteKey, Snapshot
    <2>2. /\ settings'.mode = task.values.mode
          /\ settings'.url = settings.url
          /\ settings'.endpoint = settings.endpoint
      BY <1>1, <2>1 DEF Snapshot
    <2> QED
      BY <1>4, <1>7, <2>2 DEF Written
  <1> QED
    BY <1>2, <1>5, <1>6, <1>7

\* A new task has written nothing.
LEMMA NothingWritten ==
  ASSUME NEW values \in Snapshot, NEW then, Start(values, then)
  PROVE  Written' /\ task'.values = values
  <1>1. task' = [values |-> values, next |-> 1]
    BY DEF Start, NewTask
  <1>2. task'.next = 1 /\ task'.values = values
    BY <1>1
  <1> QED
    BY <1>2 DEF Written

\* Every step keeps the settings safe, or leaves them half written.
LEMMA UnharmedStep ==
  ASSUME TypeOK, Journalled, Unharmed, TypeOK', Journalled', [Next]_vars
  PROVE  Unharmed'
  <1> SUFFICES ASSUME gaps' = {}
               PROVE  orphan' = None /\ AtRest' /\ Writing'
    BY DEF Unharmed
  <1>0. gaps = {}
    BY DEF Next, vars, WriteKey, OrphanWritesKey, OrphanEnds, CallEnable, EnableReads,
           ApplyReturns, ApplyFails, UndoReturns, UndoFails, Failing, CallRestore,
           Compare, CompareAgain, RestoreReturns, RestoreFails, Launch, Shutdown,
           Exit, Kill, UserWrites
  <1>00. orphan = None /\ AtRest /\ Writing
    BY <1>0 DEF Unharmed
  <1>1. CASE WriteKey
    <2>1. task # None /\ task' # None /\ task' \in Task
      BY <1>1, NoneAssumption DEF TypeOK, Tasks, WriteKey
    <2>2. task'.values = task.values
      BY <1>1, <2>1 DEF WriteKey, TypeOK, Tasks, Task
    <2>3. Written'
      BY <1>1, <1>00, <2>1, WriteKeyWrites DEF Writing
    <2>4. Writing'
      BY <1>1, <1>00, <2>1, <2>2, <2>3 DEF Writing, WriteKey
    <2>5. pc \notin {"idle", "read"}
      BY <2>1 DEF TypeOK
    <2>6. AtRest'
      BY <1>1, <2>1, <2>5 DEF AtRest, WriteKey, Journalled
    <2> QED
      BY <1>1, <1>00, <2>4, <2>6 DEF WriteKey
  <1>2. CASE OrphanWritesKey \/ OrphanEnds
    BY <1>2, <1>00 DEF OrphanWritesKey, OrphanEnds
  <1>3. CASE CallEnable
    BY <1>3, <1>00 DEF CallEnable, AtRest, Writing, TypeOK
  <1>4. CASE EnableReads
    <2>1. journal = None /\ settings = user
      BY <1>4, <1>00 DEF EnableReads, AtRest
    <2>2. CASE \E result \in FileResults : MarkPending(result)
      <3>1. PICK result \in FileResults, values \in Targets :
              /\ Write([original |-> settings, target |-> values], result)
              /\ IF result = "done"
                 THEN Start(values, "apply") /\ UNCHANGED outcome
                 ELSE Return("error")
        BY <2>2 DEF MarkPending
      <3>2. values \in Snapshot
        BY TargetTypes
      <3>3. [original |-> settings, target |-> values] # None
        BY <3>2, NoneAssumption DEF TypeOK, Pending
      <3>4. CASE result = "done"
        <4>1. journal' = [original |-> settings, target |-> values]
          BY <3>1, <3>4 DEF Write
        <4>2. Start(values, "apply")
          BY <3>1, <3>4
        <4>3. Written' /\ task'.values = values
          BY <3>2, <4>2, NothingWritten
        <4>4. task' # None /\ pc' = "apply"
          BY <3>2, <4>2, NewTaskType DEF Start
        <4> QED
          BY <1>4, <1>00, <2>1, <3>3, <4>1, <4>3, <4>4 DEF EnableReads, AtRest, Writing
      <3>5. CASE result # "done"
        BY <1>4, <1>00, <2>1, <3>1, <3>3, <3>5
           DEF EnableReads, AtRest, Writing, Write, Return
      <3> QED
        BY <3>4, <3>5
    <2>3. CASE Return("error") /\ UNCHANGED journal
      BY <1>4, <1>00, <2>1, <2>3 DEF EnableReads, AtRest, Writing, Return
    <2> QED
      BY <1>4, <2>2, <2>3 DEF EnableReads
  <1>5. CASE ApplyReturns
    <2>1. settings = journal.target /\ user = journal.original /\ journal # None
      BY <1>5, <1>00, FinishedTask DEF ApplyReturns, Writing, TypeOK, Journalled
    <2> QED
      BY <1>5, <1>00, <2>1 DEF ApplyReturns, Return, AtRest, Writing
  <1>6. CASE ApplyFails
    <2>1. journal # None /\ task # None
      BY <1>6 DEF ApplyFails, TypeOK, Journalled
    <2>2. Written' /\ task'.values = journal.original
      BY <1>6, <2>1, PendingTypes, NothingWritten DEF ApplyFails
    <2>3. task' # None
      BY <1>6, <2>1, PendingTypes, NewTaskType DEF ApplyFails, Start
    <2> QED
      BY <1>6, <1>00, <2>1, <2>2, <2>3 DEF ApplyFails, Start, AtRest, Writing
  <1>7. CASE UndoReturns
    <2>1. settings = journal.original /\ user = journal.original /\ journal # None
      BY <1>7, <1>00, FinishedTask DEF UndoReturns, Writing, TypeOK, Journalled
    <2> QED
      BY <1>7, <1>00, <2>1 DEF UndoReturns, Write, Return, AtRest, Writing
  <1>8. CASE UndoFails \/ RestoreFails
    <2>1. task # None /\ journal # None
      BY <1>8 DEF UndoFails, RestoreFails, TypeOK, Journalled
    <2>2. user = journal.original
      BY <1>00, <2>1 DEF Writing
    <2>3. ~Torn
      BY <1>8 DEF UndoFails, RestoreFails, Failing
    <2>4. settings \in {journal.original, journal.target}
      BY <2>3 DEF Torn
    <2>5. task' = None /\ UNCHANGED <<settings, journal, orphan, user>> /\ pc' = "idle"
      BY <1>8 DEF UndoFails, RestoreFails, Return
    <2> QED
      BY <1>00, <2>1, <2>2, <2>4, <2>5 DEF AtRest, Writing
  <1>9. CASE CallRestore
    BY <1>9, <1>00 DEF CallRestore, Return, AtRest, Writing, TypeOK
  <1>10. CASE Compare
    <2>1. task = None /\ journal # None
      BY <1>10 DEF Compare, TypeOK, Journalled
    <2>2. CASE settings # journal.target /\ Clear("preserved")
      BY <1>10, <1>00, <2>1, <2>2 DEF Compare, Clear, Write, Return, AtRest, Writing
    <2>3. CASE settings = journal.target /\ pc' = "compare_again"
                 /\ UNCHANGED <<journal, target, phase, task, outcome>>
      BY <1>10, <1>00, <2>1, <2>3 DEF Compare, AtRest, Writing
    <2>4. CASE ReadFails
      BY <1>10, <1>00, <2>1, <2>4 DEF Compare, ReadFails, Return, AtRest, Writing
    <2> QED
      BY <1>10, <2>2, <2>3, <2>4 DEF Compare
  <1>11. CASE CompareAgain
    <2>1. task = None /\ journal # None
      BY <1>11 DEF CompareAgain, TypeOK, Journalled
    <2>2. CASE settings # journal.target /\ Clear("restored")
      BY <1>11, <1>00, <2>1, <2>2 DEF CompareAgain, Clear, Write, Return, AtRest, Writing
    <2>3. CASE settings = journal.target /\ Start(journal.original, "restore")
                 /\ UNCHANGED <<journal, target, phase, outcome>>
      <3>1. Written' /\ task'.values = journal.original
        BY <2>1, <2>3, PendingTypes, NothingWritten
      <3>2. task' # None
        BY <2>1, <2>3, PendingTypes, NewTaskType DEF Start
      <3>3. user = journal.original
        BY <1>00, <2>1, <2>3 DEF AtRest
      <3> QED
        BY <1>11, <1>00, <2>1, <2>3, <3>1, <3>2, <3>3
           DEF CompareAgain, Start, AtRest, Writing
    <2>4. CASE ReadFails
      BY <1>11, <1>00, <2>1, <2>4 DEF CompareAgain, ReadFails, Return, AtRest, Writing
    <2> QED
      BY <1>11, <2>2, <2>3, <2>4 DEF CompareAgain
  <1>12. CASE RestoreReturns
    <2>1. settings = journal.original /\ user = journal.original /\ journal # None
      BY <1>12, <1>00, FinishedTask DEF RestoreReturns, Writing, TypeOK, Journalled
    <2> QED
      BY <1>12, <1>00, <2>1 DEF RestoreReturns, Clear, Write, Return, AtRest, Writing
  <1>13. CASE Launch \/ Exit
    <2>1. UNCHANGED <<settings, journal, pc, task, orphan, user>>
      BY <1>13 DEF Launch, Exit
    <2>2. Written' <=> Written
      BY <2>1 DEF Written
    <2> QED
      BY <1>00, <2>1, <2>2 DEF AtRest, Writing
  <1>14. CASE Shutdown
    <2>1. task = None
      BY <1>0, <1>14 DEF Shutdown
    <2> QED
      BY <1>14, <1>00, <2>1 DEF Shutdown, AtRest, Writing
  <1>15. CASE Kill
    <2>1. journal = None \/ ~Torn
      BY <1>15 DEF Kill
    <2>2. CASE task = None
      BY <1>15, <1>00, <2>2 DEF Kill, AtRest, Writing
    <2>3. CASE task # None
      <3>1. journal # None
        BY <2>3 DEF TypeOK, Journalled
      <3>2. user = journal.original /\ settings \in {journal.original, journal.target}
        BY <1>00, <2>1, <2>3, <3>1 DEF Writing, Torn
      <3> QED
        BY <1>15, <1>00, <3>1, <3>2 DEF Kill, AtRest, Writing
    <2> QED
      BY <2>2, <2>3
  <1>16. CASE UserWrites
    <2>1. task = None
      BY <1>0, <1>16 DEF UserWrites
    <2> QED
      BY <1>16, <1>00, <2>1 DEF UserWrites, AtRest, Writing
  <1>17. CASE UNCHANGED vars
    <2>1. Written' <=> Written
      BY <1>17 DEF vars, Written
    <2> QED
      BY <1>17, <1>00, <2>1 DEF vars, AtRest, Writing
  <1> QED
    BY <1>1, <1>2, <1>3, <1>4, <1>5, <1>6, <1>7, <1>8, <1>9, <1>10, <1>11, <1>12,
       <1>13, <1>14, <1>15, <1>16, <1>17 DEF Next

-----------------------------------------------------------------------------
(* Theorems                                                                *)

\* The invariant holds of every behaviour.
LEMMA ProxyIsGood == Spec => []ProxyInv
  <1>1. Init => ProxyInv
    BY NoneAssumption
       DEF Init, ProxyInv, TypeOK, Tasks, Pcs, Phases, Outcomes, Journalled, Unharmed, AtRest,
           Writing, Exiting
  <1>2. ProxyInv /\ [Next]_vars => ProxyInv'
    BY TypeStep, JournalledStep, UnharmedStep, ExitingStep DEF ProxyInv
  <1> QED
    BY <1>1, <1>2, PTL DEF Spec

\* The service, its journal and the tasks keep their types.
THEOREM TypeCorrect == Spec => []TypeOK
  <1>1. ProxyInv => TypeOK
    BY DEF ProxyInv
  <1> QED
    BY <1>1, ProxyIsGood, PTL

\* The user's settings are in force or in the journal, at every step of every
\* operation (SystemProxyService::enable_target, restore_if_owned).
THEOREM SettingsSafe == Spec => []UserSettingsAreSafe
  <1>1. ProxyInv => UserSettingsAreSafe
    BY DEF ProxyInv, TypeOK, Journalled, Unharmed, AtRest, Writing, UserSettingsAreSafe
  <1> QED
    BY <1>1, ProxyIsGood, PTL

\* A shutdown without an error (BackendHandle::shutdown) leaves the user's settings
\* and no journal.
THEOREM ShutdownClean == Spec => CleanShutdownRestores
  <1>1. ProxyInv /\ [Next]_vars =>
          [Exit /\ outcome # "error" /\ gaps = {} => settings = user /\ journal = None]_vars
    BY DEF ProxyInv, Unharmed, AtRest, Exiting, Exit
  <1> QED
    BY <1>1, ProxyIsGood, PTL DEF Spec, CleanShutdownRestores

-----------------------------------------------------------------------------
(* A transaction                                                           *)

Looping == {"apply", "undo", "undo_committed"}

\* What a path may hold, and the maps that respect it.
Kind(p) == IF p = Store!Catalog THEN {Absent} \cup SUBSET Store!Files
           ELSE Versions \cup {Absent}

TxFits(f) == DOMAIN f \subseteq Store!Paths /\ \A p \in DOMAIN f : f[p] \in Kind(p)

TxTypes ==
  /\ Store!TypeOK /\ TxFits(disk) /\ TxFits(tx.writes) /\ TxFits(tx.before)
  /\ \A n \in DOMAIN journals : TxFits(journals[n])
  /\ disk = [p \in Store!Paths |-> disk[p]]

\* The one journal is the last transaction's, and is there while it is under way.
Journaled ==
  /\ DOMAIN tx.before = DOMAIN tx.writes
  /\ \A n \in DOMAIN journals : n = tx.journal /\ journals[n] = tx.before
  /\ await \in Looping => tx.journal \in DOMAIN journals /\ answer = "none"
  /\ await \in {"open", "recovering"} /\ answer = "none" => DOMAIN journals = {}
  /\ answer = "committed" => DOMAIN journals = {}

\* What a loop has passed is written, or put back; what was answered is true.
TxRestored(S) == \A p \in S : disk[p] = tx.before[p]

TxPassed ==
  /\ await = "apply" => \A p \in DOMAIN tx.writes \ todo : disk[p] = tx.writes[p]
  /\ await \in {"undo", "undo_committed"} => TxRestored(DOMAIN tx.before \ todo)
  /\ await \in {"booting", "recovering"} /\ DOMAIN journals # {} =>
       TxRestored(DOMAIN tx.before \ todo)
  /\ answer = "committed" => \A p \in DOMAIN tx.writes : disk[p] = tx.writes[p]
  /\ answer = "failed" => TxRestored(DOMAIN tx.before)

\* What a recovery would leave, and what the transaction makes of it, lists what is there.
TxSaved == IF DOMAIN journals = {} THEN disk ELSE Store!Merge(disk, tx.before)

Closed ==
  /\ Store!ListsFiles(TxSaved)
  /\ await = "apply" => Store!ListsFiles(Store!Merge(TxSaved, tx.writes))

TransactionInv == TxTypes /\ (unprotected = {} => Journaled /\ TxPassed /\ Closed)

-----------------------------------------------------------------------------
\* Min and Max are members of the sets of numbers that they are taken of.

LEMMA LeastNumber ==
  ASSUME NEW S \in SUBSET Nat, S # {}
  PROVE  \E x \in S : \A y \in S : x <= y
<1> DEFINE R == OpToRel(<, Nat)
<1>1. IsWellFoundedOn(R, Nat)
  BY NatLessThanWellFounded
<1> HIDE DEF R
<1>2. PICK x \in S : \A y \in S : <<y, x>> \notin R
  BY <1>1, WFMin
<1> USE DEF R
<1>3. \A y \in S : ~(y < x)
  BY <1>2 DEF OpToRel
<1> QED BY <1>3

LEMMA MinIsMember ==
  ASSUME NEW S \in SUBSET Nat, S # {}
  PROVE  Store!Min(S) \in S
BY LeastNumber DEF Store!Min

LEMMA MaxIsMember ==
  ASSUME NEW n \in Nat, NEW S \in SUBSET (0 .. n), S # {}
  PROVE  Store!Max(S) \in S
<1> DEFINE T == {n - x : x \in S}
<1>1. \A x \in S : x \in Nat /\ n - x \in Nat
  OBVIOUS
<1>2. T # {}
  <2>1. PICK x \in S : TRUE
    OBVIOUS
  <2>2. n - x \in T
    BY <2>1
  <2> QED BY <2>2
<1>3. PICK t \in T : \A u \in T : t <= u
  BY <1>1, <1>2, LeastNumber
<1>4. PICK x \in S : t = n - x
  OBVIOUS
<1>5. \A y \in S : n - x <= n - y
  BY <1>3, <1>4
<1>6. \A y \in S : x >= y
  BY <1>1, <1>5
<1> QED BY <1>6 DEF Store!Max

LEMMA OneName == \A n \in Nat : Store!Min({n}) = n /\ Store!Max({n}) = n
BY DEF Store!Min, Store!Max

-----------------------------------------------------------------------------
\* TxTypes

LEMMA KindsAndPaths ==
  ASSUME Store!ConstantsAssumption
  PROVE  /\ Store!Catalog \in Store!Paths /\ Store!Catalog \notin Store!Files
         /\ Store!Paths = Store!Files \cup {Store!Catalog}
         /\ Store!Files \subseteq Nat /\ Store!Names \subseteq Nat /\ FileCount + 1 \in Nat
         /\ Store!Paths = 1 .. FileCount + 1
         /\ \A p \in Store!Paths : Kind(p) \subseteq Store!Content
         /\ \A f \in Store!Files : Kind(f) = Versions \cup {Absent}
         /\ Kind(Store!Catalog) = {Absent} \cup SUBSET Store!Files
         /\ \A p \in Store!Paths : Absent \in Kind(p)
<1>1. FileCount \in Nat
  BY DEF Store!ConstantsAssumption
<1>2. /\ Store!Catalog \in Store!Paths /\ Store!Catalog \notin Store!Files
      /\ Store!Paths = Store!Files \cup {Store!Catalog}
  BY <1>1 DEF Store!Catalog, Store!Paths, Store!Files
<1> QED BY <1>1, <1>2 DEF Store!Catalog, Store!Files, Store!Paths, Store!Names, Kind,
                          Store!Content, Store!ConstantsAssumption

LEMMA FitsIsPartial ==
  ASSUME Store!ConstantsAssumption, NEW f, TxFits(f)
  PROVE  Store!IsPartial(f)
BY KindsAndPaths DEF TxFits, Store!IsPartial

\* A file operation that puts what the path may hold.
LEMMA TxPutKeeps ==
  ASSUME Store!ConstantsAssumption, TxTypes, NEW p \in Store!Paths,
         NEW content \in Kind(p), NEW result,
         Store!Put(p, content, result)
  PROVE  /\ TxFits(disk') /\ DOMAIN disk' = Store!Paths
         /\ disk' = [q \in Store!Paths |-> disk'[q]]
         /\ \A f \in Store!Files : disk'[f] \in Versions \cup {Absent}
         /\ disk'[Store!Catalog] \in {Absent} \cup SUBSET Store!Files
         /\ \A q \in Store!Paths \ {p} : disk'[q] = disk[q]
         /\ result # "refused" => disk'[p] = content
<1>1. DOMAIN disk = Store!Paths
  BY DEF TxTypes, Store!TypeOK
<1>2. DOMAIN disk' = Store!Paths /\ disk' = [q \in Store!Paths |-> disk'[q]]
  BY <1>1 DEF Store!Put, TxTypes
<1>3. \A q \in Store!Paths \ {p} : disk'[q] = disk[q]
  BY <1>1 DEF Store!Put
<1>4. result # "refused" => disk'[p] = content
  BY <1>1 DEF Store!Put
<1>5. \A q \in Store!Paths : disk'[q] \in Kind(q)
  BY <1>1, <1>3, <1>4 DEF Store!Put, TxTypes, TxFits
<1> QED BY <1>2, <1>3, <1>4, <1>5, KindsAndPaths DEF TxFits

\* Removing a journal leaves the others.
LEMMA UnlinkKeeps ==
  ASSUME NEW name, NEW result, Store!Unlink(name, result),
         DOMAIN journals \subseteq Store!Names,
         \A n \in DOMAIN journals : TxFits(journals[n])
  PROVE  /\ DOMAIN journals' \subseteq Store!Names
         /\ \A n \in DOMAIN journals' : TxFits(journals'[n]) /\ journals'[n] = journals[n]
         /\ result # "refused" => DOMAIN journals' = DOMAIN journals \ {name}
         /\ result = "refused" => journals' = journals
BY DEF Store!Unlink, Store!Without

\* The loops are over paths of a journal, or of the transaction.
LEMMA FirstJournalExists ==
  ASSUME Store!ConstantsAssumption, TxTypes, await \in {"booting", "recovering"}, todo # {}
  PROVE  /\ Store!FirstJournal \in DOMAIN journals
         /\ Store!Max(todo) \in todo /\ Store!Max(todo) \in DOMAIN journals[Store!FirstJournal]
         /\ Store!Max(todo) \in Store!Paths
         /\ journals[Store!FirstJournal][Store!Max(todo)] \in Kind(Store!Max(todo))
<1>1. todo \subseteq Store!FirstEntries(journals)
  BY DEF TxTypes, Store!TypeOK
<1>2. DOMAIN journals # {} /\ todo \subseteq DOMAIN journals[Store!FirstJournal]
  BY <1>1 DEF Store!FirstEntries, Store!FirstJournal
<1>3. DOMAIN journals \subseteq Nat
  BY KindsAndPaths DEF TxTypes, Store!TypeOK
<1>4. Store!FirstJournal \in DOMAIN journals
  BY <1>2, <1>3, MinIsMember DEF Store!FirstJournal
<1>5. TxFits(journals[Store!FirstJournal])
  BY <1>4 DEF TxTypes
<1>6. todo \subseteq 0 .. FileCount + 1
  BY <1>2, <1>5, KindsAndPaths DEF TxFits
<1>7. Store!Max(todo) \in todo
  BY <1>6, KindsAndPaths, MaxIsMember
<1> QED BY <1>2, <1>4, <1>5, <1>7 DEF TxFits

LEMMA UndoHasPaths ==
  ASSUME Store!ConstantsAssumption, TxTypes, await \in {"undo", "undo_committed"}, todo # {}
  PROVE  /\ Store!Max(todo) \in todo /\ Store!Max(todo) \in DOMAIN tx.before
         /\ Store!Max(todo) \in Store!Paths
         /\ tx.before[Store!Max(todo)] \in Kind(Store!Max(todo))
<1>1. todo \subseteq DOMAIN tx.before
  BY DEF TxTypes, Store!TypeOK
<1>2. todo \subseteq 0 .. FileCount + 1
  BY <1>1, KindsAndPaths DEF TxTypes, TxFits
<1>3. Store!Max(todo) \in todo
  BY <1>2, KindsAndPaths, MaxIsMember
<1> QED BY <1>1, <1>3 DEF TxTypes, TxFits

LEMMA ApplyHasPaths ==
  ASSUME Store!ConstantsAssumption, TxTypes, await = "apply", todo # {}
  PROVE  /\ Store!Min(todo) \in todo /\ Store!Min(todo) \in DOMAIN tx.writes
         /\ Store!Min(todo) \in Store!Paths
         /\ tx.writes[Store!Min(todo)] \in Kind(Store!Min(todo))
<1>1. todo \subseteq DOMAIN tx.writes
  BY DEF TxTypes, Store!TypeOK
<1>2. todo \subseteq Nat
  BY <1>1, KindsAndPaths DEF TxTypes, TxFits
<1>3. Store!Min(todo) \in todo
  BY <1>2, MinIsMember
<1> QED BY <1>1, <1>3 DEF TxTypes, TxFits

\* What a transaction stages, and what it saves before.
LEMMA StagedFits ==
  ASSUME Store!ConstantsAssumption, TxTypes, NEW S \in SUBSET Store!Files,
         NEW c \in Store!Changes(S)
  PROVE  /\ TxFits(Store!Staged(c)) /\ TxFits(Store!Snapshots(Store!Staged(c)))
         /\ DOMAIN Store!Staged(c) = S \cup {Store!Catalog}
         /\ DOMAIN Store!Snapshots(Store!Staged(c)) = DOMAIN Store!Staged(c)
         /\ \A p \in DOMAIN Store!Staged(c) : Store!Snapshots(Store!Staged(c))[p] = disk[p]
         /\ Store!Listed(disk) \subseteq Store!Files
<1>1. DOMAIN c = S /\ \A p \in S : c[p] \in Versions \cup {Absent}
  BY DEF Store!Changes
<1>2. Store!Listed(disk) \subseteq Store!Files
  BY DEF Store!Listed, TxTypes, Store!TypeOK
<1>3. DOMAIN Store!Staged(c) = S \cup {Store!Catalog}
  BY <1>1 DEF Store!Staged
<1>4. \A p \in S : p # Store!Catalog /\ Store!Staged(c)[p] = c[p]
  BY <1>1, KindsAndPaths DEF Store!Staged
<1>5. Store!Staged(c)[Store!Catalog] \subseteq Store!Files
  BY <1>1, <1>2 DEF Store!Staged
<1>6. TxFits(Store!Staged(c))
  BY <1>1, <1>3, <1>4, <1>5, KindsAndPaths DEF TxFits
<1>7. /\ DOMAIN Store!Snapshots(Store!Staged(c)) = DOMAIN Store!Staged(c)
      /\ \A p \in DOMAIN Store!Staged(c) : Store!Snapshots(Store!Staged(c))[p] = disk[p]
  BY DEF Store!Snapshots
<1>8. TxFits(Store!Snapshots(Store!Staged(c)))
  BY <1>6, <1>7 DEF TxFits, TxTypes, Store!TypeOK
<1> QED BY <1>2, <1>3, <1>6, <1>7, <1>8

-----------------------------------------------------------------------------
\* What a recovery would leave, step by step

\* It is what TxSaved says it is, as long as the one journal is the last transaction's.
LEMMA RecoveredIsSaved ==
  ASSUME Store!ConstantsAssumption, TxTypes, Journaled
  PROVE  Store!Recovered = TxSaved
<1>1. CASE DOMAIN journals = {}
  BY <1>1 DEF Store!Recovered, TxSaved, TxTypes
<1>2. CASE DOMAIN journals # {}
  <2>1. DOMAIN journals = {tx.journal} /\ journals[tx.journal] = tx.before
    BY <1>2 DEF Journaled
  <2>2. Store!Max({tx.journal}) = tx.journal
    BY <2>1, KindsAndPaths, OneName DEF TxTypes, Store!TypeOK
  <2>3. \A p \in Store!Paths :
          {n \in DOMAIN journals : p \in DOMAIN journals[n]}
            = IF p \in DOMAIN tx.before THEN {tx.journal} ELSE {}
    BY <2>1
  <2>4. Store!Recovered = [p \in Store!Paths |-> IF p \in DOMAIN tx.before THEN tx.before[p]
                                                 ELSE disk[p]]
    BY <2>1, <2>2, <2>3 DEF Store!Recovered
  <2> QED BY <1>2, <2>4 DEF TxSaved, Store!Merge
<1> QED BY <1>1, <1>2

LEMMA NextIsSaved ==
  ASSUME Store!ConstantsAssumption
  PROVE  (TxTypes /\ Journaled => Store!Recovered = TxSaved)'
<1>1. TxTypes /\ Journaled => Store!Recovered = TxSaved
  BY RecoveredIsSaved
<1> QED BY <1>1, PTL

\* What its journal covers may change on the disk, and a disk that has what the journal
\* holds is what a recovery would leave.
LEMMA CoveredMayChange ==
  ASSUME TxTypes, NEW p \in DOMAIN tx.before,
         \A q \in Store!Paths \ {p} : disk'[q] = disk[q]
  PROVE  Store!Merge(disk', tx.before) = Store!Merge(disk, tx.before)
BY DEF Store!Merge

LEMMA RestoredIsSaved ==
  ASSUME TxTypes, TxRestored(DOMAIN tx.before)
  PROVE  Store!Merge(disk, tx.before) = disk
BY DEF Store!Merge, TxRestored, TxTypes

\* A catalog lists what the transaction brings and what was there.
LEMMA StagedIsClosed ==
  ASSUME Store!ConstantsAssumption, TxTypes, Store!ListsFiles(disk),
         NEW S \in SUBSET Store!Files,
         NEW c \in Store!Changes(S)
  PROVE  Store!ListsFiles(Store!Merge(disk, Store!Staged(c)))
<1> DEFINE d == Store!Merge(disk, Store!Staged(c))
           removed == {f \in DOMAIN c : c[f] = Absent}
<1>1. /\ DOMAIN c = S /\ Store!Catalog \in Store!Paths
      /\ DOMAIN Store!Staged(c) = S \cup {Store!Catalog}
  BY StagedFits, KindsAndPaths DEF Store!Changes
<1>2. d[Store!Catalog] = (Store!Listed(disk) \cup S) \ removed
  BY <1>1 DEF Store!Merge, Store!Staged
<1>3. d[Store!Catalog] \subseteq Store!Files
  BY <1>2, StagedFits
<1>4. Store!Listed(d) = (Store!Listed(disk) \cup S) \ removed
  BY <1>2, <1>3 DEF Store!Listed, Store!ConstantsAssumption, Store!Files
<1>5. \A f \in S \ removed : d[f] # Absent
  <2> SUFFICES ASSUME NEW f \in S \ removed PROVE d[f] # Absent
    OBVIOUS
  <2>1. f \in Store!Paths /\ f # Store!Catalog
    BY KindsAndPaths
  <2>2. d[f] = c[f]
    BY <1>1, <2>1 DEF Store!Merge, Store!Staged
  <2> QED BY <1>1, <2>2
<1>6. \A f \in Store!Listed(disk) \ S : d[f] # Absent
  <2> SUFFICES ASSUME NEW f \in Store!Listed(disk) \ S PROVE d[f] # Absent
    OBVIOUS
  <2>1. f \in Store!Paths /\ f # Store!Catalog
    BY StagedFits, KindsAndPaths
  <2>2. d[f] = disk[f]
    BY <1>1, <2>1 DEF Store!Merge
  <2> QED BY <2>2 DEF Store!ListsFiles
<1> QED BY <1>4, <1>5, <1>6 DEF Store!ListsFiles

-----------------------------------------------------------------------------
\* Every action keeps the invariant, and what a recovery would leave changes in one of them.

Atomic == TxSaved' = TxSaved \/ (Store!Complete /\ TxSaved' = Store!Merge(TxSaved, tx.writes))

TxKept == TransactionInv' /\ (unprotected' = {} => Atomic)

LEMMA OpenKeeps == ASSUME Store!ConstantsAssumption, TransactionInv, Store!Open PROVE TxKept
<1>1. TxTypes'
  BY DEF TransactionInv, TxTypes, Store!TypeOK, Store!Open
<1>2. ASSUME unprotected = {} PROVE Journaled' /\ TxPassed' /\ Closed' /\ TxSaved' = TxSaved
  <2>1. Journaled /\ TxPassed /\ Closed
    BY <1>2 DEF TransactionInv
  <2>2. DOMAIN journals # {} => Store!FirstEntries(journals) = DOMAIN tx.before
    <3> SUFFICES ASSUME DOMAIN journals # {}
                 PROVE  Store!FirstEntries(journals) = DOMAIN tx.before
      OBVIOUS
    <3>1. DOMAIN journals = {tx.journal} /\ journals[tx.journal] = tx.before
      BY <2>1 DEF Journaled
    <3>2. Store!Min({tx.journal}) = tx.journal
      BY <3>1, KindsAndPaths, OneName DEF TransactionInv, TxTypes, Store!TypeOK
    <3> QED BY <3>1, <3>2 DEF Store!FirstEntries
  <2>3. TxSaved' = TxSaved /\ Closed'
    BY <2>1 DEF Store!Open, TxSaved, Closed
  <2>4. Journaled'
    BY <2>1 DEF Store!Open, Journaled, Looping
  <2>5. TxPassed'
    BY <2>1, <2>2 DEF Store!Open, TxPassed, TxRestored
  <2> QED BY <2>3, <2>4, <2>5
<1> QED BY <1>1, <1>2 DEF TxKept, Atomic, TransactionInv, Store!Open

LEMMA TxRecoverEntryKeeps ==
  ASSUME Store!ConstantsAssumption, TransactionInv, Store!RecoverEntry
  PROVE  TxKept
<1> DEFINE p == Store!Max(todo)
           content == journals[Store!FirstJournal][p]
<1>0. /\ TxTypes /\ await \in {"booting", "recovering"} /\ todo # {}
      /\ UNCHANGED <<journals, tx, answer, unprotected>>
  BY DEF TransactionInv, Store!RecoverEntry
<1>1. /\ Store!FirstJournal \in DOMAIN journals
      /\ p \in todo /\ p \in DOMAIN journals[Store!FirstJournal] /\ p \in Store!Paths
      /\ content \in Kind(p)
  BY <1>0, FirstJournalExists
<1>2. PICK result \in Store!Outcomes(p, content) :
        /\ Store!Put(p, content, result)
        /\ IF result = "done" THEN todo' = todo \ {p} /\ UNCHANGED await
           ELSE Store!RecoveryStops
  BY DEF Store!RecoverEntry
<1> HIDE DEF p, content
<1>3. /\ TxFits(disk') /\ DOMAIN disk' = Store!Paths /\ disk' = [q \in Store!Paths |-> disk'[q]]
      /\ \A f \in Store!Files : disk'[f] \in Versions \cup {Absent}
      /\ disk'[Store!Catalog] \in {Absent} \cup SUBSET Store!Files
      /\ \A q \in Store!Paths \ {p} : disk'[q] = disk[q]
      /\ result # "refused" => disk'[p] = content
  BY <1>0, <1>1, <1>2, TxPutKeeps
<1>4. TxTypes'
  BY <1>0, <1>2, <1>3 DEF TxTypes, Store!TypeOK, Store!RecoveryStops
<1>5. ASSUME unprotected = {} PROVE Journaled' /\ TxPassed' /\ Closed' /\ TxSaved' = TxSaved
  <2>1. Journaled /\ TxPassed /\ Closed
    BY <1>5 DEF TransactionInv
  <2>2. Store!FirstJournal = tx.journal /\ journals[Store!FirstJournal] = tx.before
    BY <1>1, <2>1 DEF Journaled
  <2>3. p \in DOMAIN tx.before /\ content = tx.before[p]
    BY <1>1, <2>2 DEF content
  <2>4. TxSaved' = TxSaved
    BY <1>0, <1>1, <1>3, <2>3, CoveredMayChange DEF TxSaved
  <2>5. Closed'
    BY <1>0, <1>2, <2>1, <2>4 DEF Closed, Store!RecoveryStops
  <2>6. Journaled'
    BY <1>0, <1>1, <1>2, <2>1 DEF Journaled, Looping, Store!RecoveryStops
  <2>7. \A q \in DOMAIN tx.before : disk[q] = tx.before[q] => disk'[q] = tx.before[q]
    BY <1>0, <1>2, <1>3, <2>3 DEF TxTypes, TxFits, Store!Put
  <2>8. result = "done" => disk'[p] = tx.before[p]
    BY <1>3, <2>3
  <2>9. answer # "committed"
    BY <1>1, <2>1 DEF Journaled
  <2>10. await' \in {"booting", "recovering"} => todo' = todo \ {p} /\ disk'[p] = tx.before[p]
    BY <1>2, <2>8, <1>0 DEF Store!RecoveryStops
  <2>11. TxRestored(DOMAIN tx.before \ todo)
    BY <1>0, <1>1, <2>1 DEF TxPassed
  <2>12. await' \in {"booting", "recovering"} =>
           \A q \in DOMAIN tx.before \ todo' : disk'[q] = tx.before[q]
    BY <2>7, <2>10, <2>11 DEF TxRestored
  <2>13. answer = "failed" => \A q \in DOMAIN tx.before : disk'[q] = tx.before[q]
    BY <2>1, <2>7 DEF TxPassed, TxRestored
  <2>14. await' \in {"booting", "recovering", "open", "closed"}
    BY <1>0, <1>2 DEF Store!RecoveryStops
  <2>15. TxPassed'
    BY <1>0, <2>9, <2>12, <2>13, <2>14 DEF TxPassed, TxRestored
  <2> QED BY <2>4, <2>5, <2>6, <2>15
<1> QED BY <1>0, <1>4, <1>5 DEF TxKept, Atomic, TransactionInv

LEMMA TxRecoverJournalKeeps ==
  ASSUME Store!ConstantsAssumption, TransactionInv, Store!RecoverJournal
  PROVE  TxKept
<1>0. /\ TxTypes /\ await \in {"booting", "recovering"} /\ todo = {} /\ DOMAIN journals # {}
      /\ UNCHANGED <<disk, tx, answer, unprotected>>
  BY DEF TransactionInv, Store!RecoverJournal
<1>1. PICK result \in {"done", "refused", "unsynced"} :
        /\ Store!Unlink(Store!FirstJournal, result)
        /\ IF result = "done" THEN todo' = Store!FirstEntries(journals') /\ UNCHANGED await
                               ELSE Store!RecoveryStops
  BY DEF Store!RecoverJournal
<1>2. /\ DOMAIN journals' \subseteq Store!Names
      /\ \A n \in DOMAIN journals' : TxFits(journals'[n]) /\ journals'[n] = journals[n]
      /\ result # "refused" => DOMAIN journals' = DOMAIN journals \ {Store!FirstJournal}
      /\ result = "refused" => journals' = journals
  BY <1>0, <1>1, UnlinkKeeps DEF TxTypes, Store!TypeOK
<1>3. \A n \in DOMAIN journals' : Store!IsPartial(journals'[n])
  BY <1>2, FitsIsPartial
<1>4. TxTypes'
  BY <1>0, <1>1, <1>2, <1>3 DEF TxTypes, Store!TypeOK, Store!RecoveryStops
<1>5. ASSUME unprotected = {} PROVE Journaled' /\ TxPassed' /\ Closed' /\ TxSaved' = TxSaved
  <2>1. Journaled /\ TxPassed /\ Closed
    BY <1>5 DEF TransactionInv
  <2>2. DOMAIN journals = {tx.journal} /\ journals[tx.journal] = tx.before
    BY <1>0, <2>1 DEF Journaled
  <2>3. Store!Min({tx.journal}) = tx.journal
    BY <2>2, KindsAndPaths, OneName DEF TransactionInv, TxTypes, Store!TypeOK
  <2>4. Store!FirstJournal = tx.journal
    BY <2>2, <2>3 DEF Store!FirstJournal
  <2>5. result # "refused" => DOMAIN journals' = {}
    BY <1>2, <2>2, <2>4
  <2>6. result # "refused" => Store!FirstEntries(journals') = {}
    BY <2>5 DEF Store!FirstEntries
  <2>7. TxRestored(DOMAIN tx.before)
    BY <1>0, <2>1 DEF TxPassed
  <2>8. Store!Merge(disk, tx.before) = disk
    BY <1>0, <2>7, RestoredIsSaved
  <2>9. TxSaved' = TxSaved
    BY <1>0, <1>2, <2>5, <2>8 DEF TxSaved
  <2>10. await' \in {"booting", "recovering", "open", "closed"}
    BY <1>0, <1>1 DEF Store!RecoveryStops
  <2>11. Closed'
    BY <1>0, <2>1, <2>9, <2>10 DEF Closed
  <2>12. await' \in {"open", "recovering"} => await = "recovering"
    BY <1>0, <1>1 DEF Store!RecoveryStops
  <2>13. Journaled'
    BY <1>0, <1>2, <2>1, <2>10, <2>12 DEF Journaled, Looping
  <2>14. TxPassed'
    BY <1>0, <2>1, <2>7, <2>10 DEF TxPassed, TxRestored
  <2> QED BY <2>9, <2>11, <2>13, <2>14
<1> QED BY <1>0, <1>4, <1>5 DEF TxKept, Atomic, TransactionInv

LEMMA RecoverKeeps ==
  ASSUME Store!ConstantsAssumption, TransactionInv, Store!Recover
  PROVE  TxKept
<1>1. TxTypes'
  BY DEF TransactionInv, TxTypes, Store!TypeOK, Store!Recover, Store!FirstEntries
<1>2. ASSUME unprotected = {} PROVE Journaled' /\ TxPassed' /\ Closed' /\ TxSaved' = TxSaved
  <2>1. Journaled /\ TxPassed /\ Closed
    BY <1>2 DEF TransactionInv
  <2>2. TxSaved' = TxSaved /\ Closed'
    BY <2>1 DEF Store!Recover, TxSaved, Closed
  <2>3. Journaled' /\ TxPassed'
    BY <2>1 DEF Store!Recover, Journaled, Looping, TxPassed, TxRestored
  <2> QED BY <2>2, <2>3
<1> QED BY <1>1, <1>2 DEF TxKept, Atomic, TransactionInv, Store!Recover

LEMMA BeginKeeps ==
  ASSUME Store!ConstantsAssumption, TransactionInv, Store!Begin
  PROVE  TxKept
<1>0. TxTypes /\ await = "open" /\ disk' = disk
  BY DEF TransactionInv, Store!Begin
<1>a. PICK S \in SUBSET Store!Files \ {{}} :
        \E c \in Store!Changes(S), name \in Store!Names \ DOMAIN journals,
           result \in {"done", "refused", "unsynced"} :
        /\ tx' = [writes |-> Store!Staged(c),
                  before |-> Store!Snapshots(Store!Staged(c)), journal |-> name]
        /\ journals' = IF result = "refused" THEN journals
                       ELSE [n \in DOMAIN journals \cup {name} |->
                               IF n = name THEN Store!Snapshots(Store!Staged(c))
                               ELSE journals[n]]
        /\ IF result = "done"
           THEN await' = "apply" /\ answer' = "none" /\ todo' = DOMAIN Store!Staged(c)
           ELSE Store!Return("failed")
        /\ unprotected' = IF DOMAIN journals = {} THEN unprotected
                          ELSE unprotected \cup {"leftover"}
  BY DEF Store!Begin
<1>1. PICK c \in Store!Changes(S), name \in Store!Names \ DOMAIN journals,
           result \in {"done", "refused", "unsynced"} :
        /\ tx' = [writes |-> Store!Staged(c),
                  before |-> Store!Snapshots(Store!Staged(c)), journal |-> name]
        /\ journals' = IF result = "refused" THEN journals
                       ELSE [n \in DOMAIN journals \cup {name} |->
                               IF n = name THEN Store!Snapshots(Store!Staged(c))
                               ELSE journals[n]]
        /\ IF result = "done"
           THEN await' = "apply" /\ answer' = "none" /\ todo' = DOMAIN Store!Staged(c)
           ELSE Store!Return("failed")
        /\ unprotected' = IF DOMAIN journals = {} THEN unprotected
                          ELSE unprotected \cup {"leftover"}
  BY <1>a
<1> DEFINE writes == Store!Staged(c)
           before == Store!Snapshots(Store!Staged(c))
<1>2. /\ TxFits(writes) /\ TxFits(before) /\ DOMAIN before = DOMAIN writes
      /\ \A p \in DOMAIN writes : before[p] = disk[p]
  BY <1>0, <1>1, StagedFits
<1>3. Store!IsPartial(writes) /\ Store!IsPartial(before)
  BY <1>2, FitsIsPartial
<1>4. Store!ListsFiles(disk) => Store!ListsFiles(Store!Merge(disk, writes))
  BY <1>0, <1>1, StagedIsClosed
<1> HIDE DEF writes, before
<1>5. tx'.writes = writes /\ tx'.before = before /\ tx'.journal = name
  BY <1>1 DEF writes, before
<1>6. /\ DOMAIN journals' \subseteq Store!Names
      /\ \A n \in DOMAIN journals' : TxFits(journals'[n]) /\ Store!IsPartial(journals'[n])
  <2>1. DOMAIN journals \subseteq Store!Names
        /\ \A n \in DOMAIN journals : TxFits(journals[n]) /\ Store!IsPartial(journals[n])
    BY <1>0 DEF TxTypes, Store!TypeOK
  <2> QED BY <1>1, <1>2, <1>3, <2>1 DEF before
<1>7. /\ await' \in {"apply", "open"} /\ answer' \in {"none", "failed"}
      /\ todo' = IF await' = "apply" THEN DOMAIN writes ELSE {}
  BY <1>1 DEF Store!Return, writes
<1>8. unprotected' \subseteq {"leftover", "unjournaled"}
  BY <1>0, <1>1 DEF TxTypes, Store!TypeOK
<1>9. TxTypes'
  BY <1>0, <1>1, <1>2, <1>3, <1>5, <1>6, <1>7, <1>8 DEF TxTypes, Store!TypeOK
<1>10. ASSUME unprotected' = {}
       PROVE  Journaled' /\ TxPassed' /\ Closed' /\ TxSaved' = TxSaved
  <2>1. DOMAIN journals = {} /\ unprotected = {}
    BY <1>1, <1>10
  <2>2. Closed
    BY <2>1 DEF TransactionInv
  <2>3. \A n \in DOMAIN journals' : n = name /\ journals'[n] = before
    BY <1>1, <2>1 DEF before
  <2>4. result = "done" => name \in DOMAIN journals'
    BY <1>1
  <2>5. await' = "apply" <=> result = "done"
    BY <1>1 DEF Store!Return
  <2>6. answer' = IF result = "done" THEN "none" ELSE "failed"
    BY <1>1 DEF Store!Return
  <2>7. Journaled'
    BY <1>2, <1>5, <1>7, <2>3, <2>4, <2>5, <2>6 DEF Journaled, Looping
  <2>8. \A p \in DOMAIN before : disk'[p] = before[p]
    BY <1>0, <1>2
  <2>9. TxPassed'
    BY <1>5, <1>7, <2>6, <2>8 DEF TxPassed, TxRestored
  <2>10. Store!Merge(disk', before) = disk
    BY <1>0, <2>8 DEF Store!Merge, TxTypes
  <2>11. TxSaved' = disk /\ TxSaved = disk
    BY <1>0, <1>5, <2>1, <2>10 DEF TxSaved
  <2>12. Store!ListsFiles(disk)
    BY <2>2, <2>11 DEF Closed
  <2>13. Closed'
    BY <1>4, <1>5, <2>11, <2>12 DEF Closed
  <2> QED BY <2>7, <2>9, <2>11, <2>13
<1> QED BY <1>9, <1>10 DEF TxKept, Atomic, TransactionInv

LEMMA ApplyKeeps ==
  ASSUME Store!ConstantsAssumption, TransactionInv, Store!Apply
  PROVE  TxKept
<1> DEFINE p == Store!Min(todo)
<1>0. /\ TxTypes /\ await = "apply" /\ todo # {} /\ todo \subseteq DOMAIN tx.writes
      /\ UNCHANGED <<journals, tx, answer, unprotected>>
  BY DEF TransactionInv, TxTypes, Store!TypeOK, Store!Apply
<1>1. p \in todo /\ p \in DOMAIN tx.writes /\ p \in Store!Paths /\ tx.writes[p] \in Kind(p)
  BY <1>0, ApplyHasPaths
<1>2. PICK result \in Store!Outcomes(p, tx.writes[p]) :
        /\ Store!Put(p, tx.writes[p], result)
        /\ IF result = "done" THEN todo' = todo \ {p} /\ UNCHANGED await
           ELSE Store!StartUndo("undo")
  BY DEF Store!Apply
<1> HIDE DEF p
<1>3. /\ TxFits(disk') /\ DOMAIN disk' = Store!Paths /\ disk' = [q \in Store!Paths |-> disk'[q]]
      /\ \A f \in Store!Files : disk'[f] \in Versions \cup {Absent}
      /\ disk'[Store!Catalog] \in {Absent} \cup SUBSET Store!Files
      /\ \A q \in Store!Paths \ {p} : disk'[q] = disk[q]
      /\ result # "refused" => disk'[p] = tx.writes[p]
  BY <1>0, <1>1, <1>2, TxPutKeeps
<1>4. TxTypes'
  BY <1>0, <1>2, <1>3 DEF TxTypes, Store!TypeOK, Store!StartUndo
<1>5. ASSUME unprotected = {} PROVE Journaled' /\ TxPassed' /\ Closed' /\ TxSaved' = TxSaved
  <2>1. Journaled /\ TxPassed /\ Closed
    BY <1>5 DEF TransactionInv
  <2>2. DOMAIN journals # {} /\ answer = "none" /\ p \in DOMAIN tx.before
    BY <1>0, <1>1, <2>1 DEF Journaled, Looping
  <2>3. TxSaved' = TxSaved
    BY <1>0, <1>3, <2>2, CoveredMayChange DEF TxSaved
  <2>4. Closed'
    BY <1>0, <1>2, <2>1, <2>3 DEF Closed
  <2>5. await' \in {"apply", "undo"}
    BY <1>0, <1>2 DEF Store!StartUndo
  <2>6. Journaled'
    BY <1>0, <2>1, <2>5 DEF Journaled, Looping
  <2>7. await' = "apply" => \A q \in DOMAIN tx.writes \ todo' : disk'[q] = tx.writes[q]
    <3>1. await' = "apply" => todo' = todo \ {p} /\ disk'[p] = tx.writes[p]
      BY <1>2, <1>3 DEF Store!StartUndo
    <3>2. \A q \in DOMAIN tx.writes \ todo : disk[q] = tx.writes[q] /\ q \in Store!Paths
      BY <1>0, <2>1 DEF TxPassed, TxTypes, TxFits
    <3> QED BY <1>1, <1>3, <3>1, <3>2
  <2>8. await' = "undo" => todo' = DOMAIN tx.before
    BY <1>0, <1>2 DEF Store!StartUndo
  <2>9. TxPassed'
    BY <1>0, <2>2, <2>5, <2>7, <2>8 DEF TxPassed, TxRestored
  <2> QED BY <2>3, <2>4, <2>6, <2>9
<1> QED BY <1>0, <1>4, <1>5 DEF TxKept, Atomic, TransactionInv

LEMMA TxCompleteKeeps ==
  ASSUME Store!ConstantsAssumption, TransactionInv, Store!Complete
  PROVE  TxKept
<1>0. TxTypes /\ await = "apply" /\ todo = {} /\ UNCHANGED <<disk, tx>>
  BY DEF TransactionInv, Store!Complete
<1>1. PICK result \in {"done", "refused", "unsynced"} :
        /\ Store!Unlink(tx.journal, result)
        /\ IF result = "done" THEN Store!Return("committed")
                               ELSE Store!StartUndo("undo_committed") /\ UNCHANGED answer
        /\ unprotected' = IF result = "unsynced" THEN unprotected \cup {"unjournaled"}
                          ELSE unprotected
  BY DEF Store!Complete
<1>2. /\ DOMAIN journals' \subseteq Store!Names
      /\ \A n \in DOMAIN journals' : TxFits(journals'[n]) /\ journals'[n] = journals[n]
      /\ result # "refused" => DOMAIN journals' = DOMAIN journals \ {tx.journal}
      /\ result = "refused" => journals' = journals
  BY <1>0, <1>1, UnlinkKeeps DEF TxTypes, Store!TypeOK
<1>3. \A n \in DOMAIN journals' : Store!IsPartial(journals'[n])
  BY <1>2, FitsIsPartial
<1>4. unprotected' \subseteq {"leftover", "unjournaled"}
  BY <1>0, <1>1 DEF TxTypes, Store!TypeOK
<1>5. TxTypes'
  BY <1>0, <1>1, <1>2, <1>3, <1>4 DEF TxTypes, Store!TypeOK, Store!Return, Store!StartUndo
<1>6. ASSUME unprotected' = {} PROVE Journaled' /\ TxPassed' /\ Closed' /\ Atomic
  <2>1. unprotected = {} /\ result # "unsynced"
    BY <1>1, <1>6
  <2>2. Journaled /\ TxPassed /\ Closed
    BY <2>1 DEF TransactionInv
  <2>3. DOMAIN journals = {tx.journal} /\ answer = "none" /\ DOMAIN tx.before = DOMAIN tx.writes
    BY <1>0, <2>2 DEF Journaled, Looping
  <2>4. CASE result = "done"
    <3>1. DOMAIN journals' = {}
      BY <1>2, <2>3, <2>4
    <3>2. await' = "open" /\ answer' = "committed"
      BY <1>1, <2>4 DEF Store!Return
    <3>3. \A p \in DOMAIN tx.writes : disk[p] = tx.writes[p]
      BY <1>0, <2>2 DEF TxPassed
    <3>4. TxSaved' = disk
      BY <1>0, <3>1 DEF TxSaved
    <3>5. Store!Merge(TxSaved, tx.writes) = disk
      BY <1>0, <2>3, <3>3 DEF TxSaved, Store!Merge, TxTypes
    <3>6. Closed'
      BY <1>0, <2>2, <3>2, <3>4, <3>5 DEF Closed
    <3>7. Journaled' /\ TxPassed'
      BY <1>0, <2>3, <3>1, <3>2, <3>3 DEF Journaled, Looping, TxPassed, TxRestored
    <3> QED BY <3>4, <3>5, <3>6, <3>7 DEF Atomic
  <2>5. CASE result = "refused"
    <3>1. await' = "undo_committed" /\ todo' = DOMAIN tx.before /\ answer' = answer
      BY <1>1, <2>5 DEF Store!StartUndo
    <3>2. journals' = journals
      BY <1>2, <2>5
    <3>3. TxSaved' = TxSaved /\ Closed'
      BY <1>0, <2>2, <3>1, <3>2 DEF TxSaved, Closed
    <3>4. Journaled' /\ TxPassed'
      BY <1>0, <2>2, <2>3, <3>1, <3>2 DEF Journaled, Looping, TxPassed, TxRestored
    <3> QED BY <3>3, <3>4 DEF Atomic
  <2> QED BY <2>1, <2>4, <2>5
<1> QED BY <1>5, <1>6 DEF TxKept, TransactionInv

LEMMA TxUndoKeeps ==
  ASSUME Store!ConstantsAssumption, TransactionInv, Store!Undo
  PROVE  TxKept
<1> DEFINE p == Store!Max(todo)
<1>0. /\ TxTypes /\ await \in {"undo", "undo_committed"} /\ todo # {}
      /\ todo \subseteq DOMAIN tx.before
      /\ UNCHANGED <<journals, tx, unprotected>>
  BY DEF TransactionInv, TxTypes, Store!TypeOK, Store!Undo
<1>1. p \in todo /\ p \in DOMAIN tx.before /\ p \in Store!Paths /\ tx.before[p] \in Kind(p)
  BY <1>0, UndoHasPaths
<1>2. PICK result \in Store!Outcomes(p, tx.before[p]) :
        /\ Store!Put(p, tx.before[p], result)
        /\ IF result = "done" THEN todo' = todo \ {p} /\ UNCHANGED <<await, answer>>
                               ELSE Store!Return("unrestored")
  BY DEF Store!Undo
<1> HIDE DEF p
<1>3. /\ TxFits(disk') /\ DOMAIN disk' = Store!Paths /\ disk' = [q \in Store!Paths |-> disk'[q]]
      /\ \A f \in Store!Files : disk'[f] \in Versions \cup {Absent}
      /\ disk'[Store!Catalog] \in {Absent} \cup SUBSET Store!Files
      /\ \A q \in Store!Paths \ {p} : disk'[q] = disk[q]
      /\ result # "refused" => disk'[p] = tx.before[p]
  BY <1>0, <1>1, <1>2, TxPutKeeps
<1>4. TxTypes'
  BY <1>0, <1>2, <1>3 DEF TxTypes, Store!TypeOK, Store!Return
<1>5. ASSUME unprotected = {} PROVE Journaled' /\ TxPassed' /\ Closed' /\ TxSaved' = TxSaved
  <2>1. Journaled /\ TxPassed /\ Closed
    BY <1>5 DEF TransactionInv
  <2>2. DOMAIN journals # {} /\ answer = "none"
    BY <1>0, <2>1 DEF Journaled, Looping
  <2>3. TxSaved' = TxSaved
    BY <1>0, <1>1, <1>3, <2>2, CoveredMayChange DEF TxSaved
  <2>4. \/ await' = await /\ answer' = answer /\ todo' = todo \ {p} /\ disk'[p] = tx.before[p]
        \/ await' = "open" /\ answer' = "unrestored"
    BY <1>2, <1>3 DEF Store!Return
  <2>5. Closed'
    BY <1>0, <2>1, <2>3, <2>4 DEF Closed
  <2>6. Journaled'
    BY <1>0, <2>1, <2>2, <2>4 DEF Journaled, Looping
  <2>7. await' = await => \A q \in DOMAIN tx.before \ todo' : disk'[q] = tx.before[q]
    <3>1. \A q \in DOMAIN tx.before \ todo : disk[q] = tx.before[q] /\ q \in Store!Paths
      BY <1>0, <2>1 DEF TxPassed, TxRestored, TxTypes, TxFits
    <3>2. await' = await => todo' = todo \ {p} /\ disk'[p] = tx.before[p]
      BY <1>0, <2>4
    <3> QED BY <1>3, <3>1, <3>2
  <2>8. TxPassed'
    BY <1>0, <2>2, <2>4, <2>7 DEF TxPassed, TxRestored
  <2> QED BY <2>3, <2>5, <2>6, <2>8
<1> QED BY <1>0, <1>4, <1>5 DEF TxKept, Atomic, TransactionInv

LEMMA TxUndoReturnsKeeps ==
  ASSUME Store!ConstantsAssumption, TransactionInv, Store!UndoReturns
  PROVE  TxKept
<1>0. /\ TxTypes /\ await \in {"undo", "undo_committed"} /\ todo = {}
      /\ UNCHANGED <<disk, tx, unprotected>>
  BY DEF TransactionInv, Store!UndoReturns
<1>1. PICK result \in {"done", "refused", "unsynced"} :
        /\ Store!Unlink(tx.journal, result)
        /\ \/ result = "refused" /\ await = "undo_committed" /\ Store!Return("failed")
           \/ result = "done" /\ Store!Return("failed")
           \/ result # "done" /\ Store!Return("unrestored")
  BY DEF Store!UndoReturns, Store!Unlink
<1>2. /\ DOMAIN journals' \subseteq Store!Names
      /\ \A n \in DOMAIN journals' : TxFits(journals'[n]) /\ journals'[n] = journals[n]
      /\ result # "refused" => DOMAIN journals' = DOMAIN journals \ {tx.journal}
      /\ result = "refused" => journals' = journals
  BY <1>0, <1>1, UnlinkKeeps DEF TxTypes, Store!TypeOK
<1>3. \A n \in DOMAIN journals' : Store!IsPartial(journals'[n])
  BY <1>2, FitsIsPartial
<1>4. await' = "open" /\ todo' = {} /\ answer' \in {"failed", "unrestored"}
  BY <1>1 DEF Store!Return
<1>5. TxTypes'
  BY <1>0, <1>2, <1>3, <1>4 DEF TxTypes, Store!TypeOK
<1>6. ASSUME unprotected = {} PROVE Journaled' /\ TxPassed' /\ Closed' /\ TxSaved' = TxSaved
  <2>1. Journaled /\ TxPassed /\ Closed
    BY <1>6 DEF TransactionInv
  <2>2. DOMAIN journals = {tx.journal} /\ TxRestored(DOMAIN tx.before)
    BY <1>0, <2>1 DEF Journaled, Looping, TxPassed
  <2>3. Store!Merge(disk, tx.before) = disk
    BY <1>0, <2>2, RestoredIsSaved
  <2>4. TxSaved' = TxSaved
    BY <1>0, <1>2, <2>2, <2>3 DEF TxSaved
  <2>5. Closed'
    BY <1>0, <1>4, <2>1, <2>4 DEF Closed
  <2>6. Journaled' /\ TxPassed'
    BY <1>0, <1>2, <1>4, <2>1, <2>2 DEF Journaled, Looping, TxPassed, TxRestored
  <2> QED BY <2>4, <2>5, <2>6
<1> QED BY <1>0, <1>5, <1>6 DEF TxKept, Atomic, TransactionInv

LEMMA CrashKeeps ==
  ASSUME Store!ConstantsAssumption, TransactionInv, Store!Crash
  PROVE  TxKept
<1>1. TxTypes'
  BY DEF TransactionInv, TxTypes, Store!TypeOK, Store!Crash
<1>2. ASSUME unprotected = {} PROVE Journaled' /\ TxPassed' /\ Closed' /\ TxSaved' = TxSaved
  <2>1. Journaled /\ TxPassed /\ Closed
    BY <1>2 DEF TransactionInv
  <2>2. TxSaved' = TxSaved /\ Closed'
    BY <2>1 DEF Store!Crash, TxSaved, Closed
  <2>3. Journaled' /\ TxPassed'
    BY <2>1 DEF Store!Crash, Journaled, Looping, TxPassed, TxRestored
  <2> QED BY <2>2, <2>3
<1> QED BY <1>1, <1>2 DEF TxKept, Atomic, TransactionInv, Store!Crash

-----------------------------------------------------------------------------
LEMMA TransactionStartsGood ==
  ASSUME Store!ConstantsAssumption, Store!Init
  PROVE  TransactionInv
<1>1. /\ DOMAIN journals = {} /\ DOMAIN disk = Store!Paths
      /\ \A p \in Store!Paths : disk[p] = Absent
  BY DEF Store!Init
<1>2. /\ DOMAIN tx.writes = {} /\ DOMAIN tx.before = {} /\ tx.journal = 0
      /\ await = "closed" /\ todo = {} /\ answer = "none" /\ unprotected = {}
  BY DEF Store!Init
<1>3. TxFits(disk) /\ TxFits(tx.writes) /\ TxFits(tx.before)
  BY <1>1, <1>2, KindsAndPaths DEF TxFits
<1>4. TxTypes
  BY <1>1, <1>2, <1>3, KindsAndPaths DEF TxTypes, Store!TypeOK, Store!IsPartial, TxFits,
                                         Store!Init
<1>5. Journaled /\ TxPassed
  BY <1>1, <1>2 DEF Journaled, Looping, TxPassed, TxRestored
<1>6. Closed
  BY <1>1, <1>2, KindsAndPaths DEF Closed, TxSaved, Store!ListsFiles, Store!Listed
<1> QED BY <1>4, <1>5, <1>6 DEF TransactionInv

LEMMA NextKeeps ==
  ASSUME Store!ConstantsAssumption, TransactionInv, [Store!Next]_(Store!vars)
  PROVE  TxKept
<1>1. CASE UNCHANGED Store!vars
  <2>1. TxSaved' = TxSaved
    BY <1>1 DEF Store!vars, TxSaved
  <2>2. TxTypes'
    BY <1>1 DEF TransactionInv, Store!vars, TxTypes, Store!TypeOK
  <2>3. unprotected = {} => Journaled' /\ TxPassed' /\ Closed'
    BY <1>1, <2>1 DEF TransactionInv, Store!vars, Journaled, Looping, TxPassed, TxRestored,
                      Closed
  <2> QED BY <1>1, <2>1, <2>2, <2>3 DEF TransactionInv, TxKept, Atomic, Store!vars
<1> QED BY <1>1, OpenKeeps, TxRecoverEntryKeeps, TxRecoverJournalKeeps, RecoverKeeps,
           BeginKeeps,
           ApplyKeeps, TxCompleteKeeps, TxUndoKeeps, TxUndoReturnsKeeps, CrashKeeps
               DEF Store!Next

LEMMA TransactionIsGood == JournalsSpec => []TransactionInv
<1>1. Store!ConstantsAssumption
  BY JournalsAssumption
<1>2. Store!Init => TransactionInv
  BY <1>1, TransactionStartsGood
<1>3. TransactionInv /\ [Store!Next]_(Store!vars) => TransactionInv'
  BY <1>1, NextKeeps DEF TxKept
<1> QED BY <1>2, <1>3, StoreRuns, PTL

LEMMA GapsStay == ASSUME Store!Next PROVE unprotected \subseteq unprotected'
BY DEF Store!Next, Store!Open, Store!RecoverEntry, Store!RecoverJournal, Store!Recover,
       Store!Begin, Store!Apply, Store!Complete, Store!Undo,
       Store!UndoReturns, Store!Crash

-----------------------------------------------------------------------------
\* No catalog at rest lists a profile whose file is missing, nor would a recovery leave
\* one that does: apply_writes puts the catalog last.
LEMMA CatalogsAreClosed ==
  ASSUME Store!ConstantsAssumption, TransactionInv
  PROVE  Store!CatalogFilesExist
<1> SUFFICES ASSUME unprotected = {}
             PROVE  /\ Store!ListsFiles(Store!Recovered)
                    /\ await = "open" /\ answer # "unrestored" => Store!ListsFiles(disk)
  BY DEF Store!CatalogFilesExist
<1>1. TxTypes /\ Journaled /\ TxPassed /\ Closed
  BY DEF TransactionInv
<1>2. Store!ListsFiles(Store!Recovered)
  BY <1>1, RecoveredIsSaved DEF Closed
<1>3. ASSUME await = "open", answer \in {"none", "committed"} PROVE TxSaved = disk
  BY <1>1, <1>3 DEF Journaled, TxSaved
<1>4. ASSUME answer = "failed" PROVE TxSaved = disk
  <2>1. TxRestored(DOMAIN tx.before)
    BY <1>1, <1>4 DEF TxPassed
  <2>2. Store!Merge(disk, tx.before) = disk
    BY <1>1, <2>1, RestoredIsSaved
  <2> QED BY <2>2 DEF TxSaved
<1>5. answer \in {"none", "committed", "failed", "unrestored"}
  BY <1>1 DEF TxTypes, Store!TypeOK
<1> QED BY <1>1, <1>2, <1>3, <1>4, <1>5 DEF Closed

\* A commit that returned Ok is on the disk and stays there, one that returned an error left
\* no trace, and no catalog lists a profile that is missing (transaction.rs commit).
THEOREM TransactionsAreTrue == JournalsSpec => []CommitsAreTrue
<1>1. TransactionInv => Store!CatalogFilesExist
  BY CatalogsAreClosed, JournalsAssumption
<1>2. TransactionInv => Store!TypeOK /\ Store!CommittedSurvives /\ Store!FailedIsRestored
  BY DEF TransactionInv, TxTypes, TxPassed, TxRestored, Store!CommittedSurvives,
         Store!Survives, Store!FailedIsRestored
<1>3. TransactionInv => CommitsAreTrue
  BY <1>1, <1>2 DEF CommitsAreTrue
<1> QED BY <1>3, TransactionIsGood, PTL

\* Whatever the process is doing and wherever it is killed, what a recovery would make of
\* the directory changes in one step, the one that removes the journal, from all of the
\* old to all of the new (transaction.rs commit, store.rs recovery).
THEOREM CommitsAtOnePoint == JournalsSpec => OneCommitPoint
<1> DEFINE A == unprotected' = {} =>
                  \/ Store!Recovered' = Store!Recovered
                  \/ /\ Store!Complete
                     /\ Store!Recovered' = Store!Merge(Store!Recovered, tx.writes)
<1>1. TransactionInv /\ [Store!Next]_(Store!vars) => [A]_(Store!vars)
  <2> SUFFICES ASSUME TransactionInv, Store!Next, unprotected' = {}
               PROVE  \/ Store!Recovered' = Store!Recovered
                      \/ /\ Store!Complete
                         /\ Store!Recovered' = Store!Merge(Store!Recovered, tx.writes)
    OBVIOUS
  <2>0. Store!ConstantsAssumption
    BY JournalsAssumption
  <2>1. TxTypes /\ Journaled
    BY GapsStay DEF TransactionInv
  <2>2. TransactionInv' /\ Atomic
    BY <2>0, NextKeeps DEF TxKept
  <2>3. TxTypes' /\ Journaled'
    BY <2>2 DEF TransactionInv
  <2>4. Store!Recovered = TxSaved
    BY <2>0, <2>1, RecoveredIsSaved
  <2>5. Store!Recovered' = TxSaved'
    BY <2>0, <2>3, NextIsSaved
  <2> QED BY <2>2, <2>4, <2>5 DEF Atomic
<1>2. JournalsSpec => [][A]_(Store!vars)
  BY <1>1, StoreRuns, TransactionIsGood, PTL
<1>3. [][A]_(Store!vars) => OneCommitPoint
  BY DEF OneCommitPoint, Store!OneCommitPoint
<1> QED BY <1>2, <1>3, PTL

-----------------------------------------------------------------------------
(* The import                                                              *)

Old(d) == d[Cvr!Marker] = Absent /\ \A f \in Cvr!Files : d[f] # "cvr"

\* What holds of a loop and its journal in any case.
Sane ==
  /\ catalogs = [source |-> catalogs.source, bundle |-> catalogs.bundle]
  /\ rollback # Absent => rollback[Cvr!Marker] # "own"
  /\ at \in {"journal", "write", "undo"} => backup # Absent
  /\ at \in {"backup", "journal"} => root[Cvr!Marker] = Absent
  /\ at \in {"recheck", "backup", "journal"} => rollback = Absent
  /\ at = "journal" => \A f \in Cvr!Files : backup[f] = root[f]

\* The catalog of the bundle, from its loading on, refers to no script.
Bundled ==
  at \in {"recover", "recheck", "backup", "journal", "write"} \/ said = "imported" =>
    catalogs.bundle = Cvr!ScriptsRemoved(catalogs.source)

Saved ==
  rollback # Absent =>
    /\ Old(rollback) /\ backup # Absent
    /\ \A f \in Cvr!Files : rollback[f] = backup[f]

Restored == \A p \in Cvr!Paths \ left : root[p] = rollback[p]

Passed ==
  /\ at = "write" => rollback # Absent /\ \A p \in Cvr!Paths \ left : root[p] = "cvr"
  /\ at = "undo" => rollback # Absent /\ Restored
  /\ at \in {"recover", "opening"} /\ rollback # Absent => Restored

Backed ==
  root[Cvr!Marker] # Absent => backup # Absent /\ \A f \in Cvr!Files : backup[f] # "cvr"

Clean == rollback = Absent => Cvr!Whole(root)

ImportInv ==
  /\ Cvr!TypeOK /\ Sane /\ Bundled
  /\ unjournaled = {} => Saved /\ Passed /\ Backed /\ Clean

LEMMA Domains ==
  /\ Cvr!Files = 1..BundleSize /\ Cvr!Paths = 0..BundleSize /\ Cvr!Marker = 0
  /\ BundleSize \in Nat \ {0} /\ Cvr!Files \subseteq Cvr!Paths /\ Cvr!Marker \in Cvr!Paths
  /\ Cvr!Marker \notin Cvr!Files /\ \A p \in Cvr!Paths \ {Cvr!Marker} : p \in Cvr!Files
  /\ Absent \notin {"own", "cvr"}
  /\ Absent \notin [Cvr!Paths -> Cvr!Contents] /\ Absent \notin [Cvr!Files -> Cvr!Contents]
BY JournalsAssumption DEF Cvr!ImportAssumption, Cvr!Files, Cvr!Paths, Cvr!Marker, Cvr!Contents

\* The path that a loop is at is one of those it has left.
LEMMA PathsLeft ==
  ASSUME Cvr!TypeOK, left # {}
  PROVE  Cvr!Max(left) \in left /\ Cvr!NextWrite \in left
<1>1. left \in SUBSET (0..BundleSize)
  BY Domains DEF Cvr!TypeOK
<1>2. Store!Max(left) \in left
  BY <1>1, Domains, MaxIsMember
<1>3. CASE left = {Cvr!Marker}
  BY <1>2, <1>3 DEF Store!Max, Cvr!Max, Cvr!NextWrite
<1>4. CASE left # {Cvr!Marker}
  <2>1. left \ {Cvr!Marker} \in SUBSET Nat
    <3>1. \A x \in left : x \in Nat
      BY <1>1, Domains
    <3> QED BY <3>1
  <2>2. left \ {Cvr!Marker} # {}
    BY <1>4
  <2>3. Store!Min(left \ {Cvr!Marker}) \in left
    BY <2>1, <2>2, MinIsMember
  <2> QED BY <1>2, <1>4, <2>3 DEF Store!Max, Cvr!Max, Store!Min, Cvr!Min, Cvr!NextWrite
<1> QED BY <1>3, <1>4

LEMMA ImportInit == Cvr!Init => ImportInv
<1>1. SUFFICES ASSUME Cvr!Init PROVE ImportInv
  OBVIOUS
<1>2. PICK own \in [Cvr!Files -> {"own", Absent}] :
        root = [p \in Cvr!Paths |-> IF p = Cvr!Marker THEN Absent ELSE own[p]]
  BY <1>1 DEF Cvr!Init
<1>3. /\ root \in [Cvr!Paths -> Cvr!Contents] /\ root[Cvr!Marker] = Absent
      /\ \A f \in Cvr!Files : root[f] # "cvr"
  BY <1>2, Domains DEF Cvr!Contents
<1>4. Cvr!IsCatalog(catalogs.source)
  BY <1>1 DEF Cvr!Init
<1> QED BY <1>1, <1>3, <1>4, Domains DEF Cvr!Init, ImportInv, Cvr!TypeOK, Sane, Bundled, Saved,
           Passed, Backed, Clean, Cvr!Whole

\* What is put at a path, and what nothing is put at.
LEMMA PutKeeps ==
  ASSUME Cvr!TypeOK, NEW p \in Cvr!Paths, NEW content \in Cvr!Contents, NEW ends,
         p = Cvr!Marker => content # "own", Cvr!Put(p, content, ends)
  PROVE  /\ root' \in [Cvr!Paths -> Cvr!Contents] /\ root'[Cvr!Marker] # "own"
         /\ \A q \in Cvr!Paths \ {p} : root'[q] = root[q]
         /\ ends # "refused" => root'[p] = content
BY DEF Cvr!TypeOK, Cvr!Put

\* The steps that write no file and remove no journal.
LEMMA PlainKeeps ==
  ASSUME ImportInv,
         \/ Cvr!Open \/ Cvr!Import \/ Cvr!CheckMarker \/ Cvr!Load \/ Cvr!LoadFails
         \/ Cvr!RecheckMarker \/ Cvr!BackupFails \/ Cvr!Crash \/ UNCHANGED Cvr!vars
  PROVE  ImportInv'
<1>0. Cvr!TypeOK /\ Sane /\ Bundled /\ (unjournaled = {} => Saved /\ Passed /\ Backed /\ Clean)
  BY DEF ImportInv
<1>1. UNCHANGED <<root, rollback, backup, unjournaled>>
  BY DEF Cvr!Open, Cvr!Import, Cvr!CheckMarker, Cvr!Load, Cvr!LoadFails, Cvr!RecheckMarker,
         Cvr!BackupFails, Cvr!Crash, Cvr!vars
<1>2. /\ catalogs' = [source |-> catalogs.source, bundle |-> catalogs'.bundle]
      /\ \/ catalogs' = catalogs
         \/ Cvr!Load /\ catalogs'.bundle = Cvr!ScriptsRemoved(catalogs.source)
  BY <1>0 DEF Sane, Cvr!Open, Cvr!Import, Cvr!CheckMarker, Cvr!Load, Cvr!LoadFails,
         Cvr!RecheckMarker, Cvr!BackupFails, Cvr!Crash, Cvr!vars
<1>3. catalogs'.source = catalogs.source
  BY <1>2
<1>4. \/ at' = at /\ left' = left /\ said' = said
      \/ /\ at' \in {"idle", "marker"} /\ left' \in {left, {}}
         /\ said' \in {said, "already", "failed"}
      \/ /\ at' = "load" /\ left' = left /\ said' = said
      \/ at' \in {"opening", "recover"} /\ left' = Cvr!ToReplay /\ said' = said
      \/ /\ at = "recheck" /\ at' = "backup" /\ left' = left /\ said' = said
         /\ root[Cvr!Marker] = Absent
  BY DEF Cvr!Open, Cvr!Import, Cvr!CheckMarker, Cvr!Load, Cvr!LoadFails,
         Cvr!RecheckMarker, Cvr!BackupFails, Cvr!Crash, Cvr!vars, Cvr!Answer
<1>5. Cvr!TypeOK'
  <2>1. left' \subseteq Cvr!Paths
    BY <1>0, <1>4 DEF Cvr!TypeOK, Cvr!ToReplay
  <2>2. /\ at' \in {"idle", "marker", "load", "recover", "opening", "recheck", "backup",
                    "journal", "write", "undo"}
        /\ said' \in {"none", "imported", "already", "failed", "unrestored"}
    BY <1>0, <1>4 DEF Cvr!TypeOK
  <2> QED BY <1>0, <1>1, <1>3, <2>1, <2>2 DEF Cvr!TypeOK
<1>6. Sane'
  BY <1>0, <1>1, <1>2, <1>3, <1>4 DEF Sane
<1>7. Bundled'
  <2>1. CASE Cvr!Load /\ catalogs'.bundle = Cvr!ScriptsRemoved(catalogs.source)
    BY <1>3, <2>1 DEF Bundled
  <2>2. CASE catalogs' = catalogs
    <3>1. at' = "recover" => at = "recover" \/ Cvr!Load
      BY DEF Cvr!Open, Cvr!Import, Cvr!CheckMarker, Cvr!Load, Cvr!LoadFails,
             Cvr!RecheckMarker, Cvr!BackupFails, Cvr!Crash, Cvr!vars, Cvr!Answer
    <3>2. Cvr!Load => catalogs'.bundle = Cvr!ScriptsRemoved(catalogs.source)
      BY <1>0 DEF Cvr!Load, Sane
    <3> QED BY <1>0, <1>4, <2>2, <3>1, <3>2 DEF Bundled
  <2> QED BY <1>2, <2>1, <2>2
<1>8. ASSUME unjournaled = {} PROVE Saved' /\ Passed' /\ Backed' /\ Clean'
  <2>1. Saved' /\ Backed' /\ Clean'
    BY <1>0, <1>1, <1>8 DEF Saved, Backed, Clean, Cvr!Whole, Old
  <2>2. at' \in {"opening", "recover"} /\ at' # at /\ rollback # Absent => left' = Cvr!Paths
    BY <1>4 DEF Cvr!ToReplay
  <2>3. Passed'
    BY <1>0, <1>1, <1>4, <1>8, <2>2 DEF Passed, Restored, Cvr!ToReplay
  <2> QED BY <2>1, <2>3
<1> QED BY <1>1, <1>5, <1>6, <1>7, <1>8 DEF ImportInv

LEMMA BackupKeeps == ASSUME ImportInv, Cvr!Backup PROVE ImportInv'
<1>0. Cvr!TypeOK /\ Sane /\ Bundled /\ (unjournaled = {} => Saved /\ Passed /\ Backed /\ Clean)
  BY DEF ImportInv
<1>1. /\ at = "backup" /\ at' = "journal" /\ backup' = [f \in Cvr!Files |-> root[f]]
      /\ UNCHANGED <<root, catalogs, rollback, left, said, unjournaled>>
      /\ root[Cvr!Marker] = Absent /\ rollback = Absent
  BY <1>0 DEF Cvr!Backup, Sane
<1>2. backup' \in [Cvr!Files -> Cvr!Contents] /\ \A f \in Cvr!Files : backup'[f] = root[f]
  BY <1>0, <1>1, Domains DEF Cvr!TypeOK
<1>3. Cvr!TypeOK'
  BY <1>0, <1>1, <1>2 DEF Cvr!TypeOK
<1>4. backup' # Absent
  BY <1>2, Domains
<1>5. Sane' /\ Bundled'
  BY <1>0, <1>1, <1>2, <1>4 DEF Sane, Bundled
<1>6. unjournaled = {} => Saved' /\ Passed' /\ Backed' /\ Clean'
  BY <1>0, <1>1 DEF Saved, Passed, Restored, Backed, Clean, Cvr!Whole
<1> QED BY <1>1, <1>3, <1>5, <1>6 DEF ImportInv

LEMMA CreateJournalKeeps == ASSUME ImportInv, Cvr!CreateJournal PROVE ImportInv'
<1>0. Cvr!TypeOK /\ Sane /\ Bundled /\ (unjournaled = {} => Saved /\ Passed /\ Backed /\ Clean)
  BY DEF ImportInv
<1>1. PICK ends \in Cvr!Outcomes :
        /\ rollback' = IF ends = "refused" THEN rollback ELSE root
        /\ IF ends = "done" THEN at' = "write" /\ left' = Cvr!Paths /\ said' = said
                               ELSE at' = "idle" /\ left' = {} /\ said' = "failed"
  BY DEF Cvr!CreateJournal, Cvr!Answer
<1>2. at = "journal" /\ UNCHANGED <<root, catalogs, backup, unjournaled>>
  BY DEF Cvr!CreateJournal
<1>3. /\ root[Cvr!Marker] = Absent /\ rollback = Absent /\ backup # Absent
      /\ \A f \in Cvr!Files : backup[f] = root[f]
  BY <1>0, <1>2 DEF Sane
<1>4. root # Absent
  BY <1>0, Domains DEF Cvr!TypeOK
<1>5. Cvr!TypeOK'
  BY <1>0, <1>1, <1>2 DEF Cvr!TypeOK
<1>6. Sane' /\ Bundled'
  BY <1>0, <1>1, <1>2, <1>3, Domains DEF Sane, Bundled
<1>7. ASSUME unjournaled = {} PROVE Saved' /\ Passed' /\ Backed' /\ Clean'
  <2>1. Old(root) /\ Cvr!Whole(root)
    BY <1>0, <1>3, <1>7, Domains DEF Clean, Cvr!Whole, Old
  <2>2. Saved'
    BY <1>1, <1>2, <1>3, <2>1 DEF Saved, Old
  <2>3. Passed'
    BY <1>1, <1>4 DEF Passed
  <2>4. Backed' /\ Clean'
    BY <1>0, <1>1, <1>2, <1>7, <2>1 DEF Backed, Clean, Cvr!Whole
  <2> QED BY <2>2, <2>3, <2>4
<1> QED BY <1>2, <1>5, <1>6, <1>7 DEF ImportInv

\* A file is put back from the journal, by a recovery or by the rollback of the import.
LEMMA RecoverEntryKeeps == ASSUME ImportInv, Cvr!RecoverEntry PROVE ImportInv'
<1> DEFINE p == Cvr!Max(left)
<1>0. Cvr!TypeOK /\ Sane /\ Bundled /\ (unjournaled = {} => Saved /\ Passed /\ Backed /\ Clean)
  BY DEF ImportInv
<1>1. PICK ends \in Cvr!Outcomes :
        /\ Cvr!Put(p, rollback[p], ends)
        /\ IF ends = "done" THEN left' = left \ {p} /\ at' = at /\ said' = said
           ELSE at' = "idle" /\ left' = {} /\ said' \in {said, "failed"}
  BY DEF Cvr!RecoverEntry, Cvr!Answer
<1>2. /\ at \in {"recover", "opening"} /\ rollback # Absent /\ left # {}
      /\ UNCHANGED <<catalogs, rollback, backup, unjournaled>>
  BY DEF Cvr!RecoverEntry
<1>3. p \in left /\ p \in Cvr!Paths
  BY <1>0, <1>2, PathsLeft DEF Cvr!TypeOK
<1> HIDE DEF p
<1>4. rollback[p] \in Cvr!Contents /\ (p = Cvr!Marker => rollback[p] # "own")
  BY <1>0, <1>2, <1>3 DEF Cvr!TypeOK, Sane
<1>5. /\ root' \in [Cvr!Paths -> Cvr!Contents] /\ root'[Cvr!Marker] # "own"
      /\ \A q \in Cvr!Paths \ {p} : root'[q] = root[q]
      /\ ends # "refused" => root'[p] = rollback[p]
  BY <1>0, <1>1, <1>3, <1>4, PutKeeps
<1>6. Cvr!TypeOK'
  BY <1>0, <1>1, <1>2, <1>5 DEF Cvr!TypeOK
<1>7. Sane' /\ Bundled'
  BY <1>0, <1>1, <1>2 DEF Sane, Bundled
<1>8. ASSUME unjournaled = {} PROVE Saved' /\ Passed' /\ Backed' /\ Clean'
  <2>1. Saved' /\ Backed' /\ Clean'
    BY <1>0, <1>2, <1>8 DEF Saved, Old, Backed, Clean
  <2>2. ends = "done" => Restored'
    BY <1>0, <1>1, <1>2, <1>3, <1>5, <1>8 DEF Passed, Restored
  <2>3. Passed'
    BY <1>1, <1>2, <2>2 DEF Passed
  <2> QED BY <2>1, <2>3
<1> QED BY <1>2, <1>6, <1>7, <1>8 DEF ImportInv

\* What is left when the journal is gone.
LEMMA RestoredIsOld ==
  ASSUME Cvr!TypeOK, rollback # Absent, Saved, Restored, left = {}
  PROVE  Old(root) /\ Cvr!Whole(root)
<1>1. \A p \in Cvr!Paths : root[p] = rollback[p]
  BY DEF Restored
<1>2. Old(root)
  BY <1>1, Domains DEF Saved, Old
<1> QED BY <1>2 DEF Old, Cvr!Whole

LEMMA RecoverJournalKeeps == ASSUME ImportInv, Cvr!RecoverJournal PROVE ImportInv'
<1>0. Cvr!TypeOK /\ Sane /\ Bundled /\ (unjournaled = {} => Saved /\ Passed /\ Backed /\ Clean)
  BY DEF ImportInv
<1>1. PICK ends \in Cvr!Outcomes :
        /\ rollback = Absent => ends = "done"
        /\ rollback' = IF ends = "refused" THEN rollback ELSE Absent
        /\ left' = {}
        /\ \/ /\ ends = "done" /\ at = "recover" /\ at' = "recheck" /\ said' = said
           \/ at' = "idle" /\ said' \in {said, "failed"}
  BY DEF Cvr!RecoverJournal, Cvr!Answer, Cvr!Outcomes
<1>2. /\ at \in {"recover", "opening"} /\ left = {}
      /\ UNCHANGED <<root, catalogs, backup, unjournaled>>
  BY DEF Cvr!RecoverJournal
<1>3. Cvr!TypeOK'
  BY <1>0, <1>1, <1>2 DEF Cvr!TypeOK
<1>4. Sane' /\ Bundled'
  BY <1>0, <1>1, <1>2 DEF Sane, Bundled
<1>5. ASSUME unjournaled = {} PROVE Saved' /\ Passed' /\ Backed' /\ Clean'
  <2>1. Cvr!Whole(root) \/ rollback' = rollback
    BY <1>0, <1>1, <1>2, <1>5, RestoredIsOld DEF Passed, Clean
  <2>2. Saved' /\ Backed'
    BY <1>0, <1>1, <1>2, <1>5 DEF Saved, Old, Backed
  <2>3. Passed'
    BY <1>1 DEF Passed
  <2>4. Clean'
    BY <1>0, <1>2, <1>5, <2>1 DEF Clean, Cvr!Whole
  <2> QED BY <2>2, <2>3, <2>4
<1> QED BY <1>2, <1>3, <1>4, <1>5 DEF ImportInv

LEMMA WriteKeeps == ASSUME ImportInv, Cvr!Write PROVE ImportInv'
<1> DEFINE p == Cvr!NextWrite
<1>0. Cvr!TypeOK /\ Sane /\ Bundled /\ (unjournaled = {} => Saved /\ Passed /\ Backed /\ Clean)
  BY DEF ImportInv
<1>1. PICK ends \in Cvr!Outcomes :
        /\ Cvr!Put(p, "cvr", ends)
        /\ IF ends = "done" THEN left' = left \ {p} /\ at' = at
                               ELSE at' = "undo" /\ left' = Cvr!Paths
  BY DEF Cvr!Write, Cvr!StartUndo
<1>2. /\ at = "write" /\ left # {}
      /\ UNCHANGED <<catalogs, rollback, backup, said, unjournaled>>
  BY DEF Cvr!Write
<1>3. p \in left /\ p \in Cvr!Paths
  BY <1>0, <1>2, PathsLeft DEF Cvr!TypeOK
<1> HIDE DEF p
<1>5. /\ root' \in [Cvr!Paths -> Cvr!Contents] /\ root'[Cvr!Marker] # "own"
      /\ \A q \in Cvr!Paths \ {p} : root'[q] = root[q]
      /\ ends # "refused" => root'[p] = "cvr"
  BY <1>0, <1>1, <1>3, PutKeeps DEF Cvr!Contents
<1>6. Cvr!TypeOK'
  BY <1>0, <1>1, <1>2, <1>5 DEF Cvr!TypeOK
<1>7. Sane' /\ Bundled'
  BY <1>0, <1>1, <1>2 DEF Sane, Bundled
<1>8. ASSUME unjournaled = {} PROVE Saved' /\ Passed' /\ Backed' /\ Clean'
  <2>1. rollback # Absent /\ \A q \in Cvr!Paths \ left : root[q] = "cvr"
    BY <1>0, <1>2, <1>8 DEF Passed
  <2>2. Saved' /\ Backed' /\ Clean'
    BY <1>0, <1>2, <1>8, <2>1 DEF Saved, Old, Backed, Clean
  <2>3. at' = "write" => \A q \in Cvr!Paths \ left' : root'[q] = "cvr"
    BY <1>1, <1>3, <1>5, <2>1
  <2>4. at' = "undo" => Restored'
    BY <1>1, <1>2 DEF Restored
  <2>5. Passed'
    BY <1>1, <1>2, <2>1, <2>3, <2>4 DEF Passed
  <2> QED BY <2>2, <2>5
<1> QED BY <1>2, <1>6, <1>7, <1>8 DEF ImportInv

LEMMA CompleteKeeps == ASSUME ImportInv, Cvr!Complete PROVE ImportInv'
<1>0. Cvr!TypeOK /\ Sane /\ Bundled /\ (unjournaled = {} => Saved /\ Passed /\ Backed /\ Clean)
  BY DEF ImportInv
<1>1. PICK ends \in Cvr!Outcomes :
        /\ rollback' = IF ends = "refused" THEN rollback ELSE Absent
        /\ unjournaled' = IF ends = "unsynced" THEN unjournaled \cup {"unjournaled"}
                                                  ELSE unjournaled
        /\ IF ends = "done" THEN at' = "idle" /\ left' = {} /\ said' = "imported"
           ELSE at' = "undo" /\ left' = Cvr!Paths /\ said' = said
  BY DEF Cvr!Complete, Cvr!Answer, Cvr!StartUndo
<1>2. at = "write" /\ left = {} /\ UNCHANGED <<root, catalogs, backup>>
  BY DEF Cvr!Complete
<1>3. Cvr!TypeOK'
  BY <1>0, <1>1, <1>2 DEF Cvr!TypeOK
<1>4. Sane' /\ Bundled'
  BY <1>0, <1>1, <1>2 DEF Sane, Bundled
<1>5. ASSUME unjournaled' = {} PROVE Saved' /\ Passed' /\ Backed' /\ Clean'
  <2>1. unjournaled = {} /\ ends \in {"done", "refused"}
    BY <1>1, <1>5 DEF Cvr!Outcomes
  <2>2. rollback # Absent /\ \A q \in Cvr!Paths : root[q] = "cvr"
    BY <1>0, <1>2, <2>1 DEF Passed
  <2>3. Saved' /\ Backed'
    BY <1>0, <1>1, <1>2, <2>1 DEF Saved, Old, Backed
  <2>4. Clean'
    BY <1>2, <2>2 DEF Clean, Cvr!Whole
  <2>5. Passed'
    BY <1>1, <2>1, <2>2 DEF Passed, Restored
  <2> QED BY <2>3, <2>4, <2>5
<1> QED BY <1>3, <1>4, <1>5 DEF ImportInv

LEMMA UndoKeeps == ASSUME ImportInv, Cvr!Undo PROVE ImportInv'
<1> DEFINE p == Cvr!Max(left)
           content == IF p = Cvr!Marker THEN Absent ELSE backup[p]
<1>0. Cvr!TypeOK /\ Sane /\ Bundled /\ (unjournaled = {} => Saved /\ Passed /\ Backed /\ Clean)
  BY DEF ImportInv
<1>1. PICK ends \in Cvr!Outcomes :
        /\ Cvr!Put(p, content, ends)
        /\ IF ends = "done" THEN left' = left \ {p} /\ at' = at /\ said' = said
           ELSE at' = "idle" /\ left' = {} /\ said' = "unrestored"
  BY DEF Cvr!Undo, Cvr!Answer
<1>2. at = "undo" /\ left # {} /\ UNCHANGED <<catalogs, rollback, backup, unjournaled>>
  BY DEF Cvr!Undo
<1>3. p \in left /\ p \in Cvr!Paths
  BY <1>0, <1>2, PathsLeft DEF Cvr!TypeOK
<1> HIDE DEF p
<1>4. content \in Cvr!Contents /\ (p = Cvr!Marker => content # "own")
  BY <1>0, <1>2, <1>3, Domains DEF Cvr!TypeOK, Sane, Cvr!Contents
<1>5. /\ root' \in [Cvr!Paths -> Cvr!Contents] /\ root'[Cvr!Marker] # "own"
      /\ \A q \in Cvr!Paths \ {p} : root'[q] = root[q]
      /\ ends # "refused" => root'[p] = content
  <2> HIDE DEF content
  <2> QED BY <1>0, <1>1, <1>3, <1>4, PutKeeps
<1>6. Cvr!TypeOK'
  BY <1>0, <1>1, <1>2, <1>5 DEF Cvr!TypeOK
<1>7. Sane' /\ Bundled'
  BY <1>0, <1>1, <1>2 DEF Sane, Bundled
<1>8. ASSUME unjournaled = {} PROVE Saved' /\ Passed' /\ Backed' /\ Clean'
  <2>1. rollback # Absent /\ Restored /\ Saved
    BY <1>0, <1>2, <1>8 DEF Passed
  <2>2. content = rollback[p]
    BY <1>3, <2>1, Domains DEF Saved, Old
  <2>3. Saved' /\ Backed' /\ Clean'
    BY <1>2, <2>1 DEF Saved, Old, Backed, Clean
  <2>4. ends = "done" => Restored'
    BY <1>1, <1>2, <1>3, <1>5, <2>1, <2>2 DEF Restored
  <2>5. Passed'
    BY <1>1, <1>2, <2>1, <2>4 DEF Passed
  <2> QED BY <2>3, <2>5
<1> QED BY <1>2, <1>6, <1>7, <1>8 DEF ImportInv

LEMMA UndoReturnsKeeps == ASSUME ImportInv, Cvr!UndoReturns PROVE ImportInv'
<1>0. Cvr!TypeOK /\ Sane /\ Bundled /\ (unjournaled = {} => Saved /\ Passed /\ Backed /\ Clean)
  BY DEF ImportInv
<1>1. /\ rollback' \in {rollback, Absent} /\ at' = "idle" /\ left' = {}
      /\ said' \in {"failed", "unrestored"}
      /\ at = "undo" /\ left = {} /\ UNCHANGED <<root, catalogs, backup, unjournaled>>
  BY DEF Cvr!UndoReturns, Cvr!Answer
<1>2. Cvr!TypeOK'
  BY <1>0, <1>1 DEF Cvr!TypeOK
<1>3. Sane' /\ Bundled'
  BY <1>0, <1>1 DEF Sane, Bundled
<1>4. ASSUME unjournaled = {} PROVE Saved' /\ Passed' /\ Backed' /\ Clean'
  <2>1. Cvr!Whole(root)
    BY <1>0, <1>1, <1>4, RestoredIsOld DEF Passed
  <2>2. Saved' /\ Backed' /\ Passed'
    BY <1>0, <1>1, <1>4 DEF Saved, Old, Backed, Passed
  <2> QED BY <1>1, <2>1, <2>2 DEF Clean, Cvr!Whole
<1> QED BY <1>1, <1>2, <1>3, <1>4 DEF ImportInv

\* An import is there as a whole or not at all, wherever it fails or is killed, with a backup
\* of what was the application's own and a catalog that refers to no script
\* (CvrImporter::import, rollback_import, remove_script_profiles in import.rs).
THEOREM ImportsAreWhole == JournalsSpec => []ImportIsWhole
<1>1. ImportInv /\ [Cvr!Next]_(Cvr!vars) => ImportInv'
  BY PlainKeeps, BackupKeeps, CreateJournalKeeps, RecoverEntryKeeps, RecoverJournalKeeps,
     WriteKeeps, CompleteKeeps, UndoKeeps, UndoReturnsKeeps DEF Cvr!Next
<1>2. ASSUME ImportInv PROVE ImportIsWhole
  <2>1. Cvr!ImportIsWhole
    BY <1>2 DEF ImportInv, Clean, Cvr!ImportIsWhole
  <2>2. root[Cvr!Marker] # Absent /\ unjournaled = {} => \A f \in Cvr!Files : backup[f] # "cvr"
    BY <1>2 DEF ImportInv, Backed
  <2>3. ASSUME said = "imported"
        PROVE  /\ catalogs.bundle.items \cap Scripts = {} /\ catalogs.bundle.scripted = {}
               /\ catalogs.bundle.current \in catalogs.bundle.items \cup {Absent}
    <3>1. catalogs.bundle = Cvr!ScriptsRemoved(catalogs.source)
      BY <1>2, <2>3 DEF ImportInv, Bundled
    <3>2. catalogs.source.current \in catalogs.source.items \cup {Absent}
      BY <1>2 DEF ImportInv, Cvr!TypeOK, Cvr!IsCatalog
    <3> QED BY <3>1, <3>2 DEF Cvr!ScriptsRemoved
  <2> QED BY <1>2, <2>1, <2>2, <2>3 DEF ImportIsWhole, Cvr!ImportIsSound, ImportInv
<1> QED BY <1>1, <1>2, ImportInit, CvrRuns, PTL
=============================================================================

-------------------------- MODULE RuntimeDeployment --------------------------
(***************************************************************************)
(* Deploying a runtime configuration to Mihomo: RuntimeStore and           *)
(* RuntimeDeployer (rsclash-config deployment.rs) as the two workers of    *)
(* rsclash-app use them, the profile worker (profiles.rs activate,         *)
(* set_proxy_chain, validate_profile_runtime) and the settings worker      *)
(* (settings.rs SettingsChangePlan).  Each worker runs one job at a time;  *)
(* the two run in parallel over one configuration directory, one rollback  *)
(* journal each, and the one core process.                                 *)
(*                                                                         *)
(* A runtime configuration is the profile it was made from and the         *)
(* settings (its control plane) it carries.  Replaying a journal and       *)
(* committing the catalog are single steps here: ConfigTransaction has     *)
(* their interior.                                                         *)
(***************************************************************************)
EXTENDS Naturals, FiniteSets

CONSTANTS
  Profiles,   \* profile UIDs
  Settings,   \* values of the application settings
  Stopped,    \* no core, CoreState::Stopped
  Broken,     \* a core that failed to load its configuration
  None        \* Option::None

Runtime == [profile : Profiles, settings : Settings]

ASSUME ConstantsAssumption ==
  /\ Profiles # {} /\ Settings # {}
  /\ Stopped # Broken
  /\ \A r \in Runtime : Stopped # r /\ Broken # r /\ None # r

VARIABLES
  runtime,    \* runtime.yaml
  current,    \* the catalog's current profile
  saved,      \* settings.yaml
  journals,   \* worker -> the runtime its rollback journal restores
  core,       \* the configuration the core has loaded, or its state
  job,        \* worker -> the job it is running
  validated,  \* history: configurations that passed the validator
  gaps        \* history: why the files may disagree

vars == <<runtime, current, saved, journals, core, job, validated, gaps>>

Workers == {"profiles", "settings"}

Kinds == [profiles |-> {"activate", "chain", "check"}, settings |-> {"settings"}]

Pcs == {"idle", "open", "autostart", "save", "stage", "validate", "journal",
        "commit", "reload", "restart", "complete", "old_reload", "old_restart",
        "old_complete", "catalog", "unsave"}

(* `undo' is what the job puts back when a step after the deployment, or   *)
(* the deployment itself, fails: the runtime an activation replaced, the   *)
(* settings that were saved before.                                        *)
Job == [pc : Pcs, kind : {"activate", "chain", "check", "settings", "rollback"},
        next : Runtime \cup {None}, previous : Runtime \cup {None},
        undo : {None} \cup Runtime \cup Settings]

NoJob == [pc |-> "idle", kind |-> "check",
          next |-> None, previous |-> None, undo |-> None]

(* Every variable has its type: only a worker of the settings undoes them. *)
TypeOK ==
  /\ runtime \in Runtime
  /\ current \in Profiles
  /\ saved \in Settings
  /\ DOMAIN journals \subseteq Workers
  /\ \A w \in DOMAIN journals : journals[w] \in Runtime
  /\ core \in Runtime \cup {Stopped, Broken}
  /\ job \in [Workers -> Job]
  /\ validated \subseteq Runtime
  /\ gaps \subseteq {"overlap", "crash", "leftover", "uncompensated"}

Init ==
  /\ runtime \in Runtime
  /\ current = runtime.profile
  /\ saved = runtime.settings
  /\ journals = [w \in {} |-> runtime]
  /\ core \in {Stopped, runtime}
  /\ job = [w \in Workers |-> NoJob]
  /\ validated = {runtime}
  /\ gaps = {}

Idle(w) == job[w].pc = "idle"
At(w, pc) == job[w].pc = pc
Goto(w, pc) ==
  job' = IF pc = "idle" THEN [job EXCEPT ![w] = NoJob]
         ELSE [job EXCEPT ![w].pc = pc]

disk == <<runtime, current, saved, journals>>
history == <<validated, gaps>>

-----------------------------------------------------------------------------
(* Preparing                                                               *)

(* prepare_activation and SettingsChangePlan::execute: the next runtime is *)
(* computed from the runtime read now.  A profile keeps the settings found *)
(* in it (extract_control_plane); settings keep its profile.  The proxy    *)
(* chain redeploys the current profile.                                    *)
Prepare(w) ==
  /\ Idle(w)
  /\ \E kind \in Kinds[w], profile \in Profiles, settings \in Settings :
       /\ kind = "chain" => profile = current
       /\ job' = [job EXCEPT ![w] =
            [pc |-> "open", kind |-> kind, previous |-> None,
             next |-> IF kind = "settings"
                        THEN [runtime EXCEPT !.settings = settings]
                        ELSE [runtime EXCEPT !.profile = profile],
             undo |-> CASE kind = "settings" -> saved
                        [] kind = "activate" -> runtime
                        [] OTHER -> None]]
  /\ gaps' = IF \A v \in Workers : Idle(v) THEN gaps ELSE gaps \cup {"overlap"}
  /\ UNCHANGED <<disk, core, validated>>

(* RuntimeStore::open replays every journal of the directory, in the order *)
(* of their names, which is not the order of their creation.               *)
Replay ==
  /\ runtime' \in (IF DOMAIN journals = {} THEN {runtime}
                   ELSE {journals[v] : v \in DOMAIN journals})
  /\ journals' = [v \in {} |-> runtime]

OpenStore(w) ==
  /\ At(w, "open")
  /\ Replay
  /\ Goto(w, IF w = "settings" THEN "autostart" ELSE "stage")
  /\ UNCHANGED <<current, saved, core, history>>

(* desktop.set_autostart, an external call that may fail.                  *)
SetAutostart(w) ==
  /\ At(w, "autostart")
  /\ \E pc \in {"save", "idle"} : Goto(w, pc)
  /\ UNCHANGED <<disk, core, history>>

SaveSettings(w) ==
  /\ At(w, "save")
  /\ \/ saved' = job[w].next.settings /\ Goto(w, "stage")
     \/ UNCHANGED saved /\ Goto(w, "idle")
  /\ UNCHANGED <<runtime, current, journals, core, history>>

-----------------------------------------------------------------------------
(* RuntimeDeployer::deploy                                                 *)

(* What a worker does with the result of deploy.                           *)
Succeeded(w) == Goto(w, IF job[w].kind = "activate" THEN "catalog" ELSE "idle")

Failed(w) == Goto(w, IF job[w].kind = "settings" THEN "unsave" ELSE "idle")

(* deploy restored what it had changed; the failure of a rollback still    *)
(* leaves the new runtime with the old catalog.                            *)
Loss(w) == IF job[w].kind = "rollback" THEN {"uncompensated"} ELSE {}

Fails(w) == Failed(w) /\ gaps' = gaps \cup Loss(w)

(* Error::DeploymentCompensation: it could not, and the journal stays.     *)
FailsUncompensated(w) == Failed(w) /\ gaps' = gaps \cup {"uncompensated"}

\* Mutant: the deployment does not wait for the validator.
StageWithoutValidation(w) ==
  /\ At(w, "stage")
  /\ job' = [job EXCEPT ![w].pc = "journal", ![w].previous = runtime]
  /\ UNCHANGED <<disk, core, history>>

(* prepare: `previous' is what the file holds before the validator runs.   *)
Stage(w) ==
  /\ At(w, "stage")
  /\ job' = [job EXCEPT ![w].pc = "validate", ![w].previous = runtime]
  /\ UNCHANGED <<disk, core, history>>

Validate(w) ==
  /\ At(w, "validate")
  /\ \/ /\ validated' = validated \cup {job[w].next}
        /\ Goto(w, IF job[w].kind = "check" THEN "idle" ELSE "journal")
        /\ UNCHANGED gaps
     \/ Fails(w) /\ UNCHANGED validated
  /\ UNCHANGED <<disk, core>>

WriteJournal(w) ==
  journals' = [v \in DOMAIN journals \cup {w} |->
                 IF v = w THEN job[w].previous ELSE journals[v]]

(* RollbackJournal::create: `create_journal(..)?' may fail before it has   *)
(* written the journal, or after, and then leaves it behind.               *)
CreateJournal(w) ==
  /\ At(w, "journal")
  /\ \/ WriteJournal(w) /\ Goto(w, "commit") /\ UNCHANGED gaps
     \/ UNCHANGED journals /\ Fails(w)
     \/ WriteJournal(w) /\ Failed(w) /\ gaps' = gaps \cup {"leftover"} \cup Loss(w)
  /\ UNCHANGED <<runtime, current, saved, core, validated>>

(* journal.complete(): a journal that another worker's recovery already    *)
(* removed counts as completed (remove_file ignores NotFound).             *)
RemoveJournal(w) == journals' = [v \in DOMAIN journals \ {w} |-> journals[v]]

(* commit_file, and handle_commit_failure when it fails; there is no await *)
(* between them.                                                           *)
CommitFile(w) ==
  /\ At(w, "commit")
  /\ \/ /\ runtime' = job[w].next
        /\ Goto(w, "reload")
        /\ UNCHANGED <<journals, gaps>>
     \/ /\ runtime' = job[w].previous
        /\ RemoveJournal(w)
        /\ Fails(w)
     \/ /\ runtime' \in {runtime, job[w].next, job[w].previous}
        /\ FailsUncompensated(w)
        /\ UNCHANGED journals
  /\ UNCHANGED <<current, saved, core, validated>>

(* The activator: a stopped core needs nothing; otherwise the core loads   *)
(* what the file holds when it reads it, or it is left failed.             *)
Activate(w, ok, error) ==
  \/ core = Stopped /\ UNCHANGED core /\ Goto(w, ok)
  \/ core # Stopped /\ core' = runtime /\ Goto(w, ok)
  \/ core # Stopped /\ core' = Broken /\ Goto(w, error)

Reload(w) ==
  /\ At(w, "reload")
  /\ Activate(w, "complete", "restart")
  /\ UNCHANGED <<disk, history>>

(* When the restart fails too, compensate puts `previous' back.            *)
RestartReturns(w) ==
  /\ At(w, "restart")
  /\ \/ /\ core' = IF core = Stopped THEN core ELSE runtime
        /\ Goto(w, "complete")
        /\ UNCHANGED <<runtime, gaps>>
     \/ /\ core # Stopped
        /\ core' = Broken
        /\ \/ /\ runtime' = job[w].previous
              /\ Goto(w, "old_reload")
              /\ UNCHANGED gaps
           \/ runtime' \in {runtime, job[w].previous} /\ FailsUncompensated(w)
  /\ UNCHANGED <<current, saved, journals, validated>>

(* finish_success when the journal can be removed.                         *)
Complete(w) ==
  /\ At(w, "complete")
  /\ RemoveJournal(w)
  /\ Succeeded(w)
  /\ UNCHANGED <<runtime, current, saved, core, history>>

\* Mutant: the file gets `previous' back, the core does not.
CompleteFailsWithoutReload(w) ==
  /\ At(w, "complete")
  /\ \/ runtime' = job[w].previous /\ Failed(w) /\ UNCHANGED gaps
     \/ FailsUncompensated(w) /\ UNCHANGED runtime
  /\ UNCHANGED <<current, saved, journals, core, validated>>

(* finish_success when it cannot: the file and the core get `previous'     *)
(* back.                                                                   *)
CompleteFails(w) ==
  /\ At(w, "complete")
  /\ \/ runtime' = job[w].previous /\ Goto(w, "old_reload") /\ UNCHANGED gaps
     \/ runtime' \in {runtime, job[w].previous} /\ FailsUncompensated(w)
  /\ UNCHANGED <<current, saved, journals, core, validated>>

OldReload(w) ==
  /\ At(w, "old_reload")
  /\ Activate(w, "old_complete", "old_restart")
  /\ UNCHANGED <<disk, history>>

OldRestart(w) ==
  /\ At(w, "old_restart")
  /\ \/ /\ core' = IF core = Stopped THEN core ELSE runtime
        /\ Goto(w, "old_complete")
        /\ UNCHANGED gaps
     \/ core # Stopped /\ core' = Broken /\ FailsUncompensated(w)
  /\ UNCHANGED <<disk, validated>>

\* Mutant: the journal of a compensated deployment is left behind.
OldCompleteLeavesJournal(w) ==
  /\ At(w, "old_complete")
  /\ Fails(w)
  /\ UNCHANGED <<disk, core, validated>>

OldComplete(w) ==
  /\ At(w, "old_complete")
  /\ \/ RemoveJournal(w) /\ Fails(w)
     \/ FailsUncompensated(w) /\ UNCHANGED journals
  /\ UNCHANGED <<runtime, current, saved, core, validated>>

-----------------------------------------------------------------------------
(* After the deployment                                                    *)

(* set_current_profile; when its transaction fails the old runtime is      *)
(* deployed again, without opening the store.                              *)
SetCurrentProfile(w) ==
  /\ At(w, "catalog")
  /\ \/ current' = job[w].next.profile /\ Goto(w, "idle")
     \/ /\ job' = [job EXCEPT ![w].pc = "stage", ![w].kind = "rollback",
                              ![w].next = job[w].undo]
        /\ UNCHANGED current
  /\ UNCHANGED <<runtime, saved, journals, core, history>>

(* The compensation of a failed settings deployment.                       *)
RestoreSettings(w) ==
  /\ At(w, "unsave")
  /\ Goto(w, "idle")
  /\ \/ saved' = job[w].undo /\ UNCHANGED gaps
     \/ gaps' = gaps \cup {"uncompensated"} /\ UNCHANGED saved
  /\ UNCHANGED <<runtime, current, journals, core, validated>>

-----------------------------------------------------------------------------
(* The user starts, restarts or stops the core.                            *)
CoreCommand ==
  /\ core' \in {Stopped, Broken, runtime}
  /\ UNCHANGED <<disk, job, history>>

(* A worker stands between two files it has to change together, or is one  *)
(* of two whose journals may both be replayed.                             *)
HalfDone(w) ==
  \/ At(w, "catalog")
  \/ "overlap" \in gaps /\ ~Idle(w)
  \/ job[w].kind = "rollback" /\ ~Idle(w)
  \/ w = "settings" /\ ~Idle(w) /\ saved # job[w].undo

(* The application dies, and is started again: initialize_default_runtime  *)
(* opens the store before any worker or the core runs.                     *)
Crash ==
  /\ Replay
  /\ job' = [w \in Workers |-> NoJob]
  /\ core' = Stopped
  /\ gaps' = IF \E w \in Workers : HalfDone(w) THEN gaps \cup {"crash"} ELSE gaps
  /\ UNCHANGED <<current, saved, validated>>

Step(w) ==
  \/ Prepare(w) \/ OpenStore(w) \/ SetAutostart(w) \/ SaveSettings(w)
  \/ Stage(w) \/ Validate(w) \/ CreateJournal(w) \/ CommitFile(w)
  \/ Reload(w) \/ RestartReturns(w) \/ Complete(w) \/ CompleteFails(w)
  \/ OldReload(w) \/ OldRestart(w) \/ OldComplete(w)
  \/ SetCurrentProfile(w) \/ RestoreSettings(w)

Next == (\E w \in Workers : Step(w)) \/ CoreCommand \/ Crash

Spec == Init /\ [][Next]_vars
-----------------------------------------------------------------------------
(* Properties                                                              *)

Quiet == \A w \in Workers : Idle(w)

(* Nothing reaches runtime.yaml, a journal or the core that the validator  *)
(* has not accepted first (test validation_failure_never_replaces_runtime, *)
(* deployment.rs:523).                                                     *)
OnlyValidatedRuns ==
  {runtime} \cup {journals[w] : w \in DOMAIN journals}
    \cup ({core} \ {Stopped, Broken}) \subseteq validated

(* A worker that is done has left no journal for a later recovery to       *)
(* replay, whatever the other was doing, unless a compensation failed or   *)
(* a journal was written by a creation that failed.                        *)
NoOrphanJournal ==
  \A w \in DOMAIN journals :
    gaps \cap {"leftover", "uncompensated"} = {} => ~Idle(w)

(* With no job running, runtime.yaml was made from the catalog's current   *)
(* profile and the saved settings, the three files the workers change in   *)
(* different steps (profiles.rs activate, settings.rs execute).            *)
FilesAgree ==
  Quiet => runtime = [profile |-> current, settings |-> saved]

FilesAgreeAtRest == gaps \subseteq {"leftover"} => FilesAgree

(* A journal left by a creation that failed is harmless as long as the     *)
(* workers do not overlap: it restores what the file holds.                *)
LeftoverIsHarmless ==
  gaps \subseteq {"leftover"} /\ Quiet => \A w \in DOMAIN journals : journals[w] = runtime

(* A running core runs what is on disk once no job is left that would      *)
(* reload it.                                                              *)
CoreRunsDisk == gaps \subseteq {"leftover"} /\ Quiet /\ core \in Runtime => core = runtime

(* With no job running, the files of the two workers, what a journal would *)
(* restore and the core agree.                                             *)
FilesAndCoreAgree == TypeOK /\ FilesAgreeAtRest /\ LeftoverIsHarmless /\ CoreRunsDisk

(* "Settings verified, saved and applied to Mihomo" (settings.rs:330): no  *)
(* overlap of the two workers makes the files disagree.                    *)
FilesAgreeDespiteOverlap == gaps \subseteq {"overlap"} => FilesAgree
=============================================================================

------------------------ MODULE RuntimeDeploymentProofs ------------------------
(***************************************************************************)
(* For any profiles and settings and however the two workers overlap, only *)
(* validated configurations are installed, and no journal is left behind   *)
(* but by a compensation or a creation that failed; where they do not      *)
(* overlap, runtime, catalog, settings and core agree when both are at     *)
(* rest.                                                                   *)
(*                                                                         *)
(* The first two rest on what a job has validated and where it may have a  *)
(* journal (Sound).  For the third the files have to be described at every *)
(* step of a job (Agreed): what it started from, what it has changed of it *)
(* and that its journal holds the runtime it started from.                 *)
(***************************************************************************)
EXTENDS RuntimeDeployment, TLAPS

\* From the validator on, and from the journal on.
Deploying == {"validate", "journal", "commit", "reload", "restart", "complete",
              "old_reload", "old_restart", "old_complete"}
Journalled == Deploying \ {"validate", "journal"}

\* Nothing has left a journal behind.
NoneLeft == "leftover" \notin gaps /\ "uncompensated" \notin gaps

\* A job is of its worker's kinds, and deploys what was validated over what was.
JobSound(w) ==
  /\ ~Idle(w) => /\ job[w].next \in Runtime
                 /\ job[w].kind = "settings" <=> w = "settings"
  /\ job[w].kind = "settings" => job[w].undo \in Settings
  /\ job[w].kind = "activate" => job[w].undo \in Runtime
  /\ At(w, "catalog") => job[w].kind = "activate"
  /\ job[w].pc \in {"autostart", "save", "unsave"} => w = "settings"
  /\ job[w].pc \in Deploying => job[w].previous \in validated
  /\ job[w].pc \in Deploying \ {"validate"} =>
       job[w].next \in validated /\ job[w].kind # "check"

\* A journal is that of a deployment between its creation and its end.
JournalSound(w) ==
  w \in DOMAIN journals =>
    /\ journals[w] \in validated
    /\ NoneLeft => job[w].pc \in Journalled

Sound ==
  /\ TypeOK
  /\ runtime \in validated
  /\ core \in Runtime => core \in validated
  /\ \A w \in Workers : JobSound(w) /\ JournalSound(w)

USE DEF NoneLeft

\* What Goto does to the job.
LEMMA GotoKeeps ==
  ASSUME TypeOK, NEW w \in Workers, NEW pc \in Pcs, Goto(w, pc)
  PROVE  /\ job' \in [Workers -> Job]
         /\ \A v \in Workers : v # w => job'[v] = job[v]
         /\ job'[w].pc = pc
         /\ pc # "idle" => /\ job'[w].kind = job[w].kind /\ job'[w].next = job[w].next
                           /\ job'[w].previous = job[w].previous
                           /\ job'[w].undo = job[w].undo
         /\ pc = "idle" => job'[w] = NoJob
<1>1. NoJob \in Job /\ NoJob.pc = "idle"
  BY DEF NoJob, Job, Pcs
<1>2. job[w] \in Job
  BY DEF TypeOK
<1>3. [job[w] EXCEPT !.pc = pc] \in Job
  BY <1>2 DEF Job
<1>4. CASE pc = "idle"
  BY <1>1, <1>4 DEF Goto, TypeOK
<1>5. CASE pc # "idle"
  <2>1. job' = [job EXCEPT ![w] = [job[w] EXCEPT !.pc = pc]]
    BY <1>5 DEF Goto
  <2> QED BY <1>2, <1>3, <1>5, <2>1 DEF TypeOK, Job
<1> QED BY <1>4, <1>5

LEMMA InitSound == ASSUME ConstantsAssumption PROVE Init => Sound
<1> SUFFICES ASSUME Init PROVE Sound
  OBVIOUS
<1>1. NoJob \in Job
  BY DEF NoJob, Job, Pcs
<1>2. runtime.profile \in Profiles /\ runtime.settings \in Settings
  BY DEF Init, Runtime
<1>3. TypeOK
  BY <1>1, <1>2 DEF Init, TypeOK
<1>4. \A w \in Workers : JobSound(w) /\ JournalSound(w)
  BY DEF Init, JobSound, JournalSound, Idle, At, NoJob, Deploying
<1> QED BY <1>3, <1>4 DEF Init, Sound

\* A worker's step leaves the other one as sound as it was.
LEMMA OthersSound ==
  ASSUME Sound, NEW w \in Workers, validated \subseteq validated',
         NoneLeft' => NoneLeft,
         \A v \in Workers : v # w =>
           /\ job'[v] = job[v]
           /\ v \in DOMAIN journals' => v \in DOMAIN journals /\ journals'[v] = journals[v]
  PROVE  \A v \in Workers : v # w => JobSound(v)' /\ JournalSound(v)'
<1> SUFFICES ASSUME NEW v \in Workers, v # w PROVE JobSound(v)' /\ JournalSound(v)'
  OBVIOUS
<1>1. JobSound(v) /\ JournalSound(v)
  BY DEF Sound
<1>2. JobSound(v)'
  BY <1>1 DEF JobSound, Idle, At
<1>3. JournalSound(v)'
  BY <1>1 DEF JournalSound
<1> QED BY <1>2, <1>3

\* A step of a job that goes to pc, with what it has to have made sure of.
LEMMA StepSound ==
  ASSUME ConstantsAssumption, Sound, NEW w \in Workers, ~Idle(w), NEW pc \in Pcs, Goto(w, pc),
         validated \subseteq validated', validated' \subseteq Runtime,
         runtime' \in validated', current' \in Profiles, saved' \in Settings,
         core' \in {Stopped, Broken} \cup validated',
         gaps' \in {gaps, gaps \cup {"uncompensated"}, gaps \cup {"leftover"},
                   gaps \cup {"leftover", "uncompensated"}},
         DOMAIN journals' \subseteq Workers,
         \A v \in DOMAIN journals' : v # w => v \in DOMAIN journals /\ journals'[v] = journals[v],
         w \in DOMAIN journals' => /\ journals'[w] \in validated'
                                   /\ NoneLeft' => pc \in Journalled,
         pc = "catalog" => job[w].kind = "activate",
         pc \in {"autostart", "save", "unsave"} => w = "settings",
         pc \in Deploying => job[w].previous \in validated',
         pc \in Deploying \ {"validate"} =>
           job[w].next \in validated' /\ job[w].kind # "check"
  PROVE  Sound'
<1>0. /\ NoneLeft' => NoneLeft
      /\ gaps' \subseteq gaps \cup {"leftover", "uncompensated"}
  BY DEF NoneLeft
<1>1. \A v \in Workers : v # w => JobSound(v)' /\ JournalSound(v)'
  BY <1>0, GotoKeeps, OthersSound DEF Sound
<1>2. JobSound(w)'
  <2>1. CASE pc = "idle"
    BY <2>1, GotoKeeps DEF Sound, JobSound, Idle, At, NoJob, Deploying
  <2>2. CASE pc # "idle"
    BY <2>2, GotoKeeps DEF Sound, JobSound, Idle, At
  <2> QED BY <2>1, <2>2
<1>3. JournalSound(w)'
  <2>1. job'[w].pc = pc
    BY GotoKeeps DEF Sound
  <2> QED BY <2>1 DEF JournalSound
<1>4. \A v \in DOMAIN journals' : journals'[v] \in Runtime
  BY <1>1, <1>3 DEF JournalSound
<1>5. TypeOK'
  BY <1>0, <1>4, GotoKeeps DEF Sound, TypeOK
<1>6. core' \in Runtime => core' \in validated'
  BY DEF ConstantsAssumption
<1> QED BY <1>1, <1>2, <1>3, <1>5, <1>6 DEF Sound

\* A job begins, and opens the store.
LEMMA PrepareSound ==
  ASSUME ConstantsAssumption, Sound, NEW w \in Workers, Prepare(w)
  PROVE  Sound'
<1>1. PICK kind \in Kinds[w], profile \in Profiles, settings \in Settings :
        job' = [job EXCEPT ![w] =
          [pc |-> "open", kind |-> kind, previous |-> None,
           next |-> IF kind = "settings" THEN [runtime EXCEPT !.settings = settings]
                                         ELSE [runtime EXCEPT !.profile = profile],
           undo |-> CASE kind = "settings" -> saved
                      [] kind = "activate" -> runtime
                      [] OTHER -> None]]
  BY DEF Prepare
<1>2. /\ kind \in {"activate", "chain", "check", "settings"}
      /\ kind = "settings" <=> w = "settings"
  BY DEF Kinds, Workers
<1>3. /\ [runtime EXCEPT !.settings = settings] \in Runtime
      /\ [runtime EXCEPT !.profile = profile] \in Runtime
  BY DEF Sound, TypeOK, Runtime
<1>4. /\ job'[w].pc = "open" /\ job'[w].kind = kind /\ job'[w].next \in Runtime
      /\ kind = "settings" => job'[w].undo \in Settings
      /\ kind = "activate" => job'[w].undo \in Runtime
      /\ job'[w] \in Job
  BY <1>1, <1>2, <1>3 DEF Sound, TypeOK, Job, Pcs
<1>5. job' \in [Workers -> Job] /\ \A v \in Workers : v # w => job'[v] = job[v]
  BY <1>1, <1>4 DEF Sound, TypeOK
<1>6. UNCHANGED <<runtime, current, saved, journals, core, validated>>
      /\ gaps' \in {gaps, gaps \cup {"overlap"}}
  BY DEF Prepare, disk
<1>7. \A v \in Workers : v # w => JobSound(v)' /\ JournalSound(v)'
  BY <1>5, <1>6, OthersSound
<1>8. JobSound(w)'
  BY <1>2, <1>4 DEF JobSound, Idle, At, Deploying
<1>9. JournalSound(w)'
  BY <1>4, <1>6 DEF Prepare, Sound, JournalSound, Idle, Journalled, Deploying
<1> QED BY <1>5, <1>6, <1>7, <1>8, <1>9 DEF Sound, TypeOK

\* What Sound says of the current state, for the steps below.
LEMMA SoundFacts ==
  ASSUME ConstantsAssumption, Sound, NEW w \in Workers
  PROVE  /\ validated \subseteq Runtime /\ DOMAIN journals \subseteq Workers
         /\ runtime \in validated /\ runtime \in Runtime
         /\ current \in Profiles /\ saved \in Settings
         /\ core \in {Stopped, Broken} \cup validated
         /\ w \in DOMAIN journals =>
              /\ journals[w] \in validated
              /\ NoneLeft => job[w].pc \in Journalled
         /\ JobSound(w) /\ job[w] \in Job
  BY DEF Sound, TypeOK, JournalSound, ConstantsAssumption

\* The steps up to the commit that only move the job on, or fail.
LEMMA PreparingSound ==
  ASSUME ConstantsAssumption, Sound, NEW w \in Workers,
         SetAutostart(w) \/ SaveSettings(w) \/ Validate(w)
  PROVE  Sound'
<1> USE SoundFacts DEF JobSound, At, Idle, disk, history, Deploying, Journalled, Pcs
<1>1. CASE SetAutostart(w)
  BY <1>1, StepSound DEF SetAutostart
<1>2. CASE SaveSettings(w)
  <2>1. job[w].next.settings \in Settings
    BY <1>2 DEF SaveSettings, Runtime
  <2> QED BY <1>2, <2>1, StepSound DEF SaveSettings
<1>3. CASE Validate(w)
  <2>1. CASE /\ validated' = validated \cup {job[w].next} /\ UNCHANGED <<disk, core, gaps>>
             /\ Goto(w, IF job[w].kind = "check" THEN "idle" ELSE "journal")
    <3>1. validated' \subseteq Runtime /\ validated \subseteq validated'
      BY <1>3, <2>1 DEF Validate
    <3>2. CASE job[w].kind = "check"
      BY <1>3, <2>1, <3>1, <3>2, StepSound DEF Validate
    <3>3. CASE job[w].kind # "check"
      BY <1>3, <2>1, <3>1, <3>3, StepSound DEF Validate
    <3> QED BY <3>2, <3>3
  <2>2. CASE Fails(w) /\ UNCHANGED <<disk, core, validated>>
    <3>0. gaps' \in {gaps, gaps \cup {"uncompensated"}}
      <4>1. gaps \cup {} = gaps
        OBVIOUS
      <4> QED BY <2>2, <4>1 DEF Fails, Loss
    <3>1. CASE job[w].kind = "settings"
      BY <1>3, <2>2, <3>0, <3>1, StepSound DEF Validate, Fails, Failed
    <3>2. CASE job[w].kind # "settings"
      BY <1>3, <2>2, <3>0, <3>2, StepSound DEF Validate, Fails, Failed
    <3> QED BY <3>1, <3>2
  <2> QED BY <1>3, <2>1, <2>2 DEF Validate
<1> QED BY <1>1, <1>2, <1>3

\* A journal that is replayed brings back what was validated.
LEMMA ReplaySound ==
  ASSUME ConstantsAssumption, Sound, Replay
  PROVE  runtime' \in validated /\ DOMAIN journals' = {}
<1>1. \A v \in DOMAIN journals : journals[v] \in validated
  BY DEF Sound, TypeOK, JournalSound
<1> QED BY <1>1 DEF Sound, Replay

LEMMA OpenStoreSound ==
  ASSUME ConstantsAssumption, Sound, NEW w \in Workers, OpenStore(w)
  PROVE  Sound'
<1> USE SoundFacts, ReplaySound DEF OpenStore, JobSound, At, Idle, history, Deploying, Pcs
<1>1. CASE w = "settings"
  BY <1>1, StepSound
<1>2. CASE w # "settings"
  BY <1>2, StepSound
<1> QED BY <1>1, <1>2

\* Staging, and the journal of what was staged over.
LEMMA StageSound ==
  ASSUME ConstantsAssumption, Sound, NEW w \in Workers, Stage(w)
  PROVE  Sound'
<1>1. /\ job' = [job EXCEPT ![w] = [job[w] EXCEPT !.pc = "validate", !.previous = runtime]]
      /\ UNCHANGED <<runtime, current, saved, journals, core, validated, gaps>>
      /\ job[w].pc = "stage"
  BY DEF Stage, disk, history, At
<1>2. [job[w] EXCEPT !.pc = "validate", !.previous = runtime] \in Job
  BY SoundFacts DEF Job, Pcs
<1>3. /\ job' \in [Workers -> Job] /\ \A v \in Workers : v # w => job'[v] = job[v]
      /\ job'[w].pc = "validate" /\ job'[w].previous = runtime
      /\ job'[w].next = job[w].next /\ job'[w].undo = job[w].undo
      /\ job'[w].kind = job[w].kind
  BY <1>1, <1>2 DEF Sound, TypeOK, Job
<1>4. \A v \in Workers : v # w => JobSound(v)' /\ JournalSound(v)'
  BY <1>1, <1>3, OthersSound
<1>5. JobSound(w)' /\ JournalSound(w)'
  BY <1>1, <1>3, SoundFacts
     DEF Sound, JobSound, JournalSound, Idle, At, Deploying, Journalled
<1> QED BY <1>1, <1>3, <1>4, <1>5 DEF Sound, TypeOK

LEMMA CreateJournalSound ==
  ASSUME ConstantsAssumption, Sound, NEW w \in Workers, CreateJournal(w)
  PROVE  Sound'
<1>1. /\ job[w].pc = "journal" /\ ~Idle(w)
      /\ UNCHANGED <<runtime, current, saved, core, validated>>
      /\ gaps' \in {gaps, gaps \cup {"uncompensated"}, gaps \cup {"leftover"},
                   gaps \cup {"leftover", "uncompensated"}}
  <2>1. gaps \cup {} = gaps /\ gaps \cup {"leftover"} \cup {} = gaps \cup {"leftover"}
        /\ gaps \cup {"leftover"} \cup {"uncompensated"} = gaps \cup {"leftover", "uncompensated"}
    OBVIOUS
  <2>2. gaps' \in {gaps, gaps \cup {"uncompensated"}, gaps \cup {"leftover"},
                   gaps \cup {"leftover", "uncompensated"}}
    BY <2>1 DEF CreateJournal, Fails, Loss
  <2> QED BY <2>2 DEF CreateJournal, At, Idle
<1>2. /\ job[w].previous \in validated /\ job[w].next \in validated /\ job[w].kind # "check"
      /\ w \in DOMAIN journals => journals[w] \in validated
  BY <1>1, SoundFacts DEF JobSound, Idle, Deploying
<1>3. ASSUME WriteJournal(w)
      PROVE  /\ DOMAIN journals' = DOMAIN journals \cup {w} /\ journals'[w] = job[w].previous
             /\ \A v \in DOMAIN journals' : v # w =>
                  v \in DOMAIN journals /\ journals'[v] = journals[v]
             /\ DOMAIN journals' \subseteq Workers
  BY <1>3, SoundFacts DEF WriteJournal
<1>4. CASE WriteJournal(w) /\ Goto(w, "commit") /\ UNCHANGED gaps
  BY <1>1, <1>2, <1>3, <1>4, SoundFacts, StepSound DEF Deploying, Journalled, Pcs
<1>5. CASE Failed(w) /\ \/ WriteJournal(w) /\ ~NoneLeft'
                        \/ UNCHANGED journals
  <2>1. PICK pc \in {"unsave", "idle"} :
          Goto(w, pc) /\ (pc = "unsave" => job[w].kind = "settings")
    BY <1>5 DEF Failed
  <2>2. pc = "unsave" => w = "settings"
    BY <1>1, <2>1, SoundFacts DEF JobSound
  <2>3. CASE WriteJournal(w) /\ ~NoneLeft'
    <3>1. ~NoneLeft'
      BY <2>3
    <3> HIDE DEF NoneLeft
    <3> QED BY <1>1, <1>2, <1>3, <2>1, <2>2, <2>3, <3>1, SoundFacts, StepSound
            DEF Deploying, Journalled, Pcs
  <2>4. CASE UNCHANGED journals
    <3>1. w \in DOMAIN journals => ~NoneLeft'
      <4>1. w \in DOMAIN journals => ~NoneLeft
        BY <1>1, SoundFacts DEF Journalled, Deploying
      <4> QED BY <1>1, <2>4, <4>1 DEF NoneLeft
    <3>2. w \in DOMAIN journals' => journals'[w] \in validated
      BY <1>2, <2>4
    <3>3. /\ DOMAIN journals' \subseteq Workers
          /\ \A v \in DOMAIN journals' : v # w => v \in DOMAIN journals /\ journals'[v] = journals[v]
      BY <2>4, SoundFacts
    <3>4. /\ pc \in Pcs /\ pc \notin Deploying /\ pc # "catalog"
          /\ pc \in {"autostart", "save", "unsave"} => w = "settings"
      BY <2>1, <2>2 DEF Deploying, Pcs
    <3>5. w \in DOMAIN journals' => (NoneLeft' => pc \in Journalled)
      BY <2>4, <3>1
    <3>6. /\ runtime' \in validated' /\ validated' \subseteq Runtime /\ validated \subseteq validated'
          /\ current' \in Profiles /\ saved' \in Settings
          /\ core' \in {Stopped, Broken} \cup validated'
      BY <1>1, SoundFacts
    <3> HIDE DEF NoneLeft
    <3> QED BY <1>1, <2>1, <3>2, <3>3, <3>4, <3>5, <3>6, StepSound
  <2> QED BY <1>5, <2>3, <2>4
<1> QED BY <1>4, <1>5 DEF CreateJournal, Fails, NoneLeft

\* The steps of a deployment from the commit to its end.
LEMMA DeployingSound ==
  ASSUME ConstantsAssumption, Sound, NEW w \in Workers,
         CommitFile(w) \/ Reload(w) \/ RestartReturns(w) \/ Complete(w) \/ CompleteFails(w)
           \/ OldReload(w) \/ OldRestart(w) \/ OldComplete(w)
  PROVE  Sound'
<1> USE SoundFacts DEF JobSound, At, Idle, disk, history, Deploying, Journalled, Pcs
<1> DEFINE Back == Failed(w)
                   /\ gaps' \in {gaps, gaps \cup {"uncompensated"}}
                   /\ UNCHANGED <<current, saved, validated>>
<1>0. gaps \cup Loss(w) \in {gaps, gaps \cup {"uncompensated"}}
  <2>1. gaps \cup {} = gaps
    OBVIOUS
  <2> QED BY <2>1 DEF Loss
<1>1. ASSUME RemoveJournal(w)
      PROVE  /\ DOMAIN journals' = DOMAIN journals \ {w}
             /\ \A v \in DOMAIN journals' : journals'[v] = journals[v]
  BY <1>1 DEF RemoveJournal
  \* What is common to the ends: the journal is gone, or its loss is noted.
<1>2. ASSUME Back, job[w].pc \in Deploying, runtime' \in validated,
             core' \in {Stopped, Broken} \cup validated,
             \/ RemoveJournal(w)
             \/ UNCHANGED journals /\ gaps' = gaps \cup {"uncompensated"}
      PROVE  Sound'
  <2>0. gaps' = gaps \cup {"uncompensated"} => ~NoneLeft'
    BY DEF NoneLeft
  <2>1. CASE job[w].kind = "settings"
    BY <1>1, <1>2, <2>0, <2>1, StepSound DEF Failed
  <2>2. CASE job[w].kind # "settings"
    BY <1>1, <1>2, <2>0, <2>2, StepSound DEF Failed
  <2> QED BY <2>1, <2>2
<1>3. CASE CommitFile(w)
  <2>1. CASE runtime' = job[w].next /\ Goto(w, "reload") /\ UNCHANGED <<journals, gaps>>
    BY <1>3, <2>1, StepSound DEF CommitFile
  <2>2. CASE runtime' = job[w].previous /\ RemoveJournal(w) /\ Fails(w)
    BY <1>0, <1>2, <1>3, <2>2 DEF CommitFile, Fails
  <2>3. CASE /\ runtime' \in {runtime, job[w].next, job[w].previous}
             /\ FailsUncompensated(w) /\ UNCHANGED journals
    BY <1>2, <1>3, <2>3 DEF CommitFile, FailsUncompensated
  <2> QED BY <1>3, <2>1, <2>2, <2>3 DEF CommitFile
<1>4. CASE Reload(w)
  BY <1>4, StepSound DEF Reload, Activate
<1>5. CASE RestartReturns(w)
  <2>1. CASE Goto(w, "complete") /\ UNCHANGED <<runtime, gaps>>
             /\ core' = IF core = Stopped THEN core ELSE runtime
    BY <1>5, <2>1, StepSound DEF RestartReturns
  <2>2. CASE core' = Broken /\ runtime' = job[w].previous /\ Goto(w, "old_reload")
             /\ UNCHANGED gaps
    BY <1>5, <2>2, StepSound DEF RestartReturns
  <2>3. CASE /\ core' = Broken /\ FailsUncompensated(w)
             /\ runtime' \in {runtime, job[w].previous}
    BY <1>2, <1>5, <2>3 DEF RestartReturns, FailsUncompensated
  <2> QED BY <1>5, <2>1, <2>2, <2>3 DEF RestartReturns
<1>6. CASE Complete(w)
  <2>1. CASE job[w].kind = "activate"
    BY <1>1, <1>6, <2>1, StepSound DEF Complete, Succeeded
  <2>2. CASE job[w].kind # "activate"
    BY <1>1, <1>6, <2>2, StepSound DEF Complete, Succeeded
  <2> QED BY <2>1, <2>2
<1>7. CASE CompleteFails(w)
  <2>1. CASE runtime' = job[w].previous /\ Goto(w, "old_reload") /\ UNCHANGED gaps
    BY <1>7, <2>1, StepSound DEF CompleteFails
  <2>2. CASE FailsUncompensated(w) /\ runtime' \in {runtime, job[w].previous}
    BY <1>2, <1>7, <2>2 DEF CompleteFails, FailsUncompensated
  <2> QED BY <1>7, <2>1, <2>2 DEF CompleteFails
<1>8. CASE OldReload(w)
  BY <1>8, StepSound DEF OldReload, Activate
<1>9. CASE OldRestart(w)
  <2>1. CASE Goto(w, "old_complete") /\ UNCHANGED gaps
             /\ core' = IF core = Stopped THEN core ELSE runtime
    BY <1>9, <2>1, StepSound DEF OldRestart
  <2>2. CASE core' = Broken /\ FailsUncompensated(w)
    BY <1>2, <1>9, <2>2 DEF OldRestart, FailsUncompensated
  <2> QED BY <1>9, <2>1, <2>2 DEF OldRestart
<1>10. CASE OldComplete(w)
  <2>1. CASE RemoveJournal(w) /\ Fails(w)
    BY <1>0, <1>2, <1>10, <2>1 DEF OldComplete, Fails
  <2>2. CASE FailsUncompensated(w) /\ UNCHANGED journals
    BY <1>2, <1>10, <2>2 DEF OldComplete, FailsUncompensated
  <2> QED BY <1>10, <2>1, <2>2 DEF OldComplete
<1> QED BY <1>3, <1>4, <1>5, <1>6, <1>7, <1>8, <1>9, <1>10

\* What a worker does after the deployment.
LEMMA AfterwardsSound ==
  ASSUME ConstantsAssumption, Sound, NEW w \in Workers,
         SetCurrentProfile(w) \/ RestoreSettings(w)
  PROVE  Sound'
<1>1. CASE RestoreSettings(w)
  BY <1>1, StepSound, SoundFacts
     DEF RestoreSettings, JobSound, At, Idle, Deploying, Journalled, Pcs
<1>2. CASE SetCurrentProfile(w)
  <2>1. CASE current' = job[w].next.profile /\ Goto(w, "idle")
    <3>1. job[w].next.profile \in Profiles
      BY <1>2, SoundFacts DEF SetCurrentProfile, Runtime, JobSound, At, Idle
    <3> QED BY <1>2, <2>1, <3>1, StepSound, SoundFacts
            DEF SetCurrentProfile, JobSound, At, Idle, history, Deploying, Journalled, Pcs
  <2>2. CASE /\ UNCHANGED current
             /\ job' = [job EXCEPT ![w] = [job[w] EXCEPT !.pc = "stage", !.kind = "rollback",
                                                         !.next = job[w].undo]]
    <3>0. job[w].undo \in Runtime /\ w # "settings" /\ job[w].pc = "catalog"
      BY <1>2, SoundFacts DEF SetCurrentProfile, JobSound, Idle, At
    <3>1. [job[w] EXCEPT !.pc = "stage", !.kind = "rollback", !.next = job[w].undo] \in Job
      BY <3>0, SoundFacts DEF Job, Pcs
    <3>2. /\ job' \in [Workers -> Job] /\ \A v \in Workers : v # w => job'[v] = job[v]
          /\ job'[w].pc = "stage" /\ job'[w].kind = "rollback"
          /\ job'[w].next = job[w].undo
      BY <2>2, <3>1 DEF Sound, TypeOK, Job
    <3>3. UNCHANGED <<runtime, current, saved, journals, core, validated, gaps>>
      BY <1>2, <2>2 DEF SetCurrentProfile, history
    <3>4. \A v \in Workers : v # w => JobSound(v)' /\ JournalSound(v)'
      BY <3>2, <3>3, OthersSound
    <3>5. JobSound(w)' /\ JournalSound(w)'
      BY <3>0, <3>2, <3>3, SoundFacts
         DEF Sound, JobSound, JournalSound, Idle, At, Deploying, Journalled
    <3> QED BY <3>2, <3>3, <3>4, <3>5 DEF Sound, TypeOK
  <2> QED BY <1>2, <2>1, <2>2 DEF SetCurrentProfile
<1> QED BY <1>1, <1>2

\* The user drives the core, and the application dies.
LEMMA OutsideSound ==
  ASSUME ConstantsAssumption, Sound, CoreCommand \/ Crash \/ UNCHANGED vars
  PROVE  Sound'
<1>1. CASE CoreCommand
  <2>1. UNCHANGED <<runtime, current, saved, journals, job, validated, gaps>>
        /\ core' \in {Stopped, Broken, runtime}
    BY <1>1 DEF CoreCommand, disk, history
  <2>2. \A w \in Workers : JobSound(w)' /\ JournalSound(w)'
    BY <2>1 DEF Sound, JobSound, JournalSound, Idle, At
  <2> QED BY <2>1, <2>2 DEF Sound, TypeOK, ConstantsAssumption
<1>2. CASE Crash
  <2>1. /\ runtime' \in validated /\ DOMAIN journals' = {}
        /\ job' = [w \in Workers |-> NoJob] /\ core' = Stopped
        /\ gaps' \in {gaps, gaps \cup {"crash"}} /\ UNCHANGED <<current, saved, validated>>
    BY <1>2, ReplaySound DEF Crash
  <2>2. \A w \in Workers : JobSound(w)' /\ JournalSound(w)'
    BY <2>1 DEF JobSound, JournalSound, Idle, At, NoJob, Deploying
  <2>3. NoJob \in Job
    BY DEF NoJob, Job, Pcs
  <2> QED BY <2>1, <2>2, <2>3 DEF Sound, TypeOK, ConstantsAssumption
<1>3. CASE UNCHANGED vars
  BY <1>3 DEF vars, Sound, TypeOK, JobSound, JournalSound, Idle, At
<1> QED BY <1>1, <1>2, <1>3

LEMMA SoundInvariance == Spec => []Sound
<1> USE ConstantsAssumption
<1>1. Init => Sound
  BY InitSound
<1>2. Sound /\ [Next]_vars => Sound'
  BY PrepareSound, OpenStoreSound, PreparingSound, StageSound, CreateJournalSound,
     DeployingSound, AfterwardsSound, OutsideSound DEF Next, Step
<1> QED BY <1>1, <1>2, PTL DEF Spec

\* Whatever the two workers do at once, and wherever the application dies, nothing comes into
\* runtime.yaml, into a journal or into the core that the validator has not accepted
\* (RuntimeDeployer::deploy).
THEOREM OnlyTheValidatedRuns == Spec => []OnlyValidatedRuns
<1>1. Sound => OnlyValidatedRuns
  BY ConstantsAssumption DEF Sound, TypeOK, JournalSound, OnlyValidatedRuns
<1> QED BY <1>1, SoundInvariance, PTL

\* No journal is left when a worker is done, unless a compensation failed or the creation of
\* the journal did, after it had been written (handle_commit_failure and finish_success).
THEOREM NoJournalIsOrphaned == Spec => []NoOrphanJournal
<1>1. Sound => NoOrphanJournal
  BY DEF Sound, TypeOK, JournalSound, NoneLeft, NoOrphanJournal, Idle, At, Journalled, Deploying
<1> QED BY <1>1, SoundInvariance, PTL

-----------------------------------------------------------------------------
(* Agreement                                                               *)

\* Nothing has gone wrong that would leave the files in disagreement.
Whole == gaps \subseteq {"leftover"}

LEMMA WholeFacts ==
  /\ gaps \subseteq gaps' /\ Whole' => Whole
  /\ UNCHANGED gaps => Whole' = Whole
  /\ Whole => gaps \cap {"overlap", "crash", "uncompensated"} = {}
  /\ Whole' => gaps' \cap {"overlap", "crash", "uncompensated"} = {}
  BY DEF Whole

\* The files' runtime, and the one that a worker's job has started from.
Wanted == [profile |-> current, settings |-> saved]
Unsaved == {"open", "autostart", "save"}
Before(w) == [profile |-> current,
              settings |-> IF w = "settings" /\ job[w].pc \notin Unsaved
                           THEN job[w].undo ELSE saved]

Installed == {"reload", "restart", "complete", "catalog"}

\* A job that is under way has computed its runtime from what is wanted, has installed it or
\* not, and can put back what it has started from; a rollback deploys what is wanted.
JobAgrees(w) ==
  /\ job[w].kind # "rollback" =>
       /\ runtime = IF job[w].pc \in Installed THEN job[w].next ELSE Before(w)
       /\ job[w].pc \in Deploying => job[w].previous = Before(w)
  /\ job[w].kind = "rollback" =>
       job[w].next = Wanted /\ (job[w].pc \in Installed => runtime = job[w].next)
  /\ w = "settings" =>
       /\ job[w].next.profile = current
       /\ saved = IF job[w].pc \in Unsaved THEN job[w].undo ELSE job[w].next.settings
  /\ w # "settings" => job[w].next.settings = saved
  /\ job[w].kind = "chain" => job[w].next.profile = current
  /\ job[w].kind = "activate" => job[w].undo = Wanted
  /\ job[w].pc \in Journalled => w \in DOMAIN journals /\ journals[w] = job[w].previous

\* A core that runs has loaded the file, but where a job is about to have it loaded.
CoreAgrees ==
  core \in Runtime /\ (\A w \in Workers : job[w].pc \notin {"reload", "old_reload"})
    => core = runtime

Alone == \A v, w \in Workers : ~Idle(v) /\ ~Idle(w) => v = w

\* A journal that a creation which failed has left restores what the file holds, and the next
\* job replays it before it does anything else.
LeftoverAgrees ==
  \A w \in DOMAIN journals :
    job[w].pc \notin Journalled =>
      /\ journals[w] = runtime
      /\ \A v \in Workers : job[v].pc \in {"idle", "open", "unsave"}

Agreed ==
  Whole =>
    /\ Alone /\ CoreAgrees
    /\ \A w \in Workers : ~Idle(w) => JobAgrees(w)
    /\ Quiet => runtime = Wanted

Leftover == Whole => LeftoverAgrees

\* A runtime is its profile and its settings.
LEMMA RuntimeFields ==
  /\ \A r \in Runtime : r = [profile |-> r.profile, settings |-> r.settings]
  /\ \A r \in Runtime, p \in Profiles :
       [r EXCEPT !.profile = p] = [profile |-> p, settings |-> r.settings]
  /\ \A r \in Runtime, t \in Settings :
       [r EXCEPT !.settings = t] = [profile |-> r.profile, settings |-> t]
  BY DEF Runtime

\* A step of a job that goes to pc, with what it has to have made sure of.
LEMMA StepAgrees ==
  ASSUME Sound, Agreed, NEW w \in Workers, ~Idle(w), NEW pc \in Pcs, Goto(w, pc),
         gaps \subseteq gaps',
         Whole' /\ JobAgrees(w) /\ CoreAgrees /\ job'[w].pc = pc =>
           /\ pc # "idle" => JobAgrees(w)'
           /\ pc = "idle" => runtime' = Wanted'
           /\ CoreAgrees'
  PROVE  Agreed'
<1> SUFFICES ASSUME Whole'
             PROVE  /\ Alone' /\ CoreAgrees' /\ (Quiet => runtime = Wanted)'
                    /\ \A v \in Workers : ~Idle(v)' => JobAgrees(v)'
  BY DEF Agreed
<1>0. Whole
  BY DEF Whole
<1>1. Whole /\ JobAgrees(w) /\ CoreAgrees /\ \A v \in Workers : v # w => Idle(v)
  BY <1>0 DEF Agreed, Alone
<1>2. job'[w].pc = pc /\ \A v \in Workers : v # w => Idle(v)'
  BY <1>1, GotoKeeps DEF Sound, Idle, At
<1>3. Idle(w)' <=> pc = "idle"
  BY <1>2 DEF Idle, At
<1> QED BY <1>1, <1>2, <1>3 DEF Alone, Quiet

USE WholeFacts

LEMMA InitAgreed == ASSUME ConstantsAssumption PROVE Init => Agreed
  BY RuntimeFields DEF Init, Agreed, Alone, CoreAgrees, Wanted, Quiet, Idle, At, NoJob

\* A job begins: alone, from the runtime that is wanted.
LEMMA PrepareAgrees ==
  ASSUME Sound, Agreed, NEW w \in Workers, Prepare(w)
  PROVE  Agreed'
<1> SUFFICES ASSUME Whole'
             PROVE  /\ Alone' /\ CoreAgrees' /\ (Quiet => runtime = Wanted)'
                    /\ \A v \in Workers : ~Idle(v)' => JobAgrees(v)'
  BY DEF Agreed
<1>1. /\ Whole /\ \A v \in Workers : Idle(v)
      /\ UNCHANGED <<runtime, current, saved, journals, core>>
  BY DEF Prepare, disk
<1>2. runtime = Wanted /\ CoreAgrees
  BY <1>1 DEF Agreed, Quiet
<1>3. PICK kind \in Kinds[w], profile \in Profiles, settings \in Settings :
        /\ kind = "chain" => profile = current
        /\ job' = [job EXCEPT ![w] =
          [pc |-> "open", kind |-> kind, previous |-> None,
           next |-> IF kind = "settings" THEN [runtime EXCEPT !.settings = settings]
                                         ELSE [runtime EXCEPT !.profile = profile],
           undo |-> CASE kind = "settings" -> saved
                      [] kind = "activate" -> runtime
                      [] OTHER -> None]]
  BY DEF Prepare
<1>4. /\ kind \in {"activate", "chain", "check", "settings"}
      /\ kind = "settings" <=> w = "settings"
  BY DEF Kinds, Workers
<1>5. /\ job'[w].pc = "open" /\ job'[w].kind = kind
      /\ kind = "settings" => /\ job'[w].undo = saved
                              /\ job'[w].next = [profile |-> current, settings |-> settings]
      /\ kind # "settings" => job'[w].next = [profile |-> profile, settings |-> saved]
      /\ kind = "activate" => job'[w].undo = runtime
      /\ \A v \in Workers : v # w => job'[v] = job[v]
  BY <1>2, <1>3, <1>4, RuntimeFields DEF Sound, TypeOK, Wanted
<1>6. JobAgrees(w)'
  BY <1>1, <1>2, <1>3, <1>4, <1>5
     DEF JobAgrees, Wanted, Before, Unsaved, Installed, Deploying, Journalled
<1>7. CoreAgrees'
  BY <1>1, <1>2, <1>5 DEF CoreAgrees, Idle, At
<1> QED BY <1>1, <1>5, <1>6, <1>7 DEF Alone, Quiet, Idle, At

\* Opening finds no journal to replay, as the other worker is idle.
LEMMA OpenStoreAgrees ==
  ASSUME ConstantsAssumption, Sound, Agreed, Leftover, NEW w \in Workers, OpenStore(w)
  PROVE  Agreed'
<1> SUFFICES ASSUME Whole PROVE Agreed'
  BY DEF OpenStore, Agreed, history
<1>1. job[w].pc = "open" /\ \A v \in Workers : v # w => Idle(v)
  BY DEF OpenStore, At, Idle, Agreed, Alone
<1>2. \A v \in DOMAIN journals : journals[v] = runtime
  <2>1. \A v \in DOMAIN journals : v \in Workers /\ job[v].pc \notin Journalled
    BY <1>1 DEF Sound, TypeOK, Idle, At, Journalled, Deploying
  <2> QED BY <2>1 DEF Leftover, LeftoverAgrees
<1>3. UNCHANGED <<runtime, current, saved, core, gaps>>
  BY <1>2 DEF OpenStore, Replay, history
<1>4. PICK pc \in {"autostart", "stage"} :
        Goto(w, pc) /\ (pc = "autostart" <=> w = "settings")
  BY DEF OpenStore
<1>5. job'[w].kind = job[w].kind /\ job'[w].next = job[w].next /\ job'[w].undo = job[w].undo
      /\ \A v \in Workers : v # w => job'[v] = job[v]
  BY <1>4, GotoKeeps DEF Sound, Pcs
<1>6. ASSUME JobAgrees(w), job'[w].pc = pc
      PROVE  JobAgrees(w)'
  BY <1>1, <1>3, <1>4, <1>5, <1>6
     DEF JobAgrees, Wanted, Before, Unsaved, Installed, Deploying, Journalled
<1>7. ASSUME CoreAgrees, job'[w].pc = pc
      PROVE  CoreAgrees'
  BY <1>1, <1>3, <1>4, <1>5, <1>7 DEF CoreAgrees, Idle, At
<1> QED BY <1>1, <1>3, <1>4, <1>6, <1>7, StepAgrees DEF Idle, At, Pcs

\* What holds of a job's step while nothing has gone wrong: the other worker is idle.
LEMMA StepFacts ==
  ASSUME ConstantsAssumption, Sound, Agreed, Whole, NEW w \in Workers, ~Idle(w),
         NEW pc \in Pcs, Goto(w, pc)
  PROVE  /\ JobAgrees(w)
         /\ job[w].pc \notin {"reload", "old_reload"} /\ core \in Runtime => core = runtime
         /\ \A v \in Workers : v # w => job[v].pc = "idle" /\ job'[v] = job[v]
         /\ job'[w].pc = pc
         /\ pc # "idle" => /\ job'[w].kind = job[w].kind /\ job'[w].next = job[w].next
                           /\ job'[w].previous = job[w].previous
                           /\ job'[w].undo = job[w].undo
         /\ Before(w) \in Runtime /\ Wanted \in Runtime
         /\ job[w].next \in Runtime
         /\ job[w].kind \in {"activate", "chain", "check", "settings", "rollback"}
         /\ job[w].kind = "settings" <=> w = "settings"
<1>1. JobAgrees(w) /\ CoreAgrees /\ \A v \in Workers : v # w => Idle(v)
  BY DEF Agreed, Alone
<1>2. \A v \in Workers : v # w => job[v].pc = "idle" /\ job'[v] = job[v]
  BY <1>1, GotoKeeps DEF Sound, Idle, At
<1>3. /\ JobSound(w) /\ job[w] \in Job /\ current \in Profiles /\ saved \in Settings
  BY SoundFacts
<1>4. Before(w) \in Runtime /\ Wanted \in Runtime
  BY <1>3 DEF Before, Wanted, Runtime, JobSound
<1>5. job[w].kind \in {"activate", "chain", "check", "settings", "rollback"}
  BY <1>3 DEF Job
<1>6. job[w].pc \notin {"reload", "old_reload"} /\ core \in Runtime => core = runtime
  BY <1>1, <1>2 DEF CoreAgrees
<1>7. job'[w].pc = pc
      /\ (pc # "idle" => /\ job'[w].kind = job[w].kind /\ job'[w].next = job[w].next
                         /\ job'[w].previous = job[w].previous
                         /\ job'[w].undo = job[w].undo)
  BY GotoKeeps DEF Sound
<1>8. job[w].next \in Runtime /\ (job[w].kind = "settings" <=> w = "settings")
  BY <1>3 DEF JobSound
<1> QED BY <1>1, <1>2, <1>4, <1>5, <1>6, <1>7, <1>8

\* A step of a job, in the terms of these facts.
LEMMA JobStepAgrees ==
  ASSUME ConstantsAssumption, Sound, Agreed, NEW w \in Workers, ~Idle(w),
         NEW pc \in Pcs, Goto(w, pc), gaps \subseteq gaps',
         Whole' /\ Whole =>
           /\ pc # "idle" => JobAgrees(w)'
           /\ pc = "idle" => runtime' = Wanted'
           /\ pc \notin {"reload", "old_reload"} /\ core' \in Runtime => core' = runtime'
  PROVE  Agreed'
<1>1. ASSUME Whole', Whole PROVE CoreAgrees'
  BY <1>1, StepFacts DEF CoreAgrees
<1> QED BY <1>1, StepAgrees, StepFacts

\* What a step of a job that leaves the files, the core and the gaps alone has to show.
LEMMA StillStepAgrees ==
  ASSUME ConstantsAssumption, Sound, Agreed, NEW w \in Workers, ~Idle(w),
         NEW pc \in Pcs, Goto(w, pc), gaps \subseteq gaps',
         UNCHANGED <<runtime, current, saved, core>>,
         job[w].pc \notin {"reload", "old_reload"},
         pc = "idle" => job[w].kind # "rollback" \/ ~Whole',
         pc = "idle" => job[w].pc \notin Installed /\ Before(w) = Wanted,
         w = "settings" => (pc \in Unsaved <=> job[w].pc \in Unsaved) \/ pc = "idle",
         pc \in Installed <=> job[w].pc \in Installed,
         pc \in Deploying => job[w].pc \in Deploying,
         pc \in Journalled => w \in DOMAIN journals' /\ journals'[w] = job[w].previous
  PROVE  Agreed'
<1>1. ASSUME Whole', Whole, pc # "idle"
      PROVE  JobAgrees(w)'
  <2>1. Before(w)' = Before(w) /\ Wanted' = Wanted
    BY <1>1, StepFacts DEF Before, Wanted
  <2> QED BY <1>1, <2>1, StepFacts DEF JobAgrees
<1>2. ASSUME Whole', Whole, pc = "idle"
      PROVE  runtime' = Wanted'
  BY <1>2, StepFacts DEF JobAgrees, Wanted
<1>3. ASSUME Whole', Whole, core' \in Runtime
      PROVE  core' = runtime'
  BY <1>3, StepFacts
<1> QED BY <1>1, <1>2, <1>3, JobStepAgrees

\* The steps that leave the files alone.
LEMMA MovesAgree ==
  ASSUME ConstantsAssumption, Sound, Agreed, NEW w \in Workers,
         SetAutostart(w) \/ Validate(w) \/ CreateJournal(w)
  PROVE  Agreed'
<1>0. CASE CreateJournal(w)
  <2>0. /\ job[w].pc = "journal" /\ ~Idle(w) /\ "commit" \in Pcs
        /\ UNCHANGED <<runtime, current, saved, core>>
    BY <1>0 DEF CreateJournal, At, Idle, Pcs
  <2>1. CASE WriteJournal(w) /\ Goto(w, "commit") /\ UNCHANGED gaps
    <3>1. w \in DOMAIN journals' /\ journals'[w] = job[w].previous
      BY <2>1 DEF WriteJournal
    <3> QED BY <2>0, <2>1, <3>1, StillStepAgrees DEF Unsaved, Installed, Deploying, Journalled
  <2>2. CASE Failed(w) /\ gaps \subseteq gaps' /\ (job[w].kind = "rollback" => ~Whole')
    <3>1. CASE job[w].kind = "settings"
      BY <2>0, <2>2, <3>1, StillStepAgrees
         DEF Failed, Unsaved, Installed, Deploying, Journalled, Pcs
    <3>2. CASE job[w].kind # "settings"
      <4>1. Before(w) = Wanted /\ Goto(w, "idle")
        BY <2>0, <2>2, <3>2, SoundFacts DEF Failed, JobSound, Before, Wanted
      <4> QED BY <2>0, <2>2, <4>1, StillStepAgrees
              DEF Unsaved, Installed, Deploying, Journalled, Pcs
    <3> QED BY <3>1, <3>2
  <2>3. ASSUME gaps' = gaps \cup Loss(w) \/ gaps' = gaps \cup {"leftover"} \cup Loss(w)
        PROVE  gaps \subseteq gaps' /\ (job[w].kind = "rollback" => ~Whole')
    BY <2>3 DEF Loss, Whole
  <2> QED BY <1>0, <2>1, <2>2, <2>3 DEF CreateJournal, Fails
<1> USE DEF Unsaved, Installed, Deploying, Journalled, At, Idle, Pcs, disk, history
<1>1. CASE SetAutostart(w)
  <2>1. w = "settings" /\ job[w].pc = "autostart" /\ job[w].kind = "settings"
        /\ Before(w) = Wanted
    BY <1>1, SoundFacts DEF SetAutostart, JobSound, Before, Wanted
  <2>2. UNCHANGED <<runtime, current, saved, journals, core, gaps>>
    BY <1>1 DEF SetAutostart
  <2>3. CASE Goto(w, "save")
    BY <2>1, <2>2, <2>3, StillStepAgrees
  <2>4. CASE Goto(w, "idle")
    BY <2>1, <2>2, <2>4, StillStepAgrees
  <2> QED BY <1>1, <2>3, <2>4 DEF SetAutostart
<1>2. CASE Validate(w)
  <2>1. CASE Goto(w, "idle") /\ job[w].kind = "check" /\ UNCHANGED <<disk, core, gaps>>
    <3>1. job[w].pc = "validate" /\ w # "settings" /\ Before(w) = Wanted
      BY <1>2, <2>1, SoundFacts DEF Validate, JobSound, Before, Wanted
    <3> QED BY <2>1, <3>1, StillStepAgrees
  <2>2. CASE Goto(w, "journal") /\ UNCHANGED <<disk, core, gaps>>
    BY <1>2, <2>2, StillStepAgrees DEF Validate
  <2>3. CASE Fails(w) /\ UNCHANGED <<disk, core>>
    <3>1. job[w].pc = "validate" /\ gaps \subseteq gaps'
          /\ (job[w].kind = "rollback" => ~Whole')
      BY <1>2, <2>3 DEF Validate, Fails, Loss, Whole
    <3>2. CASE job[w].kind = "settings"
      BY <2>3, <3>1, <3>2, StillStepAgrees DEF Fails, Failed
    <3>3. CASE job[w].kind # "settings"
      <4>1. Before(w) = Wanted /\ Goto(w, "idle")
        BY <2>3, <3>1, <3>3, SoundFacts DEF Fails, Failed, JobSound, Before, Wanted
      <4> QED BY <2>3, <3>1, <4>1, StillStepAgrees
    <3> QED BY <3>2, <3>3
  <2> QED BY <1>2, <2>1, <2>2, <2>3 DEF Validate
<1> QED BY <1>0, <1>1, <1>2

\* Staging keeps what the job has started from.
LEMMA StageAgrees ==
  ASSUME Sound, Agreed, NEW w \in Workers, Stage(w)
  PROVE  Agreed'
<1> SUFFICES ASSUME Whole'
             PROVE  /\ Alone' /\ CoreAgrees' /\ (Quiet => runtime = Wanted)'
                    /\ \A v \in Workers : ~Idle(v)' => JobAgrees(v)'
  BY DEF Agreed
<1>1. /\ job' = [job EXCEPT ![w] = [job[w] EXCEPT !.pc = "validate", !.previous = runtime]]
      /\ UNCHANGED <<runtime, current, saved, journals, core, gaps>>
      /\ job[w].pc = "stage" /\ Whole /\ ~Idle(w)
  BY DEF Stage, disk, history, At, Idle
<1>2. JobAgrees(w) /\ CoreAgrees /\ \A v \in Workers : v # w => Idle(v)
  BY <1>1 DEF Agreed, Alone
<1>3. /\ job'[w].pc = "validate" /\ job'[w].previous = runtime
      /\ job'[w].next = job[w].next /\ job'[w].undo = job[w].undo
      /\ job'[w].kind = job[w].kind /\ \A v \in Workers : v # w => job'[v] = job[v]
  BY <1>1 DEF Sound, TypeOK, Job
<1>4. JobAgrees(w)'
  <2>1. Before(w)' = Before(w) /\ Wanted' = Wanted
    BY <1>1, <1>3 DEF Before, Wanted, Unsaved
  <2> QED BY <1>1, <1>2, <1>3, <2>1
          DEF JobAgrees, Unsaved, Installed, Deploying, Journalled
<1>5. CoreAgrees'
  BY <1>1, <1>2, <1>3 DEF CoreAgrees, Idle, At
<1> QED BY <1>1, <1>2, <1>3, <1>4, <1>5 DEF Alone, Quiet, Idle, At

\* Saved settings are part of what is wanted, before they are deployed and until they are
\* restored.
LEMMA SettingsAgree ==
  ASSUME ConstantsAssumption, Sound, Agreed, NEW w \in Workers,
         SaveSettings(w) \/ RestoreSettings(w)
  PROVE  Agreed'
<1>1. w = "settings" /\ ~Idle(w) /\ job[w].pc \in {"save", "unsave"}
  BY SoundFacts DEF SaveSettings, RestoreSettings, JobSound, Idle, At
<1>2. CASE SaveSettings(w) /\ saved' = job[w].next.settings /\ Goto(w, "stage")
  <2>1. ASSUME Whole', Whole PROVE JobAgrees(w)'
    <3>1. /\ UNCHANGED <<runtime, current, journals, core>> /\ job[w].pc = "save"
      BY <1>2 DEF SaveSettings, At
    <3>0. /\ JobAgrees(w) /\ job'[w].pc = "stage" /\ job'[w].kind = job[w].kind
          /\ job'[w].next = job[w].next /\ job'[w].previous = job[w].previous
          /\ job'[w].undo = job[w].undo /\ (job[w].kind = "settings" <=> w = "settings")
      BY <1>1, <1>2, <2>1, StepFacts DEF Pcs
    <3>2. saved = job[w].undo /\ saved' = job[w].next.settings /\ job[w].next.profile = current
      BY <1>1, <1>2, <3>0, <3>1 DEF JobAgrees, Unsaved
    <3>3. Before(w) = runtime
      BY <1>1, <3>0, <3>1 DEF JobAgrees, Installed
    <3>4. Before(w)' = Before(w)
      BY <1>1, <3>0, <3>1, <3>2 DEF Before, Unsaved
    <3> QED BY <1>1, <3>0, <3>1, <3>2, <3>3, <3>4
            DEF JobAgrees, Unsaved, Installed, Deploying, Journalled
  <2>2. ASSUME Whole', Whole, core' \in Runtime PROVE core' = runtime'
    BY <1>1, <1>2, <2>2, StepFacts DEF SaveSettings, At, Pcs
  <2> QED BY <1>1, <1>2, <2>1, <2>2, JobStepAgrees DEF SaveSettings, history, Pcs
<1>3. CASE SaveSettings(w) /\ UNCHANGED saved /\ Goto(w, "idle")
  <2>1. Before(w) = Wanted /\ job[w].kind = "settings" /\ job[w].pc = "save"
    BY <1>1, <1>3, SoundFacts DEF SaveSettings, Before, Wanted, Unsaved, JobSound, At
  <2> QED BY <1>1, <1>3, <2>1, StillStepAgrees
          DEF SaveSettings, history, Pcs, Installed, Deploying, Journalled
<1>4. CASE RestoreSettings(w)
  <2>1. ASSUME Whole', Whole PROVE runtime' = Wanted'
    <3>1. /\ UNCHANGED <<runtime, current>> /\ job[w].pc = "unsave" /\ Goto(w, "idle")
          /\ saved' = job[w].undo
      BY <1>4, <2>1 DEF RestoreSettings, At
    <3> QED BY <1>1, <2>1, <3>1, StepFacts
            DEF Before, Wanted, JobAgrees, Unsaved, Installed, Pcs
  <2>2. ASSUME Whole', Whole, core' \in Runtime PROVE core' = runtime'
    BY <1>1, <1>4, <2>2, StepFacts DEF RestoreSettings, At, Pcs
  <2> QED BY <1>1, <1>4, <2>1, <2>2, JobStepAgrees DEF RestoreSettings, Pcs
<1> QED BY <1>2, <1>3, <1>4 DEF SaveSettings

\* A deployment that fails has put back what it started from, or this is noted.
LEMMA FailedAgrees ==
  ASSUME ConstantsAssumption, Sound, Agreed, NEW w \in Workers,
         job[w].pc \in Deploying, Failed(w), gaps \subseteq gaps',
         UNCHANGED <<current, saved>>,
         Whole' /\ Whole =>
           /\ job[w].kind # "rollback" /\ runtime' = Before(w)
           /\ core' \in Runtime => core' = runtime'
  PROVE  Agreed'
<1>1. ~Idle(w)
  BY DEF Idle, At, Deploying
<1>2. CASE job[w].kind = "settings"
  <2>1. Goto(w, "unsave")
    BY <1>2 DEF Failed
  <2>2. ASSUME Whole', Whole PROVE JobAgrees(w)'
    <3>0. /\ JobAgrees(w) /\ job'[w].pc = "unsave" /\ job'[w].kind = job[w].kind
          /\ job'[w].next = job[w].next /\ job'[w].previous = job[w].previous
          /\ job'[w].undo = job[w].undo /\ (job[w].kind = "settings" <=> w = "settings")
      BY <1>1, <2>1, <2>2, StepFacts DEF Pcs
    <3>1. Before(w)' = Before(w)
      BY <1>2, <3>0 DEF Before, Unsaved, Deploying
    <3>2. saved = job[w].next.settings /\ job[w].next.profile = current
      BY <1>2, <3>0 DEF JobAgrees, Unsaved, Deploying
    <3> QED BY <1>2, <2>2, <3>0, <3>1, <3>2
            DEF JobAgrees, Unsaved, Installed, Deploying, Journalled
  <2> QED BY <1>1, <2>1, <2>2, JobStepAgrees DEF Pcs
<1>3. CASE job[w].kind # "settings"
  <2>1. Goto(w, "idle")
    BY <1>3 DEF Failed
  <2>2. ASSUME Whole', Whole PROVE runtime' = Wanted'
    BY <1>1, <1>3, <2>1, <2>2, StepFacts DEF Before, Wanted, Pcs
  <2> QED BY <1>1, <2>1, <2>2, JobStepAgrees DEF Pcs
<1> QED BY <1>2, <1>3

\* A failure that could not put it back is one of the gaps.
LEMMA UncompensatedAgrees ==
  ASSUME NEW w \in Workers, FailsUncompensated(w)
  PROVE  Agreed'
  BY DEF FailsUncompensated, Agreed

\* A step that goes on with a deployment.
LEMMA GoesOnAgrees ==
  ASSUME ConstantsAssumption, Sound, Agreed, NEW w \in Workers, job[w].pc \in Journalled,
         NEW pc \in Journalled, Goto(w, pc),
         UNCHANGED <<current, saved, journals, gaps>>,
         Whole =>
           /\ pc \in Installed => runtime' = job[w].next
           /\ pc \notin Installed /\ job[w].kind # "rollback" => runtime' = Before(w)
           /\ pc \notin {"reload", "old_reload"} /\ core' \in Runtime => core' = runtime'
  PROVE  Agreed'
<1>1. ~Idle(w) /\ pc \in Pcs /\ pc # "idle"
  BY DEF Idle, At, Journalled, Deploying, Pcs
<1>2. ASSUME Whole', Whole PROVE JobAgrees(w)'
  <2>1. Before(w)' = Before(w) /\ Wanted' = Wanted
    BY <1>1, <1>2, StepFacts DEF Before, Wanted, Unsaved, Journalled, Deploying
  <2> QED BY <1>1, <1>2, <2>1, StepFacts
          DEF JobAgrees, Unsaved, Deploying, Journalled
<1> QED BY <1>1, <1>2, JobStepAgrees

\* The steps of a deployment from the commit to its end.
LEMMA DeployingAgrees ==
  ASSUME ConstantsAssumption, Sound, Agreed, NEW w \in Workers,
         CommitFile(w) \/ Reload(w) \/ RestartReturns(w) \/ CompleteFails(w)
           \/ OldReload(w) \/ OldRestart(w) \/ OldComplete(w)
  PROVE  Agreed'
<1> USE DEF Deploying, Journalled, Installed, At, disk, history
<1>1. /\ job[w].pc \in Journalled /\ ~Idle(w)
      /\ UNCHANGED <<current, saved>>
  BY DEF CommitFile, Reload, RestartReturns, CompleteFails, OldReload, OldRestart, OldComplete,
         Idle
<1>2. ASSUME Whole
      PROVE  /\ job[w].kind # "rollback" => job[w].previous = Before(w)
             /\ job[w].pc \in Installed => runtime = job[w].next
             /\ job[w].pc \notin Installed /\ job[w].kind # "rollback" => runtime = Before(w)
             /\ job[w].pc \notin {"reload", "old_reload"} /\ core \in Runtime => core = runtime
  <2>1. JobAgrees(w) /\ CoreAgrees /\ \A v \in Workers : v # w => Idle(v)
    BY <1>1, <1>2 DEF Agreed, Alone
  <2> QED BY <1>1, <2>1 DEF JobAgrees, CoreAgrees, Idle
<1>3. CASE CommitFile(w)
  <2>1. CASE runtime' = job[w].next /\ Goto(w, "reload") /\ UNCHANGED <<journals, gaps>>
    BY <1>1, <1>2, <1>3, <2>1, GoesOnAgrees DEF CommitFile
  <2>2. CASE runtime' = job[w].previous /\ Fails(w)
    <3>1. Failed(w) /\ gaps \subseteq gaps' /\ (Whole' => job[w].kind # "rollback")
      BY <2>2 DEF Fails, Loss, Whole
    <3> QED BY <1>1, <1>2, <1>3, <2>2, <3>1, FailedAgrees DEF CommitFile
  <2> QED BY <1>3, <2>1, <2>2, UncompensatedAgrees DEF CommitFile
<1>4. CASE Reload(w)
  <2>1. ASSUME NEW pc \in {"complete", "restart"}, Goto(w, pc), core' \in Runtime => core' = runtime
        PROVE  Agreed'
    BY <1>1, <1>2, <1>4, <2>1, GoesOnAgrees DEF Reload
  <2>2. CASE core = Stopped /\ UNCHANGED core /\ Goto(w, "complete")
    BY <2>1, <2>2 DEF ConstantsAssumption
  <2>3. CASE core' = runtime /\ Goto(w, "complete")
    BY <2>1, <2>3
  <2>4. CASE core' = Broken /\ Goto(w, "restart")
    BY <2>1, <2>4 DEF ConstantsAssumption
  <2> QED BY <1>4, <2>2, <2>3, <2>4 DEF Reload, Activate
<1>5. CASE RestartReturns(w)
  <2>1. CASE Goto(w, "complete") /\ UNCHANGED <<runtime, journals, gaps>>
             /\ core' = IF core = Stopped THEN core ELSE runtime
    <3>1. core' \in Runtime => core' = runtime
      BY <2>1 DEF ConstantsAssumption
    <3> QED BY <1>1, <1>2, <1>5, <2>1, <3>1, GoesOnAgrees DEF RestartReturns
  <2>2. CASE core' = Broken /\ runtime' = job[w].previous /\ Goto(w, "old_reload")
             /\ UNCHANGED <<journals, gaps>>
    BY <1>1, <1>2, <1>5, <2>2, GoesOnAgrees DEF RestartReturns
  <2> QED BY <1>5, <2>1, <2>2, UncompensatedAgrees DEF RestartReturns
<1>6. CASE CompleteFails(w)
  BY <1>1, <1>2, <1>6, UncompensatedAgrees, GoesOnAgrees DEF CompleteFails
<1>7. CASE OldReload(w)
  <2>1. ASSUME NEW pc \in {"old_complete", "old_restart"}, Goto(w, pc), core' \in Runtime => core' = runtime
        PROVE  Agreed'
    BY <1>1, <1>2, <1>7, <2>1, GoesOnAgrees DEF OldReload
  <2>2. CASE core = Stopped /\ UNCHANGED core /\ Goto(w, "old_complete")
    BY <2>1, <2>2 DEF ConstantsAssumption
  <2>3. CASE core' = runtime /\ Goto(w, "old_complete")
    BY <2>1, <2>3
  <2>4. CASE core' = Broken /\ Goto(w, "old_restart")
    BY <2>1, <2>4 DEF ConstantsAssumption
  <2> QED BY <1>7, <2>2, <2>3, <2>4 DEF OldReload, Activate
<1>8. CASE OldRestart(w)
  <2>1. CASE Goto(w, "old_complete") /\ UNCHANGED gaps
             /\ core' = IF core = Stopped THEN core ELSE runtime
    <3>1. core' \in Runtime => core' = runtime
      BY <2>1 DEF ConstantsAssumption
    <3> QED BY <1>1, <1>2, <1>8, <2>1, <3>1, GoesOnAgrees DEF OldRestart
  <2> QED BY <1>8, <2>1, UncompensatedAgrees DEF OldRestart
<1>9. CASE OldComplete(w)
  <2>1. CASE Fails(w)
    <3>1. Failed(w) /\ gaps \subseteq gaps' /\ (Whole' => job[w].kind # "rollback")
      BY <2>1 DEF Fails, Loss, Whole
    <3> QED BY <1>1, <1>2, <1>9, <2>1, <3>1, FailedAgrees DEF OldComplete
  <2> QED BY <1>9, <2>1, UncompensatedAgrees DEF OldComplete
<1> QED BY <1>3, <1>4, <1>5, <1>6, <1>7, <1>8, <1>9

\* A deployment that succeeds has installed its runtime, and an activation its profile.
LEMMA CompleteAgrees ==
  ASSUME ConstantsAssumption, Sound, Agreed, NEW w \in Workers,
         Complete(w) \/ SetCurrentProfile(w)
  PROVE  Agreed'
<1> USE DEF Deploying, Journalled, Installed, At, Idle, history, Pcs
<1>1. /\ job[w].pc \in {"complete", "catalog"} /\ ~Idle(w)
      /\ UNCHANGED <<runtime, saved, core, gaps>>
  BY DEF Complete, SetCurrentProfile
<1>2. ASSUME Whole
      PROVE  JobAgrees(w) /\ runtime = job[w].next /\ (core \in Runtime => core = runtime)
  <2>1. JobAgrees(w) /\ CoreAgrees /\ \A v \in Workers : v # w => Idle(v)
    BY <1>1, <1>2 DEF Agreed, Alone
  <2>2. JobSound(w) /\ (core \in Runtime => core = runtime)
    BY <1>1, <2>1, SoundFacts DEF CoreAgrees
  <2> QED BY <1>1, <2>1, <2>2 DEF JobAgrees
<1>3. CASE Complete(w)
  <2>1. CASE job[w].kind = "activate"
    <3>1. Goto(w, "catalog") /\ UNCHANGED current /\ w # "settings"
      BY <1>1, <1>3, <2>1, SoundFacts DEF Complete, Succeeded, JobSound
    <3>2. ASSUME Whole PROVE JobAgrees(w)'
      <4>1. Before(w)' = Before(w) /\ Wanted' = Wanted
        BY <1>1, <3>1, <3>2, StepFacts DEF Before, Wanted, Unsaved
      <4> QED BY <1>1, <1>2, <3>1, <3>2, <4>1, StepFacts DEF JobAgrees, Unsaved
    <3> QED BY <1>1, <1>2, <3>1, <3>2, JobStepAgrees
  <2>2. CASE job[w].kind # "activate"
    <3>1. Goto(w, "idle") /\ UNCHANGED current
      BY <1>3, <2>2 DEF Complete, Succeeded
    <3>2. ASSUME Whole PROVE runtime' = Wanted'
      <4>1. JobSound(w) /\ job[w].kind # "check"
        BY <1>1, <1>3, SoundFacts DEF Complete, JobSound
      <4>2. runtime = job[w].next /\ job[w].next \in Runtime
        BY <1>1, <1>2, <3>2, <4>1 DEF JobSound
      <4>3. job[w].kind = "rollback" => runtime = Wanted
        BY <1>2, <3>2, <4>2 DEF JobAgrees
      <4>4. job[w].kind # "rollback" =>
              runtime.profile = current /\ runtime.settings = saved
        BY <1>1, <1>2, <1>3, <2>2, <3>1, <3>2, <4>1, <4>2, StepFacts
           DEF Complete, JobAgrees, Unsaved
      <4> QED BY <1>1, <3>1, <4>2, <4>3, <4>4, RuntimeFields DEF Wanted
    <3> QED BY <1>1, <1>2, <3>1, <3>2, JobStepAgrees
  <2> QED BY <2>1, <2>2
<1>4. CASE SetCurrentProfile(w)
  <2>1. /\ job[w].pc = "catalog" /\ job[w].kind = "activate" /\ w # "settings"
        /\ UNCHANGED journals /\ job[w].next \in Runtime
    BY <1>4, SoundFacts DEF SetCurrentProfile, JobSound
  <2>2. CASE current' = job[w].next.profile /\ Goto(w, "idle")
    <3>1. ASSUME Whole PROVE runtime' = Wanted'
      <4>1. runtime = job[w].next /\ job[w].next.settings = saved
        BY <1>2, <2>1, <3>1 DEF JobAgrees
      <4> QED BY <1>1, <2>1, <2>2, <4>1, RuntimeFields DEF Wanted
    <3> QED BY <1>1, <1>2, <2>2, <3>1, JobStepAgrees
  <2>3. CASE /\ UNCHANGED current
             /\ job' = [job EXCEPT ![w] = [job[w] EXCEPT !.pc = "stage", !.kind = "rollback",
                                                         !.next = job[w].undo]]
    <3> SUFFICES ASSUME Whole
                 PROVE  /\ Alone' /\ CoreAgrees' /\ (Quiet => runtime = Wanted)'
                        /\ \A v \in Workers : ~Idle(v)' => JobAgrees(v)'
      BY <1>1 DEF Agreed
    <3>1. /\ job'[w].pc = "stage" /\ job'[w].kind = "rollback"
          /\ job'[w].next = job[w].undo /\ \A v \in Workers : v # w => job'[v] = job[v]
      BY <2>3 DEF Sound, TypeOK, Job
    <3>2. job[w].undo = Wanted /\ Wanted' = Wanted
      BY <1>1, <1>2, <2>1, <2>3 DEF JobAgrees, Wanted
    <3>3. job'[w].next.settings = saved'
      BY <1>1, <3>1, <3>2 DEF Wanted
    <3>4. JobAgrees(w)'
      BY <2>1, <3>1, <3>2, <3>3 DEF JobAgrees
    <3>5. \A v \in Workers : v # w => Idle(v)
      BY <1>1 DEF Agreed, Alone
    <3>6. CoreAgrees'
      BY <1>1, <1>2 DEF CoreAgrees
    <3> QED BY <3>1, <3>4, <3>5, <3>6 DEF Alone, Quiet
  <2> QED BY <1>4, <2>2, <2>3 DEF SetCurrentProfile
<1> QED BY <1>3, <1>4

\* The user drives the core, and the application dies: what a journal brings back is what was
\* wanted, unless a worker stood between two files.
LEMMA OutsideAgrees ==
  ASSUME ConstantsAssumption, Sound, Agreed, Leftover, CoreCommand \/ Crash \/ UNCHANGED vars
  PROVE  Agreed'
<1>1. CASE CoreCommand
  <2>1. UNCHANGED <<runtime, current, saved, journals, job, gaps>>
        /\ core' \in {Stopped, Broken, runtime}
    BY <1>1 DEF CoreCommand, disk, history
  <2>2. \A w \in Workers : JobAgrees(w) => JobAgrees(w)'
    BY <2>1 DEF JobAgrees, Before, Wanted
  <2>3. CoreAgrees'
    BY <2>1 DEF CoreAgrees, ConstantsAssumption
  <2> QED BY <2>1, <2>2, <2>3 DEF Agreed, Alone, Quiet, Idle, At, Wanted
<1>2. CASE Crash
  <2> SUFFICES ASSUME Whole'
               PROVE  /\ Alone' /\ CoreAgrees' /\ (Quiet => runtime = Wanted)'
                      /\ \A v \in Workers : ~Idle(v)' => JobAgrees(v)'
    BY DEF Agreed
  <2>1. /\ Whole /\ \A w \in Workers : ~HalfDone(w)
        /\ UNCHANGED <<current, saved>> /\ core' = Stopped
        /\ \A w \in Workers : Idle(w)'
    BY <1>2 DEF Crash, Idle, At, NoJob
  <2>2. /\ Alone /\ (Quiet => runtime = Wanted)
        /\ \A w \in Workers : ~Idle(w) => JobAgrees(w)
    BY <2>1 DEF Agreed
  <2>3. ASSUME NEW w \in Workers, ~Idle(w)
        PROVE  /\ Before(w) = Wanted /\ job[w].kind # "rollback" /\ ~At(w, "catalog")
    BY <2>1, <2>3 DEF HalfDone, Before, Wanted
  <2>4. \A w \in DOMAIN journals :
          w \in Workers /\ (job[w].pc \notin Journalled =>
            journals[w] = runtime /\ \A v \in Workers : job[v].pc \notin Journalled \cup Installed)
    BY <2>1 DEF Sound, TypeOK, Leftover, LeftoverAgrees, Journalled, Deploying, Installed
  <2>5. ASSUME \A w \in Workers : job[w].pc \notin Journalled \cup Installed
        PROVE  runtime = Wanted
    <3>1. ASSUME NEW w \in Workers, ~Idle(w) PROVE runtime = Wanted
      BY <2>2, <2>3, <2>5, <3>1 DEF JobAgrees
    <3> QED BY <2>2, <3>1 DEF Quiet
  <2>6. runtime' = Wanted
    <3>1. CASE DOMAIN journals = {}
      <4>1. \A w \in Workers : job[w].pc \notin Journalled
        BY <2>2, <3>1 DEF JobAgrees, Idle, At, Journalled, Deploying
      <4>2. \A w \in Workers : job[w].pc \notin Installed
        BY <2>3, <4>1 DEF Installed, Journalled, Deploying, Idle, At
      <4> QED BY <1>2, <2>5, <3>1, <4>1, <4>2 DEF Crash, Replay
    <3>2. ASSUME NEW w \in DOMAIN journals, runtime' = journals[w] PROVE runtime' = Wanted
      <4>1. CASE job[w].pc \notin Journalled
        BY <2>4, <2>5, <3>2, <4>1
      <4>2. CASE job[w].pc \in Journalled
        <5>1. w \in Workers /\ ~Idle(w)
          BY <2>4, <4>2 DEF Idle, At, Journalled, Deploying
        <5> QED BY <2>2, <2>3, <3>2, <4>2, <5>1 DEF JobAgrees, Journalled
      <4> QED BY <4>1, <4>2
    <3> QED BY <1>2, <3>1, <3>2 DEF Crash, Replay
  <2> QED BY <2>1, <2>6 DEF Alone, CoreAgrees, Wanted, ConstantsAssumption
<1>3. CASE UNCHANGED vars
  BY <1>3 DEF vars, Agreed, Alone, CoreAgrees, JobAgrees, Before, Wanted, Quiet, Idle, At
<1> QED BY <1>1, <1>2, <1>3

-----------------------------------------------------------------------------
(* What a failed creation leaves                                           *)

\* Beyond its opening of the store a job finds no journal but its own.
LEMMA NothingLeft ==
  ASSUME Sound, Agreed, Leftover, Whole, NEW w \in Workers,
         job[w].pc \notin {"idle", "open", "unsave"}
  PROVE  \A v \in DOMAIN journals : v = w /\ job[w].pc \in Journalled
<1> TAKE v \in DOMAIN journals
<1>1. v \in Workers /\ job[v].pc \in Journalled
  BY DEF Sound, TypeOK, Leftover, LeftoverAgrees
<1>2. ~Idle(v) /\ ~Idle(w)
  BY <1>1 DEF Idle, At, Journalled, Deploying
<1> QED BY <1>1, <1>2 DEF Agreed, Alone

\* A step of such a job leaves none, but where it fails to create it.
LEMMA StepLeaves ==
  ASSUME Sound, Agreed, Leftover, NEW w \in Workers, NEW pc \in Pcs,
         job[w].pc \notin {"idle", "open", "unsave"}, job'[w].pc = pc,
         \A v \in Workers : v # w => job'[v] = job[v],
         gaps \subseteq gaps', DOMAIN journals' \subseteq DOMAIN journals \cup {w},
         Whole' /\ w \in DOMAIN journals' =>
           pc \in Journalled \/ (pc \in {"idle", "unsave"} /\ journals'[w] = runtime')
  PROVE  Leftover'
<1> SUFFICES ASSUME Whole', NEW v \in DOMAIN journals', job'[v].pc \notin Journalled
             PROVE  /\ journals'[v] = runtime'
                    /\ \A u \in Workers : job'[u].pc \in {"idle", "open", "unsave"}
  BY DEF Leftover, LeftoverAgrees
<1>1. v = w
  BY NothingLeft
<1>2. pc \in {"idle", "unsave"} /\ journals'[w] = runtime'
  BY <1>1
<1>3. \A u \in Workers : u # w => job'[u].pc = "idle"
  <2>1. ~Idle(w) /\ Whole
    BY DEF Idle, At
  <2> QED BY <2>1 DEF Agreed, Alone, Idle, At
<1> QED BY <1>1, <1>2, <1>3

LEMMA DeploymentLeaves ==
  ASSUME ConstantsAssumption, Sound, Agreed, Leftover, NEW w \in Workers,
         \/ SetAutostart(w) \/ SaveSettings(w) \/ Stage(w) \/ Validate(w) \/ CreateJournal(w)
         \/ CommitFile(w) \/ Reload(w) \/ RestartReturns(w) \/ Complete(w) \/ CompleteFails(w)
         \/ OldReload(w) \/ OldRestart(w) \/ OldComplete(w) \/ SetCurrentProfile(w)
  PROVE  Leftover'
<1> DEFINE Leaves(pc) ==
      /\ job'[w].pc = pc /\ \A v \in Workers : v # w => job'[v] = job[v]
      /\ gaps \subseteq gaps' /\ DOMAIN journals' \subseteq DOMAIN journals \cup {w}
      /\ Whole' /\ w \in DOMAIN journals' =>
           pc \in Journalled \/ (pc \in {"idle", "unsave"} /\ journals'[w] = runtime')
<1>0. job[w].pc \notin {"idle", "open", "unsave"}
  BY DEF SetAutostart, SaveSettings, Stage, Validate, CreateJournal, CommitFile, Reload,
         RestartReturns, Complete, CompleteFails, OldReload, OldRestart, OldComplete,
         SetCurrentProfile, At
<1>1. ASSUME NEW pc \in Pcs, Leaves(pc) PROVE Leftover'
  BY <1>0, <1>1, StepLeaves
<1>2. ASSUME NEW pc \in Pcs, Goto(w, pc)
      PROVE  job'[w].pc = pc /\ \A v \in Workers : v # w => job'[v] = job[v]
  BY <1>2, GotoKeeps DEF Sound
<1>3. Whole => \A v \in DOMAIN journals : v = w /\ job[w].pc \in Journalled
  BY <1>0, NothingLeft
<1>4. ASSUME Failed(w)
      PROVE  \E pc \in {"idle", "unsave"} : Goto(w, pc)
  BY <1>4 DEF Failed
<1>5. RemoveJournal(w) => DOMAIN journals' = DOMAIN journals \ {w}
  BY DEF RemoveJournal
<1> USE DEF Journalled, Deploying, Pcs, At, disk, history
<1>6. CASE SetAutostart(w) \/ SaveSettings(w) \/ Validate(w)
  <2>1. /\ job[w].pc \notin Journalled /\ UNCHANGED journals /\ gaps \subseteq gaps'
        /\ \E pc \in Pcs : Goto(w, pc)
    BY <1>6 DEF SetAutostart, SaveSettings, Validate, Fails, Failed
  <2> QED BY <1>1, <1>2, <1>3, <2>1
<1>7. CASE Stage(w) \/ SetCurrentProfile(w)
  <2>1. /\ job[w].pc \notin Journalled /\ UNCHANGED <<journals, gaps>>
        /\ \A v \in Workers : v # w => job'[v] = job[v]
        /\ job'[w].pc \in Pcs
    BY SMTT(30), <1>7, GotoKeeps DEF Stage, SetCurrentProfile, Sound, TypeOK, Job
  <2> QED BY <1>1, <1>3, <2>1
<1>8. CASE CreateJournal(w)
  <2>1. job[w].pc = "journal" /\ UNCHANGED runtime
    BY <1>8 DEF CreateJournal
  <2>2. WriteJournal(w) => DOMAIN journals' = DOMAIN journals \cup {w}
                           /\ journals'[w] = job[w].previous
    BY DEF WriteJournal
  <2>3. CASE WriteJournal(w) /\ Goto(w, "commit") /\ UNCHANGED gaps
    BY <1>1, <1>2, <2>2, <2>3
  <2>4. CASE UNCHANGED journals /\ Fails(w)
    BY <1>1, <1>2, <1>3, <1>4, <2>1, <2>4 DEF Fails
  <2>5. CASE WriteJournal(w) /\ Failed(w) /\ gaps' = gaps \cup {"leftover"} \cup Loss(w)
    <3>1. Whole' => job[w].previous = runtime
      <4> SUFFICES ASSUME Whole' PROVE job[w].previous = runtime
        OBVIOUS
      <4>1. Whole /\ job[w].kind # "rollback"
        BY <2>5 DEF Loss
      <4>2. JobAgrees(w)
        BY <2>1, <4>1 DEF Agreed, Idle
      <4> QED BY <2>1, <4>1, <4>2 DEF JobAgrees, Installed
    <3> QED BY <1>1, <1>2, <1>4, <2>1, <2>2, <2>5, <3>1
  <2> QED BY <1>8, <2>3, <2>4, <2>5 DEF CreateJournal
<1>9. CASE CommitFile(w) \/ RestartReturns(w) \/ CompleteFails(w) \/ OldRestart(w)
             \/ OldComplete(w)
  <2>1. CASE (\E pc \in Journalled : Goto(w, pc)) /\ UNCHANGED <<journals, gaps>>
    BY <1>1, <1>2, <2>1
  <2>2. CASE Failed(w) /\ gaps \subseteq gaps' /\ RemoveJournal(w)
    BY <1>1, <1>2, <1>4, <1>5, <2>2
  <2>3. CASE FailsUncompensated(w) /\ UNCHANGED journals
    BY <1>1, <1>2, <1>4, <2>3 DEF FailsUncompensated
  <2> QED BY <1>9, <2>1, <2>2, <2>3
          DEF CommitFile, RestartReturns, CompleteFails, OldRestart, OldComplete, Fails
<1>10. CASE Reload(w) \/ OldReload(w)
  <2>1. (\E pc \in Journalled : Goto(w, pc)) /\ UNCHANGED <<journals, gaps>>
    BY <1>10 DEF Reload, OldReload, Activate
  <2> QED BY <1>1, <1>2, <2>1
<1>11. CASE Complete(w)
  <2>1. /\ RemoveJournal(w) /\ UNCHANGED gaps
        /\ \E pc \in {"catalog", "idle"} : Goto(w, pc)
    BY <1>11 DEF Complete, Succeeded
  <2> QED BY <1>1, <1>2, <1>5, <2>1
<1> QED BY <1>6, <1>7, <1>8, <1>9, <1>10, <1>11

\* The steps of a job that comes or goes, and those of no worker.
LEMMA OthersLeave ==
  ASSUME ConstantsAssumption, Sound, Agreed, Leftover,
         \/ \E w \in Workers : Prepare(w) \/ OpenStore(w) \/ RestoreSettings(w)
         \/ CoreCommand \/ Crash \/ UNCHANGED vars
  PROVE  Leftover'
<1> USE DEF Leftover, LeftoverAgrees, disk, history
<1>1. ASSUME NEW w \in Workers, Prepare(w) PROVE Leftover'
  <2>1. /\ UNCHANGED <<runtime, journals>> /\ \A v \in Workers : v # w => job'[v] = job[v]
        /\ job[w].pc = "idle" /\ job'[w].pc = "open"
        /\ gaps \subseteq gaps'
    BY <1>1 DEF Prepare, Sound, TypeOK, Idle, At
  <2> QED BY <2>1 DEF Sound, TypeOK, Journalled, Deploying
<1>2. ASSUME NEW w \in Workers, OpenStore(w) PROVE Leftover'
  BY <1>2 DEF OpenStore, Replay
<1>3. ASSUME NEW w \in Workers, RestoreSettings(w) PROVE Leftover'
  <2>1. Goto(w, "idle") /\ "idle" \in Pcs
    BY <1>3 DEF RestoreSettings, Pcs
  <2>2. /\ UNCHANGED <<runtime, journals>> /\ \A v \in Workers : v # w => job'[v] = job[v]
        /\ job[w].pc = "unsave" /\ job'[w].pc = "idle"
        /\ gaps \subseteq gaps'
    BY <1>3, <2>1, GotoKeeps DEF RestoreSettings, Sound, At
  <2> QED BY <2>2 DEF Sound, TypeOK, Journalled, Deploying
<1>4. CASE CoreCommand
  BY <1>4 DEF CoreCommand, Whole
<1>5. CASE Crash
  BY <1>5 DEF Crash, Replay
<1>6. CASE UNCHANGED vars
  BY <1>6 DEF vars, Whole
<1> QED BY <1>1, <1>2, <1>3, <1>4, <1>5, <1>6

\* As long as the workers do not overlap, no compensation fails and no worker is killed between
\* two files, runtime.yaml is that of the catalog's profile and the saved settings whenever
\* both are at rest, a journal that is left over would restore just that, and a running core
\* runs it (activate in profiles.rs, execute in settings.rs, RuntimeDeployer in deployment.rs).
THEOREM FilesAndCoreStayInAgreement == Spec => []FilesAndCoreAgree
<1> USE ConstantsAssumption
<1>1. Init => Agreed /\ Leftover
  BY InitAgreed DEF Init, Leftover, LeftoverAgrees
<1>2. Sound /\ Agreed /\ Leftover /\ [Next]_vars => Agreed'
  BY PrepareAgrees, OpenStoreAgrees, MovesAgree, StageAgrees, SettingsAgree, DeployingAgrees,
     CompleteAgrees, OutsideAgrees DEF Next, Step
<1>3. Sound /\ Agreed /\ Leftover /\ [Next]_vars => Leftover'
  BY DeploymentLeaves, OthersLeave DEF Next, Step
<1>4. Sound /\ Agreed /\ Leftover => FilesAndCoreAgree
  <2>1. Quiet => \A w \in Workers : job[w].pc = "idle"
    BY DEF Quiet, Idle, At
  <2>2. Quiet /\ Sound => \A w \in DOMAIN journals : job[w].pc \notin Journalled
    BY <2>1 DEF Sound, TypeOK, Journalled, Deploying
  <2> QED BY <2>1, <2>2
          DEF Sound, Agreed, CoreAgrees, Leftover, LeftoverAgrees, Wanted, Whole,
              FilesAndCoreAgree, FilesAgreeAtRest, FilesAgree, LeftoverIsHarmless, CoreRunsDisk
<1> QED BY <1>1, <1>2, <1>3, <1>4, SoundInvariance, PTL DEF Spec
=============================================================================

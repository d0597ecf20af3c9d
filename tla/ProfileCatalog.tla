--------------------------- MODULE ProfileCatalog ---------------------------
(***************************************************************************)
(* The profile worker of crates/rsclash-app/src/profiles.rs: the catalog   *)
(* of subscriptions and enhancement profiles, the content of their files,  *)
(* and the runtime configuration built from the current one.  The worker   *)
(* handles one command at a time, but an update or an edit of the active   *)
(* profile takes four steps (commit the new content, deploy the runtime,   *)
(* save the current profile, or put everything back), and the process may  *)
(* be killed between any two of them.                                      *)
(*                                                                         *)
(* A commit of the catalog is one step here (ConfigTransaction shows why), *)
(* and so is a deployment (RuntimeDeployment): it succeeds, or fails with  *)
(* the old runtime in place, or fails without having restored it.  An      *)
(* operation that is refused before it changes anything is a stuttering    *)
(* step.  Names, usage figures and home pages are left out.                *)
(***************************************************************************)
EXTENDS Naturals, Sequences, FiniteSets, SequencesExt, Subsequences

CONSTANTS
  Uids,         \* the uids that unique_profile_uid may return
  Global,       \* the uid "Merge" of the global enhancement
  LinkedKinds,  \* kinds of the enhancements a source refers to
  Contents,     \* file contents that are YAML mappings with an entry
  Template,     \* what a new enhancement file contains
  Rejected,     \* contents no runtime made of them passes the validator
  Blank,        \* the empty mapping
  Intervals,    \* states of a remote profile's update interval
  None

ASSUME CatalogAssumption ==
  /\ Global \notin Uids
  /\ None \notin Uids \cup {Global}
  /\ "merge" \in LinkedKinds
  /\ LinkedKinds \subseteq {"merge", "rules", "proxies", "groups"}
  /\ Template \in Contents \ Rejected
  /\ Rejected \subseteq Contents
  /\ Blank \notin Contents
  /\ {"none", "timer"} \subseteq Intervals
  /\ Intervals \subseteq {"none", "manual", "timer"}
  /\ IsFiniteSet(Uids)

VARIABLES
  items,     \* the profiles: uid -> kind, links, content and update state
  order,     \* the uids in the order of the catalog
  current,   \* the active profile
  runtime,   \* what the runtime file was built from
  pc,        \* where the worker is
  job,       \* the operation that takes several steps
  todo,      \* the subscriptions still to update
  stale      \* history: the runtime is excused from matching the catalog

vars == <<items, order, current, runtime, pc, job, todo, stale>>

AllUids == Uids \cup {Global}

SourceKinds == {"remote", "local"}

ProfileItem ==
  [kind : SourceKinds \cup LinkedKinds,
   links : [LinkedKinds -> AllUids \cup {None}],
   content : Contents \cup {Blank},
   interval : Intervals,    \* none set, automatic updates off, or on
   fresh : BOOLEAN]         \* updated within the interval

NoLinks == [k \in LinkedKinds |-> None]

Enhancement(kind, content) ==
  [kind |-> kind, links |-> NoLinks, content |-> content,
   interval |-> "none", fresh |-> TRUE]

IsSource(item) == item.kind \in SourceKinds

Sources == {u \in DOMAIN items : IsSource(items[u])}

Remotes == {u \in DOMAIN items : items[u].kind = "remote"}

(* profile_enhancement_uids                                                *)
LinkedTo(S) ==
  UNION {{items[u].links[k] : k \in LinkedKinds} \ {None} : u \in S}

Partial(S) == UNION {[D -> Contents \cup {Blank}] : D \in SUBSET S}

Runtimes == [of : Uids \cup {None}, layers : Partial(AllUids)]

DefaultRuntime == [of |-> None, layers |-> [u \in {} |-> Blank]]

State == [items |-> items, order |-> order, current |-> current, runtime |-> runtime]

NoJob == [op |-> "none"]

(* Every variable has its type, and a job is there while its steps are.    *)
TypeOK ==
  /\ DOMAIN items \subseteq AllUids
  /\ items \in [DOMAIN items -> ProfileItem]
  /\ order \in Seq(AllUids) /\ IsInjective(order) /\ ToSet(order) = DOMAIN items
  /\ current \in Uids \cup {None}
  /\ runtime \in Runtimes
  /\ pc \in {"idle", "updating", "validate", "deploy", "catalog", "redeploy", "restore"}
  /\ todo \in Seq(Uids)
  /\ stale \in BOOLEAN
  /\ IF pc \in {"idle", "updating"}
       THEN job = NoJob
       ELSE /\ job.op \in {"activate", "chain", "update", "save"}
            /\ job.uid \in DOMAIN items
            /\ job.target \in Sources
            /\ job.before.runtime \in Runtimes

-----------------------------------------------------------------------------
(* Building a runtime                                                      *)

(* load_profile_enhancements: the files that make the runtime of a source. *)
Layers(uid) ==
  {uid} \cup LinkedTo({uid}) \cup
  (IF Global \in DOMAIN items /\ items[Global].kind = "merge" THEN {Global} ELSE {})

(* read_enhancement_profile: a link must name a profile of its own kind.   *)
LinksResolve(uid) ==
  \A k \in LinkedKinds :
    LET linked == items[uid].links[k]
    IN linked # None => linked \in DOMAIN items /\ items[linked].kind = k

Built(uid) == [of |-> uid, layers |-> [u \in Layers(uid) |-> items[u].content]]

(* prepare_activation and the validator.                                   *)
Accepted(uid) ==
  /\ LinksResolve(uid)
  /\ \A u \in Layers(uid) : items[u].content \notin Rejected

-----------------------------------------------------------------------------
(* The first catalog: none, or the one CvrImporter wrote, whose sources    *)
(* may share an enhancement, and whose enhancements may be empty           *)
(* (validate_import_profile); the runtime is the default one either way.   *)

ImportedItems(a, b, linked, content) ==
  [u \in {a, b, linked, Global} |->
     CASE u = a -> [kind |-> "remote", content |-> Template, interval |-> "none",
                    fresh |-> TRUE, links |-> [NoLinks EXCEPT !["merge"] = linked]]
       [] u = b -> [kind |-> "local", content |-> Template, interval |-> "none",
                    fresh |-> TRUE, links |-> [NoLinks EXCEPT !["merge"] = linked]]
       [] u = linked -> Enhancement("merge", content)
       [] OTHER -> Enhancement("merge", Template)]

Init ==
  /\ \/ /\ items = [u \in {} |-> Enhancement("merge", Blank)]
        /\ order = <<>>
        /\ current = None
     \/ \E a, b, linked \in Uids, content \in {Template, Blank} :
          /\ Cardinality({a, b, linked}) = 3
          /\ items = ImportedItems(a, b, linked, content)
          /\ order = <<a, Global, linked, b>>
          /\ current \in {None, a}
  /\ runtime = DefaultRuntime
  /\ pc = "idle"
  /\ job = NoJob
  /\ todo = <<>>
  /\ stale = (current # None)

-----------------------------------------------------------------------------
(* Operations that are one commit                                          *)

(* unique_profile_uid never returns a uid twice; here one that nothing     *)
(* mentions any more may come back.                                        *)
Unused == Uids \ (DOMAIN items \cup {runtime.of} \cup DOMAIN runtime.layers)

NewIds(S) == {f \in [S -> Unused] : IsInjective(f)}

InOneCommit == pc = "idle" /\ UNCHANGED <<runtime, pc, job, todo, stale>>

(* add_profile: the new profiles follow the others in the catalog, a       *)
(* source before its enhancements.                                         *)
Add(uid, source, linked) ==
  /\ items' = [u \in DOMAIN items \cup {uid} \cup DOMAIN linked |->
                 IF u = uid THEN source
                 ELSE IF u \in DOMAIN linked THEN linked[u] ELSE items[u]]
  /\ order' = order \o <<uid>> \o SetToSeq(DOMAIN linked)
  /\ UNCHANGED current

(* import_content with new_profile_enhancements: a source comes with a     *)
(* template for each kind of enhancement.                                  *)
ImportContent(kind, interval) ==
  \E uid \in Unused, content \in Contents, links \in NewIds(LinkedKinds) :
    /\ uid \notin Range(links)
    /\ Add(uid,
           [kind |-> kind, links |-> links, content |-> content,
            interval |-> interval, fresh |-> TRUE],
           [u \in Range(links) |->
              Enhancement(CHOOSE k \in LinkedKinds : links[k] = u, Template)])

ImportLocal == InOneCommit /\ ImportContent("local", "none")

(* import_remote, from a link or a QR code: the user's update interval, or *)
(* the one the server suggests if the user gave none.                      *)
ImportRemote ==
  /\ InOneCommit
  /\ \E wanted \in Intervals, suggested \in {"none", "timer"} :
       ImportContent("remote", IF wanted = "none" THEN suggested ELSE wanted)

(* duplicate_profile_item for every enhancement of a source.               *)
Copies(uid, links) ==
  [u \in Range(links) \ {None} |->
     [items[items[uid].links[CHOOSE k \in LinkedKinds : links[k] = u]]
        EXCEPT !.fresh = TRUE]]

(* duplicate_profile: a file without an entry cannot be staged.  Like the  *)
(* deletion it is offered for sources, the only ones load_snapshot lists.  *)
Duplicate ==
  /\ InOneCommit
  /\ \E uid \in Sources, copy \in Unused :
       LET linked == {k \in LinkedKinds : items[uid].links[k] # None}
       IN /\ LinksResolve(uid)
          /\ \A u \in {uid} \cup LinkedTo({uid}) : items[u].content # Blank
          /\ \E ids \in NewIds(linked) :
               LET links == [k \in LinkedKinds |->
                               IF k \in linked THEN ids[k] ELSE None]
               IN /\ copy \notin Range(ids)
                  /\ Add(copy,
                         [items[uid] EXCEPT !.links = links, !.fresh = TRUE],
                         Copies(uid, links))

(* Where the catalog has the profiles S, and these in its order.           *)
Positions(S) == {i \in DOMAIN order : order[i] \in S}

InOrder(S) == Picked(order, Positions(S))

(* Mutant: the enhancements of a deleted source go with it.                *)
DeletedWithAllLinks(S) == S \cup LinkedTo(S)

(* delete_profiles: the enhancements nothing else refers to go with their  *)
(* source.                                                                 *)
Deleted(S) == S \cup (LinkedTo(S) \ LinkedTo(DOMAIN items \ S))

Delete ==
  /\ InOneCommit
  /\ \E S \in SUBSET Sources \ {{}} :
       LET kept == DOMAIN items \ Deleted(S)
       IN /\ items' = [u \in kept |-> items[u]]
          /\ order' = InOrder(kept)
          /\ current' = IF current \in kept THEN current ELSE None

(* reorder_profile: the sources are permuted in the places they hold.      *)
Reorder ==
  /\ InOneCommit
  /\ LET sources == InOrder(Sources)
     IN \E old, new \in DOMAIN sources :
          LET moved == InsertAt(RemoveAt(sources, old), new, sources[old])
          IN order' = [i \in DOMAIN order |->
                         IF order[i] \in Sources
                           THEN moved[Place(Positions(Sources), i)]
                           ELSE order[i]]
  /\ UNCHANGED <<items, current>>

SetRemoteOptions ==
  /\ InOneCommit
  /\ \E uid \in Remotes, interval \in Intervals :
       items' = [items EXCEPT ![uid].interval = interval]
  /\ UNCHANGED <<order, current>>

(* The update interval of a subscription passes.                           *)
TimePasses ==
  /\ InOneCommit
  /\ \E uid \in Remotes : items' = [items EXCEPT ![uid].fresh = FALSE]
  /\ UNCHANGED <<order, current>>

-----------------------------------------------------------------------------
(* Operations that deploy                                                  *)

(* The step after an update, or the end of any other operation.            *)
EndsAt(rest) ==
  /\ pc' = IF rest = <<>> THEN "idle" ELSE "updating"
  /\ job' = NoJob
  /\ todo' = rest

Start(phase, op, uid, target) ==
  /\ pc' = phase
  /\ job' = [op |-> op, uid |-> uid, target |-> target, before |-> State]

Activate ==
  /\ pc = "idle"
  /\ \E uid \in Sources : Start("deploy", "activate", uid, uid)
  /\ UNCHANGED <<items, order, current, runtime, todo, stale>>

(* set_proxy_chain rebuilds the runtime of the active profile, with the    *)
(* dialer of some proxies set, which is left out.                          *)
SetProxyChain ==
  /\ pc = "idle"
  /\ current # None
  /\ Start("deploy", "chain", current, current)
  /\ UNCHANGED <<items, order, current, runtime, todo, stale>>

(* update_remote, update_all_remote, and due_remote_profile_uids of the    *)
(* automatic update, which starts by itself.                               *)
Due(item) == item.interval = "timer" /\ ~item.fresh

TakeUpdates ==
  /\ pc = "idle"
  /\ \E uids \in {{u} : u \in Remotes} \cup
                 {Remotes, {u \in Remotes : Due(items[u])}} :
       todo' = InOrder(uids)
  /\ todo' # <<>>
  /\ pc' = "updating"
  /\ UNCHANGED <<items, order, current, runtime, job, stale>>

(* The download of one subscription failed, or brought no YAML mapping, or *)
(* could not be committed: the next one is tried (update_remote_profiles). *)
DownloadFails ==
  /\ pc = "updating"
  /\ EndsAt(Tail(todo))
  /\ UNCHANGED <<items, order, current, runtime, stale>>

(* replace_profile commits what was downloaded; an interval the server     *)
(* suggests counts only where none is set.                                 *)
Replaced(item, content, suggested) ==
  [item EXCEPT !.content = content, !.fresh = TRUE,
     !.interval = IF @ = "none" THEN suggested ELSE @]

Download ==
  /\ pc = "updating"
  /\ \E content \in Contents, suggested \in {"none", "timer"} :
       LET uid == Head(todo)
       IN /\ items' = [items EXCEPT ![uid] = Replaced(@, content, suggested)]
          /\ IF uid = current
               THEN Start("deploy", "update", uid, uid) /\ UNCHANGED todo
               ELSE EndsAt(Tail(todo))
  /\ UNCHANGED <<order, current, runtime, stale>>

(* Mutant: an edit of the global enhancement is not deployed.              *)
AffectsOwnLayersOnly(edited, active) ==
  edited = active \/ edited \in LinkedTo({active})

(* profile_affects_active_runtime                                          *)
Affects(edited, active) ==
  \/ edited = active
  \/ edited = Global
  \/ edited \in LinkedTo({active})

(* replace_editable_profile                                                *)
Edited(item, content) == [item EXCEPT !.content = content, !.fresh = TRUE]

(* save_profile_content: the new content is committed first; then the      *)
(* active runtime is deployed if the file is part of it, or a source is    *)
(* validated, or an enhancement of another profile is left as it is.       *)
Save ==
  /\ pc = "idle"
  /\ \E uid \in DOMAIN items, content \in Contents :
       /\ items' = [items EXCEPT ![uid] = Edited(@, content)]
       /\ IF current # None /\ Affects(uid, current)
            THEN Start("deploy", "save", uid, current)
          ELSE IF uid \in Sources
            THEN Start("validate", "save", uid, uid)
          ELSE UNCHANGED <<pc, job>>
  /\ UNCHANGED <<order, current, runtime, todo, stale>>

(* An operation that changed a file puts it back (restore_profile).        *)
Fails ==
  IF job.op \in {"update", "save"}
    THEN pc' = "restore" /\ UNCHANGED <<job, todo>>
    ELSE EndsAt(todo)

Succeeds == EndsAt(IF job.op = "update" THEN Tail(todo) ELSE todo)

(* validate_profile_runtime deploys nothing.                               *)
Validate ==
  /\ pc = "validate"
  /\ \/ Fails
     \/ Accepted(job.target) /\ Succeeds
  /\ UNCHANGED <<items, order, current, runtime, stale>>

(* deploy: the runtime is not built or not accepted, or the core does not  *)
(* take it and the old one is back.                                        *)
DeployFails ==
  /\ pc = "deploy"
  /\ Fails
  /\ UNCHANGED <<items, order, current, runtime, stale>>

(* The old runtime could not be put back (Error::DeploymentRollback).      *)
DeployFailsUnrestored ==
  /\ pc = "deploy"
  /\ Accepted(job.target)
  /\ runtime' = Built(job.target)
  /\ stale' = TRUE
  /\ Fails
  /\ UNCHANGED <<items, order, current>>

(* Only an activation saves the current profile; a proxy chain is for the  *)
(* profile that is current already.                                        *)
Deploy ==
  /\ pc = "deploy"
  /\ Accepted(job.target)
  /\ runtime' = Built(job.target)
  /\ IF job.op = "chain"
       THEN stale' = FALSE /\ Succeeds
       ELSE pc' = "catalog" /\ UNCHANGED <<stale, job, todo>>
  /\ UNCHANGED <<items, order, current>>

(* set_current_profile                                                     *)
SaveCurrent ==
  /\ pc = "catalog"
  /\ current' = job.target
  /\ stale' = FALSE
  /\ Succeeds
  /\ UNCHANGED <<items, order, runtime>>

SaveCurrentFails ==
  /\ pc = "catalog"
  /\ pc' = "redeploy"
  /\ UNCHANGED <<items, order, current, runtime, job, todo, stale>>

(* The previous runtime is deployed again, or stays lost.                  *)
Redeploy ==
  /\ pc = "redeploy"
  /\ \/ runtime' = job.before.runtime /\ UNCHANGED stale
     \/ UNCHANGED runtime /\ stale' = TRUE
  /\ Fails
  /\ UNCHANGED <<items, order, current>>

(* Mutant: only the file is put back.                                      *)
RestoredContent(new, old) == [new EXCEPT !.content = old.content]

RestoredItem(new, old) ==
  [new EXCEPT !.content = old.content, !.interval = old.interval,
              !.fresh = old.fresh]

(* restore_profile: the rollback is a transaction too, and like any other  *)
(* it takes no file without an entry.                                      *)
Restore ==
  /\ pc = "restore"
  /\ LET old == job.before.items[job.uid]
     IN /\ old.content # Blank
        /\ items' = [items EXCEPT ![job.uid] = RestoredItem(@, old)]
  /\ Succeeds
  /\ UNCHANGED <<order, current, runtime, stale>>

RestoreFails ==
  /\ pc = "restore"
  /\ stale' = TRUE
  /\ Succeeds
  /\ UNCHANGED <<items, order, current, runtime>>

-----------------------------------------------------------------------------
(* The process is killed between two steps of an operation.  The runtime   *)
(* and the catalog are both on disk, each as its last commit left it.      *)
Kill ==
  /\ pc # "idle"
  /\ pc' = "idle"
  /\ job' = NoJob
  /\ todo' = <<>>
  /\ stale' = \/ stale
              \/ pc \in {"catalog", "redeploy"}
              \/ /\ pc \in {"deploy", "restore"}
                 /\ job.op \in {"update", "save"}
  /\ UNCHANGED <<items, order, current, runtime>>

Next ==
  \/ ImportLocal \/ ImportRemote \/ Duplicate \/ Delete \/ Reorder \/ SetRemoteOptions
  \/ TimePasses
  \/ Activate \/ SetProxyChain \/ TakeUpdates \/ Save
  \/ DownloadFails \/ Download
  \/ Validate \/ DeployFails \/ DeployFailsUnrestored \/ Deploy
  \/ SaveCurrent \/ SaveCurrentFails \/ Redeploy
  \/ Restore \/ RestoreFails
  \/ Kill

Spec == Init /\ [][Next]_vars

-----------------------------------------------------------------------------
(* Properties                                                              *)

(* Between two operations the runtime is the one that the present files of *)
(* the current profile make: no edit, update, deletion or failed           *)
(* activation leaves the core with anything else, except after a kill or a *)
(* failed rollback, and then only until the next successful deployment     *)
(* (profiles.rs save_profile_content, update_remote, activate).            *)
RuntimeIsCurrentProfile ==
  pc \in {"idle", "updating"} /\ current # None /\ ~stale =>
    /\ current \in Sources
    /\ runtime = Built(current)

(* An operation that fails, and says nothing of a rollback that failed     *)
(* too, leaves the catalog, the files, the runtime and the time of the     *)
(* next automatic update as they were when it began.                       *)
Failed ==
  \/ DeployFails /\ pc' # "restore"
  \/ Redeploy /\ pc' # "restore" /\ stale' = stale
  \/ Restore

FailureLeavesNoTrace ==
  [][Failed /\ ~stale => State' = job.before]_vars

(* No link dangles or names a profile of another kind, and no enhancement  *)
(* file outlives the last source that refers to it, also when sources      *)
(* share one (delete_profiles, duplicate_profile).                         *)
LinksAreExact ==
  /\ \A u \in Sources : LinksResolve(u)
  /\ DOMAIN items \ {Global} = (Sources \cup LinkedTo(Sources)) \ {Global}
=============================================================================

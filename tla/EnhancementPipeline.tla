------------------------ MODULE EnhancementPipeline ------------------------
(***************************************************************************)
(* How a runtime configuration is made (crates/rsclash-config/src/enhance),*)
(* and what becomes of it over many activations.  The pipeline takes a     *)
(* profile, its edits and two merge layers, and the application's own      *)
(* fields, the control plane.  The control plane is read back from the     *)
(* runtime that is being replaced (prepare_activation of profiles.rs), so  *)
(* the output of one run is an input of the next; the settings write to    *)
(* the same file (apply_application_settings), and so does the chain of    *)
(* proxies (apply_proxy_chain).                                            *)
(*                                                                         *)
(* A configuration is a partial function of top-level fields.  Of the      *)
(* fields that are treated alike one or two stand for all; a value is as   *)
(* small as the code that reads it allows.  The order of the fields, the   *)
(* case of their names, and dns_settings, which the application never      *)
(* sets, are left out.                                                     *)
(***************************************************************************)
EXTENDS Naturals, Sequences, SequencesExt, Subsequences

CONSTANTS
  Profiles,   \* the profiles that may be activated
  Globals,    \* the global merge layers, None among them
  Settings,   \* the application settings the user may apply
  Chains,     \* the sequences of proxy names the user may chain
  None

VARIABLES
  runtime,    \* the runtime file
  settings,   \* the settings applied last, or None
  active,     \* the profile and global layer activated last, or None
  asBuilt,    \* the runtime is what the pipeline made of them
  chain       \* the chain in force

vars == <<runtime, settings, active, asBuilt, chain>>

ControlPlane == {"external-controller", "mixed-port", "socks-port", "tun",
                 "mode", "allow-lan", "ipv6"}

Field(config, field, default) ==
  IF field \in DOMAIN config THEN config[field] ELSE default

Only(config, fields) == [x \in DOMAIN config \cap fields |-> config[x]]

Without(config, fields) == [x \in DOMAIN config \ fields |-> config[x]]

Empty == [x \in {} |-> None]

(* Mapping::insert                                                         *)
With(config, field, value) ==
  [x \in DOMAIN config \cup {field} |-> IF x = field THEN value ELSE config[x]]

(* Every field of the first mapping is inserted into the second.           *)
Over(top, config) ==
  [x \in DOMAIN top \cup DOMAIN config |-> IF x \in DOMAIN top THEN top[x] ELSE config[x]]

ListOf(config, field) == Field(config, field, <<>>)

Names(items) == {items[i].name : i \in DOMAIN items}

(* Sources, layers and edits have lists of proxies and groups where they   *)
(* have any.                                                               *)
ProxyNodes == [name : STRING, legacy : BOOLEAN, dialer : STRING \cup {None}]

ProxyGroups ==
  [name : STRING, type : STRING, proxies : Seq(STRING), use : SUBSET STRING]

IsConfig(config) ==
  /\ "proxies" \in DOMAIN config => config["proxies"] \in Seq(ProxyNodes)
  /\ "proxy-groups" \in DOMAIN config => config["proxy-groups"] \in Seq(ProxyGroups)

SequenceEdit(S) == [prepend : Seq(S), append : Seq(S), delete : SUBSET STRING]

PipelineAssumption ==
  /\ \A profile \in Profiles :
       /\ IsConfig(profile.source)
       /\ profile.proxies \in SequenceEdit(ProxyNodes)
       /\ profile.groups \in SequenceEdit(ProxyGroups)
       /\ profile.merge # None => IsConfig(profile.merge)
  /\ \A layer \in Globals : layer # None => IsConfig(layer)
  /\ Chains \subseteq Seq(STRING)

-----------------------------------------------------------------------------
(* The sequence edits                                                      *)

(* collect_unique_names                                                    *)
FirstOccurrences(names) ==
  Picked(names, {i \in DOMAIN names : \A j \in 1 .. i - 1 : names[j] # names[i]})

(* update_proxy_group_references: the new proxies are offered by the first *)
(* selector, before the others, and the deleted ones by no group.          *)
UpdateReferences(groups, added, deleted) ==
  LET selectors == {i \in DOMAIN groups : groups[i].type = "select"}
      Kept(i) == Picked(groups[i].proxies,
                        {n \in DOMAIN groups[i].proxies : groups[i].proxies[n] \notin deleted})
  IN [i \in DOMAIN groups |->
        [groups[i] EXCEPT !.proxies =
           IF added # <<>> /\ i \in selectors /\ \A j \in selectors : i <= j
             THEN FirstOccurrences(added \o Kept(i))
             ELSE Kept(i)]]

(* apply_sequence_edit; a rule is its own name.                            *)
EditList(config, field, edit) ==
  LET NameOf(item) == IF field = "rules" THEN item ELSE item.name
      list == ListOf(config, field)
      kept == Picked(list, {i \in DOMAIN list : NameOf(list[i]) \notin edit.delete})
  IN With(config, field, edit.prepend \o kept \o edit.append)

EditProxies(config, edit) ==
  LET edited == EditList(config, "proxies", edit)
      new == edit.prepend \o edit.append
      added == FirstOccurrences([i \in DOMAIN new |-> new[i].name])
  IN IF "proxy-groups" \notin DOMAIN edited THEN edited
     ELSE With(edited, "proxy-groups",
               UpdateReferences(edited["proxy-groups"], added, edit.delete))

ApplyEdits(profile) ==
  EditList(EditProxies(EditList(profile.source, "rules", profile.rules),
                       profile.proxies),
           "proxy-groups", profile.groups)

-----------------------------------------------------------------------------
(* The application's layer                                                 *)

(* Every listener that is among the defaults is enabled, and on Linux none *)
(* is removed (listener_is_disabled, ListenerPolicy of prepare_activation).*)
ApplyDefaults(config, defaults) ==
  LET layered == Over(defaults, config)
  IN IF "tun" \notin DOMAIN defaults THEN layered
     ELSE With(layered, "tun", Over(defaults["tun"], Field(config, "tun", Empty)))

(* The compatibility transforms of native.rs: the script mode is no more,  *)
(* and the old forms of hysteria and websocket options are rewritten.      *)
NativeTransforms(config) ==
  [x \in DOMAIN config |->
     CASE x = "mode" /\ config[x] = "script" -> "rule"
       [] x = "proxies" ->
            [i \in DOMAIN config[x] |-> [config[x][i] EXCEPT !.legacy = FALSE]]
       [] OTHER -> config[x]]

(* apply_tun: TUN needs a resolver, with fake addresses unless the profile *)
(* asks for another mode.                                                  *)
ApplyTun(config, enabled) ==
  LET tunnelled == With(config, "tun", With(Field(config, "tun", Empty), "enable", enabled))
      dns == Field(config, "dns", Empty)
      faked == With(With(With(dns, "mode", "fake-ip"), "ipv6", Field(config, "ipv6", FALSE)),
                    "enable", TRUE)
  IN IF ~enabled THEN tunnelled
     ELSE With(tunnelled, "dns",
               IF Field(dns, "mode", "fake-ip") = "fake-ip" THEN faked ELSE dns)

-----------------------------------------------------------------------------
(* The manual layers and what follows them                                 *)

(* apply_deep_merge: mappings are merged, anything else is replaced.       *)
DeepMerge(config, patch) ==
  [x \in DOMAIN config \cup DOMAIN patch |->
     IF x \notin DOMAIN patch THEN config[x]
     ELSE IF x \in {"tun", "dns"} /\ x \in DOMAIN config
       THEN Over(patch[x], config[x])
     ELSE patch[x]]

Merge(config, layer) == IF layer = None THEN config ELSE DeepMerge(config, layer)

RestoreControlPlane(config, snapshot) == Over(snapshot, Without(config, ControlPlane))

EnsureLanBindAddress(config) ==
  IF Field(config, "allow-lan", FALSE)
     /\ Field(config, "bind-address", "any") = "loopback"
    THEN With(config, "bind-address", "any")
    ELSE config

(* cleanup_proxy_groups: a group with a provider may name proxies that     *)
(* come from it, any other only what is there.                             *)
Allowed(config) ==
  Names(ListOf(config, "proxies")) \cup Names(ListOf(config, "proxy-groups"))
  \cup Field(config, "proxy-providers", {}) \cup {"DIRECT", "REJECT"}

Cleaned(group, config) ==
  LET use == group.use \cap Field(config, "proxy-providers", {})
  IN [group EXCEPT
        !.use = use,
        !.proxies = Picked(group.proxies,
                           {n \in DOMAIN group.proxies :
                              use # {} \/ group.proxies[n] \in Allowed(config)})]

CleanupGroups(config) ==
  LET groups == ListOf(config, "proxy-groups")
  IN IF "proxy-groups" \notin DOMAIN config THEN config
     ELSE With(config, "proxy-groups", [i \in DOMAIN groups |-> Cleaned(groups[i], config)])

(* Mutant: the control plane is what the manual layers made of it.         *)
EnhanceMergesAll(profile, global, defaults, tun) ==
  LET base == ApplyTun(NativeTransforms(
                ApplyDefaults(ApplyEdits(profile), defaults)), tun)
  IN CleanupGroups(EnsureLanBindAddress(
       Merge(Merge(base, global), profile.merge)))

(* EnhancementPipeline::enhance                                            *)
Enhance(profile, global, defaults, tun) ==
  LET base == ApplyTun(NativeTransforms(
                ApplyDefaults(ApplyEdits(profile), defaults)), tun)
      merged == Merge(Merge(base, global), profile.merge)
  IN CleanupGroups(EnsureLanBindAddress(
       RestoreControlPlane(merged, Only(base, ControlPlane))))

(* prepare_activation: the defaults are the control plane of the runtime   *)
(* that is in place.                                                       *)
NextRuntime(profile, global, previous) ==
  Enhance(profile, global, Only(previous, ControlPlane),
          Field(Field(previous, "tun", Empty), "enable", FALSE))

-----------------------------------------------------------------------------
(* The chain of proxies                                                    *)

(* Mutant: the dialers that the profile sets are kept.                     *)
ChainOnTop(proxies, nodes) ==
  [i \in DOMAIN proxies |->
     LET k == {k \in 2 .. Len(nodes) : nodes[k] = proxies[i].name}
     IN IF k # {} THEN [proxies[i] EXCEPT !.dialer = nodes[(CHOOSE n \in k : TRUE) - 1]]
        ELSE proxies[i]]

(* apply_proxy_chain: every dialer is removed, then each node of the chain *)
(* but the first is dialled through the one before it; of two proxies with *)
(* one name the first is taken.                                            *)
Chained(proxies, nodes) ==
  [i \in DOMAIN proxies |->
     [proxies[i] EXCEPT !.dialer =
        LET k == {k \in 2 .. Len(nodes) : nodes[k] = proxies[i].name}
        IN IF k # {} /\ \A j \in 1 .. i - 1 : proxies[j].name # proxies[i].name
             THEN nodes[(CHOOSE n \in k : TRUE) - 1]
             ELSE None]]

Chainable(proxies, nodes) ==
  \/ nodes = <<>>
  \/ /\ Len(nodes) >= 2
     /\ IsInjective(nodes)
     /\ ToSet(nodes) \subseteq Names(proxies)

-----------------------------------------------------------------------------
(* The settings                                                            *)

(* The fields that apply_application_settings sets, and those it removes.  *)
(* The enhancement mode of DNS stands for its entries, interface-name for  *)
(* itself and the tunnels.                                                 *)
Optional == {"external-controller", "socks-port", "interface-name"}

Written(s) ==
  With(Only(s, {"mixed-port", "allow-lan", "ipv6"} \cup Optional),
       "dns", [enable |-> TRUE, ipv6 |-> s["ipv6"], mode |-> s["dns"]])

ApplyTo(config, s) ==
  With(Over(Written(s), Without(config, Optional)),
       "tun", With(With(Field(config, "tun", Empty), "device", "rsclash"),
                   "enable", s["tun"]))

-----------------------------------------------------------------------------

(* initialize_default_runtime                                              *)
DefaultRuntime ==
  [x \in {"mixed-port", "allow-lan", "mode", "ipv6", "proxies", "tun",
          "proxy-groups", "rules"} |->
     CASE x = "mixed-port" -> 17897
       [] x \in {"allow-lan", "ipv6"} -> FALSE
       [] x = "mode" -> "rule"
       [] x = "proxies" -> <<>>
       [] x = "tun" -> [enable |-> FALSE, device |-> "rsclash"]
       [] x = "proxy-groups" -> <<[name |-> "GLOBAL", type |-> "select", use |-> {},
                                   proxies |-> <<"DIRECT", "REJECT">>]>>
       [] x = "rules" -> <<"MATCH,GLOBAL">>]

Init ==
  /\ runtime = DefaultRuntime
  /\ settings = None
  /\ active = None
  /\ asBuilt = FALSE
  /\ chain = <<>>

(* An activation, and every update or edit of the active profile.          *)
Activate ==
  /\ \E profile \in Profiles, global \in Globals :
       /\ runtime' = NextRuntime(profile, global, runtime)
       /\ active' = [profile |-> profile, global |-> global]
  /\ asBuilt' = TRUE
  /\ chain' = <<>>
  /\ UNCHANGED settings

ApplySettings ==
  /\ \E s \in Settings :
       /\ runtime' = ApplyTo(runtime, s)
       /\ settings' = s
  /\ asBuilt' = FALSE
  /\ UNCHANGED <<active, chain>>

(* set_proxy_chain: the active profile is made again, and then chained.    *)
SetProxyChain ==
  /\ active # None
  /\ \E nodes \in Chains :
       LET next == NextRuntime(active.profile, active.global, runtime)
       IN /\ "proxies" \in DOMAIN next
          /\ Chainable(next["proxies"], nodes)
          /\ runtime' = [next EXCEPT !["proxies"] = Chained(@, nodes)]
          /\ chain' = nodes
          /\ asBuilt' = FALSE
  /\ UNCHANGED <<settings, active>>

Next == Activate \/ ApplySettings \/ SetProxyChain

Spec == Init /\ [][Next]_vars

-----------------------------------------------------------------------------
(* Properties                                                              *)

(* Activating the same profile again changes nothing: the control plane    *)
(* that comes back from the runtime is the one the pipeline put there, and *)
(* no layer is applied on top of its own effect (prepare_activation).      *)
ActivationIsStable ==
  asBuilt => NextRuntime(active.profile, active.global, runtime) = runtime

(* Whatever was activated since, and whatever its source and its merge     *)
(* layers say, each field of the control plane that the settings set has   *)
(* the value of the settings (snapshot_control_plane, restore_control_plane*)
(* in enhance).                                                            *)
SettingsWin ==
  settings # None =>
    /\ \A x \in DOMAIN Written(settings) \cap ControlPlane :
         x \in DOMAIN runtime /\ runtime[x] = settings[x]
    /\ runtime["tun"]["enable"] = settings["tun"]

(* A group without a provider only names proxies and groups that exist, so *)
(* no edit or merge of one list can make the core refuse the other         *)
(* (cleanup_proxy_groups).                                                 *)
GroupReferencesExist ==
  \A i \in DOMAIN ListOf(runtime, "proxy-groups") :
    LET group == runtime["proxy-groups"][i]
    IN group.use = {} => ToSet(group.proxies) \subseteq Allowed(runtime)

(* A chain of proxies ends: from any proxy, following the dialers reaches  *)
(* one that is dialled directly, whatever dialers the profile sets         *)
(* (apply_proxy_chain).                                                    *)
Dials ==
  LET proxies == ListOf(runtime, "proxies")
  IN {<<proxies[i].name, proxies[i].dialer>> :
        i \in {i \in DOMAIN proxies : proxies[i].dialer # None}}

ChainsEnd ==
  chain # <<>> =>
    \A S \in SUBSET {edge[1] : edge \in Dials} :
      S # {} => \E edge \in Dials : edge[1] \in S /\ edge[2] \notin S

=============================================================================

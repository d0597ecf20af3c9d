---------------------------- MODULE AppCoordinator ----------------------------
(***************************************************************************)
(* The application coordinator of rsclash-app (lib.rs) with the workers it *)
(* routes commands to, as far as they decide whether the system proxy is   *)
(* on: the relay of the core's states, the Mihomo worker (mihomo.rs), the  *)
(* system proxy worker (system_proxy.rs) and the settings worker           *)
(* (settings.rs).                                                          *)
(*                                                                         *)
(* The coordinator never awaits a worker: it passes commands on with       *)
(* try_send and drops the one that does not fit.  A worker handles one     *)
(* command at a time and waits until its events fit; those of the Mihomo   *)
(* worker are dropped as well.                                             *)
(*                                                                         *)
(* History `gaps' notes what the properties exclude: a command or an event *)
(* that was dropped because a channel was full, an operation of the system *)
(* or of the disk that failed, a core that was lost while the proxy was    *)
(* being enabled ("late"), an order of the user's that an older snapshot   *)
(* had suggested ("stale"), settings that were saved with an older wish    *)
(* for the proxy ("overwritten") or that the worker could not read or      *)
(* restore ("unshown").                                                    *)
(*                                                                         *)
(* Of the core's states only `Running' matters here, of Mihomo's snapshot  *)
(* whether it reports a port ("port") and is connected too ("ready"), of   *)
(* the settings the wish for the system proxy and whether a PAC URL is     *)
(* set.  Errors are shown to the user and leave no other trace.            *)
(***************************************************************************)
EXTENDS Naturals, Sequences

CONSTANTS
  Capacity,   \* CORE_EVENT_CAPACITY, of the channels of the two workers below
  Relayed,    \* the same, of the channels that carry states of the core and Mihomo
  MaxInputs,  \* bound on the states of the core, the user's orders and the failures
  None        \* Option::None

Kinds == {"manual", "pac"}
ProxyCommands == Kinds \cup {"off"}
Settings == [wish : BOOLEAN, pac : BOOLEAN]

ASSUME ConstantsAssumption ==
  /\ Capacity \in Nat \ {0} /\ Relayed \in Nat \ {0}
  /\ MaxInputs \in Nat \ {0, 1}
  /\ None \notin Settings \cup ProxyCommands

VARIABLES
  running,     \* the core is published as Running
  unseen,      \* the relay has not seen the last published state yet
  core,        \* channel of core events
  mihomo,      \* the Mihomo worker and its channels
  proxy,       \* the system proxy worker and its channels
  saver,       \* the settings worker and its channels
  desktop,     \* what SystemProxyService has enabled
  file,        \* settings.yaml
  snapshot,    \* the coordinator's AppSnapshot
  asked,       \* history: what the user last asked of the system proxy
  gaps,        \* history: what else may have decided about it
  inputs       \* how many inputs there have been

vars == <<running, unseen, core, mihomo, proxy, saver, desktop, file, snapshot, asked, gaps, inputs>>

View == [available : BOOLEAN, enabled : BOOLEAN, busy : BOOLEAN]
Unknown == [available |-> FALSE, enabled |-> FALSE, busy |-> FALSE]
ProxyEvents == [view : View] \cup [enabled : BOOLEAN]
SaverCommands == [persist : BOOLEAN] \cup [apply : Settings]
Connections == {"none", "port", "ready"}

Bounded(channel, Messages, bound) == channel \in Seq(Messages) /\ Len(channel) <= bound

\* Every variable has its type and every channel its capacity.
TypeOK ==
  /\ running \in BOOLEAN /\ unseen \in BOOLEAN
  /\ Bounded(core, BOOLEAN, Relayed)
  /\ mihomo.active \in BOOLEAN
  /\ Bounded(mihomo.commands, BOOLEAN, Relayed) /\ Bounded(mihomo.events, Connections, Relayed)
  /\ proxy.call \in ProxyCommands \cup {None} /\ proxy.view \in View
  /\ Bounded(proxy.commands, ProxyCommands, Capacity) /\ Bounded(proxy.events, ProxyEvents, Capacity)
  /\ saver.plan \in Settings \cup {None} /\ saver.value \in Settings
  /\ Bounded(saver.commands, SaverCommands, Capacity) /\ Bounded(saver.events, Settings, Capacity)
  /\ desktop \in ProxyCommands
  /\ file \in Settings
  /\ snapshot \in [running : BOOLEAN, mihomo : Connections, view : View, settings : Settings]
  /\ asked \in BOOLEAN
  /\ gaps \subseteq {"dropped", "failed", "late", "overwritten", "stale", "unshown"}
  /\ inputs \in 0..MaxInputs

Unset == [wish |-> FALSE, pac |-> FALSE]

\* Both workers read what they are to show before they take a command, and may fail.
Init ==
  /\ running = FALSE /\ unseen = FALSE
  /\ core = <<>>
  /\ mihomo = [active |-> FALSE, commands |-> <<FALSE>>, events |-> <<>>]
  /\ desktop = "off"
  /\ file \in Settings
  /\ \E available \in BOOLEAN, value \in {file, Unset} :
       LET view == [Unknown EXCEPT !.available = available] IN
       /\ proxy = [commands |-> <<>>, call |-> None, view |-> view,
                   events |-> <<[view |-> view]>>]
       /\ saver = [commands |-> <<>>, plan |-> None, value |-> value, events |-> <<value>>]
       /\ gaps = IF value = file THEN {} ELSE {"unshown"}
       /\ inputs = (IF available THEN 0 ELSE 1) + (IF value = file THEN 0 ELSE 1)
  /\ snapshot = [running |-> FALSE, mihomo |-> "none", view |-> Unknown, settings |-> Unset]
  /\ asked = file.wish

-----------------------------------------------------------------------------
(* Channels                                                                *)

\* What try_send makes of a channel, message by message.
Sent(channel, messages) ==
  LET all == channel \o messages IN
  SubSeq(all, 1, IF Len(all) < Capacity THEN Len(all) ELSE Capacity)

Fits(channel, messages) == Len(channel) + Len(messages) <= Capacity

Relaying(channel, state) == IF Len(channel) < Relayed THEN Append(channel, state) ELSE channel

-----------------------------------------------------------------------------
(* Inputs                                                                  *)

Input ==
  /\ inputs < MaxInputs
  /\ inputs' = inputs + 1

\* The system proxy, the desktop or the disk fails.
Fails(gap) == Input /\ gaps' = gaps \cup {gap}

Fine == UNCHANGED <<gaps, inputs>>

Dropping(complete) == gaps' = IF complete THEN gaps ELSE gaps \cup {"dropped"}

-----------------------------------------------------------------------------
(* The core                                                                *)

\* The core supervisor publishes a state.
CorePublishes ==
  /\ Input
  /\ \E now \in BOOLEAN : running' = now
  /\ unseen' = TRUE
  /\ UNCHANGED <<core, mihomo, proxy, saver, desktop, file, snapshot, asked, gaps>>

\* relay_core_states: a watch shows only the last of several states.
Relay ==
  /\ unseen
  /\ Len(core) < Relayed
  /\ core' = Append(core, running)
  /\ unseen' = FALSE
  /\ UNCHANGED <<running, mihomo, proxy, saver, desktop, file, snapshot, asked, gaps, inputs>>

-----------------------------------------------------------------------------
(* The Mihomo worker                                                       *)

\* handle_core_state: a new core is connected to, a lost one forgotten.
MihomoFollowsCore ==
  /\ mihomo.commands # <<>>
  /\ LET up == Head(mihomo.commands)
         rest == Tail(mihomo.commands) IN
     mihomo' = [active |-> up, commands |-> rest,
                events |-> IF up # mihomo.active THEN Relaying(mihomo.events, "none")
                           ELSE mihomo.events]
  /\ UNCHANGED <<running, unseen, core, proxy, saver, desktop, file, snapshot, asked, gaps, inputs>>

\* A poll, a stream or a command: the controller answers or does not.
MihomoRefreshes ==
  /\ mihomo.active
  /\ \E state \in Connections : mihomo' = [mihomo EXCEPT !.events = Relaying(@, state)]
  /\ UNCHANGED <<running, unseen, core, proxy, saver, desktop, file, snapshot, asked, gaps, inputs>>

-----------------------------------------------------------------------------
(* The system proxy worker                                                 *)

TakeProxyCommand ==
  /\ proxy.call = None
  /\ proxy.commands # <<>>
  /\ Len(proxy.events) < Capacity
  /\ LET busy == [proxy.view EXCEPT !.busy = TRUE] IN
     proxy' = [proxy EXCEPT !.commands = Tail(@), !.call = Head(proxy.commands),
                            !.view = busy, !.events = Append(@, [view |-> busy])]
  /\ UNCHANGED <<running, unseen, core, mihomo, saver, desktop, file, snapshot, asked, gaps, inputs>>

Finish(view, events) ==
  LET all == <<[view |-> view]>> \o events IN
  /\ proxy.call # None
  /\ Fits(proxy.events, all)
  /\ proxy' = [proxy EXCEPT !.call = None, !.view = view, !.events = @ \o all]

\* Mutant: only a proxy that was switched off is reported.
SucceedsQuietly ==
  /\ proxy.call \in Kinds => desktop = "off"
  /\ LET read == [available |-> TRUE, enabled |-> proxy.call # "off", busy |-> FALSE] IN
     Finish(read, IF proxy.call = "off" THEN <<[enabled |-> FALSE]>> ELSE <<>>)
  /\ desktop' = proxy.call
  /\ UNCHANGED <<running, unseen, core, mihomo, saver, file, snapshot, asked, gaps, inputs>>

\* SystemProxyService::enable refuses while something is enabled; then the status
\* is read, and may not be available.
ServiceSucceeds ==
  /\ proxy.call \in Kinds => desktop = "off"
  /\ LET changed == <<[enabled |-> proxy.call # "off"]>>
         read == [available |-> TRUE, enabled |-> proxy.call # "off", busy |-> FALSE] IN
     \/ Finish(read, changed) /\ Fine
     \/ Finish([proxy.view EXCEPT !.available = FALSE, !.busy = FALSE], changed) /\ Fails("failed")
  /\ desktop' = proxy.call
  /\ UNCHANGED <<running, unseen, core, mihomo, saver, file, snapshot, asked>>

\* Mutant: the failed operation still counts as busy.
FailsBusy ==
  /\ Finish(proxy.view, <<>>)
  /\ IF proxy.call \in Kinds /\ desktop # "off" THEN Fine ELSE Fails("failed")
  /\ UNCHANGED <<running, unseen, core, mihomo, saver, desktop, file, snapshot, asked>>

\* The operation fails; that enabling is refused is no failure of the system.
ServiceFails ==
  /\ Finish([proxy.view EXCEPT !.busy = FALSE], <<>>)
  /\ IF proxy.call \in Kinds /\ desktop # "off" THEN Fine ELSE Fails("failed")
  /\ UNCHANGED <<running, unseen, core, mihomo, saver, desktop, file, snapshot, asked>>

-----------------------------------------------------------------------------
(* The settings worker                                                     *)

\* The settings are published as the worker holds them; then the plan goes on.
Publish(value, plan) ==
  /\ Len(saver.events) < Capacity
  /\ saver' = [saver EXCEPT !.plan = plan, !.value = value, !.events = Append(@, value),
                            !.commands = IF saver.plan = None THEN Tail(@) ELSE @]

\* persist_system_proxy: read, modify, write.
PersistSystemProxy ==
  /\ saver.plan = None
  /\ saver.commands # <<>>
  /\ "persist" \in DOMAIN Head(saver.commands)
  /\ LET saved == [file EXCEPT !.wish = Head(saver.commands).persist] IN
     \/ file' = saved /\ Publish(saved, None) /\ Fine
     \/ Publish(saver.value, None) /\ Fails("failed") /\ UNCHANGED file
  /\ UNCHANGED <<running, unseen, core, mihomo, proxy, desktop, snapshot, asked>>

\* apply publishes `busy' before it executes the plan.
TakeSettings ==
  /\ saver.plan = None
  /\ saver.commands # <<>>
  /\ "apply" \in DOMAIN Head(saver.commands)
  /\ Publish(saver.value, Head(saver.commands).apply)
  /\ UNCHANGED <<running, unseen, core, mihomo, proxy, desktop, file, snapshot, asked, gaps, inputs>>

\* SettingsChangePlan::execute replaces all the settings; when the deployment of
\* the runtime fails it restores them, which may fail too.
ApplySettings ==
  /\ saver.plan # None
  /\ \/ /\ file' = saver.plan
        /\ Publish(saver.plan, None)
        /\ gaps' = IF saver.plan.wish = file.wish THEN gaps ELSE gaps \cup {"overwritten"}
        /\ UNCHANGED inputs
     \/ Publish(saver.value, None) /\ Fine /\ UNCHANGED file
     \/ Publish(saver.value, None) /\ Fails("unshown") /\ file' = saver.plan
  /\ UNCHANGED <<running, unseen, core, mihomo, proxy, desktop, snapshot, asked>>

-----------------------------------------------------------------------------
(* The coordinator                                                         *)

\* The commands of set_system_proxy(true): none when it is refused.
Enable(s) ==
  IF s.settings.pac THEN <<"pac">>
  ELSE IF s.running /\ s.mihomo # "none" THEN <<"manual">> ELSE <<>>

\* ensure_desired_system_proxy.
Ensure(s) ==
  IF /\ s.settings.wish
     /\ s.view.available /\ ~s.view.enabled /\ ~s.view.busy
     /\ s.settings.pac \/ s.mihomo = "ready"
  THEN Enable(s) ELSE <<>>

PassOn(commands) == proxy' = [proxy EXCEPT !.commands = Sent(@, commands)]

\* SetSystemProxy: every button toggles what its snapshot shows, which may be older
\* than the coordinator's; the user learns whether the order is accepted.
UserSetsProxy ==
  /\ Input
  /\ \E on \in BOOLEAN :
       LET commands == IF on THEN Enable(snapshot) ELSE <<"off">> IN
       /\ commands # <<>>
       /\ Fits(proxy.commands, commands)
       /\ PassOn(commands)
       /\ asked' = on
       /\ gaps' = IF on = ~snapshot.view.enabled /\ ~snapshot.view.busy THEN gaps
                  ELSE gaps \cup {"stale"}
  /\ UNCHANGED <<running, unseen, core, mihomo, saver, desktop, file, snapshot>>

\* ApplySettings: the user changes some settings of the snapshot and sends all.
UserAppliesSettings ==
  /\ Input
  /\ Len(saver.commands) < Capacity
  /\ \E pac \in BOOLEAN :
       saver' = [saver EXCEPT !.commands =
                   Append(@, [apply |-> [snapshot.settings EXCEPT !.pac = pac]])]
  /\ UNCHANGED <<running, unseen, core, mihomo, proxy, desktop, file, snapshot, asked, gaps>>

\* An enabled proxy that the coordinator has not been told of.
EnablingUnseen ==
  ~snapshot.view.enabled /\
    \/ desktop # "off"
    \/ proxy.call \in Kinds
    \/ \E i \in DOMAIN proxy.commands : proxy.commands[i] \in Kinds

\* Mutant: a stopped core leaves the proxy alone.
CoreEventKeepsProxy ==
  /\ core # <<>>
  /\ core' = Tail(core)
  /\ LET up == Head(core) IN
     /\ snapshot' = [snapshot EXCEPT !.running = up]
     /\ mihomo' = [mihomo EXCEPT !.commands = Relaying(@, up)]
     /\ gaps' = gaps \cup {g \in {"dropped", "late"} :
                  IF g = "late" THEN ~up /\ EnablingUnseen ELSE Len(mihomo.commands) >= Relayed}
  /\ UNCHANGED <<running, unseen, proxy, saver, desktop, file, asked, inputs>>

\* handle_core_event: without a core a proxy known to be on is switched off.
HandleCoreEvent ==
  /\ core # <<>>
  /\ core' = Tail(core)
  /\ LET up == Head(core)
         off == IF ~up /\ snapshot.view.enabled THEN <<"off">> ELSE <<>> IN
     /\ snapshot' = [snapshot EXCEPT !.running = up]
     /\ mihomo' = [mihomo EXCEPT !.commands = Relaying(@, up)]
     /\ PassOn(off)
     /\ gaps' = gaps \cup {g \in {"dropped", "late"} :
                  IF g = "late" THEN ~up /\ EnablingUnseen
                  ELSE ~(Len(mihomo.commands) < Relayed /\ Fits(proxy.commands, off))}
  /\ UNCHANGED <<running, unseen, saver, desktop, file, asked, inputs>>

\* handle_mihomo_event.  The select is biased: core events come first, then
\* Mihomo's, the proxy's and the settings'.
HandleMihomoEvent ==
  /\ core = <<>>
  /\ mihomo.events # <<>>
  /\ mihomo' = [mihomo EXCEPT !.events = Tail(@)]
  /\ snapshot' = [snapshot EXCEPT !.mihomo = Head(mihomo.events)]
  /\ PassOn(Ensure(snapshot'))
  /\ Dropping(Fits(proxy.commands, Ensure(snapshot')))
  /\ UNCHANGED <<running, unseen, core, saver, desktop, file, asked, inputs>>

\* handle_system_proxy_event.
HandleProxyEvent ==
  /\ core = <<>> /\ mihomo.events = <<>>
  /\ proxy.events # <<>>
  /\ proxy' = [proxy EXCEPT !.events = Tail(@)]
  /\ LET event == Head(proxy.events) IN
     \/ /\ "view" \in DOMAIN event
        /\ snapshot' = [snapshot EXCEPT !.view = event.view]
        /\ UNCHANGED <<saver, gaps>>
     \/ /\ "enabled" \in DOMAIN event
        /\ LET persist == <<[persist |-> event.enabled]>> IN
           /\ saver' = [saver EXCEPT !.commands = Sent(@, persist)]
           /\ Dropping(Fits(saver.commands, persist))
        /\ UNCHANGED snapshot
  /\ UNCHANGED <<running, unseen, core, mihomo, desktop, file, asked, inputs>>

\* handle_settings_event: a proxy that is on is given a changed target.
HandleSettingsEvent ==
  /\ core = <<>> /\ mihomo.events = <<>> /\ proxy.events = <<>>
  /\ saver.events # <<>>
  /\ saver' = [saver EXCEPT !.events = Tail(@)]
  /\ snapshot' = [snapshot EXCEPT !.settings = Head(saver.events)]
  /\ LET reapply == /\ snapshot.settings.pac # snapshot'.settings.pac
                    /\ snapshot.view.enabled
         commands == (IF reapply THEN <<"off">> \o Enable(snapshot') ELSE <<>>)
                       \o Ensure(snapshot') IN
     /\ PassOn(commands)
     /\ Dropping(Fits(proxy.commands, commands))
  /\ UNCHANGED <<running, unseen, core, mihomo, desktop, file, asked, inputs>>

Next ==
  \/ CorePublishes \/ Relay
  \/ MihomoFollowsCore \/ MihomoRefreshes
  \/ TakeProxyCommand \/ ServiceSucceeds \/ ServiceFails
  \/ PersistSystemProxy \/ TakeSettings \/ ApplySettings
  \/ UserSetsProxy \/ UserAppliesSettings
  \/ HandleCoreEvent \/ HandleMihomoEvent \/ HandleProxyEvent \/ HandleSettingsEvent

Spec == Init /\ [][Next]_vars

-----------------------------------------------------------------------------
(* Properties                                                              *)

\* Nothing is under way.
Quiet ==
  /\ ~unseen /\ core = <<>>
  /\ mihomo.commands = <<>> /\ mihomo.events = <<>>
  /\ proxy.commands = <<>> /\ proxy.call = None /\ proxy.events = <<>>
  /\ saver.commands = <<>> /\ saver.plan = None /\ saver.events = <<>>

\* Once everything has been delivered the snapshot the user sees is the truth: the
\* core, the settings file and, when its status could be read, the system proxy;
\* nothing is shown as busy.  Settings that could not be read or put back are the exception.
ViewIsTrue ==
  Quiet => /\ ~snapshot.view.busy
           /\ snapshot.running = running
           /\ "unshown" \notin gaps => snapshot.settings = file
           /\ snapshot.view.available => (snapshot.view.enabled <=> desktop # "off")

\* A proxy that is on is on by the settings on the disk too, so that it is on again
\* after a restart: EnabledChanged reaches settings.yaml.
WishIsKept ==
  Quiet /\ gaps \subseteq {"late", "stale"} /\ desktop # "off" => file.wish

\* Without a core the desktop is not left pointing at its port: handle_core_event
\* has switched the proxy off, unless it was being switched on just then ("late").
ProxyNeedsCore ==
  Quiet /\ gaps \subseteq {"overwritten", "stale"} /\ ~running => desktop # "manual"

\* A system proxy that the user has switched off stays off.
OffStaysOff ==
  Quiet /\ gaps = {} /\ ~asked => desktop = "off"

=============================================================================

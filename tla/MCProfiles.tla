------------------------------ MODULE MCProfiles ------------------------------
(***************************************************************************)
(* The profiles in one run: the profile worker and its catalogue           *)
(* (ProfileCatalog), and the configurations that are made of them          *)
(* (EnhancementPipeline).  A behaviour is one of a single part; the other  *)
(* rests in an initial state, so that its properties hold of it.           *)
(*                                                                         *)
(* One kind of enhancement stands for the four in the catalogue.  The      *)
(* pipeline has sources that set fields of the control plane and refer to  *)
(* what is missing, edits and merges that add to one list and delete from  *)
(* another.                                                                *)
(***************************************************************************)
EXTENDS ProfileCatalog, TLC

CONSTANTS Profiles, Globals, Settings, Chains    \* of EnhancementPipeline

MCLinkedKinds == {"merge"}

MCIntervals == {"none", "timer"}

Symmetry == Permutations(Uids)

-----------------------------------------------------------------------------
Proxy(name, dialer) == [name |-> name, legacy |-> TRUE, dialer |-> dialer]

Group(name, type, proxies, use) ==
  [name |-> name, type |-> type, proxies |-> proxies, use |-> use]

Greedy ==
  ("mode" :> "script") @@ ("socks-port" :> 1) @@ ("external-controller" :> "any")
  @@ ("tun" :> (("enable" :> TRUE) @@ ("device" :> "other")))
  @@ ("dns" :> ("mode" :> "normal"))
  @@ ("interface-name" :> "source")
  @@ ("proxies" :> <<Proxy("p1", "p2"), Proxy("p2", None)>>)
  @@ ("proxy-groups" :> <<Group("g1", "url-test", <<"p1", "gone">>, {}),
                          Group("g2", "select", <<"p2", "g1", "p3">>, {})>>)
  @@ ("rules" :> <<"r1", "r2">>)

Plain ==
  ("bind-address" :> "loopback")
  @@ ("proxies" :> <<Proxy("p1", None)>>)
  @@ ("proxy-providers" :> {"q"})
  @@ ("proxy-groups" :> <<Group("g1", "select", <<"far">>, {"q", "lost"})>>)

NoEdit == [prepend |-> <<>>, append |-> <<>>, delete |-> {}]

NoEdits == [rules |-> NoEdit, proxies |-> NoEdit, groups |-> NoEdit]

Edits ==
  [rules |-> [prepend |-> <<"r0">>, append |-> <<"r9">>, delete |-> {"r1"}],
   proxies |-> [prepend |-> <<Proxy("p3", "p1")>>, append |-> <<Proxy("p4", None)>>,
                delete |-> {"p2"}],
   groups |-> [prepend |-> <<>>, delete |-> {},
               append |-> <<Group("g3", "select", <<"p2", "p3">>, {})>>]]

Replacing ==
  ("proxies" :> <<Proxy("p9", None)>>) @@ ("mixed-port" :> 9)
  @@ ("tun" :> ("enable" :> TRUE)) @@ ("ipv6" :> TRUE)

Adding ==
  ("proxy-groups" :> <<Group("g8", "select", <<"nowhere", "p1">>, {})>>)
  @@ ("socks-port" :> 8) @@ ("dns" :> ("enable" :> FALSE))

SomeProfiles ==
  {edits @@ ("source" :> source) @@ ("merge" :> merge) :
     edits \in {NoEdits, Edits}, source \in {Greedy, Plain},
     merge \in {None, Replacing, Adding}}

SomeGlobals == {None, Replacing, Adding}

Common == ("mixed-port" :> 1) @@ ("allow-lan" :> TRUE) @@ ("ipv6" :> TRUE)

SomeSettings ==
  {Common @@ ("dns" :> "fake-ip") @@ ("tun" :> TRUE) @@ ("socks-port" :> 2),
   Common @@ ("dns" :> "redir-host") @@ ("tun" :> FALSE)
   @@ ("external-controller" :> "local") @@ ("interface-name" :> "eth0")}

SomeChains == {<<>>, <<"p1", "p2">>, <<"p2", "p1">>, <<"p3", "p1", "p2">>}

-----------------------------------------------------------------------------
VARIABLES
  part,                                     \* the part in play
  config, settings, active, asBuilt, chain  \* of EnhancementPipeline

Pipeline == INSTANCE EnhancementPipeline WITH runtime <- config

ASSUME InputsAssumption == Pipeline!PipelineAssumption

ofPipeline == <<config, settings, active, asBuilt, chain>>
allVars == <<part, vars, ofPipeline>>

ProfilesInit ==
  /\ Init /\ Pipeline!Init
  /\ part \in {"catalogue", "pipeline"}
  /\ part # "catalogue" => order = <<>>

CatalogueNext == part = "catalogue" /\ Next /\ UNCHANGED <<part, ofPipeline>>
PipelineNext == part = "pipeline" /\ Pipeline!Next /\ UNCHANGED <<part, vars>>

ProfilesNext == CatalogueNext \/ PipelineNext

ProfilesSpec == ProfilesInit /\ [][ProfilesNext]_allVars

\* Of ProfileCatalog: between two operations the runtime is the one that the present files
\* of the current profile make, unless it is excused until the next deployment.
RuntimeFollowsCatalogue == TypeOK /\ RuntimeIsCurrentProfile

\* Of EnhancementPipeline: activating the same profile again changes nothing.
ActivationIsStable == part = "pipeline" => Pipeline!ActivationIsStable

\* Of EnhancementPipeline: the settings win over sources and merges, groups name what
\* exists, and the proxies of a chain end at one that is dialled directly.
RuntimeIsUsable ==
  part = "pipeline" =>
    Pipeline!SettingsWin /\ Pipeline!GroupReferencesExist /\ Pipeline!ChainsEnd
=============================================================================

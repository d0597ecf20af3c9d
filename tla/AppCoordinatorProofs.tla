-------------------------- MODULE AppCoordinatorProofs --------------------------
(***************************************************************************)
(* The snapshot that the user sees ends up true, the wish for the proxy is *)
(* kept on the disk and the proxy does not outlive its core: for any       *)
(* capacity of the channels and any number of inputs.                      *)
(*                                                                         *)
(* The properties speak of states in which nothing is under way, and none  *)
(* is inductive.  What a worker holds and the coordinator does not know    *)
(* yet is the last message of its kind in the channel between them         *)
(* (Follows); for the wish there are two channels, one behind the other    *)
(* (WishFollows).  Without a core, whatever enables the proxy at the       *)
(* core's port is followed by an order to switch it off (OffFollows).      *)
(***************************************************************************)
EXTENDS MCAppCoordinator, SequenceTheorems, TLAPS

Views == [view : View]
Changes == [enabled : BOOLEAN]
Persists == [persist : BOOLEAN]
Applies == [apply : Settings]

Snapshots == [running : BOOLEAN, mihomo : Connections, view : View, settings : Settings]

\* TypeOK with whole records.
MihomoTyped(m) ==
  /\ m \in [active : BOOLEAN, commands : Seq(BOOLEAN), events : Seq(Connections)]
  /\ Len(m.commands) <= Relayed /\ Len(m.events) <= Relayed

ProxyTyped(p) ==
  /\ p \in [commands : Seq(ProxyCommands), call : ProxyCommands \cup {None},
            view : View, events : Seq(ProxyEvents)]
  /\ Len(p.commands) <= Capacity /\ Len(p.events) <= Capacity

SaverTyped(s) ==
  /\ s \in [commands : Seq(SaverCommands), plan : Settings \cup {None},
            value : Settings, events : Seq(Settings)]
  /\ Len(s.commands) <= Capacity /\ Len(s.events) <= Capacity

CoreTyped ==
  /\ running \in BOOLEAN /\ unseen \in BOOLEAN
  /\ core \in Seq(BOOLEAN) /\ Len(core) <= Relayed

HistoryTyped ==
  /\ asked \in BOOLEAN
  /\ gaps \subseteq {"dropped", "failed", "late", "overwritten", "stale", "unshown"}
  /\ inputs \in 0..MaxInputs

Typed ==
  /\ CoreTyped /\ MihomoTyped(mihomo) /\ ProxyTyped(proxy) /\ SaverTyped(saver)
  /\ HistoryTyped
  /\ desktop \in ProxyCommands /\ file \in Settings /\ snapshot \in Snapshots

\* The last message of a kind in a channel, and a channel with none.
Ends(channel, kind, message) ==
  \E i \in 1 .. Len(channel) :
    channel[i] = message /\ \A j \in i + 1 .. Len(channel) : channel[j] \notin kind

Lacks(channel, kind) == \A i \in 1 .. Len(channel) : channel[i] \notin kind

\* The latest message of a kind is on its way, or has arrived.
Follows(channel, kind, latest, arrived) ==
  Ends(channel, kind, latest) \/ (Lacks(channel, kind) /\ arrived)

CoreFollows == ~unseen => Follows(core, BOOLEAN, running, snapshot.running = running)

ViewFollows ==
  /\ Follows(proxy.events, Views, [view |-> proxy.view], snapshot.view = proxy.view)
  /\ proxy.view.busy <=> proxy.call # None
  /\ proxy.view.available => (proxy.view.enabled <=> desktop # "off")

SettingsFollow ==
  /\ Follows(saver.events, Settings, saver.value, snapshot.settings = saver.value)
  /\ "unshown" \notin gaps => saver.value = file

On == desktop # "off"

\* What the desktop has is told to the coordinator, and by it to the settings worker.
WishFollows ==
  gaps \subseteq {"late", "stale"} =>
    Follows(proxy.events, Changes, [enabled |-> On],
            Follows(saver.commands, Persists, [persist |-> On], On => file.wish))

\* Every "manual" is followed by an "off".
Covered(c) ==
  \A i \in 1 .. Len(c) : c[i] = "manual" => \E j \in i + 1 .. Len(c) : c[j] = "off"

HasOff(commands) == \E i \in 1 .. Len(commands) : commands[i] = "off"

\* Without a core, that goes for what the worker holds and for the desktop as well.
OffFollows ==
  gaps \subseteq {"overwritten", "stale"} /\ ~snapshot.running =>
    /\ Covered(proxy.commands)
    /\ proxy.call = "manual" => HasOff(proxy.commands)
    /\ desktop = "manual" => proxy.call = "off" \/ HasOff(proxy.commands)

\* The inductive invariant.
CoordinatorInv ==
  Typed /\ CoreFollows /\ ViewFollows /\ SettingsFollow /\ WishFollows /\ OffFollows

-----------------------------------------------------------------------------
(* Channels                                                                *)

LEMMA AfterAppend ==
  ASSUME NEW M, NEW c \in Seq(M), NEW x \in M, NEW kind
  PROVE  /\ Ends(Append(c, x), kind, x)
         /\ x \notin kind => \A e : Ends(c, kind, e) => Ends(Append(c, x), kind, e)
         /\ x \notin kind /\ Lacks(c, kind) => Lacks(Append(c, x), kind)
<1> DEFINE d == Append(c, x)
<1>1. /\ Len(c) \in Nat /\ Len(d) = Len(c) + 1
      /\ \A i \in 1 .. Len(c) : d[i] = c[i]
      /\ d[Len(c) + 1] = x
  BY AppendProperties, LenProperties
<1> HIDE DEF d
<1>2. Ends(d, kind, x)
  BY <1>1 DEF Ends
<1>3. ASSUME x \notin kind, NEW e, Ends(c, kind, e) PROVE Ends(d, kind, e)
  <2>1. PICK i \in 1 .. Len(c) : c[i] = e /\ \A j \in i + 1 .. Len(c) : c[j] \notin kind
    BY <1>3 DEF Ends
  <2>2. i \in 1 .. Len(d) /\ d[i] = e
    BY <1>1, <2>1
  <2>3. \A j \in i + 1 .. Len(d) :
          j = Len(c) + 1 \/ (j \in i + 1 .. Len(c) /\ j \in 1 .. Len(c))
    BY <1>1, <2>1
  <2>4. \A j \in i + 1 .. Len(d) : d[j] \notin kind
    BY <1>1, <1>3, <2>1, <2>3
  <2> QED BY <2>2, <2>4 DEF Ends
<1>4. ASSUME x \notin kind, Lacks(c, kind) PROVE Lacks(d, kind)
  <2>1. \A j \in 1 .. Len(d) : j = Len(c) + 1 \/ j \in 1 .. Len(c)
    BY <1>1
  <2> QED BY <1>1, <1>4, <2>1 DEF Lacks
<1> QED BY <1>2, <1>3, <1>4 DEF d

LEMMA AfterTail ==
  ASSUME NEW M, NEW c \in Seq(M), c # <<>>, NEW kind
  PROVE  /\ Lacks(c, kind) => Lacks(Tail(c), kind) /\ Head(c) \notin kind
         /\ \A e : Ends(c, kind, e) =>
              Ends(Tail(c), kind, e) \/ (Lacks(Tail(c), kind) /\ Head(c) = e)
<1> DEFINE d == Tail(c)
<1>1. /\ Len(c) \in Nat /\ Len(c) >= 1 /\ Len(d) = Len(c) - 1
      /\ \A i \in 1 .. Len(d) : d[i] = c[i + 1]
      /\ Head(c) = c[1]
  BY HeadTailProperties, LenProperties, EmptySeq
<1> HIDE DEF d
<1>2. \A i \in 1 .. Len(d) : i + 1 \in 1 .. Len(c)
  BY <1>1
<1>3. ASSUME Lacks(c, kind) PROVE Lacks(d, kind) /\ Head(c) \notin kind
  BY <1>1, <1>2, <1>3 DEF Lacks
<1>4. ASSUME NEW e, Ends(c, kind, e) PROVE Ends(d, kind, e) \/ (Lacks(d, kind) /\ Head(c) = e)
  <2>1. PICK i \in 1 .. Len(c) : c[i] = e /\ \A j \in i + 1 .. Len(c) : c[j] \notin kind
    BY <1>4 DEF Ends
  <2>2. CASE i = 1
    <3>1. \A j \in 1 .. Len(d) : j + 1 \in i + 1 .. Len(c)
      BY <1>1, <2>2
    <3> QED BY <1>1, <2>1, <2>2, <3>1 DEF Lacks
  <2>3. CASE i # 1
    <3>1. i - 1 \in 1 .. Len(d) /\ (i - 1) + 1 = i
      BY <1>1, <2>3
    <3>2. d[i - 1] = e
      BY <1>1, <2>1, <3>1
    <3>3. \A j \in (i - 1) + 1 .. Len(d) : j \in 1 .. Len(d) /\ j + 1 \in i + 1 .. Len(c)
      BY <1>1, <2>3
    <3>4. \A j \in (i - 1) + 1 .. Len(d) : d[j] \notin kind
      BY <1>1, <2>1, <3>3
    <3> QED BY <3>1, <3>2, <3>4 DEF Ends
  <2> QED BY <2>2, <2>3
<1> QED BY <1>3, <1>4 DEF d

LEMMA Empty ==
  ASSUME NEW c, c = <<>>
  PROVE  \A kind : Lacks(c, kind) /\ \A e : ~Ends(c, kind, e)
BY EmptySeq DEF Lacks, Ends

LEMMA LacksBoth ==
  ASSUME NEW M, NEW c \in Seq(M), NEW d \in Seq(M)
  PROVE  c \o d \in Seq(M) /\ \A kind : Lacks(c, kind) /\ Lacks(d, kind) => Lacks(c \o d, kind)
<1>1. /\ c \o d \in Seq(M) /\ Len(c \o d) = Len(c) + Len(d)
      /\ Len(c) \in Nat /\ Len(d) \in Nat
      /\ \A i \in 1 .. Len(c) + Len(d) :
           (c \o d)[i] = IF i <= Len(c) THEN c[i] ELSE d[i - Len(c)]
  BY ConcatProperties, LenProperties
<1>2. ASSUME NEW kind, Lacks(c, kind), Lacks(d, kind), NEW i \in 1 .. Len(c \o d)
      PROVE  (c \o d)[i] \notin kind
  <2>1. CASE i <= Len(c)
    BY <1>1, <1>2, <2>1 DEF Lacks
  <2>2. CASE ~(i <= Len(c))
    <3>1. i - Len(c) \in 1 .. Len(d)
      BY <1>1, <2>2
    <3> QED BY <1>1, <1>2, <2>2, <3>1 DEF Lacks
  <2> QED BY <2>1, <2>2
<1> QED BY <1>1, <1>2 DEF Lacks

LEMMA Appended ==
  ASSUME NEW M, NEW c \in Seq(M), NEW x \in M
  PROVE  Append(c, x) \in Seq(M) /\ Len(Append(c, x)) = Len(c) + 1 /\ Len(c) \in Nat
BY AppendProperties, LenProperties

LEMMA Taken ==
  ASSUME NEW M, NEW c \in Seq(M), c # <<>>
  PROVE  /\ Head(c) \in M /\ Tail(c) \in Seq(M) /\ Len(Tail(c)) = Len(c) - 1
         /\ Len(c) \in Nat /\ Len(c) >= 1
BY HeadTailProperties, LenProperties, EmptySeq

\* One or two messages at the end of a channel.
LEMMA OneMore ==
  ASSUME NEW M, NEW c \in Seq(M), NEW x \in M
  PROVE  c \o <<x>> = Append(c, x) /\ <<x>> \in Seq(M) /\ Len(<<x>>) = 1
BY AppendIsConcat

LEMMA TwoMore ==
  ASSUME NEW M, NEW c \in Seq(M), NEW x \in M, NEW y \in M
  PROVE  /\ c \o (<<x>> \o <<y>>) = Append(Append(c, x), y)
         /\ <<x>> \o <<y>> \in Seq(M) /\ Len(<<x>> \o <<y>>) = 2
<1>1. <<x>> \in Seq(M) /\ <<y>> \in Seq(M) /\ Len(<<x>>) = 1 /\ Len(<<y>>) = 1
  OBVIOUS
<1>2. c \o (<<x>> \o <<y>>) = (c \o <<x>>) \o <<y>>
  BY <1>1, ConcatAssociative
<1>3. c \o <<x>> = Append(c, x) /\ Append(c, x) \in Seq(M)
  BY AppendIsConcat, AppendProperties
<1>4. Append(c, x) \o <<y>> = Append(Append(c, x), y)
  BY <1>3, AppendIsConcat
<1>5. <<x>> \o <<y>> \in Seq(M) /\ Len(<<x>> \o <<y>>) = 2
  BY <1>1, ConcatProperties
<1> QED BY <1>2, <1>3, <1>4, <1>5

\* What fits is sent; the rest is dropped.
LEMMA SentIs ==
  ASSUME NEW M, NEW c \in Seq(M), NEW m \in Seq(M), Len(c) <= Capacity
  PROVE  /\ Sent(c, m) \in Seq(M) /\ Len(Sent(c, m)) <= Capacity
         /\ Fits(c, m) => Sent(c, m) = c \o m
<1> DEFINE all == c \o m
           n == IF Len(all) < Capacity THEN Len(all) ELSE Capacity
<1>1. all \in Seq(M) /\ Len(all) = Len(c) + Len(m) /\ Len(c) \in Nat /\ Len(m) \in Nat
  BY ConcatProperties, LenProperties
<1>2. Capacity \in Nat
  BY ConstantsAssumption
<1>3. Sent(c, m) = SubSeq(all, 1, n)
  BY DEF Sent
<1> HIDE DEF all
<1>4. n \in Nat /\ n <= Len(all) /\ n <= Capacity
  BY <1>1, <1>2
<1>5. \A i \in 1 .. n : all[i] \in M
  BY <1>1, <1>4, ElementOfSeq
<1>6. SubSeq(all, 1, n) \in Seq(M) /\ Len(SubSeq(all, 1, n)) = n
  <2>1. /\ SubSeq(all, 1, n) \in Seq(M)
        /\ Len(SubSeq(all, 1, n)) = IF 1 <= n THEN n - 1 + 1 ELSE 0
    BY <1>4, <1>5, SubSeqProperties
  <2> QED BY <1>4, <2>1
<1>7. ASSUME Fits(c, m) PROVE SubSeq(all, 1, n) = all
  <2>1. n = Len(all)
    BY <1>1, <1>2, <1>7 DEF Fits
  <2> QED BY <1>1, <2>1, SubSeqFull
<1> QED BY <1>3, <1>4, <1>6, <1>7 DEF all

LEMMA RelayingIs ==
  ASSUME NEW M, NEW c \in Seq(M), NEW x \in M, Len(c) <= Relayed
  PROVE  Relaying(c, x) \in Seq(M) /\ Len(Relaying(c, x)) <= Relayed
<1>1. Append(c, x) \in Seq(M) /\ Len(Append(c, x)) = Len(c) + 1 /\ Len(c) \in Nat
  BY Appended
<1>2. Relayed \in Nat
  BY ConstantsAssumption
<1> QED BY <1>1, <1>2 DEF Relaying

-----------------------------------------------------------------------------
(* Messages                                                                *)

\* Every message is of one kind.
LEMMA EventKinds ==
  /\ \A v \in View : [view |-> v] \in Views /\ [view |-> v] \notin Changes
  /\ \A b \in BOOLEAN : [enabled |-> b] \in Changes /\ [enabled |-> b] \notin Views
  /\ Views \subseteq ProxyEvents /\ Changes \subseteq ProxyEvents
BY DEF Views, Changes, ProxyEvents

LEMMA EventIs ==
  ASSUME NEW e \in ProxyEvents
  PROVE  /\ "view" \in DOMAIN e => e \in Views /\ e \notin Changes /\ e.view \in View
                                   /\ e = [view |-> e.view]
         /\ "enabled" \in DOMAIN e => e \in Changes /\ e \notin Views /\ e.enabled \in BOOLEAN
                                      /\ e = [enabled |-> e.enabled]
<1>1. CASE e \in Views
  BY <1>1 DEF Views, Changes
<1>2. CASE e \in Changes
  BY <1>2 DEF Views, Changes
<1> QED BY <1>1, <1>2 DEF ProxyEvents, Views, Changes

LEMMA OrderKinds ==
  /\ \A b \in BOOLEAN : [persist |-> b] \in Persists
  /\ \A s \in Settings : [apply |-> s] \in Applies /\ [apply |-> s] \notin Persists
  /\ Persists \subseteq SaverCommands /\ Applies \subseteq SaverCommands
BY DEF Persists, Applies, SaverCommands

LEMMA OrderIs ==
  ASSUME NEW o \in SaverCommands
  PROVE  /\ "persist" \in DOMAIN o => o \in Persists /\ o.persist \in BOOLEAN
                                      /\ o = [persist |-> o.persist]
         /\ "apply" \in DOMAIN o => o \notin Persists /\ o.apply \in Settings
<1>1. CASE o \in Persists
  BY <1>1 DEF Persists, Applies
<1>2. CASE o \in Applies
  BY <1>2 DEF Persists, Applies
<1> QED BY <1>1, <1>2 DEF SaverCommands, Persists, Applies

\* What the coordinator orders: nothing enables the core's port without a core.
LEMMA OrdersAre ==
  ASSUME NEW s \in Snapshots
  PROVE  /\ Enable(s) \in Seq(ProxyCommands) /\ Ensure(s) \in Seq(ProxyCommands)
         /\ ~s.running => Lacks(Enable(s), {"manual"}) /\ Lacks(Ensure(s), {"manual"})
<1>1. <<"pac">> \in Seq(ProxyCommands) /\ <<"manual">> \in Seq(ProxyCommands)
      /\ <<>> \in Seq(ProxyCommands)
  BY DEF ProxyCommands, Kinds
<1>2. Lacks(<<"pac">>, {"manual"}) /\ Lacks(<<>>, {"manual"})
  BY DEF Lacks
<1>3. Enable(s) \in Seq(ProxyCommands) /\ (~s.running => Lacks(Enable(s), {"manual"}))
  BY <1>1, <1>2 DEF Enable
<1> QED BY <1>1, <1>2, <1>3 DEF Ensure

LEMMA PassedOn ==
  ASSUME Typed, NEW m \in Seq(ProxyCommands), PassOn(m)
  PROVE  /\ ProxyTyped(proxy')
         /\ proxy'.call = proxy.call /\ proxy'.view = proxy.view /\ proxy'.events = proxy.events
         /\ Fits(proxy.commands, m) => proxy'.commands = proxy.commands \o m
<1>1. proxy.commands \in Seq(ProxyCommands) /\ Len(proxy.commands) <= Capacity
  BY DEF Typed, ProxyTyped
<1>2. /\ Sent(proxy.commands, m) \in Seq(ProxyCommands)
      /\ Len(Sent(proxy.commands, m)) <= Capacity
      /\ Fits(proxy.commands, m) => Sent(proxy.commands, m) = proxy.commands \o m
  BY <1>1, SentIs
<1> QED BY <1>2 DEF Typed, PassOn, ProxyTyped

LEMMA CoveredMore ==
  ASSUME NEW c \in Seq(ProxyCommands), NEW m \in Seq(ProxyCommands)
  PROVE  /\ Lacks(m, {"manual"}) =>
              /\ Covered(c) => Covered(c \o m)
              /\ HasOff(c) => HasOff(c \o m)
         /\ Covered(c \o <<"off">>) /\ HasOff(c \o <<"off">>)
<1>1. \A n \in Seq(ProxyCommands) :
        /\ Len(c) \in Nat /\ Len(n) \in Nat /\ Len(c \o n) = Len(c) + Len(n)
        /\ \A i \in 1 .. Len(c) + Len(n) :
             (c \o n)[i] = IF i <= Len(c) THEN c[i] ELSE n[i - Len(c)]
  BY ConcatProperties, LenProperties
<1>2. ASSUME Lacks(m, {"manual"}), Covered(c) PROVE Covered(c \o m)
  <2> SUFFICES ASSUME NEW i \in 1 .. Len(c \o m), (c \o m)[i] = "manual"
               PROVE  \E j \in i + 1 .. Len(c \o m) : (c \o m)[j] = "off"
    BY DEF Covered
  <2>1. i <= Len(c)
    BY <1>1, <1>2 DEF Lacks
  <2>2. i \in 1 .. Len(c) /\ c[i] = "manual"
    BY <1>1, <2>1
  <2>3. PICK j \in i + 1 .. Len(c) : c[j] = "off"
    BY <1>2, <2>2 DEF Covered
  <2>4. j \in i + 1 .. Len(c \o m) /\ (c \o m)[j] = "off"
    BY <1>1, <2>2, <2>3
  <2> QED BY <2>4
<1>3. ASSUME HasOff(c) PROVE HasOff(c \o m)
  <2>1. PICK j \in 1 .. Len(c) : c[j] = "off"
    BY <1>3 DEF HasOff
  <2>2. j \in 1 .. Len(c \o m) /\ (c \o m)[j] = "off"
    BY <1>1, <2>1
  <2> QED BY <2>2 DEF HasOff
<1>4. <<"off">> \in Seq(ProxyCommands) /\ Len(<<"off">>) = 1
  BY DEF ProxyCommands
<1>5. /\ Len(c \o <<"off">>) = Len(c) + 1 /\ Len(c) \in Nat
      /\ (c \o <<"off">>)[Len(c) + 1] = "off"
  BY <1>1, <1>4
<1>6. HasOff(c \o <<"off">>)
  BY <1>5 DEF HasOff
<1>7. Covered(c \o <<"off">>)
  BY <1>5 DEF Covered
<1> QED BY <1>2, <1>3, <1>6, <1>7

LEMMA CoveredLess ==
  ASSUME NEW c \in Seq(ProxyCommands), c # <<>>, Covered(c)
  PROVE  /\ Covered(Tail(c))
         /\ Head(c) = "manual" => HasOff(Tail(c))
         /\ HasOff(c) => Head(c) = "off" \/ HasOff(Tail(c))
<1> DEFINE d == Tail(c)
<1>1. /\ Len(c) \in Nat /\ Len(c) >= 1 /\ Len(d) = Len(c) - 1
      /\ \A i \in 1 .. Len(d) : d[i] = c[i + 1]
      /\ Head(c) = c[1]
  BY HeadTailProperties, LenProperties, EmptySeq
<1> HIDE DEF d
<1>2. \A j \in 2 .. Len(c) : j - 1 \in 1 .. Len(d) /\ d[j - 1] = c[j]
  BY <1>1
<1>3. Covered(d)
  <2> SUFFICES ASSUME NEW i \in 1 .. Len(d), d[i] = "manual"
               PROVE  \E j \in i + 1 .. Len(d) : d[j] = "off"
    BY DEF Covered
  <2>1. i + 1 \in 1 .. Len(c) /\ c[i + 1] = "manual"
    BY <1>1
  <2>2. PICK j \in (i + 1) + 1 .. Len(c) : c[j] = "off"
    BY <2>1 DEF Covered
  <2>3. j - 1 \in i + 1 .. Len(d) /\ d[j - 1] = "off"
    BY <1>1, <1>2, <2>2
  <2> QED BY <2>3
<1>4. ASSUME Head(c) = "manual" PROVE HasOff(d)
  <2>1. PICK j \in 2 .. Len(c) : c[j] = "off"
    BY <1>1, <1>4 DEF Covered
  <2> QED BY <1>2, <2>1 DEF HasOff
<1>5. ASSUME HasOff(c), Head(c) # "off" PROVE HasOff(d)
  <2>1. PICK j \in 1 .. Len(c) : c[j] = "off"
    BY <1>5 DEF HasOff
  <2>2. j \in 2 .. Len(c)
    BY <1>1, <1>5, <2>1
  <2> QED BY <1>2, <2>1, <2>2 DEF HasOff
<1> QED BY <1>3, <1>4, <1>5 DEF d

-----------------------------------------------------------------------------
(* The invariant at the start and over the steps                           *)

LEMMA CoordinatorStarts == Init => CoordinatorInv
<1> SUFFICES ASSUME Init PROVE CoordinatorInv
  OBVIOUS
<1>1. PICK available \in BOOLEAN, value \in {file, Unset} :
        /\ proxy = [commands |-> <<>>, call |-> None,
                    view |-> [Unknown EXCEPT !.available = available],
                    events |-> <<[view |-> [Unknown EXCEPT !.available = available]]>>]
        /\ saver = [commands |-> <<>>, plan |-> None, value |-> value, events |-> <<value>>]
        /\ gaps = IF value = file THEN {} ELSE {"unshown"}
        /\ inputs = (IF available THEN 0 ELSE 1) + (IF value = file THEN 0 ELSE 1)
  BY DEF Init
<1> DEFINE view == [Unknown EXCEPT !.available = available]
<1>2. Unset \in Settings /\ file \in Settings /\ value \in Settings
  <2>1. Unset \in Settings
    BY DEF Unset, Settings
  <2> QED BY <1>1, <2>1 DEF Init
<1>3. Unknown \in View /\ view \in View /\ ~view.enabled /\ ~view.busy
  BY DEF Unknown, View
<1>4. [view |-> view] \in ProxyEvents /\ [view |-> view] \notin Changes
  BY <1>3, EventKinds
<1>5. proxy = [commands |-> <<>>, call |-> None, view |-> view, events |-> <<[view |-> view]>>]
  BY <1>1
<1> HIDE DEF view
<1>6. Typed
  <2>1. Len(<<>>) = 0 /\ \A M : <<>> \in Seq(M)
    BY EmptySeq
  <2>2. /\ <<FALSE>> \in Seq(BOOLEAN) /\ Len(<<FALSE>>) = 1
        /\ <<[view |-> view]>> \in Seq(ProxyEvents) /\ Len(<<[view |-> view]>>) = 1
        /\ <<value>> \in Seq(Settings) /\ Len(<<value>>) = 1
    BY <1>2, <1>4
  <2>3. Capacity \in Nat \ {0} /\ Relayed \in Nat \ {0} /\ MaxInputs \in Nat \ {0, 1}
    BY ConstantsAssumption
  <2>4. HistoryTyped
    <3>1. inputs \in 0 .. MaxInputs
      BY <1>1, <2>3
    <3>2. asked \in BOOLEAN
      BY <1>2 DEF Init, Settings
    <3> QED BY <1>1, <3>1, <3>2 DEF HistoryTyped
  <2>5. CoreTyped
    <3>1. core \in Seq(BOOLEAN) /\ Len(core) <= Relayed
      BY <2>1, <2>3 DEF Init
    <3> QED BY <3>1 DEF Init, CoreTyped
  <2>6. MihomoTyped(mihomo)
    BY <2>1, <2>2, <2>3 DEF Init, MihomoTyped
  <2>7. ProxyTyped(proxy)
    BY <1>3, <1>5, <2>1, <2>2, <2>3 DEF ProxyTyped
  <2>8. SaverTyped(saver)
    BY <1>1, <1>2, <2>1, <2>2, <2>3 DEF SaverTyped
  <2>9. snapshot \in Snapshots
    BY <1>2, <1>3 DEF Init, Snapshots, Connections
  <2> QED BY <1>2, <2>4, <2>5, <2>6, <2>7, <2>8, <2>9 DEF Init, Typed, ProxyCommands
<1>7. CoreFollows
  BY Empty DEF Init, CoreFollows, Follows
<1>8. ViewFollows
  <2>1. Ends(proxy.events, Views, [view |-> proxy.view])
    BY <1>5 DEF Ends
  <2> QED BY <1>3, <1>5, <2>1 DEF Init, ViewFollows, Follows
<1>9. SettingsFollow
  BY <1>1 DEF SettingsFollow, Follows, Ends
<1>10. WishFollows
  <2>1. Lacks(proxy.events, Changes)
    BY <1>4, <1>5 DEF Lacks
  <2>2. Lacks(saver.commands, Persists)
    BY <1>1, Empty
  <2> QED BY <2>1, <2>2 DEF Init, WishFollows, Follows, On
<1>11. OffFollows
  <2>1. Covered(proxy.commands)
    BY <1>1, EmptySeq DEF Covered
  <2>2. proxy.call # "manual"
    BY <1>1, ConstantsAssumption DEF ProxyCommands, Kinds
  <2> QED BY <2>1, <2>2 DEF Init, OffFollows
<1> QED BY <1>6, <1>7, <1>8, <1>9, <1>10, <1>11 DEF CoordinatorInv

\* What an input counts, and what a failure leaves.
LEMMA Counted ==
  ASSUME Typed
  PROVE  /\ Input => inputs' \in 0 .. MaxInputs
         /\ Fine => inputs' \in 0 .. MaxInputs
BY ConstantsAssumption DEF Typed, HistoryTyped, Input, Fine

LEMMA CorePublishesKeeps == ASSUME CoordinatorInv, CorePublishes PROVE CoordinatorInv'
<1>1. Typed'
  BY Counted DEF CoordinatorInv, CorePublishes, Typed, CoreTyped, HistoryTyped
<1>2. CoreFollows'
  BY DEF CorePublishes, CoreFollows
<1>3. ViewFollows' /\ SettingsFollow'
  BY DEF CoordinatorInv, CorePublishes, ViewFollows, SettingsFollow, Follows
<1>4. WishFollows' /\ OffFollows'
  BY DEF CoordinatorInv, CorePublishes, WishFollows, OffFollows, Follows, On
<1> QED BY <1>1, <1>2, <1>3, <1>4 DEF CoordinatorInv

LEMMA RelayKeeps == ASSUME CoordinatorInv, Relay PROVE CoordinatorInv'
<1>1. core \in Seq(BOOLEAN) /\ running \in BOOLEAN /\ Relayed \in Nat
  BY ConstantsAssumption DEF CoordinatorInv, Typed, CoreTyped
<1>2. Typed'
  <2>1. CoreTyped'
    <3>1. core' \in Seq(BOOLEAN) /\ Len(core') <= Relayed
      BY <1>1, Appended DEF Relay
    <3> QED BY <3>1 DEF CoordinatorInv, Relay, Typed, CoreTyped
  <2> QED BY <2>1 DEF CoordinatorInv, Relay, Typed, HistoryTyped
<1>3. CoreFollows'
  BY <1>1, AfterAppend DEF Relay, CoreFollows, Follows
<1>4. ViewFollows' /\ SettingsFollow'
  BY DEF CoordinatorInv, Relay, ViewFollows, SettingsFollow, Follows
<1>5. WishFollows' /\ OffFollows'
  BY DEF CoordinatorInv, Relay, WishFollows, OffFollows, Follows, On
<1> QED BY <1>2, <1>3, <1>4, <1>5 DEF CoordinatorInv

\* What the Mihomo worker does by itself.
LEMMA MihomoKeeps ==
  ASSUME CoordinatorInv, MihomoFollowsCore \/ MihomoRefreshes
  PROVE  CoordinatorInv'
<1>1. UNCHANGED <<running, unseen, core, proxy, saver, desktop, file, snapshot, asked, gaps,
                  inputs>>
  BY DEF MihomoFollowsCore, MihomoRefreshes
<1>2. MihomoTyped(mihomo)
  BY DEF CoordinatorInv, Typed
<1>3. \A state \in Connections : /\ Relaying(mihomo.events, state) \in Seq(Connections)
                                 /\ Len(Relaying(mihomo.events, state)) <= Relayed
  BY <1>2, RelayingIs DEF MihomoTyped
<1>4. MihomoTyped(mihomo)'
  <2>1. CASE MihomoRefreshes
    BY <1>2, <1>3, <2>1 DEF MihomoRefreshes, MihomoTyped
  <2>2. CASE MihomoFollowsCore
    <3>1. "none" \in Connections /\ Relayed \in Nat
      BY ConstantsAssumption DEF Connections
    <3>2. /\ Head(mihomo.commands) \in BOOLEAN /\ Tail(mihomo.commands) \in Seq(BOOLEAN)
          /\ Len(Tail(mihomo.commands)) <= Relayed
      BY <1>2, <2>2, <3>1, Taken DEF MihomoFollowsCore, MihomoTyped
    <3> QED BY <1>2, <1>3, <2>2, <3>1, <3>2 DEF MihomoFollowsCore, MihomoTyped
  <2> QED BY <2>1, <2>2
<1>5. Typed'
  BY <1>1, <1>4 DEF CoordinatorInv, Typed, CoreTyped, HistoryTyped
<1>6. CoreFollows' /\ ViewFollows' /\ SettingsFollow'
  BY <1>1 DEF CoordinatorInv, CoreFollows, ViewFollows, SettingsFollow, Follows
<1>7. WishFollows' /\ OffFollows'
  BY <1>1 DEF CoordinatorInv, WishFollows, OffFollows, Follows, On
<1> QED BY <1>5, <1>6, <1>7 DEF CoordinatorInv

-----------------------------------------------------------------------------
(* The system proxy worker                                                 *)

LEMMA TakeProxyCommandKeeps == ASSUME CoordinatorInv, TakeProxyCommand PROVE CoordinatorInv'
<1> DEFINE busy == [proxy.view EXCEPT !.busy = TRUE]
<1>1. Typed /\ ProxyTyped(proxy) /\ Capacity \in Nat
  BY ConstantsAssumption DEF CoordinatorInv, Typed
<1>2. /\ busy \in View /\ busy.busy
      /\ busy.available = proxy.view.available /\ busy.enabled = proxy.view.enabled
  BY <1>1 DEF ProxyTyped, View
<1>3. /\ proxy.call = None /\ proxy.commands # <<>> /\ Len(proxy.events) < Capacity
      /\ proxy' = [proxy EXCEPT !.commands = Tail(proxy.commands),
                                !.call = Head(proxy.commands), !.view = busy,
                                !.events = Append(proxy.events, [view |-> busy])]
      /\ UNCHANGED <<running, unseen, core, mihomo, saver, desktop, file, snapshot, asked,
                     gaps, inputs>>
  BY DEF TakeProxyCommand
<1> HIDE DEF busy
<1>4. /\ [view |-> busy] \in ProxyEvents /\ [view |-> busy] \in Views
      /\ [view |-> busy] \notin Changes
  BY <1>2, EventKinds
<1>5. /\ proxy'.commands = Tail(proxy.commands) /\ proxy'.call = Head(proxy.commands)
      /\ proxy'.view = busy /\ proxy'.events = Append(proxy.events, [view |-> busy])
  BY <1>1, <1>3 DEF ProxyTyped
<1>6. /\ proxy.commands \in Seq(ProxyCommands) /\ proxy.events \in Seq(ProxyEvents)
      /\ Len(proxy.commands) <= Capacity
  BY <1>1 DEF ProxyTyped
<1>7. /\ Head(proxy.commands) \in ProxyCommands /\ Tail(proxy.commands) \in Seq(ProxyCommands)
      /\ Len(Tail(proxy.commands)) <= Capacity
      /\ Append(proxy.events, [view |-> busy]) \in Seq(ProxyEvents)
      /\ Len(Append(proxy.events, [view |-> busy])) <= Capacity
  <2>1. /\ Head(proxy.commands) \in ProxyCommands /\ Tail(proxy.commands) \in Seq(ProxyCommands)
        /\ Len(Tail(proxy.commands)) = Len(proxy.commands) - 1 /\ Len(proxy.commands) \in Nat
    BY <1>3, <1>6, Taken
  <2>2. /\ Append(proxy.events, [view |-> busy]) \in Seq(ProxyEvents)
        /\ Len(Append(proxy.events, [view |-> busy])) = Len(proxy.events) + 1
        /\ Len(proxy.events) \in Nat
    BY <1>4, <1>6, Appended
  <2> QED BY <1>1, <1>3, <1>6, <2>1, <2>2
<1>8. Typed'
  <2>1. ProxyTyped(proxy)'
    BY <1>1, <1>2, <1>3, <1>7 DEF ProxyTyped
  <2> QED BY <1>1, <1>3, <2>1 DEF Typed, CoreTyped, HistoryTyped
<1>9. CoreFollows' /\ SettingsFollow'
  BY <1>3 DEF CoordinatorInv, CoreFollows, SettingsFollow, Follows
<1>10. ViewFollows'
  <2>1. Ends(proxy'.events, Views, [view |-> busy])
    BY <1>4, <1>5, <1>6, AfterAppend
  <2>2. proxy'.call # None
    BY <1>5, <1>7, ConstantsAssumption
  <2> QED BY <1>2, <1>3, <1>5, <2>1, <2>2 DEF CoordinatorInv, ViewFollows, Follows
<1>11. WishFollows'
  <2>1. \A e : Ends(proxy.events, Changes, e) => Ends(proxy'.events, Changes, e)
    BY <1>4, <1>5, <1>6, AfterAppend
  <2>2. Lacks(proxy.events, Changes) => Lacks(proxy'.events, Changes)
    BY <1>4, <1>5, <1>6, AfterAppend
  <2> QED BY <1>3, <2>1, <2>2 DEF CoordinatorInv, WishFollows, Follows, On
<1>12. OffFollows'
  <2> SUFFICES ASSUME gaps \subseteq {"overwritten", "stale"}, ~snapshot.running
               PROVE  /\ Covered(proxy'.commands)
                      /\ proxy'.call = "manual" => HasOff(proxy'.commands)
                      /\ desktop = "manual" => proxy'.call = "off" \/ HasOff(proxy'.commands)
    BY <1>3 DEF OffFollows
  <2>1. /\ Covered(proxy.commands)
        /\ desktop = "manual" => proxy.call = "off" \/ HasOff(proxy.commands)
    BY DEF CoordinatorInv, OffFollows
  <2>2. proxy.call # "off"
    BY <1>3, ConstantsAssumption DEF ProxyCommands
  <2> QED BY <1>3, <1>5, <1>6, <2>1, <2>2, CoveredLess
<1> QED BY <1>8, <1>9, <1>10, <1>11, <1>12 DEF CoordinatorInv

\* An operation has ended, and says so; a change is told as well.
LEMMA Finished ==
  ASSUME Typed, NEW v \in View, Finish(v, <<>>)
  PROVE  /\ ProxyTyped(proxy') /\ proxy.call # None /\ proxy'.call = None /\ proxy'.view = v
         /\ proxy'.commands = proxy.commands
         /\ Ends(proxy'.events, Views, [view |-> v])
         /\ \A e : Ends(proxy.events, Changes, e) => Ends(proxy'.events, Changes, e)
         /\ Lacks(proxy.events, Changes) => Lacks(proxy'.events, Changes)
<1> DEFINE m == [view |-> v]
<1>1. /\ m \in ProxyEvents /\ m \in Views /\ m \notin Changes
  BY EventKinds
<1>2. /\ proxy.call # None /\ Fits(proxy.events, <<m>> \o <<>>)
      /\ proxy' = [proxy EXCEPT !.call = None, !.view = v,
                                !.events = proxy.events \o (<<m>> \o <<>>)]
  BY DEF Finish
<1> HIDE DEF m
<1>3. ProxyTyped(proxy) /\ proxy.events \in Seq(ProxyEvents)
  BY DEF Typed, ProxyTyped
<1>4. /\ <<m>> \o <<>> = <<m>> /\ proxy.events \o <<m>> = Append(proxy.events, m)
      /\ Len(<<m>>) = 1
  <2>1. /\ <<m>> \in Seq(ProxyEvents) /\ Len(<<m>>) = 1
        /\ proxy.events \o <<m>> = Append(proxy.events, m)
    BY <1>1, <1>3, OneMore
  <2> QED BY <2>1, ConcatEmptySeq
<1>5. /\ Append(proxy.events, m) \in Seq(ProxyEvents)
      /\ Len(Append(proxy.events, m)) <= Capacity
  BY <1>1, <1>2, <1>3, <1>4, Appended DEF Fits
<1>6. /\ proxy'.call = None /\ proxy'.view = v /\ proxy'.commands = proxy.commands
      /\ proxy'.events = Append(proxy.events, m)
  BY <1>2, <1>3, <1>4 DEF ProxyTyped
<1>7. ProxyTyped(proxy')
  BY <1>2, <1>3, <1>4, <1>5 DEF ProxyTyped
<1>8. /\ Ends(proxy'.events, Views, m)
      /\ \A e : Ends(proxy.events, Changes, e) => Ends(proxy'.events, Changes, e)
      /\ Lacks(proxy.events, Changes) => Lacks(proxy'.events, Changes)
  BY <1>1, <1>3, <1>6, AfterAppend
<1> QED BY <1>2, <1>6, <1>7, <1>8 DEF m

LEMMA FinishedAndTold ==
  ASSUME Typed, NEW v \in View, NEW on \in BOOLEAN, Finish(v, <<[enabled |-> on]>>)
  PROVE  /\ ProxyTyped(proxy') /\ proxy.call # None /\ proxy'.call = None /\ proxy'.view = v
         /\ proxy'.commands = proxy.commands
         /\ Ends(proxy'.events, Views, [view |-> v])
         /\ Ends(proxy'.events, Changes, [enabled |-> on])
<1> DEFINE m == [view |-> v]
           n == [enabled |-> on]
<1>1. /\ m \in ProxyEvents /\ m \in Views /\ m \notin Changes
      /\ n \in ProxyEvents /\ n \in Changes /\ n \notin Views
  BY EventKinds
<1>2. /\ proxy.call # None /\ Fits(proxy.events, <<m>> \o <<n>>)
      /\ proxy' = [proxy EXCEPT !.call = None, !.view = v,
                                !.events = proxy.events \o (<<m>> \o <<n>>)]
  BY DEF Finish
<1> HIDE DEF m, n
<1>3. ProxyTyped(proxy) /\ proxy.events \in Seq(ProxyEvents)
  BY DEF Typed, ProxyTyped
<1>4. /\ proxy.events \o (<<m>> \o <<n>>) = Append(Append(proxy.events, m), n)
      /\ Len(<<m>> \o <<n>>) = 2
  BY <1>1, <1>3, TwoMore
<1>5. Append(proxy.events, m) \in Seq(ProxyEvents)
      /\ Len(Append(proxy.events, m)) = Len(proxy.events) + 1 /\ Len(proxy.events) \in Nat
  BY <1>1, <1>3, Appended
<1>6. /\ Append(Append(proxy.events, m), n) \in Seq(ProxyEvents)
      /\ Len(Append(Append(proxy.events, m), n)) <= Capacity
  BY <1>1, <1>2, <1>4, <1>5, Appended DEF Fits
<1>7. /\ proxy'.call = None /\ proxy'.view = v /\ proxy'.commands = proxy.commands
      /\ proxy'.events = Append(Append(proxy.events, m), n)
  BY <1>2, <1>3, <1>4 DEF ProxyTyped
<1>8. ProxyTyped(proxy')
  BY <1>2, <1>3, <1>4, <1>6 DEF ProxyTyped
<1>9. Ends(Append(proxy.events, m), Views, m)
  BY <1>1, <1>3, AfterAppend
<1>10. Ends(proxy'.events, Views, m) /\ Ends(proxy'.events, Changes, n)
  <2> DEFINE c == Append(proxy.events, m)
  <2>1. c \in Seq(ProxyEvents) /\ Ends(c, Views, m) /\ proxy'.events = Append(c, n)
    BY <1>5, <1>7, <1>9
  <2> HIDE DEF c
  <2> QED BY <1>1, <2>1, AfterAppend
<1> QED BY <1>2, <1>7, <1>8, <1>10 DEF m, n

LEMMA ServiceSucceedsKeeps == ASSUME CoordinatorInv, ServiceSucceeds PROVE CoordinatorInv'
<1> DEFINE on == proxy.call # "off"
           read == [available |-> TRUE, enabled |-> proxy.call # "off", busy |-> FALSE]
           unread == [proxy.view EXCEPT !.available = FALSE, !.busy = FALSE]
<1>1. Typed /\ ProxyTyped(proxy)
  BY DEF CoordinatorInv, Typed
<1>2. /\ UNCHANGED <<running, unseen, core, mihomo, saver, file, snapshot, asked>>
      /\ desktop' = proxy.call
      /\ proxy.call \in Kinds => desktop = "off"
  BY DEF ServiceSucceeds
<1>3. PICK v \in {read, unread} :
        /\ Finish(v, <<[enabled |-> on]>>)
        /\ (v = read /\ Fine) \/ (v = unread /\ Fails("failed"))
  BY DEF ServiceSucceeds
<1>4. /\ v \in View /\ on \in BOOLEAN /\ ~v.busy
      /\ v.available => (v.enabled <=> on)
  <2>1. read \in View /\ ~read.busy /\ (read.enabled <=> on)
    BY DEF View
  <2>2. unread \in View /\ ~unread.busy /\ ~unread.available
    BY <1>1 DEF ProxyTyped, View
  <2> HIDE DEF read, unread
  <2> QED BY <1>3, <2>1, <2>2
<1>5. /\ ProxyTyped(proxy') /\ proxy.call # None /\ proxy'.call = None /\ proxy'.view = v
      /\ proxy'.commands = proxy.commands
      /\ Ends(proxy'.events, Views, [view |-> v])
      /\ Ends(proxy'.events, Changes, [enabled |-> on])
  BY <1>1, <1>3, <1>4, FinishedAndTold
<1>6. proxy.call \in ProxyCommands
  BY <1>1, <1>5 DEF ProxyTyped
<1>7. /\ inputs' \in 0 .. MaxInputs /\ gaps \subseteq gaps'
      /\ gaps' \subseteq gaps \cup {"failed"}
  BY <1>1, <1>3, Counted DEF Fine, Fails
<1> HIDE DEF read, unread
<1>8. Typed'
  BY <1>1, <1>2, <1>5, <1>6, <1>7 DEF Typed, CoreTyped, HistoryTyped
<1>9. CoreFollows' /\ SettingsFollow'
  BY <1>2, <1>7 DEF CoordinatorInv, CoreFollows, SettingsFollow, Follows
<1>10. ViewFollows'
  BY <1>2, <1>4, <1>5 DEF ViewFollows, Follows
<1>11. WishFollows'
  <2>1. On' = on
    BY <1>2 DEF On
  <2> QED BY <1>5, <2>1 DEF WishFollows, Follows
<1>12. OffFollows'
  <2> SUFFICES ASSUME gaps' \subseteq {"overwritten", "stale"}, ~snapshot.running
               PROVE  /\ Covered(proxy.commands)
                      /\ desktop' = "manual" => HasOff(proxy.commands)
    BY <1>2, <1>5, ConstantsAssumption DEF OffFollows, ProxyCommands, Kinds
  <2> QED BY <1>2, <1>7 DEF CoordinatorInv, OffFollows
<1> QED BY <1>8, <1>9, <1>10, <1>11, <1>12 DEF CoordinatorInv

LEMMA ServiceFailsKeeps == ASSUME CoordinatorInv, ServiceFails PROVE CoordinatorInv'
<1> DEFINE idle == [proxy.view EXCEPT !.busy = FALSE]
<1>1. Typed /\ ProxyTyped(proxy)
  BY DEF CoordinatorInv, Typed
<1>2. /\ UNCHANGED <<running, unseen, core, mihomo, saver, desktop, file, snapshot, asked>>
      /\ Finish(idle, <<>>)
      /\ IF proxy.call \in Kinds /\ desktop # "off" THEN Fine ELSE Fails("failed")
  BY DEF ServiceFails
<1>3. /\ idle \in View /\ ~idle.busy
      /\ idle.available = proxy.view.available /\ idle.enabled = proxy.view.enabled
  BY <1>1 DEF ProxyTyped, View
<1> HIDE DEF idle
<1>4. /\ ProxyTyped(proxy') /\ proxy.call # None /\ proxy'.call = None /\ proxy'.view = idle
      /\ proxy'.commands = proxy.commands
      /\ Ends(proxy'.events, Views, [view |-> idle])
      /\ \A e : Ends(proxy.events, Changes, e) => Ends(proxy'.events, Changes, e)
      /\ Lacks(proxy.events, Changes) => Lacks(proxy'.events, Changes)
  BY <1>1, <1>2, <1>3, Finished
<1>5. /\ inputs' \in 0 .. MaxInputs /\ gaps \subseteq gaps'
      /\ gaps' \subseteq gaps \cup {"failed"}
      /\ "failed" \notin gaps' => proxy.call \in Kinds
  BY <1>1, <1>2, Counted DEF Fine, Fails
<1>6. Typed'
  BY <1>1, <1>2, <1>4, <1>5 DEF Typed, CoreTyped, HistoryTyped
<1>7. CoreFollows' /\ SettingsFollow'
  BY <1>2, <1>5 DEF CoordinatorInv, CoreFollows, SettingsFollow, Follows
<1>8. ViewFollows'
  BY <1>2, <1>3, <1>4 DEF CoordinatorInv, ViewFollows, Follows
<1>9. WishFollows'
  BY <1>2, <1>4, <1>5 DEF CoordinatorInv, WishFollows, Follows, On
<1>10. OffFollows'
  <2> SUFFICES ASSUME gaps' \subseteq {"overwritten", "stale"}, ~snapshot.running
               PROVE  /\ Covered(proxy.commands)
                      /\ desktop = "manual" => HasOff(proxy.commands)
    BY <1>2, <1>4, ConstantsAssumption DEF OffFollows, ProxyCommands, Kinds
  <2>1. proxy.call # "off"
    BY <1>5 DEF Kinds
  <2> QED BY <1>5, <2>1 DEF CoordinatorInv, OffFollows
<1> QED BY <1>6, <1>7, <1>8, <1>9, <1>10 DEF CoordinatorInv

-----------------------------------------------------------------------------
(* The settings worker                                                     *)

\* What is published arrives behind what was published before; a command is taken when no
\* plan is under way.
LEMMA Published ==
  ASSUME Typed, NEW value \in Settings, NEW plan \in Settings \cup {None},
         saver.plan = None => saver.commands # <<>>, Publish(value, plan)
  PROVE  /\ SaverTyped(saver') /\ saver'.value = value
         /\ saver'.commands = IF saver.plan = None THEN Tail(saver.commands) ELSE saver.commands
         /\ Ends(saver'.events, Settings, value)
<1>1. SaverTyped(saver) /\ Capacity \in Nat
  BY ConstantsAssumption DEF Typed
<1>2. /\ saver.commands \in Seq(SaverCommands) /\ saver.events \in Seq(Settings)
      /\ Len(saver.commands) <= Capacity /\ Len(saver.events) <= Capacity
  BY <1>1 DEF SaverTyped
<1> DEFINE commands == IF saver.plan = None THEN Tail(saver.commands) ELSE saver.commands
           events == Append(saver.events, value)
<1>3. /\ Len(saver.events) < Capacity
      /\ saver' = [saver EXCEPT !.plan = plan, !.value = value, !.events = events,
                                !.commands = commands]
  BY DEF Publish
<1>4. /\ events \in Seq(Settings) /\ Len(events) <= Capacity
      /\ Ends(events, Settings, value)
  <2>1. /\ Len(events) = Len(saver.events) + 1 /\ Len(saver.events) \in Nat
        /\ events \in Seq(Settings)
    BY <1>2, Appended
  <2> QED BY <1>1, <1>2, <1>3, <2>1, AfterAppend
<1>5. commands \in Seq(SaverCommands) /\ Len(commands) <= Capacity
  <2>1. CASE saver.plan = None
    BY <1>1, <1>2, <2>1, Taken
  <2>2. CASE saver.plan # None
    BY <1>2, <2>2
  <2> QED BY <2>1, <2>2
<1> HIDE DEF events, commands
<1>6. saver'.value = value /\ saver'.commands = commands /\ saver'.events = events
  BY <1>1, <1>3 DEF SaverTyped
<1>7. SaverTyped(saver')
  BY <1>1, <1>3, <1>4, <1>5 DEF SaverTyped
<1> QED BY <1>4, <1>6, <1>7 DEF commands

\* An order to persist the wish that is carried out leaves the file as the order says.
LEMMA PersistKeeps == ASSUME CoordinatorInv, PersistSystemProxy PROVE CoordinatorInv'
<1> DEFINE o == Head(saver.commands)
           saved == [file EXCEPT !.wish = o.persist]
<1>1. Typed /\ SaverTyped(saver) /\ file \in Settings /\ saver.value \in Settings
  BY DEF CoordinatorInv, Typed, SaverTyped
<1>2. /\ saver.plan = None /\ saver.commands # <<>> /\ "persist" \in DOMAIN o
      /\ UNCHANGED <<running, unseen, core, mihomo, proxy, desktop, snapshot, asked>>
      /\ \/ file' = saved /\ Publish(saved, None) /\ Fine
         \/ Publish(saver.value, None) /\ Fails("failed") /\ UNCHANGED file
  BY DEF PersistSystemProxy
<1>3. saver.commands \in Seq(SaverCommands)
  BY <1>1 DEF SaverTyped
<1>4. o \in SaverCommands /\ o.persist \in BOOLEAN /\ o = [persist |-> o.persist]
  BY <1>2, <1>3, Taken, OrderIs
<1> HIDE DEF o
<1>5. saved \in Settings /\ saved.wish = o.persist
  BY <1>1, <1>4 DEF Settings
<1> HIDE DEF saved
<1>6. PICK value \in {saved, saver.value} :
        /\ value \in Settings /\ file' \in Settings
        /\ Publish(value, None)
        /\ \/ value = saved /\ file' = saved /\ Fine
           \/ value = saver.value /\ file' = file /\ Fails("failed")
  BY <1>1, <1>2, <1>5
<1>7. /\ SaverTyped(saver') /\ saver'.value = value
      /\ saver'.commands = Tail(saver.commands)
      /\ Ends(saver'.events, Settings, value)
  BY <1>1, <1>2, <1>6, Published
<1>8. /\ inputs' \in 0 .. MaxInputs /\ gaps \subseteq gaps'
      /\ gaps' \subseteq gaps \cup {"failed"}
      /\ (value = saved /\ file' = saved) \/ "failed" \in gaps'
  BY <1>1, <1>6, Counted DEF Fine, Fails
<1>9. Typed'
  BY <1>1, <1>2, <1>6, <1>7, <1>8 DEF Typed, CoreTyped, HistoryTyped
<1>10. CoreFollows' /\ ViewFollows'
  BY <1>2 DEF CoordinatorInv, CoreFollows, ViewFollows, Follows
<1>11. SettingsFollow'
  BY <1>6, <1>7, <1>8 DEF CoordinatorInv, SettingsFollow, Follows
<1>12. WishFollows'
  <2> SUFFICES ASSUME gaps' \subseteq {"late", "stale"}
               PROVE  Follows(proxy.events, Changes, [enabled |-> On],
                        Follows(Tail(saver.commands), Persists, [persist |-> On],
                                On => file'.wish))
    BY <1>2, <1>7 DEF WishFollows, Follows, On
  <2>1. file'.wish = o.persist
    BY <1>5, <1>8
  <2>2. \A e : Ends(saver.commands, Persists, e) =>
           \/ Ends(Tail(saver.commands), Persists, e)
           \/ Lacks(Tail(saver.commands), Persists) /\ o = e
    BY <1>2, <1>3, AfterTail DEF o
  <2>3. o \in Persists
    BY <1>4, OrderKinds
  <2>4. ~Lacks(saver.commands, Persists)
    BY <1>2, <1>3, <2>3, AfterTail DEF o
  <2>5. [persist |-> On] = o => (o.persist <=> On)
    OBVIOUS
  <2>6. gaps \subseteq {"late", "stale"}
    BY <1>8
  <2> QED BY <2>1, <2>2, <2>4, <2>5, <2>6 DEF CoordinatorInv, WishFollows, Follows
<1>13. OffFollows'
  BY <1>2, <1>8 DEF CoordinatorInv, OffFollows
<1> QED BY <1>9, <1>10, <1>11, <1>12, <1>13 DEF CoordinatorInv

LEMMA TakeSettingsKeeps == ASSUME CoordinatorInv, TakeSettings PROVE CoordinatorInv'
<1> DEFINE o == Head(saver.commands)
<1>1. Typed /\ SaverTyped(saver) /\ saver.value \in Settings
  BY DEF CoordinatorInv, Typed, SaverTyped
<1>2. /\ saver.plan = None /\ saver.commands # <<>> /\ "apply" \in DOMAIN o
      /\ UNCHANGED <<running, unseen, core, mihomo, proxy, desktop, file, snapshot, asked,
                     gaps, inputs>>
      /\ Publish(saver.value, o.apply)
  BY DEF TakeSettings
<1>3. saver.commands \in Seq(SaverCommands)
  BY <1>1 DEF SaverTyped
<1>4. o.apply \in Settings /\ o \notin Persists
  BY <1>2, <1>3, Taken, OrderIs
<1>5. /\ SaverTyped(saver') /\ saver'.value = saver.value
      /\ saver'.commands = Tail(saver.commands)
      /\ Ends(saver'.events, Settings, saver.value)
  BY <1>1, <1>2, <1>4, Published
<1>6. Typed'
  BY <1>1, <1>2, <1>5 DEF Typed, CoreTyped, HistoryTyped
<1>7. CoreFollows' /\ ViewFollows' /\ OffFollows'
  BY <1>2 DEF CoordinatorInv, CoreFollows, ViewFollows, OffFollows, Follows
<1>8. SettingsFollow'
  BY <1>2, <1>5 DEF CoordinatorInv, SettingsFollow, Follows
<1>9. WishFollows'
  <2>1. Ends(saver.commands, Persists, [persist |-> On]) =>
           Ends(Tail(saver.commands), Persists, [persist |-> On])
    <3>1. [persist |-> On] \in Persists
      BY OrderKinds DEF On
    <3> QED BY <1>2, <1>3, <1>4, <3>1, AfterTail
  <2>2. Lacks(saver.commands, Persists) => Lacks(Tail(saver.commands), Persists)
    BY <1>2, <1>3, AfterTail
  <2> QED BY <1>2, <1>5, <2>1, <2>2 DEF CoordinatorInv, WishFollows, Follows, On
<1> QED BY <1>6, <1>7, <1>8, <1>9 DEF CoordinatorInv

LEMMA ApplySettingsKeeps == ASSUME CoordinatorInv, ApplySettings PROVE CoordinatorInv'
<1>1. Typed /\ SaverTyped(saver) /\ file \in Settings /\ saver.value \in Settings
  BY DEF CoordinatorInv, Typed, SaverTyped
<1>2. /\ saver.plan # None
      /\ UNCHANGED <<running, unseen, core, mihomo, proxy, desktop, snapshot, asked>>
      /\ \/ /\ file' = saver.plan
            /\ Publish(saver.plan, None)
            /\ gaps' = IF saver.plan.wish = file.wish THEN gaps ELSE gaps \cup {"overwritten"}
            /\ UNCHANGED inputs
         \/ Publish(saver.value, None) /\ Fine /\ UNCHANGED file
         \/ Publish(saver.value, None) /\ Fails("unshown") /\ file' = saver.plan
  BY DEF ApplySettings
<1>3. saver.plan \in Settings
  BY <1>1, <1>2 DEF SaverTyped
<1>4. PICK value \in {saver.plan, saver.value} :
        /\ value \in Settings /\ file' \in Settings
        /\ Publish(value, None)
        /\ inputs' \in 0 .. MaxInputs /\ gaps \subseteq gaps'
        /\ gaps' \subseteq gaps \cup {"overwritten", "unshown"}
        /\ \/ value = file' /\ (file'.wish = file.wish \/ "overwritten" \in gaps')
           \/ value = saver.value /\ file' = file
           \/ value = saver.value /\ "unshown" \in gaps'
  BY <1>1, <1>2, <1>3, Counted DEF Fine, Fails, Typed, HistoryTyped
<1>5. /\ SaverTyped(saver') /\ saver'.value = value /\ saver'.commands = saver.commands
      /\ Ends(saver'.events, Settings, value)
  BY <1>1, <1>2, <1>4, Published
<1>6. Typed'
  BY <1>1, <1>2, <1>4, <1>5 DEF Typed, CoreTyped, HistoryTyped
<1>7. CoreFollows' /\ ViewFollows'
  BY <1>2 DEF CoordinatorInv, CoreFollows, ViewFollows, Follows
<1>8. SettingsFollow'
  BY <1>4, <1>5 DEF CoordinatorInv, SettingsFollow, Follows
<1>9. WishFollows'
  <2> SUFFICES ASSUME gaps' \subseteq {"late", "stale"}
               PROVE  WishFollows'
    BY DEF WishFollows
  <2>1. file'.wish = file.wish /\ gaps \subseteq {"late", "stale"}
    BY <1>4
  <2> QED BY <1>2, <1>5, <2>1 DEF CoordinatorInv, WishFollows, Follows, On
<1>10. OffFollows'
  BY <1>2, <1>4 DEF CoordinatorInv, OffFollows
<1> QED BY <1>6, <1>7, <1>8, <1>9, <1>10 DEF CoordinatorInv

-----------------------------------------------------------------------------
(* The coordinator                                                         *)

\* What is passed on to the proxy worker leaves what it has told as it is, and is no reason
\* to enable the core's port when the orders are none.
LEMMA PassedOnKeeps ==
  ASSUME CoordinatorInv, NEW m \in Seq(ProxyCommands), PassOn(m)
  PROVE  /\ ProxyTyped(proxy')
         /\ proxy'.call = proxy.call /\ proxy'.view = proxy.view /\ proxy'.events = proxy.events
         /\ Fits(proxy.commands, m) /\ gaps \subseteq {"overwritten", "stale"}
            /\ ~snapshot.running /\ Lacks(m, {"manual"}) =>
              /\ Covered(proxy'.commands)
              /\ proxy'.call = "manual" => HasOff(proxy'.commands)
              /\ desktop = "manual" => proxy'.call = "off" \/ HasOff(proxy'.commands)
<1>1. Typed /\ proxy.commands \in Seq(ProxyCommands)
  BY DEF CoordinatorInv, Typed, ProxyTyped
<1>2. /\ ProxyTyped(proxy')
      /\ proxy'.call = proxy.call /\ proxy'.view = proxy.view /\ proxy'.events = proxy.events
      /\ Fits(proxy.commands, m) => proxy'.commands = proxy.commands \o m
  BY <1>1, PassedOn
<1>3. Lacks(m, {"manual"}) => /\ Covered(proxy.commands) => Covered(proxy.commands \o m)
                              /\ HasOff(proxy.commands) => HasOff(proxy.commands \o m)
  BY <1>1, CoveredMore
<1> QED BY <1>2, <1>3 DEF CoordinatorInv, OffFollows

LEMMA UserSetsProxyKeeps == ASSUME CoordinatorInv, UserSetsProxy PROVE CoordinatorInv'
<1>1. Typed /\ snapshot \in Snapshots
  BY DEF CoordinatorInv, Typed
<1>2. PICK on \in BOOLEAN :
        /\ Fits(proxy.commands, IF on THEN Enable(snapshot) ELSE <<"off">>)
        /\ PassOn(IF on THEN Enable(snapshot) ELSE <<"off">>)
        /\ asked' = on
        /\ gaps' = IF on = ~snapshot.view.enabled /\ ~snapshot.view.busy THEN gaps
                   ELSE gaps \cup {"stale"}
  BY DEF UserSetsProxy
<1> DEFINE m == IF on THEN Enable(snapshot) ELSE <<"off">>
<1>3. UNCHANGED <<running, unseen, core, mihomo, saver, desktop, file, snapshot>> /\ Input
  BY DEF UserSetsProxy
<1>4. m \in Seq(ProxyCommands) /\ (~snapshot.running => Lacks(m, {"manual"}))
  <2>1. <<"off">> \in Seq(ProxyCommands) /\ Lacks(<<"off">>, {"manual"})
    BY DEF ProxyCommands, Lacks
  <2> QED BY <1>1, <2>1, OrdersAre
<1>5. Fits(proxy.commands, m) /\ PassOn(m)
  BY <1>2
<1> HIDE DEF m
<1>6. /\ gaps \subseteq gaps' /\ gaps' \subseteq gaps \cup {"stale"} /\ asked' \in BOOLEAN
      /\ inputs' \in 0 .. MaxInputs
  BY <1>1, <1>2, <1>3, Counted
<1>7. Typed'
  BY <1>1, <1>3, <1>4, <1>5, <1>6, PassedOnKeeps DEF Typed, CoreTyped, HistoryTyped
<1>8. CoreFollows' /\ SettingsFollow'
  BY <1>3, <1>6 DEF CoordinatorInv, CoreFollows, SettingsFollow, Follows
<1>9. ViewFollows' /\ WishFollows'
  BY <1>3, <1>4, <1>5, <1>6, PassedOnKeeps
     DEF CoordinatorInv, ViewFollows, WishFollows, Follows, On
<1>10. OffFollows'
  BY <1>3, <1>4, <1>5, <1>6, PassedOnKeeps DEF OffFollows
<1> QED BY <1>7, <1>8, <1>9, <1>10 DEF CoordinatorInv

LEMMA UserAppliesSettingsKeeps ==
  ASSUME CoordinatorInv, UserAppliesSettings
  PROVE  CoordinatorInv'
<1>1. Typed /\ SaverTyped(saver) /\ snapshot \in Snapshots
  BY DEF CoordinatorInv, Typed
<1>2. PICK pac \in BOOLEAN :
        saver' = [saver EXCEPT !.commands =
                    Append(saver.commands, [apply |-> [snapshot.settings EXCEPT !.pac = pac]])]
  BY DEF UserAppliesSettings
<1> DEFINE o == [apply |-> [snapshot.settings EXCEPT !.pac = pac]]
<1>3. /\ Input /\ Len(saver.commands) < Capacity
      /\ UNCHANGED <<running, unseen, core, mihomo, proxy, desktop, file, snapshot, asked,
                     gaps>>
  BY DEF UserAppliesSettings
<1>4. o \in SaverCommands /\ o \notin Persists
  <2>1. [snapshot.settings EXCEPT !.pac = pac] \in Settings
    BY <1>1 DEF Snapshots, Settings
  <2> QED BY <2>1, OrderKinds
<1>5. saver' = [saver EXCEPT !.commands = Append(saver.commands, o)]
  BY <1>2
<1> HIDE DEF o
<1>6. saver.commands \in Seq(SaverCommands) /\ Capacity \in Nat
  BY <1>1, ConstantsAssumption DEF SaverTyped
<1>7. /\ Append(saver.commands, o) \in Seq(SaverCommands)
      /\ Len(Append(saver.commands, o)) <= Capacity
  BY <1>3, <1>4, <1>6, Appended
<1>8. /\ saver'.commands = Append(saver.commands, o) /\ saver'.value = saver.value
      /\ saver'.events = saver.events
  BY <1>1, <1>5 DEF SaverTyped
<1>9. Typed'
  <2>1. SaverTyped(saver')
    BY <1>1, <1>5, <1>7 DEF SaverTyped
  <2>2. inputs' \in 0 .. MaxInputs
    BY <1>1, <1>3, Counted
  <2> QED BY <1>1, <1>3, <2>1, <2>2 DEF Typed, CoreTyped, HistoryTyped
<1>10. CoreFollows' /\ ViewFollows' /\ OffFollows'
  BY <1>3 DEF CoordinatorInv, CoreFollows, ViewFollows, OffFollows, Follows
<1>11. SettingsFollow'
  BY <1>3, <1>8 DEF CoordinatorInv, SettingsFollow, Follows
<1>12. WishFollows'
  <2>1. /\ \A e : Ends(saver.commands, Persists, e) => Ends(saver'.commands, Persists, e)
        /\ Lacks(saver.commands, Persists) => Lacks(saver'.commands, Persists)
    BY <1>4, <1>6, <1>8, AfterAppend
  <2> QED BY <1>3, <2>1 DEF CoordinatorInv, WishFollows, Follows, On
<1> QED BY <1>9, <1>10, <1>11, <1>12 DEF CoordinatorInv

LEMMA HandleCoreEventKeeps == ASSUME CoordinatorInv, HandleCoreEvent PROVE CoordinatorInv'
<1> DEFINE up == Head(core)
           off == IF ~up /\ snapshot.view.enabled THEN <<"off">> ELSE <<>>
<1>1. /\ Typed /\ core \in Seq(BOOLEAN) /\ snapshot \in Snapshots /\ MihomoTyped(mihomo)
      /\ ProxyTyped(proxy) /\ Relayed \in Nat
  BY ConstantsAssumption DEF CoordinatorInv, Typed, CoreTyped
<1>2. /\ core # <<>> /\ core' = Tail(core)
      /\ snapshot' = [snapshot EXCEPT !.running = up]
      /\ mihomo' = [mihomo EXCEPT !.commands = Relaying(mihomo.commands, up)]
      /\ PassOn(off)
      /\ gaps' = gaps \cup {g \in {"dropped", "late"} :
                   IF g = "late" THEN ~up /\ EnablingUnseen
                   ELSE ~(Len(mihomo.commands) < Relayed /\ Fits(proxy.commands, off))}
      /\ UNCHANGED <<running, unseen, saver, desktop, file, asked, inputs>>
  BY DEF HandleCoreEvent
<1>3. /\ up \in BOOLEAN /\ Tail(core) \in Seq(BOOLEAN) /\ Len(Tail(core)) = Len(core) - 1
      /\ Len(core) \in Nat
  BY <1>1, <1>2, Taken
<1>4. /\ off \in Seq(ProxyCommands)
      /\ off = <<"off">> \/ off = <<>>
      /\ ~up /\ snapshot.view.enabled => off = <<"off">>
  <2>1. <<"off">> \in Seq(ProxyCommands) /\ <<>> \in Seq(ProxyCommands)
    BY DEF ProxyCommands
  <2> QED BY <2>1
<1>5. /\ gaps \subseteq gaps' /\ gaps' \subseteq gaps \cup {"dropped", "late"}
      /\ "late" \notin gaps' => up \/ ~EnablingUnseen
      /\ "dropped" \notin gaps' => Fits(proxy.commands, off)
  BY <1>2
<1> HIDE DEF up, off
<1>6. /\ snapshot' \in Snapshots /\ snapshot'.running = up /\ snapshot'.view = snapshot.view
      /\ snapshot'.settings = snapshot.settings
  BY <1>1, <1>2, <1>3 DEF Snapshots
<1>7. MihomoTyped(mihomo')
  <2>1. /\ Relaying(mihomo.commands, up) \in Seq(BOOLEAN)
        /\ Len(Relaying(mihomo.commands, up)) <= Relayed
    BY <1>1, <1>3, RelayingIs DEF MihomoTyped
  <2> QED BY <1>1, <1>2, <2>1 DEF MihomoTyped
<1>8. /\ ProxyTyped(proxy')
      /\ proxy'.call = proxy.call /\ proxy'.view = proxy.view /\ proxy'.events = proxy.events
  BY <1>2, <1>4, PassedOnKeeps
<1>9. Typed'
  <2>1. CoreTyped'
    BY <1>1, <1>2, <1>3 DEF Typed, CoreTyped
  <2>2. HistoryTyped'
    BY <1>1, <1>2, <1>5 DEF Typed, HistoryTyped
  <2> QED BY <1>1, <1>2, <1>6, <1>7, <1>8, <2>1, <2>2 DEF Typed
<1>10. CoreFollows'
  <2>1. \A e : Ends(core, BOOLEAN, e) =>
          Ends(core', BOOLEAN, e) \/ (Lacks(core', BOOLEAN) /\ up = e)
    BY <1>1, <1>2, AfterTail DEF up
  <2>2. ~Lacks(core, BOOLEAN)
    BY <1>1, <1>2, <1>3, AfterTail DEF up
  <2> QED BY <1>2, <1>6, <2>1, <2>2 DEF CoordinatorInv, CoreFollows, Follows
<1>11. ViewFollows' /\ SettingsFollow'
  BY <1>2, <1>5, <1>6, <1>8 DEF CoordinatorInv, ViewFollows, SettingsFollow, Follows
<1>12. WishFollows'
  BY <1>2, <1>5, <1>8 DEF CoordinatorInv, WishFollows, Follows, On
<1>13. OffFollows'
  <2> SUFFICES ASSUME gaps' \subseteq {"overwritten", "stale"}, ~up
               PROVE  /\ Covered(proxy'.commands)
                      /\ proxy.call = "manual" => HasOff(proxy'.commands)
                      /\ desktop = "manual" => proxy.call = "off" \/ HasOff(proxy'.commands)
    BY <1>2, <1>6, <1>8 DEF OffFollows
  <2>1. Fits(proxy.commands, off) /\ ~EnablingUnseen
    BY <1>5
  <2>2. proxy.commands \in Seq(ProxyCommands) /\ proxy'.commands = proxy.commands \o off
    BY <1>1, <1>2, <1>4, <2>1, PassedOn DEF ProxyTyped
  <2>3. CASE snapshot.view.enabled
    BY <1>4, <2>2, <2>3, CoveredMore
  <2>4. CASE ~snapshot.view.enabled
    <3>1. /\ desktop = "off" /\ proxy.call \notin Kinds
          /\ \A i \in DOMAIN proxy.commands : proxy.commands[i] \notin Kinds
      BY <2>1, <2>4 DEF EnablingUnseen
    <3>2. Covered(proxy.commands)
      BY <2>2, <3>1, LenProperties DEF Covered, Kinds
    <3>3. Lacks(off, {"manual"})
      BY <1>4, Empty DEF Lacks
    <3>4. Covered(proxy.commands \o off)
      BY <1>4, <2>2, <3>2, <3>3, CoveredMore
    <3> QED BY <2>2, <3>1, <3>4 DEF Kinds
  <2> QED BY <2>3, <2>4
<1> QED BY <1>9, <1>10, <1>11, <1>12, <1>13 DEF CoordinatorInv

LEMMA HandleMihomoEventKeeps == ASSUME CoordinatorInv, HandleMihomoEvent PROVE CoordinatorInv'
<1> DEFINE next == [snapshot EXCEPT !.mihomo = Head(mihomo.events)]
           m == Ensure(next)
<1>1. Typed /\ snapshot \in Snapshots /\ MihomoTyped(mihomo)
  BY DEF CoordinatorInv, Typed
<1>2. /\ mihomo.events # <<>> /\ snapshot' = next
      /\ mihomo' = [mihomo EXCEPT !.events = Tail(mihomo.events)]
      /\ PassOn(m)
      /\ gaps' = IF Fits(proxy.commands, m) THEN gaps ELSE gaps \cup {"dropped"}
      /\ UNCHANGED <<running, unseen, core, saver, desktop, file, asked, inputs>>
  BY DEF HandleMihomoEvent, Dropping
<1>3. /\ Head(mihomo.events) \in Connections /\ Tail(mihomo.events) \in Seq(Connections)
      /\ Len(Tail(mihomo.events)) = Len(mihomo.events) - 1 /\ Len(mihomo.events) \in Nat
  BY <1>1, <1>2, Taken DEF MihomoTyped
<1>4. /\ next \in Snapshots /\ next.running = snapshot.running /\ next.view = snapshot.view
      /\ next.settings = snapshot.settings
  BY <1>1, <1>3 DEF Snapshots
<1> HIDE DEF next
<1>5. m \in Seq(ProxyCommands) /\ (~snapshot.running => Lacks(m, {"manual"}))
  BY <1>4, OrdersAre
<1> HIDE DEF m
<1>6. /\ gaps \subseteq gaps' /\ gaps' \subseteq gaps \cup {"dropped"}
      /\ "dropped" \notin gaps' => Fits(proxy.commands, m)
  BY <1>2
<1>7. Typed'
  <2>1. MihomoTyped(mihomo')
    <3>1. Relayed \in Nat /\ Len(mihomo.events) <= Relayed
      BY <1>1, ConstantsAssumption DEF MihomoTyped
    <3>2. Len(Tail(mihomo.events)) <= Relayed
      BY <1>3, <3>1
    <3> QED BY <1>1, <1>2, <1>3, <3>2 DEF MihomoTyped
  <2>2. ProxyTyped(proxy')
    BY <1>2, <1>5, PassedOnKeeps
  <2> QED BY <1>1, <1>2, <1>4, <1>6, <2>1, <2>2 DEF Typed, CoreTyped, HistoryTyped
<1>8. CoreFollows' /\ SettingsFollow'
  BY <1>2, <1>4, <1>6 DEF CoordinatorInv, CoreFollows, SettingsFollow, Follows
<1>9. ViewFollows' /\ WishFollows'
  BY <1>2, <1>4, <1>5, <1>6, PassedOnKeeps
     DEF CoordinatorInv, ViewFollows, WishFollows, Follows, On
<1>10. OffFollows'
  BY <1>2, <1>4, <1>5, <1>6, PassedOnKeeps DEF OffFollows
<1> QED BY <1>7, <1>8, <1>9, <1>10 DEF CoordinatorInv

LEMMA HandleSettingsEventKeeps ==
  ASSUME CoordinatorInv, HandleSettingsEvent
  PROVE  CoordinatorInv'
<1> DEFINE next == [snapshot EXCEPT !.settings = Head(saver.events)]
           reapply == snapshot.settings.pac # next.settings.pac /\ snapshot.view.enabled
           first == IF reapply THEN <<"off">> \o Enable(next) ELSE <<>>
           m == first \o Ensure(next)
<1>1. Typed /\ snapshot \in Snapshots /\ SaverTyped(saver) /\ saver.events \in Seq(Settings)
  BY DEF CoordinatorInv, Typed, SaverTyped
<1>2. /\ saver.events # <<>> /\ snapshot' = next
      /\ saver' = [saver EXCEPT !.events = Tail(saver.events)]
      /\ PassOn(m)
      /\ gaps' = IF Fits(proxy.commands, m) THEN gaps ELSE gaps \cup {"dropped"}
      /\ UNCHANGED <<running, unseen, core, mihomo, desktop, file, asked, inputs>>
  BY DEF HandleSettingsEvent, Dropping
<1>3. /\ Head(saver.events) \in Settings /\ Tail(saver.events) \in Seq(Settings)
      /\ Len(Tail(saver.events)) = Len(saver.events) - 1 /\ Len(saver.events) \in Nat
  BY <1>1, <1>2, Taken
<1>4. /\ next \in Snapshots /\ next.running = snapshot.running /\ next.view = snapshot.view
      /\ next.settings = Head(saver.events)
  BY <1>1, <1>3 DEF Snapshots
<1> HIDE DEF next
<1>5. /\ Enable(next) \in Seq(ProxyCommands) /\ Ensure(next) \in Seq(ProxyCommands)
      /\ ~snapshot.running =>
           Lacks(Enable(next), {"manual"}) /\ Lacks(Ensure(next), {"manual"})
  BY <1>4, OrdersAre
<1>6. <<"off">> \in Seq(ProxyCommands) /\ Lacks(<<"off">>, {"manual"})
      /\ <<>> \in Seq(ProxyCommands) /\ Lacks(<<>>, {"manual"})
  BY Empty DEF ProxyCommands, Lacks
<1>7. first \in Seq(ProxyCommands) /\ (~snapshot.running => Lacks(first, {"manual"}))
  BY <1>5, <1>6, LacksBoth
<1> HIDE DEF first
<1>8. m \in Seq(ProxyCommands) /\ (~snapshot.running => Lacks(m, {"manual"}))
  BY <1>5, <1>7, LacksBoth
<1> HIDE DEF m
<1>9. /\ gaps \subseteq gaps' /\ gaps' \subseteq gaps \cup {"dropped"}
      /\ "dropped" \notin gaps' => Fits(proxy.commands, m)
  BY <1>2
<1>10. /\ saver'.commands = saver.commands /\ saver'.value = saver.value
       /\ saver'.events = Tail(saver.events)
  BY <1>1, <1>2 DEF SaverTyped
<1>11. Typed'
  <2>1. SaverTyped(saver')
    <3>1. Capacity \in Nat /\ Len(saver.events) <= Capacity
      BY <1>1, ConstantsAssumption DEF SaverTyped
    <3>2. Len(Tail(saver.events)) <= Capacity
      BY <1>3, <3>1
    <3> QED BY <1>1, <1>2, <1>3, <3>2 DEF SaverTyped
  <2>2. ProxyTyped(proxy')
    BY <1>2, <1>8, PassedOnKeeps
  <2> QED BY <1>1, <1>2, <1>4, <1>9, <2>1, <2>2 DEF Typed, CoreTyped, HistoryTyped
<1>12. CoreFollows'
  BY <1>2, <1>4 DEF CoordinatorInv, CoreFollows, Follows
<1>13. SettingsFollow'
  <2>1. \A e : Ends(saver.events, Settings, e) =>
          Ends(Tail(saver.events), Settings, e)
          \/ (Lacks(Tail(saver.events), Settings) /\ Head(saver.events) = e)
    BY <1>1, <1>2, AfterTail
  <2>2. ~Lacks(saver.events, Settings)
    BY <1>1, <1>2, <1>3, AfterTail
  <2> QED BY <1>2, <1>4, <1>9, <1>10, <2>1, <2>2 DEF CoordinatorInv, SettingsFollow, Follows
<1>14. ViewFollows' /\ WishFollows'
  BY <1>2, <1>4, <1>8, <1>9, <1>10, PassedOnKeeps
     DEF CoordinatorInv, ViewFollows, WishFollows, Follows, On
<1>15. OffFollows'
  BY <1>2, <1>4, <1>8, <1>9, PassedOnKeeps DEF OffFollows
<1> QED BY <1>11, <1>12, <1>13, <1>14, <1>15 DEF CoordinatorInv

LEMMA HandleProxyEventKeeps == ASSUME CoordinatorInv, HandleProxyEvent PROVE CoordinatorInv'
<1> DEFINE e == Head(proxy.events)
           persist == [persist |-> e.enabled]
<1>1. /\ Typed /\ snapshot \in Snapshots /\ ProxyTyped(proxy) /\ SaverTyped(saver)
      /\ proxy.events \in Seq(ProxyEvents) /\ saver.commands \in Seq(SaverCommands)
      /\ Len(saver.commands) <= Capacity
  BY DEF CoordinatorInv, Typed, ProxyTyped, SaverTyped
<1>2. /\ proxy.events # <<>>
      /\ proxy' = [proxy EXCEPT !.events = Tail(proxy.events)]
      /\ \/ /\ "view" \in DOMAIN e
            /\ snapshot' = [snapshot EXCEPT !.view = e.view]
            /\ UNCHANGED <<saver, gaps>>
         \/ /\ "enabled" \in DOMAIN e
            /\ saver' = [saver EXCEPT !.commands = Sent(saver.commands, <<persist>>)]
            /\ gaps' = IF Fits(saver.commands, <<persist>>) THEN gaps
                       ELSE gaps \cup {"dropped"}
            /\ UNCHANGED snapshot
      /\ UNCHANGED <<running, unseen, core, mihomo, desktop, file, asked, inputs>>
  BY DEF HandleProxyEvent, Dropping
<1>3. /\ e \in ProxyEvents /\ Tail(proxy.events) \in Seq(ProxyEvents)
      /\ Len(Tail(proxy.events)) = Len(proxy.events) - 1 /\ Len(proxy.events) \in Nat
  BY <1>1, <1>2, Taken
<1>4. /\ proxy'.commands = proxy.commands /\ proxy'.call = proxy.call
      /\ proxy'.view = proxy.view /\ proxy'.events = Tail(proxy.events)
  BY <1>1, <1>2 DEF ProxyTyped
<1>5. ProxyTyped(proxy')
  <2>1. Capacity \in Nat /\ Len(proxy.events) <= Capacity
    BY <1>1, ConstantsAssumption DEF ProxyTyped
  <2>2. Len(Tail(proxy.events)) <= Capacity
    BY <1>3, <2>1
  <2> QED BY <1>1, <1>2, <1>3, <2>2 DEF ProxyTyped
<1>6. \A kind : /\ Lacks(proxy.events, kind) => Lacks(proxy'.events, kind) /\ e \notin kind
                /\ \A x : Ends(proxy.events, kind, x) =>
                     Ends(proxy'.events, kind, x) \/ (Lacks(proxy'.events, kind) /\ e = x)
  BY <1>1, <1>2, <1>4, AfterTail
<1>7. CASE "view" \in DOMAIN e
  <2>1. e \in Views /\ e \notin Changes /\ e.view \in View /\ e = [view |-> e.view]
    BY <1>3, <1>7, EventIs
  <2>2. "enabled" \notin DOMAIN e
    BY <1>3, <2>1, EventIs
  <2>3. snapshot' = [snapshot EXCEPT !.view = e.view] /\ UNCHANGED <<saver, gaps>>
    BY <1>2, <2>2
  <2> HIDE DEF e
  <2>4. /\ snapshot' \in Snapshots /\ snapshot'.view = e.view
        /\ snapshot'.running = snapshot.running /\ snapshot'.settings = snapshot.settings
    BY <1>1, <2>1, <2>3 DEF Snapshots
  <2>5. Typed'
    BY <1>1, <1>2, <1>5, <2>3, <2>4 DEF Typed, CoreTyped, HistoryTyped
  <2>6. CoreFollows' /\ SettingsFollow' /\ OffFollows'
    BY <1>2, <1>4, <2>3, <2>4
       DEF CoordinatorInv, CoreFollows, SettingsFollow, OffFollows, Follows
  <2>7. ViewFollows'
    <3>1. [view |-> proxy.view] = e => e.view = proxy.view
      BY <2>1
    <3>2. ~Lacks(proxy.events, Views)
      BY <1>6, <2>1
    <3> QED BY <1>2, <1>4, <1>6, <2>4, <3>1, <3>2 DEF CoordinatorInv, ViewFollows, Follows
  <2>8. WishFollows'
    <3>1. e # [enabled |-> On]
      BY <2>1, EventKinds DEF On
    <3> QED BY <1>2, <1>4, <1>6, <2>3, <3>1 DEF CoordinatorInv, WishFollows, Follows, On
  <2> QED BY <2>5, <2>6, <2>7, <2>8 DEF CoordinatorInv
<1>8. CASE "enabled" \in DOMAIN e
  <2>1. e \in Changes /\ e \notin Views /\ e.enabled \in BOOLEAN /\ e = [enabled |-> e.enabled]
    BY <1>3, <1>8, EventIs
  <2>2. "view" \notin DOMAIN e
    BY <1>3, <2>1, EventIs
  <2>3. /\ saver' = [saver EXCEPT !.commands = Sent(saver.commands, <<persist>>)]
        /\ gaps' = IF Fits(saver.commands, <<persist>>) THEN gaps ELSE gaps \cup {"dropped"}
        /\ snapshot' = snapshot
    BY <1>2, <2>2
  <2>4. persist \in Persists /\ persist \in SaverCommands
    BY <2>1, OrderKinds
  <2> HIDE DEF e
  <2>5. /\ <<persist>> \in Seq(SaverCommands)
        /\ saver.commands \o <<persist>> = Append(saver.commands, persist)
    BY <1>1, <2>4, OneMore
  <2>6. /\ Sent(saver.commands, <<persist>>) \in Seq(SaverCommands)
        /\ Len(Sent(saver.commands, <<persist>>)) <= Capacity
        /\ Fits(saver.commands, <<persist>>) =>
             Sent(saver.commands, <<persist>>) = Append(saver.commands, persist)
    BY <1>1, <2>5, SentIs
  <2>7. /\ saver'.commands = Sent(saver.commands, <<persist>>)
        /\ saver'.value = saver.value /\ saver'.events = saver.events
    BY <1>1, <2>3 DEF SaverTyped
  <2>8. /\ gaps \subseteq gaps' /\ gaps' \subseteq gaps \cup {"dropped"}
        /\ "dropped" \notin gaps' => saver'.commands = Append(saver.commands, persist)
    BY <2>3, <2>6, <2>7
  <2>9. Typed'
    <3>1. SaverTyped(saver')
      BY <1>1, <2>3, <2>6 DEF SaverTyped
    <3> QED BY <1>1, <1>2, <1>5, <2>3, <2>8, <3>1 DEF Typed, CoreTyped, HistoryTyped
  <2>10. CoreFollows' /\ SettingsFollow'
    BY <1>2, <2>3, <2>7, <2>8 DEF CoordinatorInv, CoreFollows, SettingsFollow, Follows
  <2>11. OffFollows'
    BY <1>2, <1>4, <2>3, <2>8 DEF CoordinatorInv, OffFollows
  <2>12. ViewFollows'
    <3>1. e # [view |-> proxy.view]
      BY <1>1, <2>1, EventKinds DEF ProxyTyped
    <3> QED BY <1>2, <1>4, <1>6, <2>3, <3>1 DEF CoordinatorInv, ViewFollows, Follows
  <2>13. WishFollows'
    <3> SUFFICES ASSUME gaps' \subseteq {"late", "stale"} PROVE WishFollows'
      BY DEF WishFollows
    <3>1. gaps \subseteq {"late", "stale"} /\ saver'.commands = Append(saver.commands, persist)
      BY <2>8
    <3>2. Ends(saver'.commands, Persists, persist)
      BY <1>1, <2>4, <3>1, AfterAppend
    <3>3. ~Lacks(proxy.events, Changes)
      BY <1>6, <2>1
    <3>4. [enabled |-> On] = e => [persist |-> On] = persist
      BY <2>1
    <3> QED BY <1>2, <1>6, <3>1, <3>2, <3>3, <3>4
            DEF CoordinatorInv, WishFollows, Follows, On
  <2> QED BY <2>9, <2>10, <2>11, <2>12, <2>13 DEF CoordinatorInv
<1> QED BY <1>2, <1>7, <1>8

LEMMA CoordinatorStays == CoordinatorInv /\ [Next]_vars => CoordinatorInv'
<1>1. ASSUME CoordinatorInv, Next PROVE CoordinatorInv'
  BY <1>1, CorePublishesKeeps, RelayKeeps, MihomoKeeps, TakeProxyCommandKeeps,
     ServiceSucceedsKeeps, ServiceFailsKeeps, PersistKeeps, TakeSettingsKeeps,
     ApplySettingsKeeps, UserSetsProxyKeeps, UserAppliesSettingsKeeps, HandleCoreEventKeeps,
     HandleMihomoEventKeeps, HandleProxyEventKeeps, HandleSettingsEventKeeps DEF Next
<1>2. ASSUME CoordinatorInv, UNCHANGED vars PROVE CoordinatorInv'
  BY <1>2
     DEF vars, CoordinatorInv, Typed, CoreTyped, HistoryTyped, CoreFollows, ViewFollows,
         SettingsFollow, WishFollows, OffFollows, Follows, On
<1> QED BY <1>1, <1>2

-----------------------------------------------------------------------------
(* The theorems                                                            *)

\* The inductive invariant: no channel holds more than its capacity, what a worker holds and
\* the coordinator does not know is on its way (BackendHandle, lib.rs handle_core_event to
\* handle_settings_event), and whatever enables the proxy without a core is undone.
THEOREM CoordinatorIsGood == Spec => []CoordinatorInv
BY CoordinatorStarts, CoordinatorStays, PTL DEF Spec

\* Once everything is delivered the snapshot the user sees is the truth (lib.rs, the select
\* loop and the events of the four workers).
THEOREM SnapshotIsTrue == Spec => []ViewIsTrue
<1>1. CoordinatorInv => ViewIsTrue
  <2> SUFFICES ASSUME CoordinatorInv, Quiet PROVE ViewIsTrue
    BY DEF ViewIsTrue
  <2>1. \A kind, m : ~Ends(core, kind, m) /\ ~Ends(proxy.events, kind, m)
                     /\ ~Ends(saver.events, kind, m)
    BY Empty DEF Quiet
  <2> QED BY <2>1
          DEF Quiet, ViewIsTrue, CoordinatorInv, CoreFollows, ViewFollows, SettingsFollow,
              Follows
<1> QED BY <1>1, CoordinatorIsGood, PTL

\* A proxy that is on is on by the settings on the disk too (EnabledChanged, lib.rs
\* handle_system_proxy_event, settings.rs persist_system_proxy).
THEOREM WishIsOnDisk == Spec => []WishIsKept
<1>1. CoordinatorInv => WishIsKept
  <2> SUFFICES ASSUME CoordinatorInv, Quiet, gaps \subseteq {"late", "stale"}, desktop # "off"
               PROVE  file.wish
    BY DEF WishIsKept
  <2>1. \A kind, m : ~Ends(saver.commands, kind, m) /\ ~Ends(proxy.events, kind, m)
    BY Empty DEF Quiet
  <2> QED BY <2>1 DEF CoordinatorInv, WishFollows, Follows, On
<1> QED BY <1>1, CoordinatorIsGood, PTL

\* The coordinator's state is well typed, no channel holds more than its capacity, and a core
\* that is lost does not leave the desktop on its port (lib.rs handle_core_event).
THEOREM NoProxyWithoutCore == Spec => []ProxyFollowsCore
<1>1. CoordinatorInv => TypeOK
  BY DEF CoordinatorInv, Typed, CoreTyped, HistoryTyped, MihomoTyped, ProxyTyped, SaverTyped,
         Snapshots, TypeOK, Bounded
<1>2. CoordinatorInv => ProxyNeedsCore
  <2> SUFFICES ASSUME CoordinatorInv, Quiet, gaps \subseteq {"overwritten", "stale"}, ~running
               PROVE  desktop # "manual"
    BY DEF ProxyNeedsCore
  <2>1. ~snapshot.running
    <3>1. \A kind, m : ~Ends(core, kind, m)
      BY Empty DEF Quiet
    <3> QED BY <3>1 DEF Quiet, CoordinatorInv, CoreFollows, Follows
  <2>2. ~HasOff(proxy.commands) /\ proxy.call # "off"
    BY EmptySeq, ConstantsAssumption DEF Quiet, HasOff, ProxyCommands
  <2> QED BY <2>1, <2>2 DEF CoordinatorInv, OffFollows
<1> QED BY <1>1, <1>2, CoordinatorIsGood, PTL DEF ProxyFollowsCore

=============================================================================

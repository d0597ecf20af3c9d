--------------------------- MODULE DesktopProofs ----------------------------
(***************************************************************************)
(* The properties of the desktop process, for every behaviour of the run   *)
(* that MCDesktop checks and every value of its constants: of its          *)
(* instances and windows (DesktopShell), of the settings page              *)
(* (SettingsDraft) and of the editors (ProfileEditors).                    *)
(*                                                                         *)
(* The instances.  That one process is primary follows from the listener   *)
(* at the path being its own (PrimaryHasPath), which needs that a process  *)
(* binds once and that a launch that has seen a listener's end is right    *)
(* (PathsAreBound).  A launch is heard because it waits at one place in    *)
(* one backlog, or is queued at one place in one queue (Waiting, InQueue), *)
(* and a window that is closed has an icon because an icon was wanted and  *)
(* shown when it was closed and neither can change unseen (IconsAreKept).  *)
(*                                                                         *)
(* The settings page.  Each view is that of the one before it, or the next *)
(* is on its way (ViewsFollow); a draft is of what the file holds, or the  *)
(* event that makes it anew is on its way (Told); and a request changes,   *)
(* in what it was made from, no field but those that its author touched,   *)
(* the draft included (RequestsAreHonest).                                 *)
(*                                                                         *)
(* The editors.  The property is of an editor that is clean; what makes it *)
(* so is an answer that set out long before.  A load of a file is behind   *)
(* all the saves of it, along the whole way from the interface to the      *)
(* worker and back (LoadsFollowSaves), and what is being saved of the file *)
(* of an editor is what is in it (EditorFits).  A frame reads all the news *)
(* at once: what it makes of the first k of them fits the rest (NewsFit).  *)
(* No edit vanishes because the saves of a file that are under way are of  *)
(* one content, which takes nothing from the file (SavesAgree), and an     *)
(* editor without unsaved edits leaves nothing that is not stored (Kept).  *)
(***************************************************************************)
EXTENDS MCDesktop, SequenceTheorems, WellFoundedInduction, TLAPS

-----------------------------------------------------------------------------
(* The instances and their windows                                         *)

\* The processes that have bound a listener, now or before: none of them binds another.
Bound == {"starting", "running", "quitting", "closed", "ended"}

Desktops ==
  [queue : Seq(Command \X (Launches \cup {None})), ending : BOOLEAN, visible : BOOLEAN,
   applied : BOOLEAN, settings : Choices, synced : Choices, icon : BOOLEAN,
   closeToTray : BOOLEAN, hotkeys : BOOLEAN, portal : {"none", "asked", "bound"},
   deaf : BOOLEAN, closed : BOOLEAN]

\* TypeOK with whole records, and with the desktop of an instance that is not there.
Typed ==
  /\ path \in Launches \cup {Stale, "file", None}
  /\ proc \in [Launches -> [pc : Steps, show : BOOLEAN, seen : Launches \cup {Stale, None}]]
  /\ backlog \in [Launches -> Seq(Launches)]
  /\ shell \in [Launches -> Desktops]
  /\ \A l \in Launches : /\ Len(shell[l].queue) <= Capacity
                         /\ shell[l].icon => shell[l].synced.tray
                         /\ proc[l].pc \notin {"running", "quitting"} => shell[l] = Unstarted
  /\ fate \in [Launches -> {"none", "waiting", "queued", "served", "lost"}]

\* A listener that was bound is never bound again, so a launch that has seen its end is right
\* to take its socket away.
PathsAreBound ==
  /\ path \in Launches => proc[path].pc \in Bound
  /\ \A l \in Launches :
       /\ proc[l].seen \in Launches => proc[proc[l].seen].pc \in Bound
       /\ proc[l].pc = "write" => proc[l].seen \in Launches
       /\ proc[l].pc \in {"inspect", "remove"} /\ l \notin Oversize => ~Listens(proc[l].seen)
       /\ shell[l].deaf => "deaf" \in gaps

\* A primary instance is the one at the path.
PrimaryHasPath ==
  gaps \cap {"raced", "unlinked", "oversize", "deaf"} = {} =>
    \A l \in Launches : Primary(l) => path = l

\* While the window is hidden, or about to be, there is a handle, and an icon is wanted and
\* shown.
IconIsKept(s) ==
  /\ Iconless(s) => "iconless" \in gaps
  /\ Hiding(s) /\ "turned off" \notin gaps
     => s.closeToTray /\ s.settings.tray /\ s.synced.tray

IconsAreKept == \A l \in Launches : IconIsKept(shell[l])

\* A request waits at one place in one backlog, at a listener, or is queued at one place in
\* one queue; the only other request in a queue is that of the instance itself.
Waiting ==
  /\ \A m \in Launches : backlog[m] # <<>> => Listens(m)
  /\ \A m \in Launches : \A i \in 1 .. Len(backlog[m]) : fate[backlog[m][i]] = "waiting"
  /\ \A m, n \in Launches : \A i \in 1 .. Len(backlog[m]), j \in 1 .. Len(backlog[n]) :
       backlog[m][i] = backlog[n][j] => m = n /\ i = j
  /\ \A l \in Launches : fate[l] = "waiting" =>
       /\ proc[l].pc = "forwarded"
       /\ \E m \in Launches : \E i \in 1 .. Len(backlog[m]) : backlog[m][i] = l

InQueue ==
  /\ \A m \in Launches : \A i \in 1 .. Len(shell[m].queue) :
       shell[m].queue[i][2] \in {None, m} \/ fate[shell[m].queue[i][2]] = "queued"
  /\ \A m, n \in Launches :
       \A i \in 1 .. Len(shell[m].queue), j \in 1 .. Len(shell[n].queue) :
         shell[m].queue[i][2] = shell[n].queue[j][2] /\ shell[m].queue[i][2] # None
         => m = n /\ i = j
  /\ \A l \in Launches : fate[l] = "queued" =>
       /\ proc[l].pc = "forwarded"
       /\ \E m \in Launches : \E i \in 1 .. Len(shell[m].queue) : shell[m].queue[i][2] = l

\* The inductive invariant of the shell.
ShellInv ==
  Typed /\ PathsAreBound /\ PrimaryHasPath /\ IconsAreKept /\ Waiting /\ InQueue

-----------------------------------------------------------------------------
(* Types                                                                   *)

LEMMA UnstartedShape ==
  ASSUME ShellAssumption
  PROVE  /\ Unstarted \in Desktops /\ Len(Unstarted.queue) <= Capacity
         /\ Unstarted.queue = <<>> /\ ~Unstarted.deaf /\ ~Unstarted.icon
<1>1. <<>> \in Seq(Command \X (Launches \cup {None})) /\ Len(<<>>) = 0
  BY EmptySeq
<1>2. Default \in Choices
  BY DEF Default, Choices
<1> QED BY <1>1, <1>2 DEF Unstarted, Desktops, ShellAssumption

\* What t may be, when a command of s is tried: it is queued, or finds no room.
MayAdd(t, s, do, from) ==
  /\ t \in Desktops /\ Len(t.queue) <= Capacity
  /\ t = [s EXCEPT !.queue = t.queue]
  /\ \/ t.queue = s.queue
     \/ /\ t.queue \in Seq(Command \X (Launches \cup {None}))
        /\ Len(t.queue) = Len(s.queue) + 1
        /\ \A i \in 1 .. Len(s.queue) : t.queue[i] = s.queue[i]
        /\ t.queue[Len(s.queue) + 1] = <<do, from>>

\* A command that is tried is queued, or finds no room; the rest stays.
LEMMA TriedShape ==
  ASSUME ShellAssumption, NEW s \in Desktops, Len(s.queue) <= Capacity,
         NEW do \in Command, NEW from \in Launches \cup {None}
  PROVE  MayAdd(Tried(s, do, from), s, do, from)
<1>1. /\ s.queue \in Seq(Command \X (Launches \cup {None}))
      /\ <<do, from>> \in Command \X (Launches \cup {None})
  BY DEF Desktops
<1> DEFINE q == Append(s.queue, <<do, from>>)
<1>2. /\ q \in Seq(Command \X (Launches \cup {None})) /\ Len(q) = Len(s.queue) + 1
      /\ \A i \in 1 .. Len(s.queue) : q[i] = s.queue[i]
      /\ q[Len(s.queue) + 1] = <<do, from>>
  BY <1>1, AppendProperties
<1>3. Len(s.queue) \in Nat /\ Capacity \in Nat
  BY <1>1, LenProperties DEF ShellAssumption
<1> HIDE DEF q
<1>4. CASE Len(s.queue) < Capacity /\ ~s.ending
  <2>1. Tried(s, do, from) = [s EXCEPT !.queue = q]
    BY <1>4 DEF Tried, q
  <2>2. [s EXCEPT !.queue = q] \in Desktops /\ [s EXCEPT !.queue = q].queue = q
    BY <1>2 DEF Desktops
  <2> QED BY <1>2, <1>3, <1>4, <2>1, <2>2 DEF MayAdd
<1>5. CASE ~(Len(s.queue) < Capacity /\ ~s.ending)
  BY <1>5 DEF Tried, Desktops, MayAdd
<1> QED BY <1>4, <1>5

LEMMA SyncedShape ==
  ASSUME NEW s \in Desktops, s.icon => s.synced.tray, NEW spawned \in BOOLEAN
  PROVE  LET t == Synced(s, spawned)
         IN /\ t \in Desktops /\ (t.icon => t.synced.tray) /\ t.queue = s.queue
            /\ t = [s EXCEPT !.synced = t.synced, !.icon = t.icon]
            /\ t = s \/ t.icon = (s.settings.tray /\ spawned)
            /\ ~s.closeToTray => t = s
            /\ s.closeToTray => t.synced.tray = s.settings.tray
<1> DEFINE t == Synced(s, spawned)
           kept == ~s.closeToTray \/ (s.settings.tray = s.synced.tray
                                      /\ s.settings.menu = s.synced.menu)
<1>1. CASE kept
  <2>1. t = s
    BY <1>1 DEF Synced
  <2>2. s = [s EXCEPT !.synced = s.synced, !.icon = s.icon]
    BY DEF Desktops
  <2> QED BY <1>1, <2>1, <2>2
<1>2. CASE ~kept
  <2> DEFINE icon == s.settings.tray /\ spawned
  <2>1. t = [s EXCEPT !.synced = s.settings, !.icon = icon]
    BY <1>2 DEF Synced
  <2>2. s.settings \in Choices /\ icon \in BOOLEAN
    BY DEF Desktops, Choices
  <2> HIDE DEF icon, t
  <2>3. t \in Desktops /\ t.queue = s.queue /\ t.synced = s.settings /\ t.icon = icon
    BY <2>1, <2>2 DEF Desktops
  <2>4. icon => s.settings.tray
    BY DEF icon
  <2> QED BY <1>2, <2>1, <2>3, <2>4 DEF icon, t
<1> QED BY <1>1, <1>2

\* The commands of a launch come after those that are queued: its request once, and perhaps
\* its profile.
LEMMA DispatchedShape ==
  ASSUME ShellAssumption, Typed, NEW s \in Desktops, Len(s.queue) <= Capacity,
         NEW l \in Launches
  PROVE  LET d == Dispatched(s, l)
         IN /\ d \in Desktops /\ Len(d.queue) <= Capacity
            /\ d = [s EXCEPT !.queue = d.queue]
            /\ Len(d.queue) >= Len(s.queue)
            /\ \A i \in 1 .. Len(s.queue) : d.queue[i] = s.queue[i]
            /\ \A i \in 1 .. Len(d.queue) : i > Len(s.queue) =>
                 d.queue[i] # <<"hide", None>> /\ d.queue[i][2] \in {l, None}
            /\ \A i, j \in 1 .. Len(d.queue) : i > Len(s.queue) /\ j > Len(s.queue)
                 /\ d.queue[i][2] = l /\ d.queue[j][2] = l => i = j
<1> DEFINE do == IF proc[l].show THEN "show" ELSE "hide"
           shown == Tried(s, do, l)
           n == Len(s.queue)
<1>1. do \in Command /\ l # None /\ n \in Nat
  <2>1. s.queue \in Seq(Command \X (Launches \cup {None}))
    BY DEF Desktops
  <2> QED BY <2>1, LenProperties DEF Command, ShellAssumption
<1> HIDE DEF do
<1>2. /\ shown \in Desktops /\ Len(shown.queue) <= Capacity
      /\ shown = [s EXCEPT !.queue = shown.queue]
      /\ \/ shown.queue = s.queue
         \/ /\ shown.queue \in Seq(Command \X (Launches \cup {None}))
            /\ Len(shown.queue) = n + 1
            /\ \A i \in 1 .. n : shown.queue[i] = s.queue[i]
            /\ shown.queue[n + 1] = <<do, l>>
  <2> HIDE DEF n
  <2>1. l \in Launches \cup {None}
    OBVIOUS
  <2>2. MayAdd(shown, s, do, l)
    BY <1>1, <2>1, TriedShape
  <2> QED BY <2>2 DEF MayAdd, n
<1> HIDE DEF shown
<1>3. /\ \A i \in 1 .. n : shown.queue[i] = s.queue[i]
      /\ Len(shown.queue) \in n .. n + 1
      /\ Len(shown.queue) = n + 1 => shown.queue[n + 1] = <<do, l>>
  BY <1>1, <1>2
<1>4. CASE l \notin Importing
  <2>1. Dispatched(s, l) = shown
    BY <1>4 DEF Dispatched, shown, do
  <2>2. \A i \in 1 .. Len(shown.queue) : i > n => i = n + 1 /\ shown.queue[i] = <<do, l>>
    BY <1>1, <1>3
  <2> QED BY <1>1, <1>2, <1>3, <2>1, <2>2
<1>5. CASE l \in Importing
  <2> DEFINE d == Tried(shown, "import", None)
             k == Len(shown.queue)
  <2>1. Dispatched(s, l) = d
    BY <1>5 DEF Dispatched, shown, do
  <2>2. /\ d \in Desktops /\ Len(d.queue) <= Capacity
        /\ d = [shown EXCEPT !.queue = d.queue]
        /\ \/ d.queue = shown.queue
           \/ /\ d.queue \in Seq(Command \X (Launches \cup {None}))
              /\ Len(d.queue) = k + 1
              /\ \A i \in 1 .. k : d.queue[i] = shown.queue[i]
              /\ d.queue[k + 1] = <<"import", None>>
    <3>1. "import" \in Command /\ None \in Launches \cup {None}
      BY DEF Command
    <3>2. shown \in Desktops /\ Len(shown.queue) <= Capacity
      BY <1>2
    <3>3. MayAdd(d, shown, "import", None)
      BY <3>1, <3>2, TriedShape
    <3> QED BY <3>3 DEF MayAdd
  <2> HIDE DEF d
  <2>3. d = [s EXCEPT !.queue = d.queue]
    BY <1>2, <2>2 DEF Desktops
  <2>4. /\ Len(d.queue) \in n .. n + 2 /\ \A i \in 1 .. n : d.queue[i] = s.queue[i]
        /\ \A i \in 1 .. Len(d.queue) : i > n =>
             \/ i = n + 1 /\ d.queue[i] = <<do, l>>
             \/ d.queue[i] = <<"import", None>>
    <3>1. n \in Nat /\ k \in {n, n + 1}
      BY <1>1, <1>3
    <3>2. CASE d.queue = shown.queue
      <4>1. \A i \in 1 .. Len(d.queue) : i > n => i = n + 1 /\ d.queue[i] = <<do, l>>
        BY <1>3, <3>1, <3>2
      <4> QED BY <1>3, <3>1, <3>2, <4>1
    <3>3. CASE /\ Len(d.queue) = k + 1
               /\ \A i \in 1 .. k : d.queue[i] = shown.queue[i]
               /\ d.queue[k + 1] = <<"import", None>>
      <4>1. \A i \in 1 .. Len(d.queue) : i > n => (i = k + 1 \/ (i = n + 1 /\ k = n + 1))
        BY <3>1, <3>3
      <4>2. \A i \in 1 .. n : i \in 1 .. k
        BY <3>1
      <4> QED BY SMTT(30), <1>3, <3>1, <3>3, <4>1, <4>2
    <3> QED BY <2>2, <3>2, <3>3
  <2> QED BY <1>1, <2>1, <2>2, <2>3, <2>4
<1> QED BY <1>4, <1>5

LEMMA GoesShape ==
  ASSUME Typed, NEW l \in Launches, NEW pc \in Steps, Goes(l, pc)
  PROVE  /\ proc' \in [Launches -> [pc : Steps, show : BOOLEAN,
                                    seen : Launches \cup {Stale, None}]]
         /\ proc'[l].pc = pc
         /\ \A m \in Launches : m # l => proc'[m] = proc[m]
         /\ \A m \in Launches : proc'[m].seen = proc[m].seen
  BY DEF Typed, Goes

\* The elements of a sequence after one that is added, and after one that is taken.
LEMMA Appended ==
  ASSUME NEW S, NEW s \in Seq(S), NEW x \in S
  PROVE  /\ Append(s, x) \in Seq(S) /\ Len(Append(s, x)) = Len(s) + 1 /\ Len(s) \in Nat
         /\ \A i \in 1 .. Len(s) : Append(s, x)[i] = s[i]
         /\ Append(s, x)[Len(s) + 1] = x
  BY AppendProperties, LenProperties

LEMMA Taken ==
  ASSUME NEW S, NEW s \in Seq(S), s # <<>>
  PROVE  /\ Tail(s) \in Seq(S) /\ Len(Tail(s)) = Len(s) - 1 /\ Len(s) \in Nat \ {0}
         /\ Head(s) = s[1] /\ Head(s) \in S
         /\ \A i \in 1 .. Len(Tail(s)) : i + 1 \in 1 .. Len(s) /\ Tail(s)[i] = s[i + 1]
<1>1. Len(s) \in Nat \ {0}
  BY LenProperties, EmptySeq, SeqEqual
<1>2. /\ Tail(s) \in Seq(S) /\ Len(Tail(s)) = Len(s) - 1
      /\ \A i \in 1 .. Len(Tail(s)) : Tail(s)[i] = s[i + 1]
      /\ Head(s) \in S
  BY HeadTailProperties
<1> QED BY <1>1, <1>2

\* Requests that are lost stay of their type.
LEMMA LostShape ==
  ASSUME Typed, NEW S, fate' = [m \in Launches |-> IF m \in S THEN "lost" ELSE fate[m]]
  PROVE  fate' \in [Launches -> {"none", "waiting", "queued", "served", "lost"}]
  BY DEF Typed

LEMMA TypesStart ==
  ASSUME ShellAssumption, Init
  PROVE  Typed
<1>1. Unstarted \in Desktops /\ Len(Unstarted.queue) <= Capacity /\ ~Unstarted.icon
  BY UnstartedShape
<1>2. <<>> \in Seq(Launches)
  BY EmptySeq
<1> QED BY <1>1, <1>2 DEF Init, Typed, Steps

LEMMA ProgressKeepsTypes ==
  ASSUME ShellAssumption, Typed, NEW l \in Launches, PathsAreBound, Progress(l)
  PROVE  Typed'
<1> USE DEF Steps
<1>1. /\ shell[l] \in Desktops /\ Len(shell[l].queue) <= Capacity
      /\ shell[l].icon => shell[l].synced.tray
      /\ backlog[l] \in Seq(Launches) /\ <<>> \in Seq(Launches)
  BY EmptySeq DEF Typed
<1>2. CASE Bind(l) \/ Rebind(l)
  <2>1. PICK pc \in {"starting", "connect", "ended"} : Goes(l, pc)
    BY <1>2 DEF Bind, Rebind, BindFree
  <2> QED BY ZenonT(40), <1>2, <2>1, GoesShape DEF Bind, Rebind, BindFree, Typed
<1>3. CASE Connect(l)
  <2> DEFINE seen == IF path = "file" THEN None ELSE path
             pc == IF Listens(path) THEN "write" ELSE "inspect"
  <2>1. proc' = [proc EXCEPT ![l] = [proc[l] EXCEPT !.seen = seen, !.pc = pc]]
          /\ UNCHANGED <<path, backlog, shell, fate>> /\ proc[l].pc = "connect"
    BY <1>3 DEF Connect
  <2>2. /\ seen \in Launches \cup {Stale, None} /\ pc \in Steps
        /\ pc \notin {"running", "quitting"}
    BY DEF Typed
  <2> HIDE DEF seen, pc
  <2>0. proc[l] \in [pc : Steps, show : BOOLEAN, seen : Launches \cup {Stale, None}]
    BY DEF Typed
  <2> HIDE DEF Steps
  <2> DEFINE process == [proc[l] EXCEPT !.seen = seen, !.pc = pc]
  <2>3. process \in [pc : Steps, show : BOOLEAN, seen : Launches \cup {Stale, None}]
          /\ process.pc = pc
    BY <2>0, <2>2
  <2> HIDE DEF process
  <2>4. proc' = [proc EXCEPT ![l] = process]
    BY <2>1 DEF process
  <2> QED BY <2>1, <2>2, <2>3, <2>4 DEF Typed
<1>4. CASE Write(l)
  <2>1. CASE Listens(proc[l].seen) /\ l \notin Oversize
    <3>1. Goes(l, "forwarded") /\ proc[l].seen \in Launches
      BY <1>4, <2>1 DEF Write, Listens
    <3>2. Append(backlog[proc[l].seen], l) \in Seq(Launches)
      BY <3>1, Appended DEF Typed
    <3>3. /\ backlog' = [backlog EXCEPT ![proc[l].seen] = Append(backlog[proc[l].seen], l)]
          /\ fate' = [fate EXCEPT ![l] = "waiting"] /\ UNCHANGED <<path, shell>>
          /\ proc[l].pc = "write"
      BY <1>4, <2>1 DEF Write
    <3> QED BY <3>1, <3>2, <3>3, GoesShape DEF Typed
  <2>2. CASE ~(Listens(proc[l].seen) /\ l \notin Oversize)
    BY <1>4, <2>2, GoesShape DEF Write, Typed
  <2> QED BY <2>1, <2>2
<1>5. CASE Inspect(l)
  <2>1. PICK pc \in {"ended", "remove"} : Goes(l, pc)
    BY <1>5 DEF Inspect
  <2> QED BY <1>5, <2>1, GoesShape DEF Inspect, Typed
<1>6. CASE RemoveSocket(l)
  <2>1. PICK pc \in {"ended", "rebind"} : Goes(l, pc)
    BY <1>6 DEF RemoveSocket
  <2> QED BY <1>6, <2>1, GoesShape DEF RemoveSocket, Typed
<1>7. ASSUME NEW spawned \in BOOLEAN, Start(l, spawned) PROVE Typed'
  <2> DEFINE d == Dispatched(Unstarted, l)
             s == [d EXCEPT !.icon = spawned, !.closeToTray = spawned]
  <2>1. /\ d \in Desktops /\ Len(d.queue) <= Capacity
        /\ d = [Unstarted EXCEPT !.queue = d.queue]
    BY UnstartedShape, DispatchedShape
  <2> HIDE DEF d
  <2>2. d.synced.tray
    BY <2>1 DEF Unstarted, Default
  <2>3. s \in Desktops /\ Len(s.queue) <= Capacity /\ s.synced.tray
    BY <2>1, <2>2 DEF Desktops
  <2> HIDE DEF s
  <2>4. /\ shell' = [shell EXCEPT ![l] = s] /\ Goes(l, "running")
        /\ UNCHANGED <<path, backlog, fate>>
    BY <1>7 DEF Start, s, d
  <2> QED BY <2>3, <2>4, GoesShape DEF Typed
<1>8. CASE Accept(l)
  <2> DEFINE from == Head(backlog[l])
             s == Dispatched(shell[l], from)
  <2>1. from \in Launches /\ Tail(backlog[l]) \in Seq(Launches)
    BY <1>1, <1>8, Taken DEF Accept
  <2> HIDE DEF from
  <2>2. s \in Desktops /\ Len(s.queue) <= Capacity /\ s = [shell[l] EXCEPT !.queue = s.queue]
    BY <1>1, <2>1, DispatchedShape
  <2>3. PICK f \in {"queued", "lost"} : fate' = [fate EXCEPT ![from] = f]
    BY <1>8 DEF Accept, from
  <2>4. /\ shell' = [shell EXCEPT ![l] = s] /\ UNCHANGED <<path, proc>>
        /\ backlog' = [backlog EXCEPT ![l] = Tail(backlog[l])]
        /\ proc[l].pc \in {"running", "quitting"}
    BY <1>8 DEF Accept, from
  <2> HIDE DEF s
  <2>5. s.icon => s.synced.tray
    BY <1>1, <2>2 DEF Desktops
  <2> QED BY <2>1, <2>2, <2>3, <2>4, <2>5 DEF Typed
<1>9. CASE Handle(l)
  <2> DEFINE do == Head(shell[l].queue)[1]
             from == Head(shell[l].queue)[2]
             rest == [shell[l] EXCEPT !.queue = Tail(shell[l].queue)]
             s == CASE do = "show"     -> [rest EXCEPT !.visible = TRUE, !.closed = FALSE]
                    [] do = "hide"     -> [rest EXCEPT !.visible = FALSE,
                         !.closed = (from = None) \/ (rest.closed /\ ~rest.visible)]
                    [] do = "toggle"   -> [rest EXCEPT !.visible = ~rest.visible,
                                                       !.closed = FALSE]
                    [] do = "import"   -> rest
                    [] do = "shutdown" -> [rest EXCEPT !.queue = <<>>, !.ending = TRUE]
             fated == [m \in Launches |->
                         IF m = from THEN "served"
                         ELSE IF do = "shutdown" /\ Queued(rest, m) THEN "lost" ELSE fate[m]]
  <2>1. /\ shell[l].queue # <<>> /\ proc[l].pc = "running"
        /\ UNCHANGED <<path, proc, backlog>>
        /\ shell' = [shell EXCEPT ![l] = s] /\ fate' = fated
    BY <1>9 DEF Handle
  <2>2. shell[l].queue \in Seq(Command \X (Launches \cup {None}))
    BY <1>1 DEF Desktops
  <2>3. /\ Tail(shell[l].queue) \in Seq(Command \X (Launches \cup {None}))
        /\ Len(Tail(shell[l].queue)) = Len(shell[l].queue) - 1 /\ do \in Command
        /\ Len(shell[l].queue) \in Nat
    BY <2>1, <2>2, Taken
  <2>4. /\ <<>> \in Seq(Command \X (Launches \cup {None})) /\ Len(<<>>) = 0
        /\ Capacity \in Nat
    BY EmptySeq DEF ShellAssumption
  <2> HIDE DEF do, from
  <2>5. /\ rest \in Desktops /\ Len(rest.queue) <= Capacity
        /\ (rest.icon => rest.synced.tray)
    <3>1. Len(Tail(shell[l].queue)) <= Capacity
      BY <1>1, <2>3, <2>4
    <3>2. rest \in Desktops /\ rest.queue = Tail(shell[l].queue) /\ rest.icon = shell[l].icon
            /\ rest.synced = shell[l].synced
      BY <1>1, <2>3 DEF Desktops
    <3> QED BY <1>1, <3>1, <3>2
  <2> HIDE DEF rest
  <2>6. s \in Desktops /\ Len(s.queue) <= Capacity /\ (s.icon => s.synced.tray)
    <3>1. CASE do = "show"
      BY <2>5, <3>1 DEF Desktops
    <3>2. CASE do = "hide"
      <4> DEFINE closed == from = None \/ (rest.closed /\ ~rest.visible)
      <4>1. closed \in BOOLEAN /\ s = [rest EXCEPT !.visible = FALSE, !.closed = closed]
        BY <3>2
      <4> HIDE DEF closed, s
      <4> QED BY <2>5, <4>1 DEF Desktops
    <3>3. CASE do = "toggle"
      <4> DEFINE visible == ~rest.visible
      <4>1. visible \in BOOLEAN /\ s = [rest EXCEPT !.visible = visible, !.closed = FALSE]
        BY <3>3
      <4> HIDE DEF visible, s
      <4> QED BY <2>5, <4>1 DEF Desktops
    <3>4. CASE do = "import"
      <4>1. s = rest
        BY <3>4
      <4> HIDE DEF s
      <4> QED BY <2>5, <4>1
    <3>5. CASE do = "shutdown"
      <4>1. s = [rest EXCEPT !.queue = <<>>, !.ending = TRUE]
        BY <3>5
      <4> HIDE DEF s
      <4> DEFINE empty == <<>>
      <4>2. s = [rest EXCEPT !.queue = empty, !.ending = TRUE]
        BY <4>1
      <4>3. empty \in Seq(Command \X (Launches \cup {None})) /\ Len(empty) <= Capacity
        BY <2>4
      <4> HIDE DEF empty
      <4> QED BY <2>5, <4>2, <4>3 DEF Desktops
    <3> QED BY <2>3, <3>1, <3>2, <3>3, <3>4, <3>5 DEF Command
  <2>7. fated \in [Launches -> {"none", "waiting", "queued", "served", "lost"}]
    BY DEF Typed
  <2> HIDE DEF s, fated
  <2> QED BY <2>1, <2>6, <2>7 DEF Typed
<1>10. CASE Quit(l)
  BY <1>10, GoesShape DEF Quit, Typed
<1>11. CASE Stop(l)
  <2>1. /\ Goes(l, "closed") /\ backlog' = [backlog EXCEPT ![l] = <<>>]
        /\ shell' = [shell EXCEPT ![l] = Unstarted] /\ UNCHANGED path
    BY <1>11 DEF Stop
  <2>2. fate' \in [Launches -> {"none", "waiting", "queued", "served", "lost"}]
    BY <1>11 DEF Stop, Typed
  <2> QED BY ZenonT(40), <1>1, <2>1, <2>2, GoesShape, UnstartedShape DEF Typed
<1>12. CASE Unlink(l)
  BY <1>12, GoesShape DEF Unlink, Typed
<1> QED BY <1>2, <1>3, <1>4, <1>5, <1>6, <1>7, <1>8, <1>9, <1>10, <1>11, <1>12 DEF Progress

LEMMA OthersKeepTypes ==
  ASSUME ShellAssumption, Typed, NEW l \in Launches,
         \/ \E show \in BOOLEAN : Launch(l, show)
         \/ StartFails(l) \/ Kill(l) \/ ListenerFails(l)
  PROVE  Typed'
<1>1. /\ shell[l] \in Desktops /\ Len(shell[l].queue) <= Capacity
      /\ shell[l].icon => shell[l].synced.tray
      /\ proc[l] \in [pc : Steps, show : BOOLEAN, seen : Launches \cup {Stale, None}]
      /\ <<>> \in Seq(Launches)
  BY EmptySeq DEF Typed
<1>2. ASSUME NEW show \in BOOLEAN, Launch(l, show) PROVE Typed'
  <2> DEFINE process == [proc[l] EXCEPT !.pc = "bind", !.show = show]
  <2>1. process \in [pc : Steps, show : BOOLEAN, seen : Launches \cup {Stale, None}]
          /\ process.pc = "bind"
    <3>1. "bind" \in Steps
      BY DEF Steps
    <3> QED BY <1>1, <3>1
  <2>2. proc' = [proc EXCEPT ![l] = process] /\ proc[l].pc = "none"
          /\ UNCHANGED <<path, backlog, shell, fate>>
    BY <1>2 DEF Launch
  <2> HIDE DEF process
  <2> QED BY <2>1, <2>2 DEF Typed
<1>3. CASE StartFails(l)
  <2>1. /\ Goes(l, "ended") /\ backlog' = [backlog EXCEPT ![l] = <<>>]
        /\ proc[l].pc = "starting" /\ UNCHANGED <<path, shell>>
    BY <1>3 DEF StartFails
  <2>2. fate' \in [Launches -> {"none", "waiting", "queued", "served", "lost"}]
    BY <1>3 DEF StartFails, Typed
  <2> QED BY <1>1, <2>1, <2>2, GoesShape DEF Typed, Steps
<1>4. CASE Kill(l)
  <2>1. /\ Goes(l, "ended") /\ backlog' = [backlog EXCEPT ![l] = <<>>]
        /\ shell' = [shell EXCEPT ![l] = Unstarted] /\ UNCHANGED path
    BY <1>4 DEF Kill
  <2>2. fate' \in [Launches -> {"none", "waiting", "queued", "served", "lost"}]
    BY <1>4 DEF Kill, Typed
  <2>3. "ended" \in Steps /\ <<>> \in Seq(Launches)
    BY EmptySeq DEF Steps
  <2>4. /\ proc' \in [Launches -> [pc : Steps, show : BOOLEAN,
                                   seen : Launches \cup {Stale, None}]]
        /\ proc'[l].pc = "ended" /\ \A m \in Launches : m # l => proc'[m] = proc[m]
    BY <2>1, <2>3, GoesShape
  <2>5. shell' \in [Launches -> Desktops] /\ shell'[l] = Unstarted
          /\ \A m \in Launches : m # l => shell'[m] = shell[m]
    BY <2>1, UnstartedShape DEF Typed
  <2>6. Len(shell'[l].queue) <= Capacity /\ ~shell'[l].icon
    BY <2>5, UnstartedShape
  <2>7. backlog' \in [Launches -> Seq(Launches)]
    BY <2>1, <2>3 DEF Typed
  <2> QED BY <2>1, <2>2, <2>4, <2>5, <2>6, <2>7 DEF Typed
<1>5. CASE ListenerFails(l)
  <2> DEFINE s == [shell[l] EXCEPT !.deaf = TRUE]
  <2>1. /\ backlog' = [backlog EXCEPT ![l] = <<>>] /\ proc[l].pc = "running"
        /\ shell' = [shell EXCEPT ![l] = s] /\ UNCHANGED <<path, proc>>
    BY <1>5 DEF ListenerFails
  <2>2. fate' \in [Launches -> {"none", "waiting", "queued", "served", "lost"}]
    BY <1>5 DEF ListenerFails, Typed
  <2>3. s \in Desktops /\ Len(s.queue) <= Capacity /\ (s.icon => s.synced.tray)
    BY <1>1 DEF Desktops
  <2> HIDE DEF s
  <2> QED BY <1>1, <2>1, <2>2, <2>3 DEF Typed
<1> QED BY <1>2, <1>3, <1>4, <1>5

\* What the window, the icon, the shortcuts and the settings do to a desktop.
Managed(l, s) ==
  \/ \E choice \in Choices :
       /\ s = [shell[l] EXCEPT !.settings = choice]
       /\ ~choice.tray /\ Hiding(shell[l]) => "turned off" \in gaps'
  \/ \E spawned \in BOOLEAN :
       /\ s = Synced([shell[l] EXCEPT !.applied = shell[l].visible], spawned)
       /\ Iconless(s) => "iconless" \in gaps'
  \/ \E spawned \in BOOLEAN :
       LET shown == [shell[l] EXCEPT !.applied = shell[l].visible]
       IN /\ s = Synced(Tried(shown, IF TrayIsAvailable(shown) THEN "hide" ELSE "shutdown",
                              None), spawned)
          /\ Iconless(s) => "iconless" \in gaps'
  \/ \E do \in {"toggle", "shutdown"} : s = Tried(shell[l], do, None)
  \/ \E hotkeys \in BOOLEAN, portal \in {"none", "asked", "bound"} :
       s = [shell[l] EXCEPT !.hotkeys = hotkeys, !.portal = portal]

\* ... and that they do nothing else, but for the window that is closed for good.
LEMMA Manages ==
  ASSUME Typed, NEW l \in Launches,
         \/ \E choice \in Choices : Configure(l, choice)
         \/ \E spawned \in BOOLEAN : Frame(l, spawned) \/ Close(l, spawned)
         \/ \E do \in {"toggle", "shutdown"} : Tray(l, do)
         \/ \E answer \in {"bound", "none"} : PortalAnswers(l, answer)
         \/ Supervise(l) \/ Shortcut(l)
  PROVE  \E s : /\ Managed(l, s) /\ shell' = [shell EXCEPT ![l] = s]
                /\ proc[l].pc = "running" /\ UNCHANGED <<path, backlog, fate>>
                /\ UNCHANGED proc \/ Goes(l, "quitting")
                /\ gaps \subseteq gaps'
<1>1. shell[l] = [shell[l] EXCEPT !.queue = shell[l].queue]
        /\ shell[l].hotkeys \in BOOLEAN /\ shell[l].portal \in {"none", "asked", "bound"}
  BY DEF Typed, Desktops
<1>2. ASSUME NEW choice \in Choices, Configure(l, choice) 
      PROVE  \E s : /\ Managed(l, s) /\ shell' = [shell EXCEPT ![l] = s]
                    /\ proc[l].pc = "running" /\ UNCHANGED <<path, backlog, fate>>
                    /\ UNCHANGED proc \/ Goes(l, "quitting")
                    /\ gaps \subseteq gaps'
  <2> DEFINE s == [shell[l] EXCEPT !.settings = choice]
  <2>1. shell' = [shell EXCEPT ![l] = s] /\ proc[l].pc = "running"
          /\ UNCHANGED <<path, proc, backlog, fate>> /\ gaps \subseteq gaps'
    BY <1>2 DEF Configure
  <2>2. ~choice.tray /\ Hiding(shell[l]) => "turned off" \in gaps'
    BY <1>2 DEF Configure
  <2>3. Managed(l, s)
    BY <2>2 DEF Managed
  <2> QED BY <2>1, <2>3
<1>3. ASSUME NEW spawned \in BOOLEAN, Frame(l, spawned)
      PROVE  \E s : /\ Managed(l, s) /\ shell' = [shell EXCEPT ![l] = s]
                    /\ proc[l].pc = "running" /\ UNCHANGED <<path, backlog, fate>>
                    /\ UNCHANGED proc \/ Goes(l, "quitting")
                    /\ gaps \subseteq gaps'
  <2> DEFINE s == Synced([shell[l] EXCEPT !.applied = shell[l].visible], spawned)
  <2>1. shell' = [shell EXCEPT ![l] = s] /\ proc[l].pc = "running"
          /\ UNCHANGED <<path, proc, backlog, fate>> /\ gaps \subseteq gaps'
          /\ (Iconless(s) => "iconless" \in gaps')
    BY <1>3 DEF Frame
  <2>2. Managed(l, s)
    BY <2>1 DEF Managed
  <2> HIDE DEF s
  <2> QED BY <2>1, <2>2
<1>4. ASSUME NEW spawned \in BOOLEAN, Close(l, spawned)
      PROVE  \E s : /\ Managed(l, s) /\ shell' = [shell EXCEPT ![l] = s]
                    /\ proc[l].pc = "running" /\ UNCHANGED <<path, backlog, fate>>
                    /\ UNCHANGED proc \/ Goes(l, "quitting")
                    /\ gaps \subseteq gaps'
  <2> DEFINE shown == [shell[l] EXCEPT !.applied = shell[l].visible]
             s == Synced(Tried(shown, IF TrayIsAvailable(shown) THEN "hide" ELSE "shutdown",
                               None), spawned)
  <2>1. /\ shell' = [shell EXCEPT ![l] = s] /\ proc[l].pc = "running"
        /\ UNCHANGED <<path, backlog, fate>> /\ gaps \subseteq gaps'
        /\ UNCHANGED proc \/ Goes(l, "quitting")
        /\ Iconless(s) => "iconless" \in gaps'
    BY <1>4 DEF Close
  <2>2. Managed(l, s)
    BY <2>1 DEF Managed
  <2> HIDE DEF s
  <2> QED BY <2>1, <2>2
<1>5. ASSUME NEW do \in {"toggle", "shutdown"}, Tray(l, do)
      PROVE  \E s : /\ Managed(l, s) /\ shell' = [shell EXCEPT ![l] = s]
                    /\ proc[l].pc = "running" /\ UNCHANGED <<path, backlog, fate>>
                    /\ UNCHANGED proc \/ Goes(l, "quitting")
                    /\ gaps \subseteq gaps'
  <2> DEFINE s == Tried(shell[l], do, None)
  <2>1. Managed(l, s) /\ shell' = [shell EXCEPT ![l] = s] /\ proc[l].pc = "running"
          /\ UNCHANGED <<path, proc, backlog, fate, gaps>>
    BY <1>5 DEF Tray, Managed
  <2> HIDE DEF s
  <2> QED BY <2>1
<1>6. ASSUME NEW answer \in {"bound", "none"}, PortalAnswers(l, answer)
      PROVE  \E s : /\ Managed(l, s) /\ shell' = [shell EXCEPT ![l] = s]
                    /\ proc[l].pc = "running" /\ UNCHANGED <<path, backlog, fate>>
                    /\ UNCHANGED proc \/ Goes(l, "quitting")
                    /\ gaps \subseteq gaps'
  <2> DEFINE s == [shell[l] EXCEPT !.hotkeys = shell[l].hotkeys, !.portal = answer]
  <2>1. s = [shell[l] EXCEPT !.portal = answer]
    BY DEF Typed, Desktops
  <2>2. Managed(l, s)
    BY <1>1 DEF Managed
  <2> HIDE DEF s
  <2>3. shell' = [shell EXCEPT ![l] = s] /\ proc[l].pc = "running"
          /\ UNCHANGED <<path, proc, backlog, fate, gaps>>
    BY <1>6, <2>1 DEF PortalAnswers
  <2> QED BY <2>2, <2>3
<1>7. CASE Supervise(l)
  <2> DEFINE hotkeys == ~shell[l].hotkeys
             portal == IF shell[l].hotkeys THEN "none" ELSE "asked"
             s == [shell[l] EXCEPT !.hotkeys = hotkeys, !.portal = portal]
  <2>1. shell' = [shell EXCEPT ![l] = s] /\ proc[l].pc = "running"
          /\ UNCHANGED <<path, proc, backlog, fate, gaps>>
    BY <1>7 DEF Supervise
  <2>2. Managed(l, s)
    BY <1>1 DEF Managed
  <2> HIDE DEF s
  <2> QED BY <2>1, <2>2
<1>8. CASE Shortcut(l)
  <2>1. proc[l].pc = "running" /\ UNCHANGED <<path, proc, backlog, fate, gaps>>
    BY <1>8 DEF Shortcut
  <2>2. CASE Len(shell[l].queue) < Capacity /\ ~shell[l].ending
    <3> DEFINE s == Tried(shell[l], "toggle", None)
    <3>1. shell' = [shell EXCEPT ![l] = s] /\ Managed(l, s)
      BY <1>8, <2>2 DEF Shortcut, Managed
    <3> HIDE DEF s
    <3> QED BY <2>1, <3>1
  <2>3. CASE ~(Len(shell[l].queue) < Capacity /\ ~shell[l].ending)
    <3> DEFINE s == [shell[l] EXCEPT !.hotkeys = shell[l].hotkeys, !.portal = "none"]
    <3>1. s = [shell[l] EXCEPT !.portal = "none"]
      BY DEF Typed, Desktops
    <3>2. Managed(l, s)
      BY <1>1 DEF Managed
    <3> HIDE DEF s
    <3>3. shell' = [shell EXCEPT ![l] = s]
      BY <1>8, <2>3, <3>1 DEF Shortcut
    <3> QED BY <2>1, <3>2, <3>3
  <2> QED BY <2>2, <2>3
<1> QED BY <1>2, <1>3, <1>4, <1>5, <1>6, <1>7, <1>8

-----------------------------------------------------------------------------
(* The window and its icon                                                 *)

\* Only its own command to hide, or a window closed before, makes a desktop hide.
LEMMA HidingBefore ==
  ASSUME NEW s \in Desktops, NEW t \in Desktops, t.closed = s.closed, Hiding(t),
         \A i \in 1 .. Len(t.queue) : t.queue[i] = <<"hide", None>> =>
           \E j \in 1 .. Len(s.queue) : s.queue[j] = t.queue[i]
  PROVE  Hiding(s)
<1>1. DOMAIN s.queue = 1 .. Len(s.queue) /\ DOMAIN t.queue = 1 .. Len(t.queue)
  <2>1. s.queue \in Seq(Command \X (Launches \cup {None}))
          /\ t.queue \in Seq(Command \X (Launches \cup {None}))
    BY DEF Desktops
  <2> QED BY <2>1, LenProperties
<1> QED BY <1>1 DEF Hiding

\* A queue that has grown, by commands that are nobody's request.
Grown(s, t) ==
  /\ Len(t.queue) >= Len(s.queue)
  /\ \A i \in 1 .. Len(s.queue) : t.queue[i] = s.queue[i]
  /\ \A i \in 1 .. Len(t.queue) : i > Len(s.queue) => t.queue[i][2] = None

LEMMA TriedGrows ==
  ASSUME ShellAssumption, NEW s \in Desktops, Len(s.queue) <= Capacity, NEW do \in Command
  PROVE  LET t == Tried(s, do, None)
         IN /\ t \in Desktops /\ Len(t.queue) <= Capacity /\ Grown(s, t)
            /\ t = [s EXCEPT !.queue = t.queue]
            /\ do # "hide" => (Hiding(t) => Hiding(s))
<1> DEFINE t == Tried(s, do, None)
<1>1. /\ t \in Desktops /\ Len(t.queue) <= Capacity
      /\ t = [s EXCEPT !.queue = t.queue]
      /\ \/ t.queue = s.queue
         \/ /\ t.queue \in Seq(Command \X (Launches \cup {None}))
            /\ Len(t.queue) = Len(s.queue) + 1
            /\ \A i \in 1 .. Len(s.queue) : t.queue[i] = s.queue[i]
            /\ t.queue[Len(s.queue) + 1] = <<do, None>>
  <2>1. None \in Launches \cup {None}
    OBVIOUS
  <2>2. MayAdd(t, s, do, None)
    BY <2>1, TriedShape
  <2> QED BY <2>2 DEF MayAdd
<1> HIDE DEF t
<1>2. Len(s.queue) \in Nat
  <2>1. s.queue \in Seq(Command \X (Launches \cup {None}))
    BY DEF Desktops
  <2> QED BY <2>1, LenProperties
<1>3. \A i \in 1 .. Len(t.queue) : \/ i \in 1 .. Len(s.queue) /\ t.queue[i] = s.queue[i]
                                   \/ i > Len(s.queue) /\ t.queue[i] = <<do, None>>
  BY <1>1, <1>2
<1>4. Grown(s, t)
  BY <1>1, <1>2, <1>3 DEF Grown
<1>5. t.closed = s.closed
  BY <1>1 DEF Desktops
<1>6. ASSUME do # "hide", Hiding(t) PROVE Hiding(s)
  BY <1>1, <1>3, <1>5, <1>6, HidingBefore
<1> QED BY <1>1, <1>4, <1>6 DEF t

LEMMA ManagedKeeps ==
  ASSUME ShellAssumption, Typed, NEW l \in Launches, IconIsKept(shell[l]),
         NEW s, Managed(l, s), gaps \subseteq gaps'
  PROVE  /\ s \in Desktops /\ Len(s.queue) <= Capacity /\ (s.icon => s.synced.tray)
         /\ s.deaf = shell[l].deaf /\ Grown(shell[l], s)
         /\ IconIsKept(s)'
<1> DEFINE old == shell[l]
<1>1. /\ old \in Desktops /\ Len(old.queue) <= Capacity /\ (old.icon => old.synced.tray)
      /\ IconIsKept(old) /\ Len(old.queue) \in Nat
  <2>1. old \in Desktops
    BY DEF Typed
  <2>2. old.queue \in Seq(Command \X (Launches \cup {None}))
    BY <2>1 DEF Desktops
  <2> QED BY <2>1, <2>2, LenProperties DEF Typed
<1>2. ASSUME NEW t \in Desktops, t.queue = old.queue PROVE Grown(old, t)
  BY <1>1, <1>2 DEF Grown
<1>3. ASSUME NEW t \in Desktops, t.queue = old.queue, t.closed = old.closed
      PROVE  Hiding(t) => Hiding(old)
  BY <1>3 DEF Hiding
<1>4. ASSUME NEW choice \in Choices, s = [old EXCEPT !.settings = choice],
             ~choice.tray /\ Hiding(old) => "turned off" \in gaps'
      PROVE  /\ s \in Desktops /\ Len(s.queue) <= Capacity /\ (s.icon => s.synced.tray)
             /\ s.deaf = shell[l].deaf /\ Grown(shell[l], s)
             /\ IconIsKept(s)'
  <2> HIDE DEF old
  <2>1. /\ s \in Desktops /\ s.queue = old.queue /\ s.closed = old.closed
        /\ s.icon = old.icon
        /\ s.synced = old.synced /\ s.closeToTray = old.closeToTray /\ s.settings = choice
        /\ s.deaf = old.deaf
    BY <1>1, <1>4 DEF Desktops
  <2>2. Hiding(s) => Hiding(old)
    BY <1>3, <2>1
  <2>3. Iconless(s) => Iconless(old)
    BY <2>1 DEF Iconless
  <2>4. IconIsKept(s)'
    BY <1>1, <1>4, <2>1, <2>2, <2>3 DEF IconIsKept
  <2> QED BY <1>1, <1>2, <2>1, <2>4 DEF old
<1>5. ASSUME NEW t \in Desktops, NEW spawned \in BOOLEAN, s = Synced(t, spawned),
             Len(t.queue) <= Capacity, t.icon => t.synced.tray,
             t.deaf = old.deaf, Grown(old, t), Iconless(s) => "iconless" \in gaps',
             Hiding(t) /\ "turned off" \notin gaps' => t.closeToTray /\ t.settings.tray
      PROVE  /\ s \in Desktops /\ Len(s.queue) <= Capacity /\ (s.icon => s.synced.tray)
             /\ s.deaf = shell[l].deaf /\ Grown(shell[l], s)
             /\ IconIsKept(s)'
  <2>1. /\ s \in Desktops /\ (s.icon => s.synced.tray) /\ s.queue = t.queue
        /\ s = [t EXCEPT !.synced = s.synced, !.icon = s.icon]
        /\ t.closeToTray => s.synced.tray = t.settings.tray
    BY <1>5, SyncedShape
  <2>2. s.closed = t.closed /\ s.deaf = t.deaf /\ s.closeToTray = t.closeToTray
          /\ s.settings = t.settings
    BY <2>1 DEF Desktops
  <2>3. Hiding(s) => Hiding(t)
    BY <2>1, <2>2 DEF Hiding
  <2>4. IconIsKept(s)'
    BY <1>5, <2>1, <2>2, <2>3 DEF IconIsKept
  <2>5. Grown(old, s)
    BY <1>5, <2>1 DEF Grown
  <2> QED BY <1>5, <2>1, <2>2, <2>4, <2>5
<1> DEFINE shown == [old EXCEPT !.applied = old.visible]
<1>6. /\ shown \in Desktops /\ shown.queue = old.queue /\ shown.closed = old.closed
      /\ shown.closeToTray = old.closeToTray /\ shown.settings = old.settings
      /\ shown.synced = old.synced /\ shown.icon = old.icon /\ shown.deaf = old.deaf
  <2> HIDE DEF old
  <2> QED BY <1>1 DEF Desktops
<1>7. Hiding(old) /\ "turned off" \notin gaps' => old.closeToTray /\ old.settings.tray
  BY <1>1 DEF IconIsKept
<1>8. ASSUME NEW spawned \in BOOLEAN, s = Synced(shown, spawned),
             Iconless(s) => "iconless" \in gaps'
      PROVE  /\ s \in Desktops /\ Len(s.queue) <= Capacity /\ (s.icon => s.synced.tray)
             /\ s.deaf = shell[l].deaf /\ Grown(shell[l], s)
             /\ IconIsKept(s)'
  <2> HIDE DEF shown, old
  <2>1. Grown(old, shown) /\ (Hiding(shown) => Hiding(old))
    BY <1>2, <1>3, <1>6
  <2> QED BY <1>1, <1>5, <1>6, <1>7, <1>8, <2>1
<1>9. ASSUME NEW spawned \in BOOLEAN,
             s = Synced(Tried(shown, IF TrayIsAvailable(shown) THEN "hide" ELSE "shutdown",
                              None), spawned),
             Iconless(s) => "iconless" \in gaps'
      PROVE  /\ s \in Desktops /\ Len(s.queue) <= Capacity /\ (s.icon => s.synced.tray)
             /\ s.deaf = shell[l].deaf /\ Grown(shell[l], s)
             /\ IconIsKept(s)'
  <2> DEFINE do == IF TrayIsAvailable(shown) THEN "hide" ELSE "shutdown"
             t == Tried(shown, do, None)
  <2>1. do \in Command /\ (do = "hide" => shown.closeToTray /\ shown.settings.tray)
    BY DEF Command, TrayIsAvailable
  <2> HIDE DEF shown, do, old
  <2>2. /\ t \in Desktops /\ Len(t.queue) <= Capacity /\ Grown(shown, t)
        /\ t = [shown EXCEPT !.queue = t.queue]
        /\ do # "hide" => (Hiding(t) => Hiding(shown))
    BY <1>1, <1>6, <2>1, TriedGrows
  <2>3. s = Synced(t, spawned)
    BY <1>9 DEF do
  <2> HIDE DEF t
  <2>4. /\ t.closeToTray = old.closeToTray /\ t.settings = old.settings /\ t.icon = old.icon
        /\ t.synced = old.synced /\ t.deaf = old.deaf
    BY <1>6, <2>2 DEF Desktops
  <2>5. Grown(old, t)
    BY <1>6, <2>2 DEF Grown
  <2>6. Hiding(shown) => Hiding(old)
    BY <1>3, <1>6
  <2>7. Hiding(t) /\ "turned off" \notin gaps' => t.closeToTray /\ t.settings.tray
    BY <1>6, <1>7, <2>1, <2>2, <2>4, <2>6
  <2> QED BY <1>1, <1>5, <1>9, <2>2, <2>3, <2>4, <2>5, <2>7
<1>10. ASSUME NEW do \in {"toggle", "shutdown"}, s = Tried(old, do, None)
       PROVE  /\ s \in Desktops /\ Len(s.queue) <= Capacity /\ (s.icon => s.synced.tray)
              /\ s.deaf = shell[l].deaf /\ Grown(shell[l], s)
              /\ IconIsKept(s)'
  <2>1. do \in Command /\ do # "hide"
    BY DEF Command
  <2> HIDE DEF old
  <2>2. /\ s \in Desktops /\ Len(s.queue) <= Capacity /\ Grown(old, s)
        /\ s = [old EXCEPT !.queue = s.queue] /\ (Hiding(s) => Hiding(old))
    BY <1>1, <1>10, <2>1, TriedGrows
  <2>3. /\ s.closeToTray = old.closeToTray /\ s.settings = old.settings /\ s.icon = old.icon
        /\ s.synced = old.synced /\ s.deaf = old.deaf
    BY <1>1, <2>2 DEF Desktops
  <2>4. IconIsKept(s)'
    BY <1>1, <2>2, <2>3 DEF IconIsKept, Iconless
  <2> QED BY <1>1, <2>2, <2>3, <2>4 DEF old
<1>11. ASSUME NEW hotkeys \in BOOLEAN, NEW portal \in {"none", "asked", "bound"},
              s = [old EXCEPT !.hotkeys = hotkeys, !.portal = portal]
       PROVE  /\ s \in Desktops /\ Len(s.queue) <= Capacity /\ (s.icon => s.synced.tray)
              /\ s.deaf = shell[l].deaf /\ Grown(shell[l], s)
              /\ IconIsKept(s)'
  <2> HIDE DEF old
  <2>1. /\ s \in Desktops /\ s.queue = old.queue /\ s.closed = old.closed
        /\ s.icon = old.icon
        /\ s.synced = old.synced /\ s.closeToTray = old.closeToTray
        /\ s.settings = old.settings /\ s.deaf = old.deaf
    BY <1>1, <1>11 DEF Desktops
  <2>2. Hiding(s) => Hiding(old)
    BY <1>3, <2>1
  <2>3. IconIsKept(s)'
    BY <1>1, <2>1, <2>2 DEF IconIsKept, Iconless
  <2> QED BY <1>1, <1>2, <2>1, <2>3 DEF old
<1> QED BY <1>4, <1>8, <1>9, <1>10, <1>11 DEF Managed

LEMMA GapsStay ==
  ASSUME ShellAssumption, Typed, [Next]_vars
  PROVE  gaps \subseteq gaps'
<1>1. ASSUME NEW l \in Launches, Progress(l) PROVE gaps \subseteq gaps'
  BY <1>1 DEF Progress, Bind, BindFree, Connect, Write, Inspect, RemoveSocket, Rebind, Start,
              Accept, Handle, Quit, Stop, Unlink
<1>2. ASSUME NEW l \in Launches,
             \/ \E show \in BOOLEAN : Launch(l, show)
             \/ StartFails(l) \/ Kill(l) \/ ListenerFails(l)
      PROVE gaps \subseteq gaps'
  BY <1>2 DEF Launch, StartFails, Kill, ListenerFails
<1>3. ASSUME NEW l \in Launches,
             \/ \E choice \in Choices : Configure(l, choice)
             \/ \E spawned \in BOOLEAN : Frame(l, spawned) \/ Close(l, spawned)
             \/ \E do \in {"toggle", "shutdown"} : Tray(l, do)
             \/ \E answer \in {"bound", "none"} : PortalAnswers(l, answer)
             \/ Supervise(l) \/ Shortcut(l)
      PROVE gaps \subseteq gaps'
  BY <1>3, Manages
<1>4. CASE UNCHANGED vars
  BY <1>4 DEF vars
<1> QED BY <1>1, <1>2, <1>3, <1>4 DEF Next

\* A step that changes one desktop, or none.
LEMMA IconsOfOthers ==
  ASSUME Typed, IconsAreKept, gaps \subseteq gaps',
         \/ UNCHANGED shell
         \/ \E l \in Launches, s \in Desktops :
              shell' = [shell EXCEPT ![l] = s] /\ IconIsKept(s)'
  PROVE  IconsAreKept'
<1>1. ASSUME NEW m \in Launches, shell'[m] = shell[m] PROVE IconIsKept(shell[m])'
  BY <1>1 DEF IconsAreKept, IconIsKept
<1>2. ASSUME NEW l \in Launches, NEW s \in Desktops, shell' = [shell EXCEPT ![l] = s],
             IconIsKept(s)', NEW m \in Launches
      PROVE IconIsKept(shell[m])'
  <2>1. CASE m = l
    <3>1. shell'[m] = s
      BY <1>2, <2>1 DEF Typed
    <3> QED BY <1>2, <3>1 DEF IconIsKept
  <2>2. CASE m # l
    BY <1>1, <1>2, <2>2 DEF Typed
  <2> QED BY <2>1, <2>2
<1> QED BY <1>1, <1>2 DEF IconsAreKept

\* A desktop that hides no more than before, and whose icon is as it was.
LEMMA SameIcon ==
  ASSUME NEW l \in Launches, IconsAreKept, gaps \subseteq gaps', NEW s \in Desktops,
         s.icon = shell[l].icon, s.synced = shell[l].synced, s.settings = shell[l].settings,
         s.closeToTray = shell[l].closeToTray, Hiding(s) => Hiding(shell[l])
  PROVE  IconIsKept(s)'
<1>1. IconIsKept(shell[l])
  BY DEF IconsAreKept
<1>2. Iconless(s) = Iconless(shell[l])
  BY DEF Iconless
<1> QED BY <1>1, <1>2 DEF IconIsKept

\* What a handler makes of the desktop, and of its queue.
LEMMA HandleShape ==
  ASSUME ShellAssumption, Typed, PathsAreBound, NEW l \in Launches, Handle(l)
  PROVE  \E s \in Desktops :
           /\ shell' = [shell EXCEPT ![l] = s]
           /\ s.icon = shell[l].icon /\ s.synced = shell[l].synced
           /\ s.settings = shell[l].settings /\ s.closeToTray = shell[l].closeToTray
           /\ s.deaf = shell[l].deaf
           /\ s.queue = IF Head(shell[l].queue)[1] = "shutdown" THEN <<>>
                        ELSE Tail(shell[l].queue)
           /\ s.closed => shell[l].closed \/ shell[l].queue[1] = <<"hide", None>>
<1> DEFINE old == shell[l]
           do == Head(shell[l].queue)[1]
           from == Head(shell[l].queue)[2]
           rest == [shell[l] EXCEPT !.queue = Tail(shell[l].queue)]
<1>1. PICK s : /\ shell' = [shell EXCEPT ![l] = s]
               /\ s = CASE do = "show"     -> [rest EXCEPT !.visible = TRUE,
                                                           !.closed = FALSE]
                        [] do = "hide"     -> [rest EXCEPT !.visible = FALSE,
                             !.closed = (from = None) \/ (rest.closed /\ ~rest.visible)]
                        [] do = "toggle"   -> [rest EXCEPT !.visible = ~rest.visible,
                                                           !.closed = FALSE]
                        [] do = "import"   -> rest
                        [] do = "shutdown" -> [rest EXCEPT !.queue = <<>>, !.ending = TRUE]
  BY DEF Handle
<1>2. shell'[l] = s /\ shell'[l] \in Desktops
  <2>1. Typed'
    BY ProgressKeepsTypes DEF Progress
  <2> QED BY <1>1, <2>1 DEF Typed
<1>3. /\ old \in Desktops /\ old.queue # <<>>
      /\ old.queue \in Seq(Command \X (Launches \cup {None}))
  BY DEF Typed, Handle, Desktops
<1>4. /\ Tail(old.queue) \in Seq(Command \X (Launches \cup {None}))
      /\ Head(old.queue) = old.queue[1]
      /\ Head(old.queue) \in Command \X (Launches \cup {None})
      /\ Len(old.queue) \in Nat \ {0}
      /\ \A i \in 1 .. Len(Tail(old.queue)) :
           i + 1 \in 1 .. Len(old.queue) /\ Tail(old.queue)[i] = old.queue[i + 1]
  BY <1>3, Taken
<1>5. do \in Command /\ (do = "hide" /\ from = None => old.queue[1] = <<"hide", None>>)
  BY <1>4
<1>6. /\ rest.queue = Tail(old.queue) /\ rest.closed = old.closed /\ rest.icon = old.icon
      /\ rest.synced = old.synced /\ rest.settings = old.settings
      /\ rest.closeToTray = old.closeToTray /\ rest.deaf = old.deaf /\ rest \in Desktops
  <2> HIDE DEF old
  <2>1. rest = [old EXCEPT !.queue = Tail(old.queue)]
    BY DEF old
  <2> QED BY ZenonT(40), <1>3, <1>4, <2>1 DEF Desktops
<1> HIDE DEF old, rest, do, from
<1>7. /\ s.icon = old.icon /\ s.synced = old.synced /\ s.settings = old.settings
      /\ s.closeToTray = old.closeToTray
      /\ s.deaf = old.deaf
      /\ s.queue = IF do = "shutdown" THEN <<>> ELSE Tail(old.queue)
      /\ s.closed => old.closed \/ old.queue[1] = <<"hide", None>>
  <2>1. CASE do = "show"
    BY <1>1, <1>6, <2>1 DEF Desktops
  <2>2. CASE do = "hide"
    <3> DEFINE closed == from = None \/ (rest.closed /\ ~rest.visible)
    <3>1. s = [rest EXCEPT !.visible = FALSE, !.closed = closed]
      BY <1>1, <2>2
    <3>2. closed => old.closed \/ old.queue[1] = <<"hide", None>>
      BY <1>5, <1>6, <2>2
    <3> HIDE DEF closed
    <3>3. /\ s.icon = rest.icon /\ s.synced = rest.synced /\ s.settings = rest.settings
          /\ s.closeToTray = rest.closeToTray /\ s.deaf = rest.deaf /\ s.queue = rest.queue
          /\ s.closed = closed
      BY <1>6, <3>1 DEF Desktops
    <3> QED BY <1>6, <2>2, <3>2, <3>3
  <2>3. CASE do = "toggle"
    BY <1>1, <1>6, <2>3 DEF Desktops
  <2>4. CASE do = "import"
    BY <1>1, <1>6, <2>4
  <2>5. CASE do = "shutdown"
    BY <1>1, <1>6, <2>5 DEF Desktops
  <2> QED BY <1>5, <2>1, <2>2, <2>3, <2>4, <2>5 DEF Command
<1> QED BY <1>1, <1>2, <1>7 DEF old, do

LEMMA IconsStayKept ==
  ASSUME ShellAssumption, Typed, PathsAreBound, IconsAreKept, [Next]_vars
  PROVE  IconsAreKept'
<1> gaps \subseteq gaps'
  BY GapsStay
<1>1. /\ Unstarted \in Desktops /\ ~Iconless(Unstarted) /\ ~Hiding(Unstarted)
      /\ Unstarted.queue = <<>> /\ Len(Unstarted.queue) = 0
      /\ Len(Unstarted.queue) <= Capacity
  BY UnstartedShape, EmptySeq DEF Iconless, Hiding, Unstarted, Default
<1>2. ASSUME NEW l \in Launches
      PROVE  shell[l] \in Desktops /\ Len(shell[l].queue) <= Capacity
  BY DEF Typed
<1>3. ASSUME NEW s \in Desktops, Len(s.queue) <= Capacity, NEW l \in Launches
      PROVE  /\ Dispatched(s, l) \in Desktops
             /\ Dispatched(s, l) = [s EXCEPT !.queue = Dispatched(s, l).queue]
             /\ Hiding(Dispatched(s, l)) => Hiding(s)
  <2> DEFINE d == Dispatched(s, l)
  <2>1. /\ d \in Desktops /\ d = [s EXCEPT !.queue = d.queue]
        /\ \A i \in 1 .. Len(s.queue) : d.queue[i] = s.queue[i]
        /\ \A i \in 1 .. Len(d.queue) : i > Len(s.queue) => d.queue[i] # <<"hide", None>>
    BY <1>3, DispatchedShape
  <2> HIDE DEF d
  <2>2. Len(s.queue) \in Nat /\ d.closed = s.closed
    <3>1. s.queue \in Seq(Command \X (Launches \cup {None}))
      BY DEF Desktops
    <3> QED BY <2>1, <3>1, LenProperties DEF Desktops
  <2>3. \A i \in 1 .. Len(d.queue) : d.queue[i] = <<"hide", None>> =>
          i \in 1 .. Len(s.queue) /\ s.queue[i] = d.queue[i]
    BY <2>1, <2>2
  <2>4. Hiding(d) => Hiding(s)
    BY <2>1, <2>2, <2>3, HidingBefore
  <2> QED BY <2>1, <2>4 DEF d
<1>4. ASSUME NEW l \in Launches, Progress(l)
      PROVE  \/ UNCHANGED shell
             \/ \E s \in Desktops : shell' = [shell EXCEPT ![l] = s] /\ IconIsKept(s)'
  <2>1. CASE \/ Bind(l) \/ Connect(l) \/ Write(l) \/ Inspect(l) \/ RemoveSocket(l)
             \/ Rebind(l) \/ Quit(l) \/ Unlink(l)
    BY <2>1 DEF Bind, BindFree, Connect, Write, Inspect, RemoveSocket, Rebind, Quit, Unlink
  <2>2. ASSUME NEW spawned \in BOOLEAN, Start(l, spawned)
        PROVE  \E s \in Desktops : shell' = [shell EXCEPT ![l] = s] /\ IconIsKept(s)'
    <3> DEFINE d == Dispatched(Unstarted, l)
    <3> PICK s : s = [d EXCEPT !.icon = spawned, !.closeToTray = spawned]
      OBVIOUS
    <3>1. d \in Desktops /\ ~Hiding(d)
      BY <1>1, <1>3
    <3> HIDE DEF d
    <3>2. /\ s \in Desktops /\ s.queue = d.queue /\ s.closed = d.closed
          /\ s.icon = s.closeToTray
      BY <3>1 DEF Desktops
    <3>3. shell' = [shell EXCEPT ![l] = s]
      BY <2>2 DEF Start, d
    <3>4. ~Iconless(s) /\ ~Hiding(s)
      BY <3>1, <3>2 DEF Iconless, Hiding
    <3>5. IconIsKept(s)'
      BY <3>4 DEF IconIsKept
    <3> QED BY <3>2, <3>3, <3>5
  <2>3. CASE Accept(l)
    <3> DEFINE from == Head(backlog[l])
    <3> PICK s : s = Dispatched(shell[l], from)
      OBVIOUS
    <3>1. from \in Launches /\ shell' = [shell EXCEPT ![l] = s]
      BY <2>3, Taken DEF Accept, Typed
    <3> HIDE DEF from
    <3>2. /\ s \in Desktops /\ s = [shell[l] EXCEPT !.queue = s.queue]
          /\ Hiding(s) => Hiding(shell[l])
      BY <1>2, <1>3, <3>1
    <3>3. /\ s.icon = shell[l].icon /\ s.synced = shell[l].synced
          /\ s.settings = shell[l].settings /\ s.closeToTray = shell[l].closeToTray
      BY <1>2, <3>2 DEF Desktops
    <3>4. IconIsKept(s)'
      BY <3>2, <3>3, SameIcon
    <3> QED BY <3>1, <3>2, <3>4
  <2>4. CASE Handle(l)
    <3> PICK old : old = shell[l]
      OBVIOUS
    <3>1. PICK s \in Desktops :
            /\ shell' = [shell EXCEPT ![l] = s]
            /\ s.icon = old.icon /\ s.synced = old.synced /\ s.settings = old.settings
            /\ s.closeToTray = old.closeToTray
            /\ s.queue = Tail(old.queue) \/ s.queue = <<>>
            /\ s.closed => old.closed \/ old.queue[1] = <<"hide", None>>
      BY <2>4, HandleShape
    <3>2. old.queue # <<>> /\ old.queue \in Seq(Command \X (Launches \cup {None}))
      BY <1>2, <2>4 DEF Handle, Desktops
    <3>3. /\ Tail(old.queue) \in Seq(Command \X (Launches \cup {None}))
          /\ Len(old.queue) \in Nat \ {0}
          /\ \A i \in 1 .. Len(Tail(old.queue)) :
               i + 1 \in 1 .. Len(old.queue) /\ Tail(old.queue)[i] = old.queue[i + 1]
      BY <3>2, Taken
    <3>4. Hiding(s) => Hiding(old)
      <4> SUFFICES ASSUME Hiding(s) PROVE Hiding(old)
        OBVIOUS
      <4>1. DOMAIN old.queue = 1 .. Len(old.queue) /\ 1 \in 1 .. Len(old.queue)
              /\ DOMAIN Tail(old.queue) = 1 .. Len(Tail(old.queue))
        BY <3>2, <3>3, LenProperties
      <4>2. CASE s.closed
        BY <3>1, <4>1, <4>2 DEF Hiding
      <4>3. CASE ~s.closed
        <5>1. PICK i \in DOMAIN s.queue : s.queue[i] = <<"hide", None>>
          BY <4>3 DEF Hiding
        <5>2. s.queue = Tail(old.queue)
          BY <3>1, <5>1
        <5> QED BY SMTT(30), <3>3, <4>1, <5>1, <5>2 DEF Hiding
      <4> QED BY <4>2, <4>3
    <3>5. IconIsKept(s)'
      BY <3>1, <3>4, SameIcon
    <3> QED BY <3>1, <3>5
  <2>5. CASE Stop(l)
    <3>1. shell' = [shell EXCEPT ![l] = Unstarted]
      BY <2>5 DEF Stop
    <3>2. IconIsKept(Unstarted)'
      BY <1>1 DEF IconIsKept
    <3> QED BY <1>1, <3>1, <3>2
  <2> QED BY <1>4, <2>1, <2>2, <2>3, <2>4, <2>5 DEF Progress
<1>5. ASSUME NEW l \in Launches,
             \/ \E show \in BOOLEAN : Launch(l, show)
             \/ StartFails(l) \/ Kill(l) \/ ListenerFails(l)
      PROVE  \/ UNCHANGED shell
             \/ \E s \in Desktops : shell' = [shell EXCEPT ![l] = s] /\ IconIsKept(s)'
  <2>1. CASE Kill(l)
    <3>1. shell' = [shell EXCEPT ![l] = Unstarted]
      BY <2>1 DEF Kill
    <3>2. IconIsKept(Unstarted)'
      BY <1>1 DEF IconIsKept
    <3> QED BY <1>1, <3>1, <3>2
  <2>2. CASE ListenerFails(l)
    <3> PICK old : old = shell[l]
      OBVIOUS
    <3> PICK s : s = [old EXCEPT !.deaf = TRUE]
      OBVIOUS
    <3>1. shell' = [shell EXCEPT ![l] = s]
      BY <2>2 DEF ListenerFails
    <3>2. /\ s \in Desktops /\ s.icon = shell[l].icon /\ s.synced = shell[l].synced
          /\ s.settings = shell[l].settings /\ s.closeToTray = shell[l].closeToTray
          /\ s.queue = shell[l].queue /\ s.closed = shell[l].closed
      <4>1. old \in Desktops
        BY <1>2
      <4>2. /\ s \in Desktops /\ s.icon = old.icon /\ s.synced = old.synced
            /\ s.settings = old.settings /\ s.closeToTray = old.closeToTray
            /\ s.queue = old.queue /\ s.closed = old.closed
        BY <4>1 DEF Desktops
      <4> QED BY <4>2
    <3>3. Hiding(s) => Hiding(shell[l])
      BY <3>2 DEF Hiding
    <3>4. IconIsKept(s)'
      BY <3>2, <3>3, SameIcon
    <3> QED BY <3>1, <3>2, <3>4
  <2>3. CASE StartFails(l) \/ \E show \in BOOLEAN : Launch(l, show)
    BY <2>3 DEF StartFails, Launch
  <2> QED BY <1>5, <2>1, <2>2, <2>3
<1>6. ASSUME NEW l \in Launches, NEW s, Managed(l, s), shell' = [shell EXCEPT ![l] = s]
      PROVE  \E t \in Desktops : shell' = [shell EXCEPT ![l] = t] /\ IconIsKept(t)'
  <2>1. IconIsKept(shell[l])
    BY DEF IconsAreKept
  <2> QED BY <1>6, <2>1, ManagedKeeps
<1>7. ASSUME NEW l \in Launches,
             \/ \E choice \in Choices : Configure(l, choice)
             \/ \E spawned \in BOOLEAN : Frame(l, spawned) \/ Close(l, spawned)
             \/ \E do \in {"toggle", "shutdown"} : Tray(l, do)
             \/ \E answer \in {"bound", "none"} : PortalAnswers(l, answer)
             \/ Supervise(l) \/ Shortcut(l)
      PROVE  \E s \in Desktops : shell' = [shell EXCEPT ![l] = s] /\ IconIsKept(s)'
  <2>1. PICK s : Managed(l, s) /\ shell' = [shell EXCEPT ![l] = s]
    BY <1>7, Manages
  <2> QED BY <1>6, <2>1
<1>8. CASE UNCHANGED vars
  BY <1>8, IconsOfOthers DEF vars
<1>9. CASE Next
  <2>1. \/ UNCHANGED shell
        \/ \E l \in Launches, s \in Desktops :
             shell' = [shell EXCEPT ![l] = s] /\ IconIsKept(s)'
    BY <1>4, <1>5, <1>7, <1>9 DEF Next
  <2> QED BY <2>1, IconsOfOthers
<1> QED BY <1>8, <1>9

-----------------------------------------------------------------------------
(* The path                                                                *)

\* Steps that leave the path alone, bind nothing and look at nothing.
LEMMA PathsOfOthers ==
  ASSUME Typed, PathsAreBound, PrimaryHasPath, path' = path, gaps \subseteq gaps',
         \A m \in Launches :
           /\ proc[m].pc \in Bound => proc'[m].pc \in Bound
           /\ proc'[m].pc \in {"write", "inspect", "remove"} => proc'[m].pc = proc[m].pc
           /\ proc'[m].seen = proc[m].seen
           /\ Primary(m)' => Primary(m)
           /\ Listens(m)' => Listens(m)
           /\ shell'[m].deaf => "deaf" \in gaps'
  PROVE  PathsAreBound' /\ PrimaryHasPath'
<1>1. \A l : Listens(l)' => Listens(l)
  BY DEF Listens
<1>2. PathsAreBound'
  BY <1>1 DEF PathsAreBound
<1>3. PrimaryHasPath'
  BY DEF PrimaryHasPath
<1> QED BY <1>2, <1>3

\* One process goes on, from where it has not bound or to where it still has.
LEMMA OneGoes ==
  ASSUME Typed, PathsAreBound, PrimaryHasPath, path' = path, gaps \subseteq gaps',
         NEW l \in Launches, NEW pc \in Steps,
         pc \notin {"write", "inspect", "remove"} \/ pc = proc[l].pc,
         proc[l].pc \in Bound => pc \in Bound,
         pc \in {"starting", "running", "quitting"} => Primary(l),
         Goes(l, pc), \A m \in Launches : m # l => shell'[m] = shell[m],
         shell'[l].deaf => "deaf" \in gaps',
         pc \in {"starting", "running", "quitting"} /\ ~shell'[l].deaf => ~shell[l].deaf
  PROVE  PathsAreBound' /\ PrimaryHasPath'
<1>1. /\ proc'[l].pc = pc /\ \A m \in Launches : m # l => proc'[m] = proc[m]
      /\ \A m \in Launches : proc'[m].seen = proc[m].seen
  BY GoesShape
<1>2. \A m \in Launches : /\ proc[m].pc \in Bound => proc'[m].pc \in Bound
                          /\ proc'[m].pc \in {"write", "inspect", "remove"} =>
                               proc'[m].pc = proc[m].pc
  BY <1>1
<1>3. \A m \in Launches : /\ Primary(m)' => Primary(m)
                          /\ Listens(m)' => Listens(m)
                          /\ shell'[m].deaf => "deaf" \in gaps'
  BY <1>1 DEF Primary, Listens, PathsAreBound
<1> QED BY <1>1, <1>2, <1>3, PathsOfOthers

\* No process goes on, and none hears again.
LEMMA NoneGoes ==
  ASSUME Typed, PathsAreBound, PrimaryHasPath, UNCHANGED <<path, proc>>,
         gaps \subseteq gaps',
         \A m \in Launches : shell'[m].deaf = shell[m].deaf \/ "deaf" \in gaps',
         \A m \in Launches : shell[m].deaf => shell'[m].deaf
  PROVE  PathsAreBound' /\ PrimaryHasPath'
<1>1. \A m \in Launches : /\ Primary(m)' => Primary(m)
                          /\ Listens(m)' => Listens(m)
                          /\ shell'[m].deaf => "deaf" \in gaps'
  BY DEF Primary, Listens, PathsAreBound
<1> QED BY <1>1, PathsOfOthers

LEMMA BindsKeepPaths ==
  ASSUME ShellAssumption, Typed, PathsAreBound, PrimaryHasPath, NEW l \in Launches,
         Bind(l) \/ Rebind(l)
  PROVE  PathsAreBound' /\ PrimaryHasPath'
<1>1. /\ proc[l].pc \in {"bind", "rebind"} /\ shell[l] = Unstarted
      /\ UNCHANGED <<shell, gaps>> /\ ~Unstarted.deaf
  BY UnstartedShape DEF Bind, Rebind, BindFree, Typed
<1>2. CASE path # None
  <2>1. PICK pc \in {"connect", "ended"} : Goes(l, pc) /\ path' = path
    BY <1>2 DEF Bind, Rebind, BindFree
  <2> QED BY <1>1, <2>1, OneGoes DEF Steps, Bound
<1>3. CASE path = None
  <2>1. Goes(l, "starting") /\ path' = l
    BY <1>3 DEF Bind, Rebind, BindFree
  <2>2. /\ proc'[l].pc = "starting" /\ \A m \in Launches : m # l => proc'[m] = proc[m]
        /\ \A m \in Launches : proc'[m].seen = proc[m].seen
    BY <2>1, GoesShape DEF Steps
  <2>3. \A m \in Launches : proc[m].seen # l
    BY <1>1 DEF PathsAreBound, Bound
  <2>4. \A m : m # l => Listens(m)' = Listens(m)
    BY <1>1, <2>2 DEF Listens, Primary
  <2>5. PathsAreBound'
    BY <1>1, <2>1, <2>2, <2>3, <2>4 DEF PathsAreBound, Bound
  <2>6. PrimaryHasPath'
    <3> SUFFICES ASSUME gaps \cap {"raced", "unlinked", "oversize", "deaf"} = {},
                        NEW m \in Launches, Primary(m)'
                 PROVE  m = l
      BY <1>1, <2>1 DEF PrimaryHasPath
    <3>1. ~Primary(m)
      BY <1>3 DEF PrimaryHasPath, ShellAssumption
    <3> QED BY <2>2, <3>1 DEF Primary
  <2> QED BY <2>5, <2>6
<1> QED BY <1>2, <1>3

LEMMA LooksKeepPaths ==
  ASSUME ShellAssumption, Typed, PathsAreBound, PrimaryHasPath, NEW l \in Launches,
         Connect(l) \/ Write(l) \/ Inspect(l)
  PROVE  PathsAreBound' /\ PrimaryHasPath'
<1>1. /\ proc[l].pc \in {"connect", "write", "inspect"} /\ UNCHANGED <<path, shell, gaps>>
      /\ \A m \in Launches : m # l => proc'[m] = proc[m]
      /\ proc'[l].pc \notin Bound \/ proc'[l].pc = "ended"
      /\ proc'[l].pc \in {"write", "inspect", "forwarded", "ended", "remove"}
  <2>1. CASE Connect(l)
    BY <2>1 DEF Connect, Typed, Bound
  <2>2. CASE Write(l)
    BY <2>2 DEF Write, Goes, Typed, Bound
  <2>3. CASE Inspect(l)
    BY <2>3 DEF Inspect, Goes, Typed, Bound
  <2> QED BY <2>1, <2>2, <2>3
<1>2. \A m : Primary(m)' /\ m \in Launches => Primary(m)
  BY <1>1 DEF Primary
<1>3. \A m : Listens(m)' => Listens(m)
  BY <1>1, <1>2 DEF Listens
<1>4. PrimaryHasPath'
  BY <1>1, <1>2 DEF PrimaryHasPath
<1>5. \A m \in Launches : proc[m].pc \in Bound => proc'[m].pc \in Bound
  BY <1>1 DEF Bound
<1>6. /\ proc'[l].seen \in Launches => proc[proc'[l].seen].pc \in Bound
      /\ proc'[l].pc = "write" => proc'[l].seen \in Launches
      /\ proc'[l].pc \in {"inspect", "remove"} /\ l \notin Oversize
         => ~Listens(proc'[l].seen)
  <2>1. CASE Connect(l)
    <3> DEFINE seen == IF path = "file" THEN None ELSE path
               pc == IF Listens(path) THEN "write" ELSE "inspect"
    <3>1. proc'[l].seen = seen /\ proc'[l].pc = pc
      BY <2>1 DEF Connect, Typed
    <3>2. seen \in Launches => path = seen
      BY DEF ShellAssumption
    <3>3. pc = "write" => seen \in Launches /\ path = seen
      BY DEF Listens, ShellAssumption
    <3>4. pc = "inspect" => ~Listens(seen)
      BY <3>2 DEF Listens
    <3>5. pc \in {"write", "inspect"}
      OBVIOUS
    <3> HIDE DEF seen, pc
    <3> QED BY <3>1, <3>2, <3>3, <3>4, <3>5 DEF PathsAreBound
  <2>2. CASE Write(l) \/ Inspect(l)
    <3>1. proc'[l].seen = proc[l].seen
      BY <2>2 DEF Write, Inspect, Goes, Typed
    <3>2. proc'[l].pc = "inspect" => l \in Oversize \/ ~Listens(proc[l].seen)
      BY <2>2 DEF Write, Inspect, Goes, Typed
    <3>3. proc'[l].pc = "remove" => proc[l].pc = "inspect"
      BY <2>2 DEF Write, Inspect, Goes, Typed
    <3>4. proc'[l].pc # "write"
      BY <2>2 DEF Write, Inspect, Goes, Typed
    <3> QED BY <3>1, <3>2, <3>3, <3>4 DEF PathsAreBound
  <2> QED BY <2>1, <2>2
<1>7. PathsAreBound'
  BY <1>1, <1>3, <1>5, <1>6 DEF PathsAreBound
<1> QED BY <1>4, <1>7

\* Who takes a socket away has seen its listener's end, or the gaps say so.
LEMMA RemovalsKeepPaths ==
  ASSUME ShellAssumption, Typed, PathsAreBound, PrimaryHasPath, NEW l \in Launches,
         RemoveSocket(l) \/ Unlink(l)
  PROVE  PathsAreBound' /\ PrimaryHasPath'
<1>1. PICK pc \in {"ended", "rebind"} :
        /\ Goes(l, pc) /\ UNCHANGED shell /\ gaps \subseteq gaps' /\ path' = None
        /\ proc[l].pc \in {"remove", "closed"} /\ (proc[l].pc = "closed" => pc = "ended")
  BY DEF RemoveSocket, Unlink
<1>2. /\ proc'[l].pc = pc /\ \A m \in Launches : m # l => proc'[m] = proc[m]
      /\ \A m \in Launches : proc'[m].seen = proc[m].seen
  BY <1>1, GoesShape DEF Steps
<1>3. \A m \in Launches : /\ Primary(m)' => Primary(m) /\ Primary(m)'
                          /\ Listens(m)' => Listens(m)
                          /\ proc[m].pc \in Bound => proc'[m].pc \in Bound
  BY <1>1, <1>2 DEF Primary, Listens, Bound
<1>4. \A m : Listens(m)' => Listens(m)
  BY <1>3 DEF Listens
<1>5. None \notin Launches
  BY DEF ShellAssumption
<1>6. PathsAreBound'
  BY <1>1, <1>2, <1>3, <1>4, <1>5 DEF PathsAreBound
<1>7. PrimaryHasPath'
  <2> SUFFICES ASSUME gaps' \cap {"raced", "unlinked", "oversize", "deaf"} = {},
                      NEW m \in Launches, Primary(m)'
               PROVE  FALSE
    BY DEF PrimaryHasPath
  <2>1. Primary(m) /\ path = m /\ ~shell[m].deaf
    BY <1>1, <1>3 DEF PrimaryHasPath, PathsAreBound
  <2>2. Listens(path)
    BY <2>1 DEF Listens
  <2>3. CASE RemoveSocket(l)
    <3>1. path = proc[l].seen /\ l \notin Oversize
      BY <2>2, <2>3 DEF RemoveSocket
    <3> QED BY <2>2, <2>3, <3>1 DEF RemoveSocket, PathsAreBound
  <2>4. CASE Unlink(l)
    BY <2>2, <2>4 DEF Unlink
  <2> QED BY <2>3, <2>4
<1> QED BY <1>6, <1>7

LEMMA PathsStayBound ==
  ASSUME ShellAssumption, Typed, PathsAreBound, PrimaryHasPath, IconsAreKept, [Next]_vars
  PROVE  PathsAreBound' /\ PrimaryHasPath'
<1> gaps \subseteq gaps'
  BY GapsStay
<1>0. /\ \A l \in Launches : shell[l].deaf => "deaf" \in gaps'
      /\ ~Unstarted.deaf
  BY UnstartedShape DEF PathsAreBound
<1>1. ASSUME NEW l \in Launches, Progress(l) PROVE PathsAreBound' /\ PrimaryHasPath'
  <2>1. CASE Bind(l) \/ Rebind(l)
    BY <2>1, BindsKeepPaths
  <2>2. CASE Connect(l) \/ Write(l) \/ Inspect(l)
    BY <2>2, LooksKeepPaths
  <2>3. CASE RemoveSocket(l) \/ Unlink(l)
    BY <2>3, RemovalsKeepPaths
  <2>4. ASSUME NEW spawned \in BOOLEAN, Start(l, spawned)
        PROVE  PathsAreBound' /\ PrimaryHasPath'
    <3> DEFINE d == Dispatched(Unstarted, l)
               s == [d EXCEPT !.icon = spawned, !.closeToTray = spawned]
    <3>1. d \in Desktops /\ d = [Unstarted EXCEPT !.queue = d.queue]
      BY UnstartedShape, DispatchedShape
    <3> HIDE DEF d
    <3>2. ~s.deaf
      BY <1>0, <3>1 DEF Desktops, Unstarted
    <3>3. /\ shell' = [shell EXCEPT ![l] = s] /\ Goes(l, "running")
          /\ proc[l].pc = "starting" /\ UNCHANGED <<path, gaps>>
      BY <2>4 DEF Start, d
    <3> HIDE DEF s
    <3>4. shell'[l] = s /\ (\A m \in Launches : m # l => shell'[m] = shell[m])
            /\ shell[l] = Unstarted
      BY <3>3 DEF Typed
    <3> QED BY <1>0, <3>2, <3>3, <3>4, OneGoes DEF Steps, Bound, Primary
  <2>5. CASE Accept(l)
    <3> DEFINE s == Dispatched(shell[l], Head(backlog[l]))
    <3>1. Head(backlog[l]) \in Launches
      BY <2>5, Taken DEF Accept, Typed
    <3>2. s \in Desktops /\ s = [shell[l] EXCEPT !.queue = s.queue]
      BY <3>1, DispatchedShape DEF Typed
    <3>3. shell' = [shell EXCEPT ![l] = s] /\ UNCHANGED <<path, proc, gaps>>
      BY <2>5 DEF Accept
    <3> HIDE DEF s
    <3>4. s.deaf = shell[l].deaf
      BY <3>2 DEF Typed, Desktops
    <3>5. \A m \in Launches : shell'[m].deaf = shell[m].deaf
      BY <3>3, <3>4 DEF Typed
    <3> QED BY <3>3, <3>5, NoneGoes
  <2>6. CASE Handle(l)
    <3>1. PICK s \in Desktops : shell' = [shell EXCEPT ![l] = s] /\ s.deaf = shell[l].deaf
      BY <2>6, HandleShape
    <3>2. \A m \in Launches : shell'[m].deaf = shell[m].deaf
      BY <3>1 DEF Typed
    <3>3. UNCHANGED <<path, proc, gaps>>
      BY <2>6 DEF Handle
    <3> QED BY <3>2, <3>3, NoneGoes
  <2>7. CASE Quit(l)
    BY <1>0, <2>7, OneGoes DEF Quit, Steps, Bound, Primary
  <2>8. CASE Stop(l)
    <3>1. /\ Goes(l, "closed") /\ shell'[l] = Unstarted /\ UNCHANGED path
          /\ \A m \in Launches : m # l => shell'[m] = shell[m]
      BY <2>8 DEF Stop, Typed
    <3> QED BY <1>0, <3>1, OneGoes DEF Steps, Bound
  <2> QED BY <1>1, <2>1, <2>2, <2>3, <2>4, <2>5, <2>6, <2>7, <2>8 DEF Progress
<1>2. ASSUME NEW l \in Launches,
             \/ \E show \in BOOLEAN : Launch(l, show)
             \/ StartFails(l) \/ Kill(l) \/ ListenerFails(l)
      PROVE  PathsAreBound' /\ PrimaryHasPath'
  <2>1. ASSUME NEW show \in BOOLEAN, Launch(l, show) PROVE PathsAreBound' /\ PrimaryHasPath'
    <3>1. /\ proc'[l].pc = "bind" /\ proc'[l].seen = proc[l].seen /\ proc[l].pc = "none"
          /\ \A m \in Launches : m # l => proc'[m] = proc[m]
          /\ UNCHANGED <<path, shell, gaps>>
      BY <2>1 DEF Launch, Typed
    <3>2. \A m \in Launches : /\ Primary(m)' => Primary(m)
                              /\ Listens(m)' => Listens(m)
                              /\ proc[m].pc \in Bound => proc'[m].pc \in Bound
                              /\ proc'[m].pc \in {"write", "inspect", "remove"} =>
                                   proc'[m].pc = proc[m].pc
                              /\ proc'[m].seen = proc[m].seen
      BY <3>1 DEF Primary, Listens, Bound
    <3> QED BY <1>0, <3>1, <3>2, PathsOfOthers
  <2>2. CASE StartFails(l)
    BY <1>0, <2>2, OneGoes DEF StartFails, Steps, Bound
  <2>3. CASE Kill(l)
    <3>1. /\ Goes(l, "ended") /\ shell'[l] = Unstarted /\ UNCHANGED path
          /\ \A m \in Launches : m # l => shell'[m] = shell[m]
      BY <2>3 DEF Kill, Typed
    <3> QED BY <1>0, <3>1, OneGoes DEF Steps, Bound
  <2>4. CASE ListenerFails(l)
    <3>1. UNCHANGED <<path, proc>> /\ "deaf" \in gaps' /\ shell'[l].deaf
            /\ \A m \in Launches : m # l => shell'[m] = shell[m]
      BY <2>4 DEF ListenerFails, Typed, Desktops
    <3> QED BY <3>1, NoneGoes
  <2> QED BY <1>2, <2>1, <2>2, <2>3, <2>4
<1>3. ASSUME NEW l \in Launches,
             \/ \E choice \in Choices : Configure(l, choice)
             \/ \E spawned \in BOOLEAN : Frame(l, spawned) \/ Close(l, spawned)
             \/ \E do \in {"toggle", "shutdown"} : Tray(l, do)
             \/ \E answer \in {"bound", "none"} : PortalAnswers(l, answer)
             \/ Supervise(l) \/ Shortcut(l)
      PROVE  PathsAreBound' /\ PrimaryHasPath'
  <2>1. PICK s : /\ Managed(l, s) /\ shell' = [shell EXCEPT ![l] = s]
                 /\ proc[l].pc = "running" /\ UNCHANGED path
                 /\ UNCHANGED proc \/ Goes(l, "quitting")
    BY <1>3, Manages
  <2>2. s.deaf = shell[l].deaf
    BY <2>1, ManagedKeeps DEF IconsAreKept
  <2>3. \A m \in Launches : shell'[m].deaf = shell[m].deaf
    BY <2>1, <2>2 DEF Typed
  <2>4. \A m \in Launches : m # l => shell'[m] = shell[m]
    BY <2>1 DEF Typed
  <2>5. CASE UNCHANGED proc
    BY <2>1, <2>3, <2>5, NoneGoes
  <2>6. CASE Goes(l, "quitting")
    BY <1>0, <2>1, <2>3, <2>4, <2>6, OneGoes DEF Steps, Bound, Primary
  <2> QED BY <2>1, <2>5, <2>6
<1>4. CASE UNCHANGED vars
  BY <1>4, NoneGoes DEF vars
<1> QED BY <1>1, <1>2, <1>3, <1>4 DEF Next

-----------------------------------------------------------------------------
(* The requests                                                            *)

\* What the backlogs and the queues consist of.
LEMMA Entries ==
  ASSUME ShellAssumption, Typed
  PROVE  /\ \A m \in Launches : \A i \in 1 .. Len(backlog[m]) : backlog[m][i] \in Launches
         /\ \A m \in Launches : \A i \in 1 .. Len(shell[m].queue) :
              shell[m].queue[i][2] \in Launches \cup {None}
         /\ \A m \in Launches : /\ Len(backlog[m]) \in Nat /\ Len(shell[m].queue) \in Nat
                                /\ DOMAIN backlog[m] = 1 .. Len(backlog[m])
                                /\ DOMAIN shell[m].queue = 1 .. Len(shell[m].queue)
                                /\ Len(backlog[m]) = 0 <=> backlog[m] = <<>>
         /\ \A m \in Launches : proc[m].pc \notin {"running", "quitting"} =>
              Len(shell[m].queue) = 0
         /\ None \notin Launches
<1>1. ASSUME NEW m \in Launches
      PROVE  /\ backlog[m] \in Seq(Launches)
             /\ shell[m].queue \in Seq(Command \X (Launches \cup {None}))
  BY DEF Typed, Desktops
<1>2. ASSUME NEW m \in Launches
      PROVE  /\ Len(backlog[m]) \in Nat /\ Len(shell[m].queue) \in Nat
             /\ DOMAIN backlog[m] = 1 .. Len(backlog[m])
             /\ DOMAIN shell[m].queue = 1 .. Len(shell[m].queue)
             /\ \A i \in 1 .. Len(backlog[m]) : backlog[m][i] \in Launches
             /\ \A i \in 1 .. Len(shell[m].queue) :
                  shell[m].queue[i] \in Command \X (Launches \cup {None})
  BY <1>1, ElementOfSeq, LenProperties
<1>3. ASSUME NEW m \in Launches PROVE Len(backlog[m]) = 0 <=> backlog[m] = <<>>
  BY <1>1, EmptySeq, SeqEqual
<1>4. ASSUME NEW m \in Launches, proc[m].pc \notin {"running", "quitting"}
      PROVE  Len(shell[m].queue) = 0
  BY <1>4, UnstartedShape, EmptySeq DEF Typed
<1> QED BY <1>2, <1>3, <1>4 DEF ShellAssumption

\* A launch that is heard is at no other place.
LEMMA WaitsOrQueues ==
  ASSUME ShellAssumption, Typed, Waiting, InQueue, NEW x \in Launches,
         fate[x] = "waiting" \/ proc[x].pc # "forwarded",
         NEW m \in Launches, NEW i \in 1 .. Len(shell[m].queue), shell[m].queue[i][2] = x
  PROVE  x = m /\ proc[x].pc \in {"running", "quitting"}
<1>1. x = m
  BY Entries DEF Waiting, InQueue
<1>2. Len(shell[m].queue) # 0
  BY Entries
<1> QED BY <1>1, <1>2, Entries

\* After a step the requests in the queues are where they are to be found.
LEMMA QueueAfter ==
  ASSUME \A m \in Launches : \A i \in 1 .. Len(shell'[m].queue) :
           shell'[m].queue[i][2] \in {None, m} \/ fate'[shell'[m].queue[i][2]] = "queued",
         \A m, n \in Launches :
           \A i \in 1 .. Len(shell'[m].queue), j \in 1 .. Len(shell'[n].queue) :
             shell'[m].queue[i][2] = shell'[n].queue[j][2] /\ shell'[m].queue[i][2] # None
             => m = n /\ i = j,
         \A x \in Launches : fate'[x] = "queued" =>
           /\ proc'[x].pc = "forwarded"
           /\ \E m \in Launches : \E i \in 1 .. Len(shell'[m].queue) :
                shell'[m].queue[i][2] = x
  PROVE  InQueue'
BY DEF InQueue

\* The same of the requests in the backlogs.
LEMMA WaitingAfter ==
  ASSUME \A m \in Launches : backlog'[m] # <<>> => Listens(m)',
         \A m \in Launches : \A i \in 1 .. Len(backlog'[m]) :
           fate'[backlog'[m][i]] = "waiting",
         \A m, n \in Launches :
           \A i \in 1 .. Len(backlog'[m]), j \in 1 .. Len(backlog'[n]) :
             backlog'[m][i] = backlog'[n][j] => m = n /\ i = j,
         \A x \in Launches : fate'[x] = "waiting" =>
           /\ proc'[x].pc = "forwarded"
           /\ \E m \in Launches : \E i \in 1 .. Len(backlog'[m]) : backlog'[m][i] = x
  PROVE  Waiting'
BY DEF Waiting

\* Steps that move no request.
LEMMA RequestsOfOthers ==
  ASSUME ShellAssumption, Typed, Typed', Waiting, InQueue, UNCHANGED <<backlog, fate>>,
         \A m \in Launches : /\ Listens(m) => Listens(m)'
                             /\ proc[m].pc = "forwarded" => proc'[m].pc = "forwarded"
                             /\ Grown(shell[m], shell'[m])
  PROVE  Waiting' /\ InQueue'
<1>1. Waiting'
  BY DEF Waiting
<1>2. ASSUME NEW m \in Launches, NEW i \in 1 .. Len(shell'[m].queue)
      PROVE  \/ shell'[m].queue[i][2] = None
             \/ i \in 1 .. Len(shell[m].queue) /\ shell'[m].queue[i] = shell[m].queue[i]
  BY Entries DEF Grown
<1>3. ASSUME NEW m \in Launches, NEW i \in 1 .. Len(shell[m].queue)
      PROVE  i \in 1 .. Len(shell'[m].queue) /\ shell'[m].queue[i] = shell[m].queue[i]
  <2>1. shell'[m].queue \in Seq(Command \X (Launches \cup {None}))
    BY DEF Typed, Desktops
  <2>2. Len(shell'[m].queue) \in Nat /\ Len(shell[m].queue) \in Nat
    BY <2>1, Entries, LenProperties
  <2> QED BY <2>2 DEF Grown
<1>4. InQueue'
  <2>1. \A m \in Launches : \A i \in 1 .. Len(shell'[m].queue) :
          shell'[m].queue[i][2] \in {None, m} \/ fate'[shell'[m].queue[i][2]] = "queued"
    BY <1>2 DEF InQueue
  <2>2. ASSUME NEW m \in Launches, NEW n \in Launches,
               NEW i \in 1 .. Len(shell'[m].queue), NEW j \in 1 .. Len(shell'[n].queue),
               shell'[m].queue[i][2] = shell'[n].queue[j][2], shell'[m].queue[i][2] # None
        PROVE  m = n /\ i = j
    <3>1. /\ i \in 1 .. Len(shell[m].queue) /\ shell'[m].queue[i] = shell[m].queue[i]
          /\ j \in 1 .. Len(shell[n].queue) /\ shell'[n].queue[j] = shell[n].queue[j]
      BY <1>2, <2>2
    <3> QED BY <2>2, <3>1 DEF InQueue
  <2>3. ASSUME NEW x \in Launches, fate'[x] = "queued"
        PROVE  /\ proc'[x].pc = "forwarded"
               /\ \E m \in Launches : \E i \in 1 .. Len(shell'[m].queue) :
                    shell'[m].queue[i][2] = x
    <3>1. proc[x].pc = "forwarded"
            /\ \E m \in Launches : \E i \in 1 .. Len(shell[m].queue) :
                 shell[m].queue[i][2] = x
      BY <2>3 DEF InQueue
    <3>2. PICK m \in Launches : \E i \in 1 .. Len(shell[m].queue) : shell[m].queue[i][2] = x
      BY <3>1
    <3>3. PICK i \in 1 .. Len(shell[m].queue) : shell[m].queue[i][2] = x
      BY <3>2
    <3>4. i \in 1 .. Len(shell'[m].queue) /\ shell'[m].queue[i][2] = x
      BY <1>3, <3>3
    <3> QED BY <3>1, <3>4
  <2> QED BY <2>1, <2>2, <2>3, QueueAfter
<1> QED BY <1>1, <1>4

\* An instance, or its listener alone, ends, and what waits for it is lost.
LEMMA Losses ==
  ASSUME ShellAssumption, Typed, Typed', Waiting, InQueue, NEW l \in Launches,
         NEW S \in SUBSET Launches,
         backlog'[l] = <<>>, \A m \in Launches : m # l => backlog'[m] = backlog[m],
         \A x \in Launches : fate'[x] = IF x \in S THEN "lost" ELSE fate[x],
         \A i \in 1 .. Len(backlog[l]) : backlog[l][i] \in S,
         \A x \in S : \/ \E i \in 1 .. Len(backlog[l]) : backlog[l][i] = x
                      \/ \E i \in 1 .. Len(shell[l].queue) :
                           shell[l].queue[i][2] = x /\ shell'[l].queue = <<>>,
         \/ shell'[l].queue = shell[l].queue
         \/ /\ shell'[l].queue = <<>>
            /\ \A i \in 1 .. Len(shell[l].queue) :
                 shell[l].queue[i][2] \in Launches => shell[l].queue[i][2] \in S,
         \A m \in Launches : m # l => shell'[m] = shell[m] /\ proc'[m] = proc[m],
         proc[l].pc # "forwarded"
  PROVE  Waiting' /\ InQueue'
<1>1. /\ backlog'[l] = <<>> /\ Len(<<>>) = 0
      /\ \A m \in Launches : m # l => backlog'[m] = backlog[m]
      /\ \A x \in Launches : fate'[x] = IF x \in S THEN "lost" ELSE fate[x]
  BY EmptySeq
<1>2. \A m \in Launches : proc[m].pc = "forwarded" => proc'[m].pc = "forwarded"
  OBVIOUS
<1>3. \A m \in Launches : m # l => Listens(m)' = Listens(m)
  BY DEF Listens, Primary
<1>4. ASSUME NEW x \in S, x \in Launches, fate[x] = "waiting"
      PROVE  \E i \in 1 .. Len(backlog[l]) : backlog[l][i] = x
  <2> SUFFICES ASSUME NEW i \in 1 .. Len(shell[l].queue), shell[l].queue[i][2] = x
               PROVE  FALSE
    BY <1>4
  <2>1. x = l /\ proc[x].pc \in {"running", "quitting"}
    BY <1>4, WaitsOrQueues
  <2> QED BY <1>4, <2>1 DEF Waiting
<1>5. Waiting'
  <2>1. \A m \in Launches : backlog'[m] # <<>> => Listens(m)'
    BY <1>1, <1>3 DEF Waiting
  <2>2. ASSUME NEW m \in Launches, NEW i \in 1 .. Len(backlog'[m])
        PROVE  fate'[backlog'[m][i]] = "waiting"
    <3>1. m # l /\ backlog'[m] = backlog[m]
      BY <1>1
    <3>2. backlog[m][i] \in Launches /\ fate[backlog[m][i]] = "waiting"
      BY <3>1, Entries DEF Waiting
    <3>3. backlog[m][i] \notin S
      <4> SUFFICES ASSUME backlog[m][i] \in S PROVE FALSE
        OBVIOUS
      <4>1. PICK j \in 1 .. Len(backlog[l]) : backlog[l][j] = backlog[m][i]
        BY <1>4, <3>2
      <4>2. m = l
        BY <3>1, <4>1 DEF Waiting
      <4> QED BY <3>1, <4>2
    <3> QED BY <1>1, <3>1, <3>2, <3>3
  <2>3. \A m, n \in Launches : \A i \in 1 .. Len(backlog'[m]), j \in 1 .. Len(backlog'[n]) :
          backlog'[m][i] = backlog'[n][j] => m = n /\ i = j
    BY <1>1 DEF Waiting
  <2>4. ASSUME NEW x \in Launches, fate'[x] = "waiting"
        PROVE  /\ proc'[x].pc = "forwarded"
               /\ \E m \in Launches : \E i \in 1 .. Len(backlog'[m]) : backlog'[m][i] = x
    <3>1. x \notin S /\ fate[x] = "waiting"
      BY <1>1, <2>4
    <3>2. PICK m \in Launches : \E i \in 1 .. Len(backlog[m]) : backlog[m][i] = x
      BY <3>1 DEF Waiting
    <3>3. m # l
      BY <3>1, <3>2
    <3>4. proc[x].pc = "forwarded"
      BY <3>1 DEF Waiting
    <3> QED BY <1>1, <1>2, <3>2, <3>3, <3>4
  <2> QED BY <2>1, <2>2, <2>3, <2>4 DEF Waiting
<1>6. ASSUME NEW m \in Launches, NEW i \in 1 .. Len(shell'[m].queue)
      PROVE  /\ i \in 1 .. Len(shell[m].queue) /\ shell'[m].queue[i] = shell[m].queue[i]
             /\ m # l \/ shell'[l].queue = shell[l].queue
  BY <1>1, <1>6
<1>7. InQueue'
  <2>1. ASSUME NEW m \in Launches, NEW i \in 1 .. Len(shell'[m].queue)
        PROVE  shell'[m].queue[i][2] \in {None, m} \/ fate'[shell'[m].queue[i][2]] = "queued"
    <3> PICK x : x = shell[m].queue[i][2]
      OBVIOUS
    <3>1. /\ i \in 1 .. Len(shell[m].queue) /\ shell'[m].queue[i][2] = x
          /\ x \in Launches \cup {None}
      BY <1>6, Entries
    <3> SUFFICES ASSUME x \notin {None, m} PROVE fate'[x] = "queued"
      BY <3>1
    <3>2. x \in Launches /\ fate[x] = "queued"
      BY <3>1 DEF InQueue
    <3>3. x \notin S
      <4> SUFFICES ASSUME x \in S PROVE FALSE
        OBVIOUS
      <4>1. CASE \E j \in 1 .. Len(backlog[l]) : backlog[l][j] = x
        BY <3>2, <4>1 DEF Waiting
      <4>2. CASE \E j \in 1 .. Len(shell[l].queue) :
                   shell[l].queue[j][2] = x /\ shell'[l].queue = <<>>
        <5>1. PICK j \in 1 .. Len(shell[l].queue) :
                shell[l].queue[j][2] = x /\ shell'[l].queue = <<>>
          BY <4>2
        <5>2. m = l
          BY <3>1, <5>1 DEF InQueue
        <5> QED BY <1>1, <5>1, <5>2
      <4> QED BY <4>1, <4>2
    <3> QED BY <1>1, <3>2, <3>3
  <2>2. ASSUME NEW m \in Launches, NEW n \in Launches,
               NEW i \in 1 .. Len(shell'[m].queue), NEW j \in 1 .. Len(shell'[n].queue),
               shell'[m].queue[i][2] = shell'[n].queue[j][2], shell'[m].queue[i][2] # None
        PROVE  m = n /\ i = j
    <3>1. /\ i \in 1 .. Len(shell[m].queue) /\ shell'[m].queue[i] = shell[m].queue[i]
          /\ j \in 1 .. Len(shell[n].queue) /\ shell'[n].queue[j] = shell[n].queue[j]
      BY <1>6, <2>2
    <3> QED BY <2>2, <3>1 DEF InQueue
  <2>3. ASSUME NEW x \in Launches, fate'[x] = "queued"
        PROVE  /\ proc'[x].pc = "forwarded"
               /\ \E m \in Launches : \E i \in 1 .. Len(shell'[m].queue) :
                    shell'[m].queue[i][2] = x
    <3>1. x \notin S /\ fate[x] = "queued"
      BY <1>1, <2>3
    <3>2. PICK m \in Launches : \E i \in 1 .. Len(shell[m].queue) : shell[m].queue[i][2] = x
      BY <3>1 DEF InQueue
    <3>3. m # l \/ shell'[l].queue = shell[l].queue
      BY <3>1, <3>2
    <3>4. proc[x].pc = "forwarded"
      BY <3>1 DEF InQueue
    <3> QED BY <1>2, <3>2, <3>3, <3>4
  <2> QED BY <2>1, <2>2, <2>3, QueueAfter
<1> QED BY <1>5, <1>7

LEMMA StartKeepsRequests ==
  ASSUME ShellAssumption, Typed, Typed', Waiting, InQueue, NEW l \in Launches,
         NEW spawned \in BOOLEAN, Start(l, spawned)
  PROVE  Waiting' /\ InQueue'
<1> DEFINE d == Dispatched(Unstarted, l)
           s == [d EXCEPT !.icon = spawned, !.closeToTray = spawned]
<1>1. /\ d \in Desktops /\ d = [Unstarted EXCEPT !.queue = d.queue]
      /\ \A i \in 1 .. Len(d.queue) : d.queue[i][2] \in {l, None}
      /\ \A i, j \in 1 .. Len(d.queue) : d.queue[i][2] = l /\ d.queue[j][2] = l => i = j
  <2>1. /\ Unstarted \in Desktops /\ Len(Unstarted.queue) <= Capacity
        /\ Len(Unstarted.queue) = 0
    BY UnstartedShape, EmptySeq
  <2> HIDE DEF d
  <2>2. /\ d \in Desktops /\ d = [Unstarted EXCEPT !.queue = d.queue]
        /\ \A i \in 1 .. Len(d.queue) : i > 0 => d.queue[i][2] \in {l, None}
        /\ \A i, j \in 1 .. Len(d.queue) : i > 0 /\ j > 0
             /\ d.queue[i][2] = l /\ d.queue[j][2] = l => i = j
    BY <2>1, DispatchedShape DEF d
  <2> QED BY <2>2
<1> HIDE DEF d
<1>2. s.queue = d.queue /\ ~s.deaf
  BY <1>1, UnstartedShape DEF Desktops
<1>3. /\ shell' = [shell EXCEPT ![l] = s] /\ Goes(l, "running")
      /\ UNCHANGED <<backlog, fate>>
      /\ proc[l].pc = "starting"
  BY DEF Start, d
<1> HIDE DEF s
<1>4. /\ shell'[l] = s /\ \A m \in Launches : m # l => shell'[m] = shell[m]
      /\ proc'[l].pc = "running" /\ \A m \in Launches : m # l => proc'[m] = proc[m]
  BY <1>3, GoesShape DEF Typed, Steps
<1>5. Len(shell[l].queue) = 0
  BY <1>3, Entries
<1>6. \A m \in Launches : Listens(m) => Listens(m)'
  BY <1>2, <1>4 DEF Listens, Primary
<1>7. Waiting'
  BY <1>3, <1>4, <1>6 DEF Waiting
<1>8. ASSUME NEW m \in Launches, m # l, NEW i \in 1 .. Len(shell[m].queue)
      PROVE  shell[m].queue[i][2] # l
  BY <1>3, <1>8, WaitsOrQueues
<1>9. InQueue'
  <2>1. ASSUME NEW m \in Launches, NEW i \in 1 .. Len(shell'[m].queue)
        PROVE  shell'[m].queue[i][2] \in {None, m} \/ fate'[shell'[m].queue[i][2]] = "queued"
    <3>1. CASE m = l
      BY <1>1, <1>2, <1>4, <3>1
    <3>2. CASE m # l
      BY <1>3, <1>4, <3>2 DEF InQueue
    <3> QED BY <3>1, <3>2
  <2>2. ASSUME NEW m \in Launches, NEW n \in Launches,
               NEW i \in 1 .. Len(shell'[m].queue), NEW j \in 1 .. Len(shell'[n].queue),
               shell'[m].queue[i][2] = shell'[n].queue[j][2], shell'[m].queue[i][2] # None
        PROVE  m = n /\ i = j
    <3>1. CASE m = l /\ n = l
      BY <1>1, <1>2, <1>4, <2>2, <3>1
    <3>2. CASE m # l /\ n # l
      <4>1. shell'[m] = shell[m] /\ shell'[n] = shell[n]
        BY <1>4, <3>2
      <4>2. /\ i \in 1 .. Len(shell[m].queue) /\ j \in 1 .. Len(shell[n].queue)
            /\ shell[m].queue[i][2] = shell[n].queue[j][2] /\ shell[m].queue[i][2] # None
        BY <2>2, <4>1
      <4> QED BY <4>2 DEF InQueue
    <3>3. CASE m = l /\ n # l
      <4>1. shell'[m].queue[i][2] = l
        BY <1>1, <1>2, <1>4, <2>2, <3>3
      <4> QED BY <1>4, <1>8, <2>2, <3>3, <4>1
    <3>4. CASE m # l /\ n = l
      <4>1. shell'[n].queue[j][2] = l
        BY <1>1, <1>2, <1>4, <2>2, <3>4
      <4> QED BY <1>4, <1>8, <2>2, <3>4, <4>1
    <3> QED BY <3>1, <3>2, <3>3, <3>4
  <2>3. ASSUME NEW x \in Launches, fate'[x] = "queued"
        PROVE  /\ proc'[x].pc = "forwarded"
               /\ \E m \in Launches : \E i \in 1 .. Len(shell'[m].queue) :
                    shell'[m].queue[i][2] = x
    <3>1. proc[x].pc = "forwarded"
            /\ \E m \in Launches : \E i \in 1 .. Len(shell[m].queue) :
                 shell[m].queue[i][2] = x
      BY <1>3, <2>3 DEF InQueue
    <3>2. PICK m \in Launches : \E i \in 1 .. Len(shell[m].queue) : shell[m].queue[i][2] = x
      BY <3>1
    <3>3. m # l /\ x # l
      BY <1>3, <1>5, <3>1, <3>2
    <3> QED BY <1>4, <3>1, <3>2, <3>3
  <2> QED BY <2>1, <2>2, <2>3, QueueAfter
<1> QED BY <1>7, <1>9

LEMMA WriteKeepsRequests ==
  ASSUME ShellAssumption, Typed, Typed', Waiting, InQueue, NEW l \in Launches, Write(l)
  PROVE  Waiting' /\ InQueue'
<1>1. CASE ~(Listens(proc[l].seen) /\ l \notin Oversize)
  <2>1. Goes(l, "inspect") /\ UNCHANGED <<backlog, fate, shell>> /\ proc[l].pc = "write"
    BY <1>1 DEF Write
  <2>2. proc'[l].pc = "inspect" /\ \A m \in Launches : m # l => proc'[m] = proc[m]
    BY <2>1, GoesShape DEF Steps
  <2>3. \A m \in Launches : /\ Listens(m) => Listens(m)'
                            /\ proc[m].pc = "forwarded" => proc'[m].pc = "forwarded"
    BY <2>1, <2>2 DEF Listens, Primary
  <2>4. \A m \in Launches : Grown(shell[m], shell'[m])
    BY <2>1, Entries DEF Grown
  <2> QED BY <2>1, <2>3, <2>4, RequestsOfOthers
<1>2. CASE Listens(proc[l].seen) /\ l \notin Oversize
  <2> PICK n : n = proc[l].seen
    OBVIOUS
  <2>1. /\ n \in Launches /\ Listens(n) /\ Goes(l, "forwarded") /\ UNCHANGED shell
        /\ backlog' = [backlog EXCEPT ![n] = Append(backlog[n], l)]
        /\ fate' = [fate EXCEPT ![l] = "waiting"] /\ proc[l].pc = "write"
    BY <1>2 DEF Write, Listens
  <2>2. /\ proc'[l].pc = "forwarded" /\ \A m \in Launches : m # l => proc'[m] = proc[m]
    BY <2>1, GoesShape DEF Steps
  <2>3. /\ Len(backlog'[n]) = Len(backlog[n]) + 1 /\ Len(backlog[n]) \in Nat
        /\ \A i \in 1 .. Len(backlog[n]) : backlog'[n][i] = backlog[n][i]
        /\ backlog'[n][Len(backlog[n]) + 1] = l
        /\ \A m \in Launches : m # n => backlog'[m] = backlog[m]
    <3>1. backlog'[n] = Append(backlog[n], l) /\ backlog[n] \in Seq(Launches)
      BY <2>1 DEF Typed
    <3>2. \A m \in Launches : m # n => backlog'[m] = backlog[m]
      BY <2>1 DEF Typed
    <3> QED BY <3>1, <3>2, Appended
  <2>4. fate'[l] = "waiting" /\ \A x \in Launches : x # l => fate'[x] = fate[x]
    BY <2>1 DEF Typed
  <2>5. \A m \in Launches : Listens(m) => Listens(m)'
    BY <2>1, <2>2 DEF Listens, Primary
  <2>6. ASSUME NEW m \in Launches, NEW i \in 1 .. Len(backlog[m])
        PROVE  backlog[m][i] \in Launches /\ backlog[m][i] # l
    BY <2>1, Entries DEF Waiting
  <2>7. ASSUME NEW m \in Launches, NEW i \in 1 .. Len(backlog'[m])
        PROVE  \/ i \in 1 .. Len(backlog[m]) /\ backlog'[m][i] = backlog[m][i]
               \/ m = n /\ i = Len(backlog[n]) + 1 /\ backlog'[m][i] = l
    BY <2>3
  <2>8. ASSUME NEW m \in Launches, NEW i \in 1 .. Len(backlog[m])
        PROVE  i \in 1 .. Len(backlog'[m]) /\ backlog'[m][i] = backlog[m][i]
    BY SMTT(30), <2>3
  <2>9. Waiting'
    <3>1. \A m \in Launches : backlog'[m] # <<>> => Listens(m)'
      BY <2>1, <2>3, <2>5 DEF Waiting
    <3>2. ASSUME NEW m \in Launches, NEW i \in 1 .. Len(backlog'[m])
          PROVE  fate'[backlog'[m][i]] = "waiting"
      BY <2>4, <2>6, <2>7 DEF Waiting
    <3>3. ASSUME NEW m \in Launches, NEW k \in Launches, NEW i \in 1 .. Len(backlog'[m]),
                 NEW j \in 1 .. Len(backlog'[k]), backlog'[m][i] = backlog'[k][j]
          PROVE  m = k /\ i = j
      <4>1. \/ i \in 1 .. Len(backlog[m]) /\ backlog'[m][i] = backlog[m][i]
            \/ m = n /\ i = Len(backlog[n]) + 1 /\ backlog'[m][i] = l
        BY <2>7
      <4>2. \/ j \in 1 .. Len(backlog[k]) /\ backlog'[k][j] = backlog[k][j]
            \/ k = n /\ j = Len(backlog[n]) + 1 /\ backlog'[k][j] = l
        BY <2>7
      <4>3. i \in 1 .. Len(backlog[m]) => backlog[m][i] # l
        BY <2>6
      <4>4. j \in 1 .. Len(backlog[k]) => backlog[k][j] # l
        BY <2>6
      <4> QED BY SMTT(30), <3>3, <4>1, <4>2, <4>3, <4>4 DEF Waiting
    <3>4. ASSUME NEW x \in Launches, fate'[x] = "waiting"
          PROVE  /\ proc'[x].pc = "forwarded"
                 /\ \E m \in Launches : \E i \in 1 .. Len(backlog'[m]) : backlog'[m][i] = x
      <4>1. CASE x = l
        <5>1. Len(backlog[n]) + 1 \in 1 .. Len(backlog'[n])
          BY <2>3
        <5> QED BY <2>1, <2>2, <2>3, <4>1, <5>1
      <4>2. CASE x # l
        <5>1. fate[x] = "waiting" /\ proc[x].pc = "forwarded" /\ proc'[x] = proc[x]
          BY <2>2, <2>4, <3>4, <4>2 DEF Waiting
        <5>2. PICK m \in Launches : \E i \in 1 .. Len(backlog[m]) : backlog[m][i] = x
          BY <5>1 DEF Waiting
        <5>3. PICK i \in 1 .. Len(backlog[m]) : backlog[m][i] = x
          BY <5>2
        <5>4. i \in 1 .. Len(backlog'[m]) /\ backlog'[m][i] = x
          BY <2>8, <5>3
        <5> QED BY <5>1, <5>4
      <4> QED BY <4>1, <4>2
    <3> QED BY <3>1, <3>2, <3>3, <3>4 DEF Waiting
  <2>10. InQueue'
    <3>1. ASSUME NEW m \in Launches, NEW i \in 1 .. Len(shell[m].queue)
          PROVE  shell[m].queue[i][2] # l
      BY <2>1, WaitsOrQueues
    <3>2. ASSUME NEW m \in Launches, NEW i \in 1 .. Len(shell[m].queue)
          PROVE  shell[m].queue[i][2] \in {None, m} \/ fate'[shell[m].queue[i][2]] = "queued"
      <4>1. shell[m].queue[i][2] \in Launches \cup {None} /\ shell[m].queue[i][2] # l
        BY <3>1, Entries
      <4> QED BY <2>4, <4>1 DEF InQueue
    <3>3. ASSUME NEW x \in Launches, fate'[x] = "queued"
          PROVE  /\ proc'[x].pc = "forwarded"
                 /\ \E m \in Launches : \E i \in 1 .. Len(shell[m].queue) :
                      shell[m].queue[i][2] = x
      BY <2>2, <2>4, <3>3 DEF InQueue
    <3>4. \A m, k \in Launches :
            \A i \in 1 .. Len(shell[m].queue), j \in 1 .. Len(shell[k].queue) :
              shell[m].queue[i][2] = shell[k].queue[j][2] /\ shell[m].queue[i][2] # None
              => m = k /\ i = j
      BY DEF InQueue
    <3> QED BY <2>1, <3>2, <3>3, <3>4 DEF InQueue
  <2> QED BY <2>9, <2>10
<1> QED BY <1>1, <1>2

\* The same of a desktop that is known by name.
LEMMA DispatchedIs ==
  ASSUME ShellAssumption, Typed, NEW s \in Desktops, Len(s.queue) <= Capacity,
         NEW l \in Launches, NEW d, d = Dispatched(s, l)
  PROVE  /\ d \in Desktops /\ d = [s EXCEPT !.queue = d.queue]
         /\ Len(d.queue) >= Len(s.queue)
         /\ \A i \in 1 .. Len(s.queue) : d.queue[i] = s.queue[i]
         /\ \A i \in 1 .. Len(d.queue) : i > Len(s.queue) => d.queue[i][2] \in {l, None}
         /\ \A i, j \in 1 .. Len(d.queue) : i > Len(s.queue) /\ j > Len(s.queue)
              /\ d.queue[i][2] = l /\ d.queue[j][2] = l => i = j
<1>1. d \in Desktops /\ d = [s EXCEPT !.queue = d.queue]
  BY DispatchedShape
<1>2. Len(d.queue) >= Len(s.queue)
  BY DispatchedShape
<1>3. \A i \in 1 .. Len(s.queue) : d.queue[i] = s.queue[i]
  BY DispatchedShape
<1>4. \A i \in 1 .. Len(d.queue) : i > Len(s.queue) => d.queue[i][2] \in {l, None}
  BY DispatchedShape
<1>5. \A i, j \in 1 .. Len(d.queue) : i > Len(s.queue) /\ j > Len(s.queue)
              /\ d.queue[i][2] = l /\ d.queue[j][2] = l => i = j
  BY DispatchedShape
<1> QED BY <1>1, <1>2, <1>3, <1>4, <1>5

\* The desktop and the request, when a connection is accepted.
LEMMA AcceptShape ==
  ASSUME ShellAssumption, Typed, Waiting, InQueue, NEW l \in Launches, Accept(l)
  PROVE  \E from \in Launches, s \in Desktops :
           /\ shell' = [shell EXCEPT ![l] = s] /\ s.deaf = shell[l].deaf
           /\ backlog' = [backlog EXCEPT ![l] = Tail(backlog[l])] /\ UNCHANGED proc
           /\ Len(backlog[l]) \in Nat \ {0} /\ backlog[l][1] = from
           /\ Len(Tail(backlog[l])) = Len(backlog[l]) - 1
           /\ \A i \in 1 .. Len(Tail(backlog[l])) :
                i + 1 \in 1 .. Len(backlog[l]) /\ Tail(backlog[l])[i] = backlog[l][i + 1]
           /\ Len(s.queue) \in Nat /\ Len(s.queue) >= Len(shell[l].queue)
           /\ \A i \in 1 .. Len(shell[l].queue) : s.queue[i] = shell[l].queue[i]
           /\ \A i \in 1 .. Len(s.queue) : i > Len(shell[l].queue) =>
                s.queue[i][2] \in {from, None}
           /\ \A i, j \in 1 .. Len(s.queue) :
                i > Len(shell[l].queue) /\ j > Len(shell[l].queue)
                /\ s.queue[i][2] = from /\ s.queue[j][2] = from => i = j
           /\ fate' = [fate EXCEPT ![from] =
                         IF \E i \in 1 .. Len(s.queue) : s.queue[i][2] = from
                         THEN "queued" ELSE "lost"]
<1> PICK from : from = Head(backlog[l])
  OBVIOUS
<1> PICK s : s = Dispatched(shell[l], from)
  OBVIOUS
<1>1. backlog[l] \in Seq(Launches) /\ backlog[l] # <<>>
  BY DEF Accept, Typed
<1>2. /\ from \in Launches /\ Len(backlog[l]) \in Nat \ {0} /\ backlog[l][1] = from
      /\ Len(Tail(backlog[l])) = Len(backlog[l]) - 1
      /\ \A i \in 1 .. Len(Tail(backlog[l])) :
           i + 1 \in 1 .. Len(backlog[l]) /\ Tail(backlog[l])[i] = backlog[l][i + 1]
  BY <1>1, Taken
<1>3. /\ s \in Desktops /\ s = [shell[l] EXCEPT !.queue = s.queue]
      /\ Len(s.queue) >= Len(shell[l].queue)
      /\ \A i \in 1 .. Len(shell[l].queue) : s.queue[i] = shell[l].queue[i]
      /\ \A i \in 1 .. Len(s.queue) : i > Len(shell[l].queue)
           => s.queue[i][2] \in {from, None}
      /\ \A i, j \in 1 .. Len(s.queue) : i > Len(shell[l].queue) /\ j > Len(shell[l].queue)
           /\ s.queue[i][2] = from /\ s.queue[j][2] = from => i = j
  <2> PICK old : old = shell[l]
    OBVIOUS
  <2>1. old \in Desktops /\ Len(old.queue) <= Capacity
    BY DEF Typed
  <2>2. s = Dispatched(old, from)
    OBVIOUS
  <2>3. /\ s \in Desktops /\ s = [old EXCEPT !.queue = s.queue]
        /\ Len(s.queue) >= Len(old.queue)
        /\ \A i \in 1 .. Len(old.queue) : s.queue[i] = old.queue[i]
        /\ \A i \in 1 .. Len(s.queue) : i > Len(old.queue) => s.queue[i][2] \in {from, None}
        /\ \A i, j \in 1 .. Len(s.queue) : i > Len(old.queue) /\ j > Len(old.queue)
             /\ s.queue[i][2] = from /\ s.queue[j][2] = from => i = j
    <3>1. from \in Launches
      BY <1>2
    <3> QED BY SMTT(30), <2>1, <2>2, <3>1, DispatchedIs
  <2> QED BY <2>3
<1>4. s.deaf = shell[l].deaf /\ s.queue \in Seq(Command \X (Launches \cup {None}))
  BY <1>3 DEF Typed, Desktops
<1>5. Len(s.queue) \in Nat /\ DOMAIN s.queue = 1 .. Len(s.queue)
  BY <1>4, LenProperties
<1>6. /\ shell' = [shell EXCEPT ![l] = s] /\ UNCHANGED proc
      /\ backlog' = [backlog EXCEPT ![l] = Tail(backlog[l])]
      /\ fate' = [fate EXCEPT ![from] = IF Queued(s, from) THEN "queued" ELSE "lost"]
  BY DEF Accept
<1>7. Queued(s, from) <=> \E i \in 1 .. Len(s.queue) : s.queue[i][2] = from
  BY <1>5 DEF Queued
<1>8. fate' = [fate EXCEPT ![from] = IF \E i \in 1 .. Len(s.queue) : s.queue[i][2] = from
                                     THEN "queued" ELSE "lost"]
  BY <1>6, <1>7
<1> QED BY <1>2, <1>3, <1>4, <1>5, <1>6, <1>8

\* A request has one place.
LEMMA OnePlace ==
  ASSUME InQueue, NEW m \in Launches, NEW n \in Launches,
         NEW i \in 1 .. Len(shell[m].queue), NEW j \in 1 .. Len(shell[n].queue),
         shell[m].queue[i][2] = shell[n].queue[j][2], shell[m].queue[i][2] # None
  PROVE  m = n /\ i = j
BY DEF InQueue

LEMMA AcceptKeepsRequests ==
  ASSUME ShellAssumption, Typed, Typed', Waiting, InQueue, NEW l \in Launches, Accept(l)
  PROVE  Waiting' /\ InQueue'
<1>1. PICK from \in Launches, s \in Desktops :
        /\ shell' = [shell EXCEPT ![l] = s] /\ s.deaf = shell[l].deaf
        /\ backlog' = [backlog EXCEPT ![l] = Tail(backlog[l])] /\ UNCHANGED proc
        /\ Len(backlog[l]) \in Nat \ {0} /\ backlog[l][1] = from
        /\ Len(Tail(backlog[l])) = Len(backlog[l]) - 1
        /\ \A i \in 1 .. Len(Tail(backlog[l])) :
             i + 1 \in 1 .. Len(backlog[l]) /\ Tail(backlog[l])[i] = backlog[l][i + 1]
        /\ Len(s.queue) \in Nat /\ Len(s.queue) >= Len(shell[l].queue)
        /\ \A i \in 1 .. Len(shell[l].queue) : s.queue[i] = shell[l].queue[i]
        /\ \A i \in 1 .. Len(s.queue) : i > Len(shell[l].queue) =>
             s.queue[i][2] \in {from, None}
        /\ \A i, j \in 1 .. Len(s.queue) :
             i > Len(shell[l].queue) /\ j > Len(shell[l].queue)
             /\ s.queue[i][2] = from /\ s.queue[j][2] = from => i = j
        /\ fate' = [fate EXCEPT ![from] =
                      IF \E i \in 1 .. Len(s.queue) : s.queue[i][2] = from
                      THEN "queued" ELSE "lost"]
  BY AcceptShape
<1> PICK rest : rest = Tail(backlog[l])
  OBVIOUS
<1>2. /\ backlog'[l] = rest /\ shell'[l] = s
      /\ \A m \in Launches : m # l => backlog'[m] = backlog[m] /\ shell'[m] = shell[m]
      /\ \A x \in Launches : x # from => fate'[x] = fate[x]
      /\ fate'[from] = IF \E i \in 1 .. Len(s.queue) : s.queue[i][2] = from
                       THEN "queued" ELSE "lost"
  BY <1>1 DEF Typed
<1>3. /\ Len(rest) = Len(backlog[l]) - 1
      /\ \A i \in 1 .. Len(rest) :
           i + 1 \in 1 .. Len(backlog[l]) /\ rest[i] = backlog[l][i + 1]
  BY <1>1
<1>4. 1 \in 1 .. Len(backlog[l]) /\ Len(backlog[l]) \in Nat
  BY <1>1
<1>5. fate[from] = "waiting" /\ proc[from].pc = "forwarded"
  BY <1>1, <1>4 DEF Waiting
<1>6. ASSUME NEW m \in Launches, NEW i \in 1 .. Len(backlog'[m])
      PROVE  \E k \in 1 .. Len(backlog[m]) :
               /\ backlog[m][k] = backlog'[m][i] /\ k = IF m = l THEN i + 1 ELSE i
               /\ backlog'[m][i] # from /\ backlog'[m][i] \in Launches
  <2>1. PICK k \in 1 .. Len(backlog[m]) :
          backlog[m][k] = backlog'[m][i] /\ k = IF m = l THEN i + 1 ELSE i
    BY <1>2, <1>3
  <2>2. backlog[m][k] # from
    BY <1>1, <1>4, <2>1 DEF Waiting
  <2>3. backlog[m][k] \in Launches
    BY Entries
  <2> QED BY <2>1, <2>2, <2>3
<1>7. Waiting'
  <2>1. \A m \in Launches : backlog'[m] # <<>> => Listens(m)'
    <3>1. \A m \in Launches : Listens(m) => Listens(m)'
      BY <1>1, <1>2 DEF Listens, Primary
    <3>2. Listens(l)
      BY DEF Accept, Listens, Primary
    <3> QED BY <1>2, <3>1, <3>2 DEF Waiting
  <2>2. ASSUME NEW m \in Launches, NEW i \in 1 .. Len(backlog'[m])
        PROVE  fate'[backlog'[m][i]] = "waiting"
    <3>1. PICK k \in 1 .. Len(backlog[m]) :
            /\ backlog[m][k] = backlog'[m][i]
            /\ backlog'[m][i] # from /\ backlog'[m][i] \in Launches
      BY <1>6
    <3>2. fate[backlog[m][k]] = "waiting"
      BY DEF Waiting
    <3> QED BY <1>2, <3>1, <3>2
  <2>3. ASSUME NEW m \in Launches, NEW n \in Launches, NEW i \in 1 .. Len(backlog'[m]),
               NEW j \in 1 .. Len(backlog'[n]), backlog'[m][i] = backlog'[n][j]
        PROVE  m = n /\ i = j
    <3>1. PICK k \in 1 .. Len(backlog[m]) :
            backlog[m][k] = backlog'[m][i] /\ k = IF m = l THEN i + 1 ELSE i
      BY <1>6
    <3>2. PICK h \in 1 .. Len(backlog[n]) :
            backlog[n][h] = backlog'[n][j] /\ h = IF n = l THEN j + 1 ELSE j
      BY <1>6
    <3>3. m = n /\ k = h
      BY <2>3, <3>1, <3>2 DEF Waiting
    <3> QED BY <3>1, <3>2, <3>3
  <2>4. ASSUME NEW x \in Launches, fate'[x] = "waiting"
        PROVE  /\ proc'[x].pc = "forwarded"
               /\ \E m \in Launches : \E i \in 1 .. Len(backlog'[m]) : backlog'[m][i] = x
    <3>1. x # from /\ fate[x] = "waiting"
      BY <1>2, <2>4
    <3>2. PICK m \in Launches : \E i \in 1 .. Len(backlog[m]) : backlog[m][i] = x
      BY <3>1 DEF Waiting
    <3>3. PICK i \in 1 .. Len(backlog[m]) : backlog[m][i] = x
      BY <3>2
    <3>4. CASE m = l
      <4>1. i # 1 /\ i - 1 \in 1 .. Len(rest) /\ (i - 1) + 1 = i
        BY <1>1, <1>3, <1>4, <3>1, <3>3, <3>4
      <4>2. rest[i - 1] = x
        BY <1>3, <3>3, <3>4, <4>1
      <4>3. proc'[x].pc = "forwarded"
        BY <1>1, <3>1 DEF Waiting
      <4> QED BY <1>2, <4>1, <4>2, <4>3
    <3>5. CASE m # l
      BY <1>1, <1>2, <3>1, <3>3, <3>5 DEF Waiting
    <3> QED BY <3>4, <3>5
  <2> QED BY <2>1, <2>2, <2>3, <2>4 DEF Waiting
<1>8. ASSUME NEW m \in Launches, NEW i \in 1 .. Len(shell[m].queue)
      PROVE  /\ shell[m].queue[i][2] # from /\ shell[m].queue[i][2] \in Launches \cup {None}
             /\ i \in 1 .. Len(shell'[m].queue) /\ shell'[m].queue[i] = shell[m].queue[i]
  <2>1. shell[m].queue[i][2] # from
    BY <1>5, WaitsOrQueues
  <2>2. shell[m].queue[i][2] \in Launches \cup {None} /\ Len(shell[m].queue) \in Nat
    BY Entries
  <2>3. i \in 1 .. Len(shell'[m].queue) /\ shell'[m].queue[i] = shell[m].queue[i]
    BY <1>1, <1>2, <2>2
  <2> QED BY <2>1, <2>2, <2>3
<1>9. ASSUME NEW m \in Launches, NEW i \in 1 .. Len(shell'[m].queue)
      PROVE  \/ /\ i \in 1 .. Len(shell[m].queue) /\ shell'[m].queue[i] = shell[m].queue[i]
                /\ shell[m].queue[i][2] # from
             \/ /\ m = l /\ i \in 1 .. Len(s.queue) /\ i > Len(shell[l].queue)
                /\ shell'[m].queue[i] = s.queue[i] /\ s.queue[i][2] \in {from, None}
  BY SMTT(30), <1>1, <1>2, <1>8, Entries
<1>10. InQueue'
  <2>1. ASSUME NEW m \in Launches, NEW i \in 1 .. Len(shell'[m].queue)
        PROVE  shell'[m].queue[i][2] \in {None, m} \/ fate'[shell'[m].queue[i][2]] = "queued"
    <3>1. CASE i \in 1 .. Len(shell[m].queue) /\ shell'[m].queue[i] = shell[m].queue[i]
      BY <1>2, <1>8, <3>1 DEF InQueue
    <3>2. CASE /\ m = l /\ i \in 1 .. Len(s.queue)
               /\ shell'[m].queue[i] = s.queue[i] /\ s.queue[i][2] \in {from, None}
      BY <1>2, <3>2
    <3> QED BY <1>9, <3>1, <3>2
  <2>2. ASSUME NEW m \in Launches, NEW n \in Launches,
               NEW i \in 1 .. Len(shell'[m].queue), NEW j \in 1 .. Len(shell'[n].queue),
               shell'[m].queue[i][2] = shell'[n].queue[j][2], shell'[m].queue[i][2] # None
        PROVE  m = n /\ i = j
    <3>1. CASE shell'[m].queue[i][2] = from
      <4>1. /\ m = l /\ i \in 1 .. Len(s.queue) /\ i > Len(shell[l].queue)
            /\ s.queue[i][2] = from
        BY <1>9, <3>1
      <4>2. /\ n = l /\ j \in 1 .. Len(s.queue) /\ j > Len(shell[l].queue)
            /\ s.queue[j][2] = from
        <5>1. shell'[n].queue[j][2] = from
          BY <2>2, <3>1
        <5> QED BY <1>9, <5>1
      <4> QED BY <1>1, <4>1, <4>2
    <3>2. CASE shell'[m].queue[i][2] # from
      <4>1. i \in 1 .. Len(shell[m].queue) /\ shell'[m].queue[i] = shell[m].queue[i]
        BY SMTT(30), <1>9, <2>2, <3>2
      <4>2. j \in 1 .. Len(shell[n].queue) /\ shell'[n].queue[j] = shell[n].queue[j]
        BY SMTT(30), <1>9, <2>2, <3>2
      <4>3. shell[m].queue[i][2] = shell[n].queue[j][2] /\ shell[m].queue[i][2] # None
        BY <2>2, <4>1, <4>2
      <4> QED BY <4>1, <4>2, <4>3, OnePlace
    <3> QED BY <3>1, <3>2
  <2>3. ASSUME NEW x \in Launches, fate'[x] = "queued"
        PROVE  /\ proc'[x].pc = "forwarded"
               /\ \E m \in Launches : \E i \in 1 .. Len(shell'[m].queue) :
                    shell'[m].queue[i][2] = x
    <3>1. CASE x = from
      <4>1. \E i \in 1 .. Len(s.queue) : s.queue[i][2] = from
        BY <1>2, <2>3, <3>1
      <4> QED BY <1>1, <1>2, <1>5, <3>1, <4>1
    <3>2. CASE x # from
      <4>1. fate[x] = "queued" /\ proc'[x].pc = "forwarded"
        BY <1>1, <1>2, <2>3, <3>2 DEF InQueue
      <4>2. PICK m \in Launches : \E i \in 1 .. Len(shell[m].queue) :
                                    shell[m].queue[i][2] = x
        BY <4>1 DEF InQueue
      <4>3. PICK i \in 1 .. Len(shell[m].queue) : shell[m].queue[i][2] = x
        BY <4>2
      <4> QED BY <1>8, <4>1, <4>3
    <3> QED BY <3>1, <3>2
  <2> QED BY <2>1, <2>2, <2>3, QueueAfter
<1> QED BY <1>7, <1>10

LEMMA HandleKeepsRequests ==
  ASSUME ShellAssumption, Typed, Typed', PathsAreBound, Waiting, InQueue, NEW l \in Launches,
         Handle(l)
  PROVE  Waiting' /\ InQueue'
<1> DEFINE do == Head(shell[l].queue)[1]
           from == Head(shell[l].queue)[2]
<1>1. PICK s \in Desktops : /\ shell' = [shell EXCEPT ![l] = s] /\ s.deaf = shell[l].deaf
                            /\ s.queue = IF do = "shutdown" THEN <<>>
                                         ELSE Tail(shell[l].queue)
  BY HandleShape
<1>2. /\ UNCHANGED <<proc, backlog>> /\ proc[l].pc = "running" /\ shell[l].queue # <<>>
      /\ shell[l].queue \in Seq(Command \X (Launches \cup {None}))
  BY DEF Handle, Typed, Desktops
<1> PICK rest : rest = Tail(shell[l].queue)
  OBVIOUS
<1>3. /\ rest \in Seq(Command \X (Launches \cup {None}))
      /\ Len(rest) = Len(shell[l].queue) - 1
      /\ Len(shell[l].queue) \in Nat \ {0} /\ Head(shell[l].queue) = shell[l].queue[1]
      /\ \A i \in 1 .. Len(rest) :
           i + 1 \in 1 .. Len(shell[l].queue) /\ rest[i] = shell[l].queue[i + 1]
  BY <1>2, Taken
<1> PICK lost \in BOOLEAN : lost = (do = "shutdown")
  OBVIOUS
<1>4. fate' = [m \in Launches |->
                 IF m = from THEN "served"
                 ELSE IF lost /\ \E i \in 1 .. Len(rest) : rest[i][2] = m THEN "lost"
                 ELSE fate[m]]
  <2> DEFINE tail == [shell[l] EXCEPT !.queue = Tail(@)]
  <2>1. tail.queue = rest /\ DOMAIN rest = 1 .. Len(rest)
    <3>1. shell[l] \in Desktops
      BY DEF Typed
    <3> QED BY <1>3, <3>1, LenProperties DEF Desktops
  <2>2. \A m : Queued(tail, m) <=> \E i \in 1 .. Len(rest) : rest[i][2] = m
    BY <2>1 DEF Queued
  <2>3. fate' = [m \in Launches |-> IF m = from THEN "served"
                   ELSE IF do = "shutdown" /\ Queued(tail, m) THEN "lost" ELSE fate[m]]
    BY DEF Handle
  <2> HIDE DEF tail, do, from
  <2> QED BY ZenonT(40), <2>2, <2>3
<1>5. s.queue = IF lost THEN <<>> ELSE rest
  BY <1>1
<1>6. from = shell[l].queue[1][2] /\ from \in Launches \cup {None}
  <2>1. 1 \in 1 .. Len(shell[l].queue)
    BY <1>3
  <2> QED BY <1>3, <2>1, Entries
<1> HIDE DEF do, from
<1>7. /\ shell'[l] = s /\ \A m \in Launches : m # l => shell'[m] = shell[m]
      /\ \A m \in Launches : shell'[m].deaf = shell[m].deaf
  BY <1>1 DEF Typed
<1>8. ASSUME NEW x \in Launches, fate[x] = "waiting" PROVE fate'[x] = "waiting"
  <2>1. x # from
    <3>1. 1 \in 1 .. Len(shell[l].queue)
      BY <1>3
    <3>2. CASE x = from
      BY <1>2, <1>6, <1>8, <3>1, <3>2, WaitsOrQueues DEF Waiting
    <3> QED BY <3>2
  <2>2. ~\E i \in 1 .. Len(rest) : rest[i][2] = x
    <3>1. SUFFICES ASSUME NEW i \in 1 .. Len(rest), rest[i][2] = x PROVE FALSE
      OBVIOUS
    <3>2. i + 1 \in 1 .. Len(shell[l].queue) /\ shell[l].queue[i + 1][2] = x
      BY <1>3, <3>1
    <3> QED BY <1>2, <1>8, <3>2, WaitsOrQueues DEF Waiting
  <2> QED BY <1>4, <1>8, <2>1, <2>2
<1>9. ASSUME NEW x \in Launches, fate'[x] \in {"waiting", "queued"} PROVE fate[x] = fate'[x]
  BY <1>4, <1>9
<1>10. Waiting'
  <2>1. \A m \in Launches : Listens(m)' = Listens(m)
    BY <1>2, <1>7 DEF Listens, Primary
  <2>2. \A m \in Launches : \A i \in 1 .. Len(backlog[m]) : fate'[backlog[m][i]] = "waiting"
    BY <1>8, Entries DEF Waiting
  <2>3. \A x \in Launches : fate'[x] = "waiting" =>
          /\ proc[x].pc = "forwarded"
          /\ \E m \in Launches : \E i \in 1 .. Len(backlog[m]) : backlog[m][i] = x
    BY <1>9 DEF Waiting
  <2>4. \A m, n \in Launches : \A i \in 1 .. Len(backlog[m]), j \in 1 .. Len(backlog[n]) :
          backlog[m][i] = backlog[n][j] => m = n /\ i = j
    BY DEF Waiting
  <2>5. \A m \in Launches : backlog[m] # <<>> => Listens(m)
    BY DEF Waiting
  <2> QED BY SMTT(30), <1>2, <2>1, <2>2, <2>3, <2>4, <2>5, WaitingAfter
<1>11. ASSUME NEW m \in Launches, NEW i \in 1 .. Len(shell'[m].queue)
       PROVE  \E k \in 1 .. Len(shell[m].queue) :
                /\ shell'[m].queue[i] = shell[m].queue[k] /\ k = (IF m = l THEN i + 1 ELSE i)
                /\ m = l => ~lost /\ i \in 1 .. Len(rest)
  <2>1. Len(<<>>) = 0
    BY EmptySeq
  <2>2. CASE m = l
    <3>1. ~lost /\ i \in 1 .. Len(rest) /\ shell'[m].queue[i] = rest[i]
      <4>1. lost => Len(s.queue) = 0
        BY <1>5, <2>1
      <4>2. i \in 1 .. Len(s.queue) /\ shell'[m].queue[i] = s.queue[i]
        BY <1>7, <2>2
      <4>3. ~lost
        BY <4>1, <4>2
      <4> QED BY <1>5, <4>2, <4>3
    <3>2. i + 1 \in 1 .. Len(shell[l].queue) /\ rest[i] = shell[l].queue[i + 1]
      BY <1>3, <3>1
    <3> QED BY <2>2, <3>1, <3>2
  <2>3. CASE m # l
    BY <1>7, <2>3
  <2> QED BY <2>2, <2>3
<1>12. InQueue'
  <2>1. ASSUME NEW m \in Launches, NEW i \in 1 .. Len(shell'[m].queue)
        PROVE  shell'[m].queue[i][2] \in {None, m} \/ fate'[shell'[m].queue[i][2]] = "queued"
    <3>1. PICK k \in 1 .. Len(shell[m].queue) :
            /\ shell'[m].queue[i] = shell[m].queue[k] /\ k = (IF m = l THEN i + 1 ELSE i)
            /\ m = l => ~lost /\ i \in 1 .. Len(rest)
      BY <1>11
    <3> PICK x : x = shell[m].queue[k][2]
      OBVIOUS
    <3>2. SUFFICES ASSUME x \notin {None, m} PROVE fate'[x] = "queued"
      BY <3>1
    <3>3. x \in Launches /\ fate[x] = "queued"
      BY <3>2, Entries DEF InQueue
    <3>4. x # from
      <4>1. 1 \in 1 .. Len(shell[l].queue)
        BY <1>3
      <4>2. SUFFICES ASSUME x = from PROVE FALSE
        OBVIOUS
      <4>3. /\ shell[m].queue[k][2] = shell[l].queue[1][2]
            /\ shell[m].queue[k][2] # None
        BY <1>6, <3>2, <4>2
      <4>4. m = l /\ k = 1
        BY <4>1, <4>3, OnePlace
      <4> QED BY <3>1, <4>4
    <3>5. ~(lost /\ \E j \in 1 .. Len(rest) : rest[j][2] = x)
      <4>1. SUFFICES ASSUME lost, NEW j \in 1 .. Len(rest), rest[j][2] = x PROVE FALSE
        OBVIOUS
      <4>2. j + 1 \in 1 .. Len(shell[l].queue) /\ shell[l].queue[j + 1][2] = x
        BY <1>3, <4>1
      <4>3. m = l
        BY <3>2, <4>2, OnePlace
      <4> QED BY <3>1, <4>1, <4>3
    <3> QED BY <1>4, <3>3, <3>4, <3>5
  <2>2. ASSUME NEW m \in Launches, NEW n \in Launches,
               NEW i \in 1 .. Len(shell'[m].queue), NEW j \in 1 .. Len(shell'[n].queue),
               shell'[m].queue[i][2] = shell'[n].queue[j][2], shell'[m].queue[i][2] # None
        PROVE  m = n /\ i = j
    <3>1. PICK k \in 1 .. Len(shell[m].queue) :
            /\ shell'[m].queue[i] = shell[m].queue[k] /\ k = (IF m = l THEN i + 1 ELSE i)
            /\ m = l => ~lost /\ i \in 1 .. Len(rest)
      BY <1>11
    <3>2. PICK h \in 1 .. Len(shell[n].queue) :
            /\ shell'[n].queue[j] = shell[n].queue[h] /\ h = (IF n = l THEN j + 1 ELSE j)
            /\ n = l => ~lost /\ j \in 1 .. Len(rest)
      BY <1>11
    <3>3. shell[m].queue[k][2] = shell[n].queue[h][2] /\ shell[m].queue[k][2] # None
      BY <2>2, <3>1, <3>2
    <3>4. m = n /\ k = h
      BY <3>3, OnePlace
    <3> QED BY <3>1, <3>2, <3>4
  <2>3. ASSUME NEW x \in Launches, fate'[x] = "queued"
        PROVE  /\ proc'[x].pc = "forwarded"
               /\ \E m \in Launches : \E i \in 1 .. Len(shell'[m].queue) :
                    shell'[m].queue[i][2] = x
    <3>1. fate[x] = "queued" /\ proc'[x].pc = "forwarded" /\ x # from
      BY <1>2, <1>4, <1>9, <2>3 DEF InQueue
    <3>2. PICK m \in Launches : \E i \in 1 .. Len(shell[m].queue) : shell[m].queue[i][2] = x
      BY <3>1 DEF InQueue
    <3>3. PICK i \in 1 .. Len(shell[m].queue) : shell[m].queue[i][2] = x
      BY <3>2
    <3>4. CASE m = l
      <4>1. i # 1 /\ i - 1 \in 1 .. Len(rest) /\ (i - 1) + 1 = i
        BY <1>3, <1>6, <3>1, <3>3, <3>4
      <4>2. rest[i - 1][2] = x
        BY <1>3, <3>3, <3>4, <4>1
      <4>3. ~lost
        BY <1>4, <2>3, <3>1, <4>1, <4>2
      <4> QED BY <1>5, <1>7, <3>1, <4>1, <4>2, <4>3
    <3>5. CASE m # l
      BY <1>7, <3>1, <3>3, <3>5
    <3> QED BY <3>4, <3>5
  <2> QED BY <2>1, <2>2, <2>3, QueueAfter
<1> QED BY <1>10, <1>12

\* Every step keeps the requests where they are to be found.
LEMMA RequestsStay ==
  ASSUME ShellAssumption, Typed, Typed', PathsAreBound, IconsAreKept, Waiting, InQueue,
         [Next]_vars
  PROVE  Waiting' /\ InQueue'
<1>1. ASSUME NEW m \in Launches
      PROVE  Grown(shell[m], shell[m])
  BY Entries DEF Grown
<1>2. ASSUME UNCHANGED vars PROVE Waiting' /\ InQueue'
  BY <1>1, <1>2, RequestsOfOthers DEF vars, Listens, Primary
<1>3. ASSUME NEW l \in Launches, NEW pc \in Steps, Goes(l, pc),
             UNCHANGED <<backlog, shell, fate>>, proc[l].pc # "forwarded",
             Primary(l) => pc \in {"starting", "running", "quitting"}
      PROVE  Waiting' /\ InQueue'
  <2>1. proc'[l].pc = pc /\ \A m \in Launches : m # l => proc'[m] = proc[m]
    BY <1>3, GoesShape
  <2>2. \A m \in Launches : /\ Listens(m) => Listens(m)'
                            /\ proc[m].pc = "forwarded" => proc'[m].pc = "forwarded"
    BY <1>3, <2>1 DEF Listens, Primary
  <2> QED BY <1>1, <1>3, <2>2, RequestsOfOthers
<1>4. ASSUME NEW l \in Launches,
             Bind(l) \/ Inspect(l) \/ Rebind(l) \/ RemoveSocket(l) \/ Quit(l)
                                 \/ Unlink(l)
      PROVE  Waiting' /\ InQueue'
  <2>1. PICK pc \in Steps :
          /\ Goes(l, pc) /\ UNCHANGED <<backlog, shell, fate>> /\ proc[l].pc # "forwarded"
          /\ Primary(l) => pc \in {"starting", "running", "quitting"}
    <3>1. CASE Bind(l) \/ Rebind(l)
      BY <3>1 DEF Bind, Rebind, BindFree, Steps, Primary
    <3>2. CASE Inspect(l) \/ RemoveSocket(l)
      BY <3>2 DEF Inspect, RemoveSocket, Steps, Primary
    <3>3. CASE Quit(l) \/ Unlink(l)
      BY <3>3 DEF Quit, Unlink, Steps, Primary
    <3> QED BY <1>4, <3>1, <3>2, <3>3
  <2> QED BY <1>3, <2>1
<1>5. ASSUME NEW l \in Launches, Connect(l) \/ \E show \in BOOLEAN : Launch(l, show)
      PROVE  Waiting' /\ InQueue'
  <2>1. /\ proc[l].pc \in {"connect", "none"} /\ UNCHANGED <<backlog, shell, fate>>
        /\ \A m \in Launches : m # l => proc'[m] = proc[m]
    BY <1>5 DEF Connect, Launch, Typed
  <2>2. \A m \in Launches : /\ Listens(m) => Listens(m)'
                            /\ proc[m].pc = "forwarded" => proc'[m].pc = "forwarded"
    BY <2>1 DEF Listens, Primary
  <2> QED BY <1>1, <2>1, <2>2, RequestsOfOthers
<1>6. ASSUME NEW l \in Launches,
             \/ \E choice \in Choices : Configure(l, choice)
             \/ \E spawned \in BOOLEAN : Frame(l, spawned) \/ Close(l, spawned)
             \/ \E do \in {"toggle", "shutdown"} : Tray(l, do)
             \/ \E answer \in {"bound", "none"} : PortalAnswers(l, answer)
             \/ Supervise(l) \/ Shortcut(l)
      PROVE  Waiting' /\ InQueue'
  <2>1. PICK s : /\ Managed(l, s) /\ shell' = [shell EXCEPT ![l] = s]
                 /\ proc[l].pc = "running" /\ UNCHANGED <<path, backlog, fate>>
                 /\ UNCHANGED proc \/ Goes(l, "quitting")
                 /\ gaps \subseteq gaps'
    BY <1>6, Manages
  <2>2. /\ s \in Desktops /\ s.deaf = shell[l].deaf /\ Grown(shell[l], s)
    <3>1. IconIsKept(shell[l])
      BY DEF IconsAreKept
    <3> QED BY <2>1, <3>1, ManagedKeeps
  <2>3. shell'[l] = s /\ \A m \in Launches : m # l => shell'[m] = shell[m]
    BY <2>1 DEF Typed
  <2>4. /\ proc'[l].pc \in {"running", "quitting"}
        /\ \A m \in Launches : m # l => proc'[m] = proc[m]
    BY <2>1, GoesShape DEF Steps
  <2>5. \A m \in Launches : /\ Listens(m) => Listens(m)'
                            /\ proc[m].pc = "forwarded" => proc'[m].pc = "forwarded"
    BY <2>1, <2>2, <2>3, <2>4 DEF Listens, Primary
  <2>6. \A m \in Launches : Grown(shell[m], shell'[m])
    BY <1>1, <2>2, <2>3
  <2> QED BY <2>1, <2>5, <2>6, RequestsOfOthers
<1>7. ASSUME NEW l \in Launches, StartFails(l) \/ ListenerFails(l) \/ Kill(l) \/ Stop(l)
      PROVE  Waiting' /\ InQueue'
  <2> DEFINE heard == {backlog[l][i] : i \in DOMAIN backlog[l]}
             due == {shell[l].queue[i][2] : i \in DOMAIN shell[l].queue}
  <2>1. /\ backlog'[l] = <<>> /\ \A m \in Launches : m # l => backlog'[m] = backlog[m]
        /\ \A m \in Launches : m # l => shell'[m] = shell[m] /\ proc'[m] = proc[m]
        /\ proc[l].pc # "forwarded"
    BY <1>7 DEF StartFails, ListenerFails, Kill, Stop, Goes, Typed
  <2>2. /\ DOMAIN backlog[l] = 1 .. Len(backlog[l])
        /\ DOMAIN shell[l].queue = 1 .. Len(shell[l].queue)
    BY Entries
  <2>3. \E R \in SUBSET Launches :
          /\ \A x \in Launches : fate'[x] = IF x \in R THEN "lost" ELSE fate[x]
          /\ \A i \in 1 .. Len(backlog[l]) : backlog[l][i] \in R
          /\ \A x \in R : \/ \E i \in 1 .. Len(backlog[l]) : backlog[l][i] = x
                          \/ \E i \in 1 .. Len(shell[l].queue) :
                               shell[l].queue[i][2] = x /\ shell'[l].queue = <<>>
          /\ \/ shell'[l].queue = shell[l].queue
             \/ /\ shell'[l].queue = <<>>
                /\ \A i \in 1 .. Len(shell[l].queue) :
                     shell[l].queue[i][2] \in Launches => shell[l].queue[i][2] \in R
    <3>1. CASE StartFails(l) \/ ListenerFails(l)
      <4>1. shell'[l].queue = shell[l].queue
        BY <3>1 DEF StartFails, ListenerFails, Typed, Desktops
      <4>2. \A x \in Launches : fate'[x] = IF x \in heard THEN "lost" ELSE fate[x]
        BY <3>1 DEF StartFails, ListenerFails
      <4>3. /\ \A i \in 1 .. Len(backlog[l]) : backlog[l][i] \in heard
            /\ \A x \in heard : \E i \in 1 .. Len(backlog[l]) : backlog[l][i] = x
            /\ heard \in SUBSET Launches
        BY <2>2, Entries
      <4> HIDE DEF heard
      <4> QED BY <4>1, <4>2, <4>3
    <3>2. CASE Kill(l) \/ Stop(l)
      <4> DEFINE lost == {m \in Launches : m \in heard \/ m \in due}
      <4>1. shell'[l].queue = <<>>
        BY <3>2, UnstartedShape DEF Kill, Stop, Typed
      <4>2. \A m \in Launches : Queued(shell[l], m) <=> m \in due
        BY DEF Queued
      <4>3. \A x \in Launches : fate'[x] = IF x \in lost THEN "lost" ELSE fate[x]
        BY <3>2, <4>2 DEF Kill, Stop
      <4>4. /\ \A i \in 1 .. Len(backlog[l]) : backlog[l][i] \in lost
            /\ \A i \in 1 .. Len(shell[l].queue) :
                 shell[l].queue[i][2] \in Launches => shell[l].queue[i][2] \in lost
            /\ lost \in SUBSET Launches
        BY <2>2, Entries
      <4>5. \A x \in lost : \/ \E i \in 1 .. Len(backlog[l]) : backlog[l][i] = x
                            \/ \E i \in 1 .. Len(shell[l].queue) :
                                 shell[l].queue[i][2] = x /\ shell'[l].queue = <<>>
        BY <2>2, <4>1
      <4> HIDE DEF lost
      <4> QED BY <4>1, <4>3, <4>4, <4>5
    <3> QED BY <1>7, <3>1, <3>2
  <2> HIDE DEF heard, due
  <2>4. PICK R \in SUBSET Launches :
          /\ \A x \in Launches : fate'[x] = IF x \in R THEN "lost" ELSE fate[x]
          /\ \A i \in 1 .. Len(backlog[l]) : backlog[l][i] \in R
          /\ \A x \in R : \/ \E i \in 1 .. Len(backlog[l]) : backlog[l][i] = x
                          \/ \E i \in 1 .. Len(shell[l].queue) :
                               shell[l].queue[i][2] = x /\ shell'[l].queue = <<>>
          /\ \/ shell'[l].queue = shell[l].queue
             \/ /\ shell'[l].queue = <<>>
                /\ \A i \in 1 .. Len(shell[l].queue) :
                     shell[l].queue[i][2] \in Launches => shell[l].queue[i][2] \in R
    BY <2>3
  <2> QED BY ZenonT(40), <2>1, <2>4, Losses
<1>8. ASSUME NEW l \in Launches, Progress(l) PROVE Waiting' /\ InQueue'
  <2>1. CASE \E spawned \in BOOLEAN : Start(l, spawned)
    BY <2>1, StartKeepsRequests
  <2>2. CASE Write(l)
    BY <2>2, WriteKeepsRequests
  <2>3. CASE Accept(l)
    BY <2>3, AcceptKeepsRequests
  <2>4. CASE Handle(l)
    BY <2>4, HandleKeepsRequests
  <2> QED BY <1>4, <1>5, <1>7, <1>8, <2>1, <2>2, <2>3, <2>4 DEF Progress
<1> QED BY <1>2, <1>5, <1>6, <1>7, <1>8 DEF Next

LEMMA TypesStay ==
  ASSUME ShellAssumption, Typed, PathsAreBound, IconsAreKept, [Next]_vars
  PROVE  Typed'
<1>1. CASE UNCHANGED vars
  BY <1>1 DEF vars, Typed
<1>2. ASSUME NEW l \in Launches,
             \/ \E choice \in Choices : Configure(l, choice)
             \/ \E spawned \in BOOLEAN : Frame(l, spawned) \/ Close(l, spawned)
             \/ \E do \in {"toggle", "shutdown"} : Tray(l, do)
             \/ \E answer \in {"bound", "none"} : PortalAnswers(l, answer)
             \/ Supervise(l) \/ Shortcut(l)
      PROVE  Typed'
  <2>1. PICK s : /\ Managed(l, s) /\ shell' = [shell EXCEPT ![l] = s]
                 /\ proc[l].pc = "running" /\ UNCHANGED <<path, backlog, fate>>
                 /\ UNCHANGED proc \/ Goes(l, "quitting")
                 /\ gaps \subseteq gaps'
    BY <1>2, Manages
  <2>2. /\ s \in Desktops /\ Len(s.queue) <= Capacity /\ (s.icon => s.synced.tray)
    <3>1. IconIsKept(shell[l])
      BY DEF IconsAreKept
    <3> QED BY <2>1, <3>1, ManagedKeeps
  <2>3. /\ proc' \in [Launches -> [pc : Steps, show : BOOLEAN,
                                   seen : Launches \cup {Stale, None}]]
        /\ proc'[l].pc \in {"running", "quitting"}
        /\ \A m \in Launches : m # l => proc'[m] = proc[m]
    <3>1. CASE UNCHANGED proc
      BY <2>1, <3>1 DEF Typed
    <3>2. CASE Goes(l, "quitting")
      BY <3>2, GoesShape DEF Steps
    <3> QED BY <2>1, <3>1, <3>2
  <2> QED BY <2>1, <2>2, <2>3 DEF Typed
<1> QED BY <1>1, <1>2, ProgressKeepsTypes, OthersKeepTypes DEF Next

LEMMA ShellStarts ==
  ASSUME ShellAssumption, Init
  PROVE  ShellInv
<1>1. Typed
  BY TypesStart
<1>2. /\ ~Unstarted.deaf /\ ~Unstarted.closed /\ Unstarted.queue = <<>>
      /\ ~Unstarted.closeToTray
  BY DEF Unstarted
<1>3. \A l \in Launches : /\ proc[l].pc = "none" /\ proc[l].seen = None
                          /\ shell[l] = Unstarted /\ backlog[l] = <<>> /\ fate[l] = "none"
  BY DEF Init
<1>4. None \notin Launches /\ Stale \notin Launches /\ "file" \notin Launches
        /\ path \in {None, Stale, "file"} 
  BY DEF ShellAssumption, Init
<1>5. PathsAreBound /\ PrimaryHasPath
  BY <1>2, <1>3, <1>4 DEF PathsAreBound, PrimaryHasPath, Bound, Primary
<1>6. ~Hiding(Unstarted) /\ ~Iconless(Unstarted)
  BY UnstartedShape, EmptySeq DEF Unstarted, Hiding, Iconless
<1>7. IconsAreKept
  BY <1>3, <1>6 DEF IconsAreKept, IconIsKept
<1>8. Waiting /\ InQueue
  BY <1>2, <1>3, EmptySeq DEF Waiting, InQueue
<1> QED BY <1>1, <1>5, <1>7, <1>8 DEF ShellInv

LEMMA ShellStays ==
  ASSUME ShellAssumption, ShellInv, [Next]_vars
  PROVE  ShellInv'
  BY TypesStay, PathsStayBound, IconsStayKept, RequestsStay DEF ShellInv

LEMMA ShellIsTyped ==
  ASSUME Typed
  PROVE  TypeOK
  BY DEF Typed, TypeOK, Desktops

LEMMA NoOtherPrimary ==
  ASSUME ShellInv
  PROVE  OnePrimary
  BY DEF ShellInv, PrimaryHasPath, OnePrimary

LEMMA HiddenHasIcon ==
  ASSUME ShellInv
  PROVE  ClosedWindowHasIcon /\ HiddenWindowIsInReach
<1>1. ClosedWindowHasIcon
  BY DEF ShellInv, IconsAreKept, IconIsKept, Iconless, Hiding, ClosedWindowHasIcon
<1>2. HiddenWindowIsInReach
  BY DEF ShellInv, PrimaryHasPath, PathsAreBound, Listens, HiddenWindowIsInReach
<1> QED BY <1>1, <1>2

LEMMA LaunchIsHeard ==
  ASSUME ShellAssumption, ShellInv
  PROVE  EveryLaunchIsHeard
<1>0. Typed /\ Waiting /\ InQueue
  BY DEF ShellInv
<1>1. ASSUME NEW l \in Launches, fate[l] = "waiting"
      PROVE  \E m \in Launches :
               /\ {n \in Launches : \E i \in DOMAIN backlog[n] : backlog[n][i] = l} = {m}
               /\ Listens(m)
  <2>1. PICK m \in Launches : \E i \in 1 .. Len(backlog[m]) : backlog[m][i] = l
    BY <1>0, <1>1 DEF Waiting
  <2>2. Listens(m)
    BY <1>0, <2>1, Entries DEF Waiting
  <2>3. ASSUME NEW n \in Launches
        PROVE  (\E i \in DOMAIN backlog[n] : backlog[n][i] = l) <=> n = m
    <3>1. /\ DOMAIN backlog[n] = 1 .. Len(backlog[n])
          /\ DOMAIN backlog[m] = 1 .. Len(backlog[m])
      BY <1>0, Entries
    <3> QED BY <1>0, <2>1, <3>1 DEF Waiting
  <2> QED BY <2>2, <2>3
<1>2. ASSUME NEW l \in Launches, fate[l] = "queued"
      PROVE  \E m \in Launches :
               /\ {n \in Launches : Queued(shell[n], l)} = {m} /\ Primary(m)
  <2>1. PICK m \in Launches : \E i \in 1 .. Len(shell[m].queue) : shell[m].queue[i][2] = l
    BY <1>0, <1>2 DEF InQueue
  <2>2. Primary(m)
    BY <1>0, <2>1, Entries DEF Primary
  <2>3. l # None
    BY <1>0, Entries
  <2>4. ASSUME NEW n \in Launches
        PROVE  Queued(shell[n], l) <=> n = m
    <3>1. /\ DOMAIN shell[n].queue = 1 .. Len(shell[n].queue)
          /\ DOMAIN shell[m].queue = 1 .. Len(shell[m].queue)
      BY <1>0, Entries
    <3> QED BY <1>0, <2>1, <2>3, <3>1, OnePlace DEF Queued
  <2> QED BY <2>2, <2>4
<1> QED BY <1>1, <1>2 DEF EveryLaunchIsHeard

-----------------------------------------------------------------------------
(* The settings page                                                       *)

DraftPages ==
  [snap : Draft!View, draft : Draft!Value, dirty : BOOLEAN, reading : BOOLEAN,
   base : Draft!Value, touched : SUBSET Edited]

DraftTyped ==
  /\ file \in Draft!Value /\ worker \in Draft!View /\ screen \in Draft!View
  /\ requests \in Seq(Draft!Requests) /\ Len(requests) <= Capacity
  /\ job \in Draft!Requests \cup {None} /\ bridge \in Seq(Draft!View)
  /\ news \in SUBSET {"due", "sent"}
  /\ ui \in DraftPages

\* A request changes no field but those that its author has touched.
Honest(request) ==
  request.do = "apply" =>
    \A f \in Draft!Fields : request.with[f] # request.from[f] => f \in request.asked

\* So does the draft of the settings it was made from, which are those shown if it is clean.
DraftIsHonest(u) ==
  /\ ~u.dirty => u.draft = u.snap.value /\ u.base = u.snap.value
  /\ \A f \in Draft!Fields : u.draft[f] # u.base[f] => f \in u.touched

RequestsAreHonest ==
  /\ \A i \in 1 .. Len(requests) : Honest(requests[i])
  /\ job # None => Honest(job)
  /\ DraftIsHonest(ui)

\* Each view is that of the one before it, or the next is on its way.
ViewsFollow ==
  /\ job = None \/ job.do # "apply" => ~worker.busy
  /\ "unrestored" \notin gaps => worker.value = file
  /\ bridge = <<>> => screen = worker
  /\ bridge # <<>> => bridge[Len(bridge)] = worker

\* What the interface, or a draft with changes, does not know of the newest view it has still
\* to be told.
Told(u) ==
  gaps \cap {"overtaken", "lagged"} = {} =>
    /\ u.snap # screen => news # {}
    /\ u.dirty /\ u.base # screen.value => news # {} \/ screen.busy

DraftInv == DraftTyped /\ RequestsAreHonest /\ ViewsFollow /\ Told(ui)

LEMMA DraftStarts ==
  ASSUME Draft!DraftAssumption, Draft!Init
  PROVE  DraftInv
<1>1. file \in Draft!Value /\ worker \in Draft!View
  BY DEF Draft!Init, Draft!Value, Draft!View
<1>2. /\ <<>> \in Seq(Draft!Requests) /\ <<>> \in Seq(Draft!View) /\ Len(<<>>) = 0
      /\ Capacity \in Nat
  BY EmptySeq DEF Draft!DraftAssumption
<1>3. DraftTyped
  <2> DEFINE none == {}
  <2>1. /\ screen = worker /\ screen.value \in Draft!Value /\ requests = <<>> /\ job = None
        /\ bridge = <<>> /\ news = none
        /\ ui = [snap |-> screen, draft |-> screen.value, dirty |-> FALSE, reading |-> FALSE,
                 base |-> screen.value, touched |-> none]
    BY <1>1 DEF Draft!Init, Draft!View
  <2>2. none \in SUBSET Edited /\ none \in SUBSET {"due", "sent"}
    OBVIOUS
  <2> HIDE DEF none
  <2>3. ui \in DraftPages
    BY <1>1, <2>1, <2>2 DEF DraftPages
  <2>4. /\ requests \in Seq(Draft!Requests) /\ bridge \in Seq(Draft!View)
        /\ Len(requests) <= Capacity
    BY <1>2, <2>1
  <2>5. /\ worker \in Draft!View /\ screen \in Draft!View
        /\ job \in Draft!Requests \cup {None} /\ news \in SUBSET {"due", "sent"}
    BY <1>1, <2>1, <2>2
  <2> QED BY <1>1, <2>3, <2>4, <2>5 DEF DraftTyped
<1>4. RequestsAreHonest
  <2>1. /\ requests = <<>> /\ job = None /\ ui.draft = ui.snap.value
        /\ ui.base = ui.snap.value
    BY DEF Draft!Init
  <2> QED BY <1>2, <2>1 DEF RequestsAreHonest, DraftIsHonest
<1>5. ViewsFollow /\ Told(ui)
  BY DEF Draft!Init, ViewsFollow, Told
<1> QED BY <1>3, <1>4, <1>5 DEF DraftInv

\* The queue after one more request that is honest, or is refused.
LEMMA OneMoreRequest ==
  ASSUME Draft!DraftAssumption, DraftTyped, RequestsAreHonest, NEW r \in Draft!Requests,
         Honest(r)
  PROVE  /\ Draft!Requested(r) \in Seq(Draft!Requests) /\ Len(Draft!Requested(r)) <= Capacity
         /\ \A i \in 1 .. Len(Draft!Requested(r)) : Honest(Draft!Requested(r)[i])
<1>1. CASE Len(requests) < Capacity
  <2>1. /\ Draft!Requested(r) = Append(requests, r) /\ requests \in Seq(Draft!Requests)
        /\ Capacity \in Nat
    BY <1>1 DEF Draft!Requested, DraftTyped, Draft!DraftAssumption
  <2>2. /\ Append(requests, r) \in Seq(Draft!Requests)
        /\ Len(Append(requests, r)) = Len(requests) + 1 /\ Len(requests) \in Nat
        /\ \A i \in 1 .. Len(requests) : Append(requests, r)[i] = requests[i]
        /\ Append(requests, r)[Len(requests) + 1] = r
    BY <2>1, Appended
  <2>3. \A i \in 1 .. Len(Append(requests, r)) : Honest(Append(requests, r)[i])
    BY <2>2 DEF RequestsAreHonest
  <2> QED BY <1>1, <2>1, <2>2, <2>3
<1>2. CASE ~(Len(requests) < Capacity)
  BY <1>2 DEF Draft!Requested, DraftTyped, RequestsAreHonest
<1> QED BY <1>1, <1>2

\* Somebody asks for something.
LEMMA AskedKeeps ==
  ASSUME Draft!DraftAssumption, DraftInv, NEW r \in Draft!Requests, Honest(r),
         requests' = Draft!Requested(r),
         UNCHANGED <<file, job, worker, bridge, screen, news, ui, gaps>>
  PROVE  DraftInv'
<1>1. /\ requests' \in Seq(Draft!Requests) /\ Len(requests') <= Capacity
      /\ \A i \in 1 .. Len(requests') : Honest(requests'[i])
  BY OneMoreRequest DEF DraftInv
<1>2. DraftTyped'
  BY <1>1 DEF DraftInv, DraftTyped
<1>3. RequestsAreHonest'
  BY <1>1 DEF DraftInv, RequestsAreHonest
<1>4. ViewsFollow' /\ Told(ui)'
  BY DEF DraftInv, ViewsFollow, Told
<1> QED BY <1>2, <1>3, <1>4 DEF DraftInv

LEMMA FlipsOne ==
  ASSUME NEW value \in Draft!Value, NEW f \in Draft!Fields
  PROVE  /\ Draft!Flipped(value, f) \in Draft!Value
         /\ \A g \in Draft!Fields : g # f => Draft!Flipped(value, f)[g] = value[g]
  BY DEF Draft!Flipped, Draft!Value

\* The worker publishes a view, and has changed the file or not.
LEMMA PublishingKeeps ==
  ASSUME Draft!DraftAssumption, DraftInv, NEW view \in Draft!View, Draft!Publish(view),
         file' \in Draft!Value,
         job' \in Draft!Requests \cup {None}, requests' \in Seq(Draft!Requests),
         Len(requests') <= Capacity,
         \A i \in 1 .. Len(requests') : Honest(requests'[i]), job' # None => Honest(job'),
         job' = None \/ job'.do # "apply" => ~view.busy,
         "unrestored" \notin gaps' => view.value = file', gaps \subseteq gaps',
         UNCHANGED <<screen, news, ui>>
  PROVE  DraftInv'
<1>1. bridge \in Seq(Draft!View) /\ worker' = view /\ bridge' = Append(bridge, view)
  BY DEF DraftInv, DraftTyped, Draft!Publish
<1>2. /\ bridge' \in Seq(Draft!View) /\ Len(bridge') = Len(bridge) + 1 /\ Len(bridge) \in Nat
      /\ bridge'[Len(bridge')] = view
  BY <1>1, Appended
<1>3. bridge' # <<>>
  BY <1>2, EmptySeq
<1>4. DraftTyped'
  BY <1>1, <1>2 DEF DraftInv, DraftTyped
<1>5. RequestsAreHonest'
  BY DEF DraftInv, RequestsAreHonest
<1>6. ViewsFollow'
  BY <1>1, <1>2, <1>3 DEF DraftInv, ViewsFollow
<1>7. Told(ui)'
  BY DEF DraftInv, Told
<1> QED BY <1>4, <1>5, <1>6, <1>7 DEF DraftInv

\* What the interface shows becomes the draft.
LEMMA MadeAnew ==
  ASSUME NEW u \in DraftPages
  PROVE  /\ Draft!Fresh(u) \in DraftPages /\ DraftIsHonest(Draft!Fresh(u))
         /\ Draft!Fresh(u).snap = u.snap /\ ~Draft!Fresh(u).dirty
<1> DEFINE none == {}
<1>1. u.snap.value \in Draft!Value /\ none \in SUBSET Edited
  BY DEF DraftPages, Draft!View
<1>2. Draft!Fresh(u) = [u EXCEPT !.draft = u.snap.value, !.dirty = FALSE,
                                 !.base = u.snap.value, !.touched = none]
  BY DEF Draft!Fresh
<1> HIDE DEF none
<1>3. /\ Draft!Fresh(u) \in DraftPages /\ Draft!Fresh(u).snap = u.snap
      /\ Draft!Fresh(u).draft = u.snap.value /\ Draft!Fresh(u).base = u.snap.value
      /\ Draft!Fresh(u).dirty = FALSE
  BY <1>1, <1>2 DEF DraftPages
<1> QED BY <1>3 DEF DraftIsHonest

\* The page, and nothing else, has changed.
LEMMA PageChanged ==
  ASSUME DraftInv, ui' \in DraftPages, DraftIsHonest(ui'),
         UNCHANGED <<file, requests, job, worker, bridge, screen, news, gaps>>,
         Told(ui) => Told(ui)'
  PROVE  DraftInv'
<1>1. DraftTyped'
  BY DEF DraftInv, DraftTyped
<1>2. RequestsAreHonest'
  BY DEF DraftInv, RequestsAreHonest, Honest, DraftIsHonest
<1>3. ViewsFollow'
  BY DEF DraftInv, ViewsFollow
<1> QED BY <1>1, <1>2, <1>3 DEF DraftInv

LEMMA PageKeeps ==
  ASSUME Draft!DraftAssumption, DraftInv,
         \/ \E f \in Edited : Draft!Edit(f)
         \/ Draft!SaveDraft \/ Draft!DiscardDraft \/ Draft!RefreshSettings
         \/ Draft!Toggle(ui.snap) \/ Draft!Toggle(screen)
         \/ \E enabled \in BOOLEAN : Draft!ProxyChanges(enabled)
  PROVE  DraftInv'
<1>0. ui \in DraftPages
  BY DEF DraftInv, DraftTyped
<1>1. /\ ui.snap \in Draft!View /\ ui.draft \in Draft!Value /\ ui.base \in Draft!Value
      /\ ui.touched \in SUBSET Edited /\ ui.snap.value \in Draft!Value
  BY <1>0 DEF DraftPages, Draft!View
<1>2. ASSUME NEW f \in Edited, Draft!Edit(f) PROVE DraftInv'
  <2> DEFINE draft == Draft!Flipped(ui.draft, f)
             touched == ui.touched \cup {f}
  <2>1. UNCHANGED <<file, requests, job, worker, bridge, screen, news, gaps>>
    BY <1>2 DEF Draft!Edit
  <2>2. CASE draft = ui.snap.value
    <3>1. ui' = Draft!Fresh(ui)
      BY <1>2, <2>2 DEF Draft!Edit
    <3> QED BY <1>0, <2>1, <3>1, MadeAnew, PageChanged DEF Told
  <2>3. CASE draft # ui.snap.value
    <3>1. ui' = [ui EXCEPT !.draft = draft, !.dirty = TRUE, !.touched = touched]
      BY <1>2, <2>3 DEF Draft!Edit
    <3>2. draft \in Draft!Value /\ \A g \in Draft!Fields : g # f => draft[g] = ui.draft[g]
      BY <1>1, FlipsOne DEF Draft!Fields
    <3>3. touched \in SUBSET Edited /\ f \in touched /\ \A g \in ui.touched : g \in touched
      BY <1>1
    <3> HIDE DEF draft, touched
    <3>4. /\ ui' \in DraftPages /\ ui'.snap = ui.snap /\ ui'.draft = draft /\ ui'.dirty = TRUE
          /\ ui'.base = ui.base /\ ui'.touched = touched
      BY <1>0, <3>1, <3>2, <3>3 DEF DraftPages
    <3>5. DraftIsHonest(ui) /\ DraftIsHonest(ui')
      BY <3>2, <3>3, <3>4 DEF DraftInv, RequestsAreHonest, DraftIsHonest
    <3>6. Told(ui) => Told(ui)'
      BY <2>1, <3>4, <3>5 DEF Told, DraftIsHonest
    <3> QED BY <2>1, <3>4, <3>5, <3>6, PageChanged
  <2> QED BY <2>2, <2>3
<1>3. CASE Draft!SaveDraft
  <2> DEFINE r == Draft!Apply(ui.draft, ui.base, ui.touched)
  <2>1. r \in Draft!Requests /\ Honest(r)
    BY <1>1 DEF Draft!Apply, Draft!Requests, Honest, DraftInv, RequestsAreHonest, DraftIsHonest
  <2>2. /\ requests' = Draft!Requested(r)
        /\ UNCHANGED <<file, job, worker, bridge, screen, news, ui, gaps>>
    BY <1>3 DEF Draft!SaveDraft
  <2> HIDE DEF r
  <2> QED BY <2>1, <2>2, AskedKeeps
<1>4. CASE Draft!DiscardDraft
  <2>1. /\ ui' = Draft!Fresh(ui)
        /\ UNCHANGED <<file, requests, job, worker, bridge, screen, news, gaps>>
    BY <1>4 DEF Draft!DiscardDraft
  <2> QED BY <1>0, <2>1, MadeAnew, PageChanged DEF Told
<1>5. CASE Draft!RefreshSettings
  <2>1. [do |-> "refresh"] \in Draft!Requests /\ Honest([do |-> "refresh"])
    BY DEF Draft!Requests, Honest
  <2>2. /\ requests' = Draft!Requested([do |-> "refresh"])
        /\ UNCHANGED <<file, job, worker, bridge, screen, news, ui, gaps>>
    BY <1>5 DEF Draft!RefreshSettings
  <2> QED BY <2>1, <2>2, AskedKeeps
<1>6. ASSUME NEW view \in Draft!View, Draft!Toggle(view) PROVE DraftInv'
  <2> DEFINE r == Draft!Apply(Draft!Flipped(view.value, Toggled), view.value, {Toggled})
  <2>1. view.value \in Draft!Value /\ Toggled \in Edited /\ Toggled \in Draft!Fields
    BY DEF Draft!View, Draft!DraftAssumption, Draft!Fields
  <2>2. /\ Draft!Flipped(view.value, Toggled) \in Draft!Value
        /\ \A f \in Draft!Fields : f # Toggled
             => Draft!Flipped(view.value, Toggled)[f] = view.value[f]
    BY <2>1, FlipsOne
  <2>3. r \in Draft!Requests /\ Honest(r)
    BY <2>1, <2>2 DEF Draft!Apply, Draft!Requests, Honest
  <2>4. /\ requests' = Draft!Requested(r)
        /\ UNCHANGED <<file, job, worker, bridge, screen, news, ui, gaps>>
    BY <1>6 DEF Draft!Toggle
  <2> HIDE DEF r
  <2> QED BY <2>3, <2>4, AskedKeeps
<1>7. ASSUME NEW enabled \in BOOLEAN, Draft!ProxyChanges(enabled) PROVE DraftInv'
  <2> DEFINE r == [do |-> "persist", enabled |-> enabled]
  <2>1. r \in Draft!Requests /\ Honest(r)
    BY DEF Draft!Requests, Honest
  <2>2. /\ requests' = Draft!Requested(r)
        /\ UNCHANGED <<file, job, worker, bridge, screen, news, ui, gaps>>
    BY <1>7 DEF Draft!ProxyChanges
  <2> HIDE DEF r
  <2> QED BY <2>1, <2>2, AskedKeeps
<1>8. screen \in Draft!View
  BY DEF DraftInv, DraftTyped, DraftPages
<1> QED BY <1>1, <1>2, <1>3, <1>4, <1>5, <1>6, <1>7, <1>8

LEMMA WorkerKeeps ==
  ASSUME Draft!DraftAssumption, DraftInv,
         \/ Draft!Begin \/ Draft!Applied \/ Draft!PersistSystemProxy \/ Draft!Refreshed
         \/ Draft!FailsToRead
         \/ \E restored \in BOOLEAN : Draft!NotApplied(restored)
  PROVE  DraftInv'
<1>1. /\ worker \in Draft!View /\ file \in Draft!Value /\ job \in Draft!Requests \cup {None}
      /\ None \notin Draft!Requests
      /\ requests \in Seq(Draft!Requests) /\ Len(requests) <= Capacity
      /\ \A i \in 1 .. Len(requests) : Honest(requests[i])
      /\ job = None \/ job.do # "apply" => ~worker.busy
      /\ "unrestored" \notin gaps => worker.value = file
  BY DEF DraftInv, DraftTyped, DraftPages, RequestsAreHonest, ViewsFollow, Draft!DraftAssumption
<1>2. CASE Draft!Begin
  <2> PICK r : r = Head(requests)
    OBVIOUS
  <2> PICK rest : rest = Tail(requests)
    OBVIOUS
  <2>1. /\ job' = r /\ requests' = rest /\ UNCHANGED <<file, screen, news, ui, gaps>>
        /\ job = None /\ requests # <<>>
    BY <1>2 DEF Draft!Begin
  <2>2. /\ r \in Draft!Requests /\ r = requests[1] /\ rest \in Seq(Draft!Requests)
        /\ Len(rest) = Len(requests) - 1 /\ Len(requests) \in Nat \ {0}
        /\ \A i \in 1 .. Len(rest) :
             i + 1 \in 1 .. Len(requests) /\ rest[i] = requests[i + 1]
    BY <1>1, <2>1, Taken
  <2>3. /\ Honest(r) /\ \A i \in 1 .. Len(rest) : Honest(rest[i])
        /\ Len(rest) <= Capacity
    <3>1. 1 \in 1 .. Len(requests)
      BY <2>2
    <3>2. Honest(r) /\ \A i \in 1 .. Len(rest) : Honest(rest[i])
      BY <1>1, <2>2, <3>1
    <3> QED BY <1>1, <2>2, <3>2 DEF Draft!DraftAssumption
  <2>4. CASE r.do = "apply"
    <3> DEFINE view == [worker EXCEPT !.busy = TRUE]
    <3>1. Draft!Publish(view)
      BY <1>2, <2>4 DEF Draft!Begin
    <3>2. view \in Draft!View /\ view.value = worker.value
      BY <1>1 DEF Draft!View
    <3> HIDE DEF view
    <3> QED BY <1>1, <2>1, <2>2, <2>3, <2>4, <3>1, <3>2, PublishingKeeps
  <2>5. CASE r.do # "apply"
    <3>1. UNCHANGED <<worker, bridge>>
      BY <1>2, <2>5 DEF Draft!Begin
    <3>2. DraftTyped'
      BY <1>1, <2>1, <2>2, <2>3, <3>1 DEF DraftInv, DraftTyped, DraftPages
    <3>3. RequestsAreHonest'
      BY <2>1, <2>3 DEF DraftInv, RequestsAreHonest
    <3>4. ViewsFollow' /\ Told(ui)'
      BY <2>1, <3>1 DEF DraftInv, ViewsFollow, Told
    <3> QED BY <3>2, <3>3, <3>4 DEF DraftInv
  <2> QED BY <2>4, <2>5
<1>3. CASE Draft!Applied
  <2> DEFINE view == [value |-> job.with, busy |-> FALSE]
  <2>1. /\ job # None /\ job.do = "apply" /\ job' = None /\ file' = job.with
        /\ Draft!Publish(view)
        /\ UNCHANGED <<requests, screen, news, ui, gaps>>
    BY <1>3 DEF Draft!Applied
  <2>2. job.with \in Draft!Value
    BY <1>1, <2>1 DEF Draft!Requests
  <2>3. view \in Draft!View /\ view.value = job.with /\ ~view.busy
    BY <2>2 DEF Draft!View
  <2> HIDE DEF view
  <2> QED BY <1>1, <2>1, <2>2, <2>3, PublishingKeeps
<1>4. ASSUME NEW restored \in BOOLEAN, Draft!NotApplied(restored) PROVE DraftInv'
  <2> DEFINE view == [worker EXCEPT !.busy = FALSE]
  <2>1. /\ job # None /\ job.do = "apply" /\ job' = None /\ Draft!Publish(view)
        /\ file' = (IF restored THEN file ELSE job.with)
        /\ gaps \subseteq gaps' /\ (~restored => "unrestored" \in gaps')
        /\ UNCHANGED <<requests, screen, news, ui>>
    BY <1>4 DEF Draft!NotApplied
  <2>2. job.with \in Draft!Value
    BY <1>1, <2>1 DEF Draft!Requests
  <2>3. view \in Draft!View /\ view.value = worker.value /\ ~view.busy
    BY <1>1 DEF Draft!View
  <2> HIDE DEF view
  <2> QED BY <1>1, <2>1, <2>2, <2>3, PublishingKeeps
<1>5. CASE Draft!PersistSystemProxy
  <2> DEFINE value == [file EXCEPT ![Proxy] = job.enabled]
             view == [worker EXCEPT !.value = value]
  <2>1. /\ job # None /\ job.do = "persist" /\ job' = None /\ file' = value
        /\ Draft!Publish(view)
        /\ UNCHANGED <<requests, screen, news, ui, gaps>>
    BY <1>5 DEF Draft!PersistSystemProxy
  <2>2. value \in Draft!Value
    <3>1. job.enabled \in BOOLEAN
      BY <1>1, <2>1 DEF Draft!Requests
    <3> QED BY <1>1, <3>1 DEF Draft!Value
  <2> HIDE DEF value
  <2>3. view \in Draft!View /\ view.value = value /\ view.busy = worker.busy
    BY <1>1, <2>2 DEF Draft!View
  <2>4. ~worker.busy
    BY <1>1, <2>1
  <2> HIDE DEF view
  <2> QED BY <1>1, <2>1, <2>2, <2>3, <2>4, PublishingKeeps
<1>6. CASE Draft!Refreshed
  <2> DEFINE view == [value |-> file, busy |-> FALSE]
  <2>1. /\ job' = None /\ Draft!Publish(view)
        /\ UNCHANGED <<file, requests, screen, news, ui, gaps>>
    BY <1>6 DEF Draft!Refreshed
  <2>2. view \in Draft!View /\ view.value = file /\ ~view.busy
    BY <1>1 DEF Draft!View
  <2> HIDE DEF view
  <2> QED BY <1>1, <2>1, <2>2, PublishingKeeps
<1>7. CASE Draft!FailsToRead
  <2> DEFINE view == [worker EXCEPT !.busy = FALSE]
  <2>1. /\ job' = None /\ Draft!Publish(view) /\ gaps \subseteq gaps'
        /\ UNCHANGED <<file, requests, screen, news, ui>>
    BY <1>7 DEF Draft!FailsToRead
  <2>2. view \in Draft!View /\ view.value = worker.value /\ ~view.busy
    BY <1>1 DEF Draft!View
  <2> HIDE DEF view
  <2> QED BY <1>1, <2>1, <2>2, PublishingKeeps
<1> QED BY <1>2, <1>3, <1>4, <1>5, <1>6, <1>7

LEMMA ViewsPass ==
  ASSUME Draft!DraftAssumption, DraftInv,
         Draft!HandleSettingsEvent \/ Draft!EmitSettingsChanged \/ Draft!Lag
  PROVE  DraftInv'
<1>1. CASE Draft!HandleSettingsEvent
  <2> PICK view : view = Head(bridge)
    OBVIOUS
  <2> PICK rest : rest = Tail(bridge)
    OBVIOUS
  <2>1. /\ bridge # <<>> /\ bridge' = rest /\ screen' = view /\ news' = news \cup {"due"}
        /\ UNCHANGED <<file, requests, job, worker, ui, gaps>>
    BY <1>1 DEF Draft!HandleSettingsEvent
  <2>2. bridge \in Seq(Draft!View)
    BY DEF DraftInv, DraftTyped, DraftPages
  <2>3. /\ view \in Draft!View /\ view = bridge[1] /\ rest \in Seq(Draft!View)
        /\ Len(rest) = Len(bridge) - 1 /\ Len(bridge) \in Nat \ {0}
        /\ \A i \in 1 .. Len(rest) : rest[i] = bridge[i + 1]
    BY <2>1, <2>2, Taken
  <2>4. /\ rest = <<>> => view = worker
        /\ rest # <<>> => rest[Len(rest)] = worker
    <3>1. bridge[Len(bridge)] = worker
      BY <2>1 DEF DraftInv, ViewsFollow
    <3>2. rest = <<>> => Len(rest) = 0
      BY EmptySeq
    <3>3. rest # <<>> => Len(rest) # 0
      BY <2>3, EmptySeq
    <3>4. CASE Len(rest) = 0
      BY <2>3, <3>1, <3>3, <3>4
    <3>5. CASE Len(rest) # 0
      <4>1. Len(rest) \in 1 .. Len(rest) /\ Len(rest) + 1 = Len(bridge)
        BY <2>3, <3>5
      <4> QED BY <2>3, <3>1, <3>2, <3>5, <4>1
    <3> QED BY <3>4, <3>5
  <2>5. news' \in SUBSET {"due", "sent"} /\ news' # {}
    BY <2>1 DEF DraftInv, DraftTyped
  <2>6. DraftTyped'
    BY <2>1, <2>3, <2>5 DEF DraftInv, DraftTyped
  <2>7. RequestsAreHonest'
    BY <2>1 DEF DraftInv, RequestsAreHonest
  <2>8. ViewsFollow' /\ Told(ui)'
    BY <2>1, <2>4, <2>5 DEF DraftInv, ViewsFollow, Told
  <2> QED BY <2>6, <2>7, <2>8 DEF DraftInv
<1>2. CASE Draft!EmitSettingsChanged \/ Draft!Lag
  <2>1. /\ UNCHANGED <<file, requests, job, worker, bridge, screen, ui>>
        /\ news' \in SUBSET {"due", "sent"} /\ gaps \subseteq gaps'
        /\ news' # {} \/ "lagged" \in gaps'
        /\ "unrestored" \in gaps' <=> "unrestored" \in gaps
    BY <1>2 DEF Draft!EmitSettingsChanged, Draft!Lag, DraftInv, DraftTyped
  <2>2. DraftTyped'
    BY <2>1 DEF DraftInv, DraftTyped
  <2>3. RequestsAreHonest'
    BY <2>1 DEF DraftInv, RequestsAreHonest
  <2>4. ViewsFollow' /\ Told(ui)'
    BY <2>1 DEF DraftInv, ViewsFollow, Told
  <2> QED BY <2>2, <2>3, <2>4 DEF DraftInv
<1> QED BY <1>1, <1>2

\* A frame begins: the draft is as honest as it was, and knows the newest view.
LEMMA TakingKeeps ==
  ASSUME Draft!DraftAssumption, DraftInv, Draft!TakeSnapshot
  PROVE  DraftInv'
<1> DEFINE next == [ui EXCEPT !.snap = screen, !.reading = TRUE]
<1>1. /\ ui' = (IF ui.dirty THEN next ELSE Draft!Fresh(next))
      /\ UNCHANGED <<file, requests, job, worker, bridge, screen, news, gaps>>
  BY DEF Draft!TakeSnapshot
<1>2. /\ next \in DraftPages /\ next.snap = screen /\ next.dirty = ui.dirty
      /\ next.draft = ui.draft /\ next.base = ui.base /\ next.touched = ui.touched
  BY DEF DraftInv, DraftTyped, DraftPages
<1> HIDE DEF next
<1>3. CASE ui.dirty
  <2>1. DraftIsHonest(next)
    BY <1>2, <1>3 DEF DraftInv, RequestsAreHonest, DraftIsHonest
  <2>2. Told(ui) => Told(ui)'
    BY <1>1, <1>2, <1>3 DEF Told
  <2> QED BY <1>1, <1>2, <1>3, <2>1, <2>2, PageChanged
<1>4. CASE ~ui.dirty
  <2>1. ui' = Draft!Fresh(next)
    BY <1>1, <1>4
  <2>2. ui' \in DraftPages /\ DraftIsHonest(ui') /\ ui'.snap = screen /\ ~ui'.dirty
    BY <1>2, <2>1, MadeAnew
  <2>3. Told(ui) => Told(ui)'
    BY <1>1, <2>2 DEF Told
  <2> QED BY <1>1, <2>2, <2>3, PageChanged
<1> QED BY <1>3, <1>4

\* ... and reads its events.
LEMMA ReadingEventsKeeps ==
  ASSUME Draft!DraftAssumption, DraftInv, Draft!ReadEvents
  PROVE  DraftInv'
<1> DEFINE next == [ui EXCEPT !.reading = FALSE]
<1>1. /\ ui' = (IF "sent" \in news /\ ~ui.snap.busy THEN Draft!Fresh(next) ELSE next)
      /\ news' = news \ {"sent"}
      /\ gaps' = (IF "sent" \in news /\ ui.snap # screen THEN gaps \cup {"overtaken"} ELSE gaps)
      /\ UNCHANGED <<file, requests, job, worker, bridge, screen>>
  BY DEF Draft!ReadEvents
<1>2. /\ next \in DraftPages /\ next.snap = ui.snap /\ next.dirty = ui.dirty
      /\ next.draft = ui.draft /\ next.base = ui.base /\ next.touched = ui.touched
  BY DEF DraftInv, DraftTyped, DraftPages
<1>3. DraftIsHonest(next)
  BY <1>2 DEF DraftInv, RequestsAreHonest, DraftIsHonest
<1> HIDE DEF next
<1>4. /\ ui' \in DraftPages /\ DraftIsHonest(ui') /\ ui'.snap = ui.snap
      /\ "sent" \in news /\ ~ui.snap.busy => ~ui'.dirty
      /\ ~("sent" \in news /\ ~ui.snap.busy) => ui'.dirty = ui.dirty /\ ui'.base = ui.base
  BY <1>1, <1>2, <1>3, MadeAnew
<1>5. /\ gaps \subseteq gaps' /\ ("unrestored" \in gaps' <=> "unrestored" \in gaps)
      /\ news' \in SUBSET {"due", "sent"}
      /\ "sent" \notin news => news' = news
  BY <1>1 DEF DraftInv, DraftTyped
<1>6. DraftTyped'
  BY <1>1, <1>4, <1>5 DEF DraftInv, DraftTyped
<1>7. RequestsAreHonest'
  BY <1>1, <1>4 DEF DraftInv, RequestsAreHonest, Honest, DraftIsHonest
<1>8. ViewsFollow'
  BY <1>1, <1>5 DEF DraftInv, ViewsFollow
<1>9. Told(ui)'
  <2>1. CASE "sent" \in news
    BY <1>1, <1>4, <1>5, <2>1 DEF DraftInv, Told
  <2>2. CASE "sent" \notin news
    BY <1>1, <1>4, <1>5, <2>2 DEF DraftInv, Told
  <2> QED BY <2>1, <2>2
<1> QED BY <1>6, <1>7, <1>8, <1>9 DEF DraftInv

LEMMA DraftStays ==
  ASSUME Draft!DraftAssumption, DraftInv, [Draft!Next]_(Draft!vars)
  PROVE  DraftInv'
<1>1. CASE UNCHANGED Draft!vars
  BY <1>1 DEF Draft!vars, DraftInv, DraftTyped, RequestsAreHonest, ViewsFollow, Told
<1> QED BY <1>1, PageKeeps, WorkerKeeps, ViewsPass, TakingKeeps, ReadingEventsKeeps
        DEF Draft!Next

LEMMA PageIsRight ==
  ASSUME DraftInv
  PROVE  Draft!TypeOK /\ Draft!PageShowsTheFile
<1>1. Draft!TypeOK
  BY DEF DraftInv, DraftTyped, DraftPages, Draft!TypeOK
<1>2. Draft!PageShowsTheFile
  BY DEF DraftInv, RequestsAreHonest, DraftIsHonest, ViewsFollow, Told,
         Draft!PageShowsTheFile, Draft!Quiet
<1> QED BY <1>1, <1>2

\* A field changes only because somebody asked for it.
LEMMA OthersFieldsStay ==
  ASSUME Draft!DraftAssumption, DraftInv, [Draft!Next]_(Draft!vars)
  PROVE  Draft!FieldsKept
<1> SUFFICES ASSUME NEW f \in Draft!Fields, file'[f] # file[f], job.do = "apply",
                    job.from = file
             PROVE  f \in job.asked
  BY DEF Draft!FieldsKept
<1>1. job # None /\ file' = job.with
  <2>1. CASE UNCHANGED Draft!vars
    BY <2>1 DEF Draft!vars
  <2>2. CASE \/ \E g \in Edited : Draft!Edit(g)
             \/ Draft!SaveDraft \/ Draft!DiscardDraft \/ Draft!RefreshSettings
             \/ Draft!Toggle(ui.snap) \/ Draft!Toggle(screen)
             \/ \E enabled \in BOOLEAN : Draft!ProxyChanges(enabled)
    BY <2>2 DEF Draft!Edit, Draft!SaveDraft, Draft!DiscardDraft, Draft!RefreshSettings,
       Draft!Toggle, Draft!ProxyChanges
  <2>3. CASE Draft!Begin \/ Draft!Refreshed \/ Draft!FailsToRead \/ Draft!PersistSystemProxy
    BY <2>3 DEF Draft!Begin, Draft!Refreshed, Draft!FailsToRead, Draft!PersistSystemProxy
  <2>4. CASE Draft!Applied \/ \E restored \in BOOLEAN : Draft!NotApplied(restored)
    BY <2>4 DEF Draft!Applied, Draft!NotApplied
  <2>5. CASE \/ Draft!HandleSettingsEvent \/ Draft!EmitSettingsChanged \/ Draft!Lag
             \/ Draft!TakeSnapshot \/ Draft!ReadEvents
    BY <2>5 DEF Draft!HandleSettingsEvent, Draft!EmitSettingsChanged, Draft!Lag,
       Draft!TakeSnapshot, Draft!ReadEvents
  <2> QED BY <2>1, <2>2, <2>3, <2>4, <2>5 DEF Draft!Next
<1> QED BY <1>1 DEF DraftInv, RequestsAreHonest, Honest

-----------------------------------------------------------------------------
(* The editors                                                             *)

Answers == [do : {"loaded"}, uid : Editors!Uids, content : SUBSET Edits, parses : BOOLEAN]
           \cup [do : {"saved"}, uid : Editors!Uids]
Snapshots == [do : {"snapshot"}, snap : Editors!Shown]
Frames == [snap : Editors!Shown, editor : Editors!Editor \cup {None},
           pending : Editors!Uids \cup {None}, rule : Edits \cup {None}, confirm : BOOLEAN]

EditorsTyped ==
  /\ files \in [Editors!Uids -> SUBSET Edits] /\ current \in Profiles
  /\ requests \in Seq(Editors!Requests) /\ Len(requests) <= Capacity
  /\ job \in Editors!Requests \cup {None}
  /\ bridge \in Seq(Answers \cup Snapshots) /\ news \in Seq(Answers)
  /\ screen \in Editors!Shown /\ ui \in Frames
  /\ made \subseteq Edits /\ givenUp \subseteq Edits

\* Whether the queue q holds a request, or an answer, of that kind for the file u.
Has(q, do, u) == \E i \in 1 .. Len(q) : q[i].do = do /\ q[i].uid = u

\* What the queue q saves of a file comes before what it loads of it.
LoadsLast(q, load, save) ==
  \A i, j \in 1 .. Len(q) :
    q[i].do = load /\ q[j].do = save /\ q[i].uid = q[j].uid => j < i

\* What has been loaded and not been shown is what the file holds.
LoadedIsStored(q) ==
  \A i \in 1 .. Len(q) : q[i].do = "loaded" => q[i].content = files[q[i].uid]

\* The job is of that kind, for the file u.
Doing(do, u) == job # None /\ job.do = do /\ job.uid = u

\* A load of a file is behind all the saves of it, along the whole way from the interface to
\* the worker and back.
LoadsFollowSaves ==
  /\ LoadsLast(requests, "load", "save")
  /\ LoadsLast(bridge, "loaded", "saved") /\ LoadsLast(news, "loaded", "saved")
  /\ \A u \in Editors!Uids :
       /\ Has(news, "loaded", u) => ~Has(bridge, "saved", u)
       /\ Has(news, "loaded", u) \/ Has(bridge, "loaded", u)
          => ~Doing("save", u) /\ ~Has(requests, "save", u)
       /\ Doing("load", u) => ~Has(requests, "save", u)
  /\ LoadedIsStored(bridge) /\ LoadedIsStored(news)

\* Whether a save of the file u is among the news after the k-th.
SavedAfter(k, u) == \E i \in 1 .. Len(news) :
                      i > k /\ news[i].do = "saved" /\ news[i].uid = u

\* The editor that is open in v, after the k-th of the news: what is being saved of its file
\* is what is in it, and what has been saved is still there; so it is when it is clean.
Fits(e, k) ==
  /\ \A i \in 1 .. Len(requests) :
       requests[i].do = "save" /\ requests[i].uid = e.uid => requests[i].content = e.content
  /\ Doing("save", e.uid) => job.content = e.content
  /\ ~e.dirty \/ Has(bridge, "saved", e.uid) \/ SavedAfter(k, e.uid)
     => e.content = files[e.uid]

EditorFits(v, k) == v.editor # None => Fits(v.editor, k)

\* No edits and no update have gone past a save or a load of their file.
Whole == "crossed" \notin gaps /\ "updated" \notin gaps

EditorsInv == EditorsTyped /\ (Whole => LoadsFollowSaves /\ EditorFits(ui, 0))

\* A set of numbers that is not empty has a least one.
LEMMA LeastNumber ==
  ASSUME NEW S \in SUBSET Nat, S # {}
  PROVE  \E x \in S : \A y \in S : x <= y
<1> DEFINE R == OpToRel(<, Nat)
<1>1. IsWellFoundedOn(R, Nat)
  BY NatLessThanWellFounded
<1> HIDE DEF R
<1>2. PICK x \in S : \A y \in S : <<y, x>> \notin R
  BY <1>1, WFMin
<1>3. \A y \in S : ~(y < x)
  BY <1>2 DEF R, OpToRel
<1> QED BY <1>3

\* Induction, of a set of numbers.
LEMMA Counting ==
  ASSUME NEW S \in SUBSET Nat, 0 \in S, \A n \in S : n + 1 \in S
  PROVE  \A n \in Nat : n \in S
<1> SUFFICES ASSUME Nat \ S # {} PROVE FALSE
  OBVIOUS
<1>1. PICK x \in Nat \ S : \A y \in Nat \ S : x <= y
  BY LeastNumber
<1>2. x - 1 \in Nat /\ x - 1 \notin Nat \ S
  BY <1>1
<1> QED BY <1>1, <1>2

\* The states of the interface while it reads the news, up to the n-th.
Reading(g, n) ==
  /\ g = [i \in 0 .. n |-> g[i]] /\ g[0] = [ui EXCEPT !.snap = screen]
  /\ \A i \in 1 .. n : g[i] = Editors!OnEvent(g[i - 1], news[i])

LEMMA ReadingExists ==
  \A n \in Nat : \E g : Reading(g, n)
<1> DEFINE S == {n \in Nat : \E g : Reading(g, n)}
<1>1. 0 \in S
  <2> DEFINE g == [i \in 0 .. 0 |-> [ui EXCEPT !.snap = screen]]
  <2>1. Reading(g, 0)
    BY DEF Reading
  <2> QED BY <2>1
<1>2. ASSUME NEW n \in S PROVE n + 1 \in S
  <2>1. PICK g : Reading(g, n)
    OBVIOUS
  <2> DEFINE h == [i \in 0 .. n + 1 |->
                     IF i = n + 1 THEN Editors!OnEvent(g[n], news[n + 1]) ELSE g[i]]
  <2>2. /\ h[0] = g[0] /\ h[n + 1] = Editors!OnEvent(g[n], news[n + 1])
        /\ \A i \in 0 .. n : h[i] = g[i]
    OBVIOUS
  <2>3. h = [i \in 0 .. n + 1 |-> h[i]]
    OBVIOUS
  <2> HIDE DEF h
  <2>4. \A i \in 1 .. n + 1 : h[i] = Editors!OnEvent(h[i - 1], news[i])
    <3> SUFFICES ASSUME NEW i \in 1 .. n + 1 PROVE h[i] = Editors!OnEvent(h[i - 1], news[i])
      OBVIOUS
    <3>1. CASE i = n + 1
      <4>1. h[i - 1] = g[n]
        BY <2>2, <3>1
      <4> QED BY <2>2, <3>1, <4>1
    <3>2. CASE i \in 1 .. n
      <4>1. i - 1 \in 0 .. n /\ i \in 0 .. n
        BY <3>2
      <4>2. h[i] = g[i] /\ h[i - 1] = g[i - 1]
        BY <2>2, <4>1
      <4>3. g[i] = Editors!OnEvent(g[i - 1], news[i])
        BY <2>1, <3>2 DEF Reading
      <4> QED BY <4>2, <4>3
    <3> QED BY <3>1, <3>2
  <2>5. Reading(h, n + 1)
    BY <2>1, <2>2, <2>3, <2>4 DEF Reading
  <2> QED BY <2>5
<1> HIDE DEF S
<1>3. \A n \in Nat : n \in S
  BY <1>1, <1>2, Counting DEF S
<1> QED BY <1>3 DEF S

LEMMA ReadingIsUnique ==
  ASSUME NEW m \in Nat, NEW n \in Nat, NEW g, NEW h, Reading(g, m), Reading(h, n)
  PROVE  \A i \in Nat : i <= m /\ i <= n => g[i] = h[i]
<1> DEFINE S == {i \in Nat : i <= m /\ i <= n => g[i] = h[i]}
<1>1. 0 \in S
  BY DEF Reading
<1>2. ASSUME NEW i \in S PROVE i + 1 \in S
  <2>1. SUFFICES ASSUME i + 1 <= m, i + 1 <= n PROVE g[i + 1] = h[i + 1]
    OBVIOUS
  <2>2. i + 1 \in 1 .. m /\ i + 1 \in 1 .. n /\ (i + 1) - 1 = i /\ g[i] = h[i]
    BY <2>1
  <2>3. /\ g[i + 1] = Editors!OnEvent(g[i], news[i + 1])
        /\ h[i + 1] = Editors!OnEvent(h[i], news[i + 1])
    BY <2>2 DEF Reading
  <2> QED BY <2>2, <2>3
<1> HIDE DEF S
<1>3. \A i \in Nat : i \in S
  BY <1>1, <1>2, Counting DEF S
<1> QED BY <1>3 DEF S

\* What After is.
LEMMA AfterEach ==
  /\ Editors!After[0] = [ui EXCEPT !.snap = screen]
  /\ \A i \in Nat : Editors!After[i + 1] = Editors!OnEvent(Editors!After[i], news[i + 1])
<1> DEFINE step(f) == [i \in Nat |-> IF i = 0 THEN [ui EXCEPT !.snap = screen]
                                     ELSE Editors!OnEvent(f[i - 1], news[i])]
           read == [n \in Nat |-> CHOOSE g : Reading(g, n)]
           all == [n \in Nat |-> read[n][n]]
<1>1. ASSUME NEW n \in Nat PROVE Reading(read[n], n)
  BY ReadingExists
<1> HIDE DEF read
<1>2. all[0] = [ui EXCEPT !.snap = screen]
  BY <1>1 DEF Reading
<1>3. ASSUME NEW n \in Nat PROVE all[n + 1] = Editors!OnEvent(all[n], news[n + 1])
  <2>1. read[n + 1][n + 1] = Editors!OnEvent(read[n + 1][n], news[n + 1])
    <3>1. Reading(read[n + 1], n + 1) /\ n + 1 \in 1 .. n + 1 /\ (n + 1) - 1 = n
      BY <1>1
    <3> QED BY <3>1 DEF Reading
  <2>2. read[n + 1][n] = read[n][n]
    <3>1. Reading(read[n + 1], n + 1) /\ Reading(read[n], n) /\ n + 1 \in Nat
      BY <1>1
    <3> QED BY <3>1, ReadingIsUnique
  <2> QED BY <2>1, <2>2
<1>4. all = step(all)
  <2>1. ASSUME NEW i \in Nat PROVE all[i] = step(all)[i]
    <3>1. CASE i = 0
      BY <1>2, <3>1
    <3>2. CASE i # 0
      <4>1. i - 1 \in Nat /\ (i - 1) + 1 = i
        BY <3>2
      <4>2. all[i] = Editors!OnEvent(all[i - 1], news[i])
        BY <1>3, <4>1
      <4> HIDE DEF all
      <4> QED BY <3>2, <4>2
    <3> QED BY <3>1, <3>2
  <2>2. all = [i \in Nat |-> all[i]]
    OBVIOUS
  <2> HIDE DEF all
  <2> QED BY <2>1, <2>2
<1> HIDE DEF all
<1>5. Editors!After = step(Editors!After)
  BY <1>4 DEF Editors!After
<1>6. ASSUME NEW i \in Nat
      PROVE  Editors!After[i + 1] = Editors!OnEvent(Editors!After[i], news[i + 1])
  <2>1. i + 1 \in Nat /\ i + 1 # 0 /\ (i + 1) - 1 = i
    OBVIOUS
  <2>2. Editors!After[i + 1] = step(Editors!After)[i + 1]
    BY <1>5
  <2> QED BY <2>1, <2>2
<1>7. Editors!After[0] = step(Editors!After)[0]
  BY <1>5
<1> QED BY <1>6, <1>7

\* What a queue holds, and in which order, after one more element and after its first one
\* is taken.
LEMMA HasAppended ==
  ASSUME NEW S, NEW q \in Seq(S), NEW x \in S, NEW do, NEW u
  PROVE  Has(Append(q, x), do, u) <=> Has(q, do, u) \/ (x.do = do /\ x.uid = u)
<1> DEFINE r == Append(q, x)
<1>1. /\ Len(r) = Len(q) + 1 /\ Len(q) \in Nat /\ r[Len(q) + 1] = x
      /\ \A i \in 1 .. Len(q) : r[i] = q[i]
  BY Appended
<1> HIDE DEF r
<1>2. ASSUME NEW i \in 1 .. Len(r), r[i].do = do, r[i].uid = u
      PROVE  Has(q, do, u) \/ (x.do = do /\ x.uid = u)
  <2>1. CASE i = Len(q) + 1
    BY <1>1, <1>2, <2>1
  <2>2. CASE i \in 1 .. Len(q)
    BY <1>1, <1>2, <2>2 DEF Has
  <2> QED BY <1>1, <2>1, <2>2
<1>3. ASSUME Has(q, do, u) PROVE Has(r, do, u)
  <2>1. PICK i \in 1 .. Len(q) : q[i].do = do /\ q[i].uid = u
    BY <1>3 DEF Has
  <2>2. i \in 1 .. Len(r) /\ r[i] = q[i]
    BY <1>1
  <2> QED BY <2>1, <2>2 DEF Has
<1>4. ASSUME x.do = do, x.uid = u PROVE Has(r, do, u)
  <2>1. Len(q) + 1 \in 1 .. Len(r)
    BY <1>1
  <2> QED BY <1>1, <1>4, <2>1 DEF Has
<1>5. Has(r, do, u) => Has(q, do, u) \/ (x.do = do /\ x.uid = u)
  BY <1>2 DEF Has
<1> QED BY <1>3, <1>4, <1>5 DEF r

LEMMA HasTaken ==
  ASSUME NEW S, NEW q \in Seq(S), q # <<>>, NEW do, NEW u
  PROVE  /\ Has(Tail(q), do, u) => Has(q, do, u)
         /\ Head(q).do = do /\ Head(q).uid = u => Has(q, do, u)
<1> DEFINE r == Tail(q)
<1>1. /\ Len(r) = Len(q) - 1 /\ Len(q) \in Nat \ {0} /\ Head(q) = q[1]
      /\ \A i \in 1 .. Len(r) : i + 1 \in 1 .. Len(q) /\ r[i] = q[i + 1]
  BY Taken
<1> HIDE DEF r
<1>2. Has(r, do, u) => Has(q, do, u)
  BY <1>1 DEF Has
<1>3. 1 \in 1 .. Len(q)
  BY <1>1
<1> QED BY <1>1, <1>2, <1>3 DEF Has, r

LEMMA OrderAppended ==
  ASSUME NEW S, NEW q \in Seq(S), NEW x \in S, NEW load, NEW save, load # save,
         LoadsLast(q, load, save), x.do = save => ~Has(q, load, x.uid)
  PROVE  LoadsLast(Append(q, x), load, save)
<1> DEFINE r == Append(q, x)
<1>1. /\ Len(r) = Len(q) + 1 /\ Len(q) \in Nat /\ r[Len(q) + 1] = x
      /\ \A i \in 1 .. Len(q) : r[i] = q[i]
  BY Appended
<1> HIDE DEF r
<1>2. ASSUME NEW i \in 1 .. Len(r), NEW j \in 1 .. Len(r),
             r[i].do = load, r[j].do = save, r[i].uid = r[j].uid
      PROVE  j < i
  <2>1. CASE i \in 1 .. Len(q) /\ j \in 1 .. Len(q)
    BY <1>1, <1>2, <2>1 DEF LoadsLast
  <2>2. CASE i \in 1 .. Len(q) /\ j = Len(q) + 1
    <3>1. x.do = save /\ q[i].do = load /\ q[i].uid = x.uid
      BY <1>1, <1>2, <2>2
    <3> QED BY <2>2, <3>1 DEF Has
  <2>3. CASE i = Len(q) + 1 /\ j = Len(q) + 1
    BY <1>2, <2>3
  <2>4. CASE i = Len(q) + 1 /\ j \in 1 .. Len(q)
    BY <1>1, <2>4
  <2> QED BY <1>1, <2>1, <2>2, <2>3, <2>4
<1> QED BY <1>2 DEF LoadsLast, r

LEMMA OrderTaken ==
  ASSUME NEW S, NEW q \in Seq(S), q # <<>>, NEW load, NEW save, LoadsLast(q, load, save)
  PROVE  /\ LoadsLast(Tail(q), load, save)
         /\ Head(q).do = load => ~Has(Tail(q), save, Head(q).uid)
<1> DEFINE r == Tail(q)
<1>1. /\ Len(r) = Len(q) - 1 /\ Len(q) \in Nat \ {0} /\ Head(q) = q[1]
      /\ \A i \in 1 .. Len(r) : i + 1 \in 1 .. Len(q) /\ r[i] = q[i + 1]
  BY Taken
<1> HIDE DEF r
<1>2. ASSUME NEW i \in 1 .. Len(r), NEW j \in 1 .. Len(r),
             r[i].do = load, r[j].do = save, r[i].uid = r[j].uid
      PROVE  j < i
  <2>1. i + 1 \in 1 .. Len(q) /\ j + 1 \in 1 .. Len(q) /\ r[i] = q[i + 1] /\ r[j] = q[j + 1]
    BY <1>1
  <2>2. j + 1 < i + 1
    BY <1>2, <2>1 DEF LoadsLast
  <2> QED BY <1>1, <2>2
<1>3. ASSUME q[1].do = load, NEW j \in 1 .. Len(r), r[j].do = save, r[j].uid = q[1].uid
      PROVE  FALSE
  <2>1. 1 \in 1 .. Len(q) /\ j + 1 \in 1 .. Len(q) /\ r[j] = q[j + 1]
    BY <1>1
  <2>2. j + 1 < 1
    BY <1>3, <2>1 DEF LoadsLast
  <2> QED BY <2>2
<1>4. LoadsLast(r, load, save)
  BY <1>2 DEF LoadsLast
<1>5. q[1].do = load => ~Has(r, save, q[1].uid)
  BY <1>3 DEF Has
<1> QED BY <1>1, <1>4, <1>5 DEF r

LEMMA StoredAppended ==
  ASSUME NEW S, NEW q \in Seq(S), NEW x \in S, LoadedIsStored(q),
         x.do = "loaded" => x.content = files[x.uid]
  PROVE  LoadedIsStored(Append(q, x))
<1>1. /\ Len(Append(q, x)) = Len(q) + 1 /\ Len(q) \in Nat /\ Append(q, x)[Len(q) + 1] = x
      /\ \A i \in 1 .. Len(q) : Append(q, x)[i] = q[i]
  BY Appended
<1>2. \A i \in 1 .. Len(Append(q, x)) : i \in 1 .. Len(q) \/ i = Len(q) + 1
  BY <1>1
<1> QED BY <1>1, <1>2 DEF LoadedIsStored

LEMMA StoredTaken ==
  ASSUME NEW S, NEW q \in Seq(S), q # <<>>, LoadedIsStored(q)
  PROVE  /\ LoadedIsStored(Tail(q))
         /\ Head(q).do = "loaded" => Head(q).content = files[Head(q).uid]
<1>1. /\ Len(Tail(q)) = Len(q) - 1 /\ Len(q) \in Nat \ {0} /\ Head(q) = q[1]
      /\ \A i \in 1 .. Len(Tail(q)) : i + 1 \in 1 .. Len(q) /\ Tail(q)[i] = q[i + 1]
  BY Taken
<1>2. 1 \in 1 .. Len(q)
  BY <1>1
<1> QED BY <1>1, <1>2 DEF LoadedIsStored

\* The empty queue.
LEMMA NothingIn ==
  /\ \A do, u : ~Has(<<>>, do, u)
  /\ \A load, save : LoadsLast(<<>>, load, save)
  /\ LoadedIsStored(<<>>)
<1>1. Len(<<>>) = 0
  BY EmptySeq
<1> QED BY <1>1 DEF Has, LoadsLast, LoadedIsStored

\* A request joins the channel, or finds no room in it.
LEMMA Requesting ==
  ASSUME Editors!EditorAssumption, requests \in Seq(Editors!Requests),
         Len(requests) <= Capacity,
         NEW r \in Editors!Requests
  PROVE  /\ Editors!Requested(r) \in Seq(Editors!Requests)
         /\ Len(Editors!Requested(r)) <= Capacity
         /\ \A do, u : Has(Editors!Requested(r), do, u)
                       => Has(requests, do, u) \/ (r.do = do /\ r.uid = u)
         /\ LoadsLast(requests, "load", "save")
            /\ (r.do = "save" => ~Has(requests, "load", r.uid))
            => LoadsLast(Editors!Requested(r), "load", "save")
         /\ \A i \in 1 .. Len(Editors!Requested(r)) :
              \/ Editors!Requested(r)[i] = r
              \/ \E j \in 1 .. Len(requests) : Editors!Requested(r)[i] = requests[j]
<1>1. CASE Len(requests) < Capacity
  <2>1. Editors!Requested(r) = Append(requests, r) /\ Capacity \in Nat
    BY <1>1 DEF Editors!Requested, Editors!EditorAssumption
  <2>2. /\ Append(requests, r) \in Seq(Editors!Requests)
        /\ Len(Append(requests, r)) = Len(requests) + 1 /\ Len(requests) \in Nat
        /\ \A i \in 1 .. Len(requests) : Append(requests, r)[i] = requests[i]
        /\ Append(requests, r)[Len(requests) + 1] = r
    BY Appended
  <2>3. \A do, u : Has(Append(requests, r), do, u)
                   => Has(requests, do, u) \/ (r.do = do /\ r.uid = u)
    BY HasAppended
  <2>4. ASSUME LoadsLast(requests, "load", "save"),
               r.do = "save" => ~Has(requests, "load", r.uid)
        PROVE  LoadsLast(Append(requests, r), "load", "save")
    BY <2>4, OrderAppended
  <2>5. \A i \in 1 .. Len(Append(requests, r)) :
          i \in 1 .. Len(requests) \/ i = Len(requests) + 1
    BY <2>2
  <2> QED BY <1>1, <2>1, <2>2, <2>3, <2>4, <2>5
<1>2. CASE ~(Len(requests) < Capacity)
  BY <1>2 DEF Editors!Requested
<1> QED BY <1>1, <1>2

\* The user asks for something that is not a save; the editor stays, or is closed.
LEMMA AskingKeeps ==
  ASSUME Editors!EditorAssumption, EditorsInv, NEW r \in Editors!Requests, r.do # "save",
         requests' = Editors!Requested(r) \/ requests' = requests,
         ui' \in Frames, ui'.editor = ui.editor \/ ui'.editor = None,
         made' \subseteq Edits, givenUp' \subseteq Edits,
         gaps' = gaps \/ gaps' = gaps \cup {"superseded"},
         UNCHANGED <<files, current, job, bridge, screen, news>>
  PROVE  EditorsInv'
<1>1. /\ requests' \in Seq(Editors!Requests) /\ Len(requests') <= Capacity
      /\ \A u : Has(requests', "save", u) => Has(requests, "save", u)
      /\ LoadsLast(requests, "load", "save") => LoadsLast(requests', "load", "save")
      /\ \A i \in 1 .. Len(requests') :
           requests'[i] = r \/ \E j \in 1 .. Len(requests) : requests'[i] = requests[j]
  BY Requesting DEF EditorsInv, EditorsTyped
<1>2. EditorsTyped'
  BY <1>1 DEF EditorsInv, EditorsTyped
<1>3. ASSUME Whole' PROVE LoadsFollowSaves' /\ EditorFits(ui, 0)'
  <2>1. LoadsFollowSaves /\ EditorFits(ui, 0)
    BY <1>3 DEF EditorsInv, Whole
  <2>2. LoadsFollowSaves'
    BY <1>1, <2>1 DEF LoadsFollowSaves, LoadedIsStored, Doing, Has, LoadsLast
  <2>3. ASSUME ui'.editor # None PROVE Fits(ui.editor, 0)'
    <3>1. ui'.editor = ui.editor /\ Fits(ui.editor, 0)
      BY <2>1, <2>3 DEF EditorFits
    <3> QED BY <1>1, <3>1 DEF Fits, Doing, Has, SavedAfter
  <2> QED BY <2>2, <2>3 DEF EditorFits
<1> QED BY <1>2, <1>3 DEF EditorsInv

\* What an interface is made of.
LEMMA FrameParts ==
  ASSUME Editors!EditorAssumption, NEW v \in Frames
  PROVE  /\ v.snap \in Editors!Shown /\ v.editor \in Editors!Editor \cup {None}
         /\ v.pending \in Editors!Uids \cup {None}
         /\ v.rule \in Edits \cup {None} /\ v.confirm \in BOOLEAN
         /\ v.snap.current \in Profiles /\ Editors!RulesOf(v.snap.current) \in Editors!Uids
  BY DEF Frames, Editors!Shown, Editors!RulesOf, Editors!Uids

LEMMA NotUnderWay ==
  ASSUME EditorsTyped, NEW do \in {"load", "save"}, NEW u, ~Editors!UnderWay(do, u)
  PROVE  /\ ~Has(requests, do, u) /\ ~Doing(do, u)
         /\ ~Has(bridge, Editors!Answer(do), u) /\ ~Has(news, Editors!Answer(do), u)
<1>1. DOMAIN requests = 1 .. Len(requests) /\ DOMAIN bridge = 1 .. Len(bridge)
      /\ DOMAIN news = 1 .. Len(news)
  BY LenProperties DEF EditorsTyped
<1> QED BY <1>1 DEF Editors!UnderWay, Has, Doing

LEMMA TypeKeeps ==
  ASSUME Editors!EditorAssumption, EditorsInv, NEW e \in Edits, Editors!Type(e)
  PROVE  EditorsInv'
<1> DEFINE content == ui.editor.content \cup {e}
           editor == [ui.editor EXCEPT !.content = content, !.dirty = TRUE]
<1>1. /\ ui \in Frames /\ ui.editor # None
      /\ UNCHANGED <<files, current, requests, job, bridge, screen, news>>
      /\ made' = made \cup {e} /\ UNCHANGED givenUp
      /\ gaps' = IF Editors!UnderWay("save", ui.editor.uid) THEN gaps \cup {"crossed"}
                 ELSE gaps
  BY DEF Editors!Type, EditorsInv, EditorsTyped
<1>2. ui' = [ui EXCEPT !.editor = editor, !.confirm = FALSE]
  BY DEF Editors!Type
<1>3. ui.editor \in Editors!Editor /\ ui.snap \in Editors!Shown
  BY <1>1, FrameParts
<1>4. content \in SUBSET Edits
  BY <1>3 DEF Editors!Editor
<1> HIDE DEF content
<1>5. editor \in Editors!Editor /\ editor.dirty /\ editor.uid = ui.editor.uid
  BY <1>3, <1>4 DEF Editors!Editor
<1> HIDE DEF editor
<1>6. ui' \in Frames /\ ui'.editor = editor
  BY <1>1, <1>2, <1>5 DEF Frames
<1>7. EditorsTyped'
  BY <1>1, <1>6 DEF EditorsInv, EditorsTyped
<1>8. ASSUME Whole' PROVE LoadsFollowSaves' /\ EditorFits(ui, 0)'
  <2>1. Whole /\ ~Editors!UnderWay("save", ui.editor.uid)
    BY <1>1, <1>8 DEF Whole
  <2>2. /\ ~Has(requests, "save", ui.editor.uid) /\ ~Doing("save", ui.editor.uid)
        /\ ~Has(bridge, "saved", ui.editor.uid) /\ ~Has(news, "saved", ui.editor.uid)
    BY <2>1, NotUnderWay DEF EditorsInv, Editors!Answer
  <2>3. LoadsFollowSaves'
    BY <1>1, <2>1 DEF EditorsInv, LoadsFollowSaves, LoadedIsStored, Doing, Has, LoadsLast
  <2>4. Fits(ui.editor, 0)'
    BY <1>1, <1>5, <1>6, <2>2 DEF Fits, Doing, Has, SavedAfter
  <2> QED BY <2>3, <2>4 DEF EditorFits
<1> QED BY <1>7, <1>8 DEF EditorsInv

LEMMA SaveKeeps ==
  ASSUME Editors!EditorAssumption, EditorsInv, Editors!Save
  PROVE  EditorsInv'
<1> DEFINE r == [do |-> "save", uid |-> ui.editor.uid, content |-> ui.editor.content]
<1>1. /\ ui.editor # None /\ requests' = Editors!Requested(r)
      /\ gaps' = IF Editors!UnderWay("load", ui.editor.uid) THEN gaps \cup {"crossed"}
                 ELSE gaps
      /\ UNCHANGED <<files, current, job, bridge, screen, news, ui, made, givenUp>>
  BY DEF Editors!Save, Editors!Unsaved
<1>2. ui.editor \in Editors!Editor
  BY <1>1, FrameParts DEF EditorsInv, EditorsTyped
<1>3. /\ r \in Editors!Requests /\ r.do = "save" /\ r.uid = ui.editor.uid
      /\ r.content = ui.editor.content
  BY <1>2 DEF Editors!Editor, Editors!Requests
<1> HIDE DEF r
<1>4. /\ requests' \in Seq(Editors!Requests) /\ Len(requests') <= Capacity
      /\ \A do, u : Has(requests', do, u) => Has(requests, do, u) \/ (r.do = do /\ r.uid = u)
      /\ LoadsLast(requests, "load", "save") /\ ~Has(requests, "load", r.uid)
         => LoadsLast(requests', "load", "save")
      /\ \A i \in 1 .. Len(requests') :
           requests'[i] = r \/ \E j \in 1 .. Len(requests) : requests'[i] = requests[j]
  BY <1>1, <1>3, Requesting DEF EditorsInv, EditorsTyped
<1>5. EditorsTyped'
  BY <1>1, <1>4 DEF EditorsInv, EditorsTyped
<1>6. ASSUME Whole' PROVE LoadsFollowSaves' /\ EditorFits(ui, 0)'
  <2>1. Whole /\ ~Editors!UnderWay("load", ui.editor.uid)
    BY <1>1, <1>6 DEF Whole
  <2>2. /\ ~Has(requests, "load", r.uid) /\ ~Doing("load", r.uid)
        /\ ~Has(bridge, "loaded", r.uid) /\ ~Has(news, "loaded", r.uid)
    BY <1>3, <2>1, NotUnderWay DEF EditorsInv, Editors!Answer
  <2>3. LoadsFollowSaves /\ Fits(ui.editor, 0)
    BY <1>1, <2>1 DEF EditorsInv, EditorFits
  <2>4. LoadsLast(requests, "load", "save")'
    BY <1>4, <2>2, <2>3 DEF LoadsFollowSaves
  <2>5. /\ LoadsLast(bridge, "loaded", "saved")' /\ LoadsLast(news, "loaded", "saved")'
        /\ LoadedIsStored(bridge)' /\ LoadedIsStored(news)'
    BY <1>1, <2>3 DEF LoadsFollowSaves, LoadsLast, LoadedIsStored
  <2>6. ASSUME NEW u \in Editors!Uids
        PROVE  /\ Has(news, "loaded", u)' => ~Has(bridge, "saved", u)'
               /\ Has(news, "loaded", u)' \/ Has(bridge, "loaded", u)'
                  => ~Doing("save", u)' /\ ~Has(requests, "save", u)'
               /\ Doing("load", u)' => ~Has(requests, "save", u)'
    <3>1. /\ Has(news, "loaded", u) => ~Has(bridge, "saved", u)
          /\ Has(news, "loaded", u) \/ Has(bridge, "loaded", u)
             => ~Doing("save", u) /\ ~Has(requests, "save", u)
          /\ Doing("load", u) => ~Has(requests, "save", u)
      BY <2>3 DEF LoadsFollowSaves
    <3>2. Has(requests', "save", u) => Has(requests, "save", u) \/ u = r.uid
      BY <1>4
    <3>3. /\ \A do : (Has(news, do, u)' <=> Has(news, do, u))
          /\ \A do : (Has(bridge, do, u)' <=> Has(bridge, do, u))
          /\ \A do : (Doing(do, u)' <=> Doing(do, u))
          /\ Has(requests, "save", u)' <=> Has(requests', "save", u)
      BY <1>1 DEF Has, Doing
    <3> QED BY <2>2, <3>1, <3>2, <3>3
  <2>7. Fits(ui.editor, 0)'
    BY <1>1, <1>3, <1>4, <2>3 DEF Fits, Doing, Has, SavedAfter
  <2> QED BY <2>4, <2>5, <2>6, <2>7 DEF LoadsFollowSaves, EditorFits
<1> QED BY <1>5, <1>6 DEF EditorsInv

LEMMA UserKeeps ==
  ASSUME Editors!EditorAssumption, EditorsInv,
         \/ \E u \in Editors!Uids :
              Editors!OpenProfileEditor(u) \/ Editors!OpenSequenceEditor(u)
         \/ \E e \in Edits : Editors!AppendRule(e) \/ Editors!Type(e)
         \/ Editors!Save \/ Editors!Close \/ Editors!CancelClose
         \/ \E do \in {"activate", "update"}, p \in Profiles : Editors!Command(do, p)
  PROVE  EditorsInv'
<1> DEFINE none == {}
<1>1. /\ ui \in Frames /\ made \subseteq Edits /\ givenUp \subseteq Edits
      /\ ui.editor \in Editors!Editor \cup {None}
      /\ Editors!RulesOf(ui.snap.current) \in Editors!Uids
      /\ none \in SUBSET Edits
  BY FrameParts DEF EditorsInv, EditorsTyped
<1> HIDE DEF none
<1>2. ASSUME NEW u \in Editors!Uids
      PROVE  /\ [do |-> "load", uid |-> u, content |-> none] \in Editors!Requests
             /\ [do |-> "load", uid |-> u, content |-> none].do # "save"
  BY <1>1 DEF Editors!Requests
<1>3. ASSUME NEW u \in Editors!Uids, Editors!OpenProfileEditor(u) PROVE EditorsInv'
  <2> PICK r \in Editors!Requests : /\ r = [do |-> "load", uid |-> u, content |-> none]
                                    /\ r.do # "save"
    BY <1>2
  <2>1. /\ ui' = [ui EXCEPT !.pending = None] /\ requests' = Editors!Requested(r)
        /\ UNCHANGED <<files, current, job, bridge, screen, news, made, givenUp, gaps>>
    BY <1>3 DEF Editors!OpenProfileEditor, none
  <2>2. ui' \in Frames /\ ui'.editor = ui.editor
    BY <1>1, <2>1 DEF Frames
  <2> QED BY <1>1, <2>1, <2>2, AskingKeeps
<1>4. ASSUME NEW u \in Editors!Uids, Editors!OpenSequenceEditor(u) PROVE EditorsInv'
  <2> PICK r \in Editors!Requests : /\ r = [do |-> "load", uid |-> u, content |-> none]
                                    /\ r.do # "save"
    BY <1>2
  <2>1. /\ ui' = [ui EXCEPT !.pending = u] /\ requests' = Editors!Requested(r)
        /\ UNCHANGED <<files, current, job, bridge, screen, news, made, givenUp, gaps>>
    BY <1>4 DEF Editors!OpenSequenceEditor, none
  <2>2. ui' \in Frames /\ ui'.editor = ui.editor
    BY <1>1, <2>1 DEF Frames
  <2> QED BY <1>1, <2>1, <2>2, AskingKeeps
<1>5. ASSUME NEW e \in Edits, Editors!AppendRule(e) PROVE EditorsInv'
  <2> PICK u \in Editors!Uids : u = Editors!RulesOf(ui.snap.current)
    BY <1>1
  <2> PICK r \in Editors!Requests : /\ r = [do |-> "load", uid |-> u, content |-> none]
                                    /\ r.do # "save"
    BY <1>2
  <2>1. /\ ui' = [ui EXCEPT !.rule = e, !.pending = u] /\ requests' = Editors!Requested(r)
        /\ made' = made \cup {e} /\ (gaps' = gaps \/ gaps' = gaps \cup {"superseded"})
        /\ UNCHANGED <<files, current, job, bridge, screen, news, givenUp>>
    BY <1>5 DEF Editors!AppendRule, none
  <2>2. ui' \in Frames /\ ui'.editor = ui.editor
    BY <1>1, <2>1 DEF Frames
  <2>3. made' \subseteq Edits /\ givenUp' \subseteq Edits
    BY <1>1, <2>1
  <2> QED BY <1>1, <2>1, <2>2, <2>3, AskingKeeps
<1>6. ASSUME Editors!Close PROVE EditorsInv'
  <2>1. /\ ui.editor \in Editors!Editor
        /\ UNCHANGED <<files, current, requests, job, bridge, screen, news, made, gaps>>
        /\ \/ ui' = [ui EXCEPT !.confirm = TRUE] /\ givenUp' = givenUp
           \/ /\ ui' = [ui EXCEPT !.editor = None, !.confirm = FALSE]
              /\ givenUp' = givenUp \cup ui.editor.content \/ givenUp' = givenUp
    BY <1>1, <1>6 DEF Editors!Close
  <2> PICK r \in Editors!Requests : r.do # "save"
    <3>1. ui.editor.uid \in Editors!Uids
      BY <2>1 DEF Editors!Editor
    <3> QED BY <1>2, <3>1
  <2>2. ui' \in Frames /\ (ui'.editor = ui.editor \/ ui'.editor = None)
    BY <1>1, <2>1 DEF Frames
  <2>3. givenUp' \subseteq Edits
    BY <1>1, <2>1 DEF Editors!Editor
  <2> QED BY <1>1, <2>1, <2>2, <2>3, AskingKeeps
<1>7. ASSUME Editors!CancelClose PROVE EditorsInv'
  <2>1. /\ ui.editor \in Editors!Editor /\ ui' = [ui EXCEPT !.confirm = FALSE]
        /\ UNCHANGED <<files, current, requests, job, bridge, screen, news>>
        /\ UNCHANGED <<made, givenUp, gaps>>
    BY <1>1, <1>7 DEF Editors!CancelClose, Editors!Unsaved
  <2> PICK r \in Editors!Requests : r.do # "save"
    <3>1. ui.editor.uid \in Editors!Uids
      BY <2>1 DEF Editors!Editor
    <3> QED BY <1>2, <3>1
  <2>2. ui' \in Frames /\ ui'.editor = ui.editor
    BY <1>1, <2>1 DEF Frames
  <2> QED BY <1>1, <2>1, <2>2, AskingKeeps
<1>8. ASSUME NEW do \in {"activate", "update"}, NEW p \in Profiles, Editors!Command(do, p)
      PROVE  EditorsInv'
  <2> DEFINE r == [do |-> do, uid |-> <<p, "source">>, content |-> none]
  <2>1. r \in Editors!Requests /\ r.do # "save"
    BY <1>1 DEF Editors!Requests, Editors!Uids
  <2>2. /\ requests' = Editors!Requested(r)
        /\ UNCHANGED <<files, current, job, bridge, screen, news, ui>>
        /\ UNCHANGED <<made, givenUp, gaps>>
    BY <1>8 DEF Editors!Command, none
  <2> HIDE DEF r
  <2> QED BY <1>1, <2>1, <2>2, AskingKeeps
<1> QED BY <1>3, <1>4, <1>5, <1>6, <1>7, <1>8, TypeKeeps, SaveKeeps

\* What is on the way from the worker.
LEMMA AnswerParts ==
  /\ \A x \in Answers : x.do \in {"loaded", "saved"} /\ x.uid \in Editors!Uids
  /\ \A x \in Snapshots : x.do = "snapshot" /\ x.snap \in Editors!Shown
  BY DEF Answers, Snapshots

LEMMA HandlingKeeps ==
  ASSUME Editors!EditorAssumption, EditorsInv, Editors!HandleProfileEvent
  PROVE  EditorsInv'
<1> PICK x : x = Head(bridge)
  OBVIOUS
<1> PICK rest : rest = Tail(bridge)
  OBVIOUS
<1>1. /\ bridge \in Seq(Answers \cup Snapshots) /\ news \in Seq(Answers) /\ bridge # <<>>
      /\ bridge' = rest
      /\ UNCHANGED <<files, current, requests, job, ui, made, givenUp, gaps>>
      /\ IF x.do = "snapshot" THEN screen' = x.snap /\ UNCHANGED news
         ELSE news' = Append(news, x) /\ UNCHANGED screen
  BY DEF Editors!HandleProfileEvent, EditorsInv, EditorsTyped
<1>2. rest \in Seq(Answers \cup Snapshots) /\ x \in Answers \cup Snapshots
  BY <1>1, Taken
<1>3. /\ x.do = "snapshot" => x.snap \in Editors!Shown
      /\ x.do # "snapshot"
         => x \in Answers /\ x.do \in {"loaded", "saved"} /\ x.uid \in Editors!Uids
  BY <1>2, AnswerParts
<1>4. /\ \A do, u : Has(rest, do, u) => Has(bridge, do, u)
      /\ \A do, u : x.do = do /\ x.uid = u => Has(bridge, do, u)
  BY <1>1, HasTaken
<1>5. CASE x.do = "snapshot"
  <2>1. EditorsTyped'
    BY <1>1, <1>2, <1>3, <1>5 DEF EditorsInv, EditorsTyped
  <2>2. ASSUME Whole' PROVE LoadsFollowSaves' /\ EditorFits(ui, 0)'
    <3>1. LoadsFollowSaves /\ EditorFits(ui, 0)
      BY <1>1, <2>2 DEF EditorsInv, Whole
    <3>2. LoadsLast(bridge, "loaded", "saved") /\ LoadedIsStored(bridge)
      BY <3>1 DEF LoadsFollowSaves
    <3>3. LoadsLast(rest, "loaded", "saved") /\ LoadedIsStored(rest)
      BY <1>1, <3>2, OrderTaken, StoredTaken
    <3>4. LoadsLast(bridge, "loaded", "saved")' /\ LoadedIsStored(bridge)'
      BY <1>1, <3>3 DEF LoadsLast, LoadedIsStored
    <3>5. \A do, u : /\ Has(bridge, do, u)' => Has(bridge, do, u)
                     /\ Has(news, do, u)' <=> Has(news, do, u)
                     /\ Has(requests, do, u)' <=> Has(requests, do, u)
                     /\ Doing(do, u)' <=> Doing(do, u)
      BY <1>1, <1>4, <1>5 DEF Has, Doing
    <3>6. LoadsFollowSaves'
      <4>1. LoadsLast(requests, "load", "save")' /\ LoadsLast(news, "loaded", "saved")'
            /\ LoadedIsStored(news)'
        BY <1>1, <1>5, <3>1 DEF LoadsFollowSaves, LoadsLast, LoadedIsStored
      <4> QED BY <3>1, <3>4, <3>5, <4>1 DEF LoadsFollowSaves
    <3>7. EditorFits(ui, 0)'
      BY <1>1, <1>5, <3>1, <3>5 DEF EditorFits, Fits, SavedAfter, Doing
    <3> QED BY <3>6, <3>7
  <2> QED BY <2>1, <2>2 DEF EditorsInv
<1>6. CASE x.do # "snapshot"
  <2>1. /\ news' \in Seq(Answers) /\ screen' = screen /\ news' = Append(news, x)
        /\ \A do, u : Has(news', do, u) => Has(news, do, u) \/ (x.do = do /\ x.uid = u)
    <3>1. /\ news \in Seq(Answers) /\ x \in Answers /\ news' = Append(news, x)
          /\ screen' = screen
      BY <1>1, <1>3, <1>6
    <3>2. Append(news, x) \in Seq(Answers)
      BY <3>1, Appended
    <3>3. \A do, u : Has(Append(news, x), do, u)
            => Has(news, do, u) \/ (x.do = do /\ x.uid = u)
      BY <3>1, HasAppended
    <3> QED BY <3>1, <3>2, <3>3
  <2>2. EditorsTyped'
    BY <1>1, <1>2, <2>1 DEF EditorsInv, EditorsTyped
  <2>3. ASSUME Whole' PROVE LoadsFollowSaves' /\ EditorFits(ui, 0)'
    <3>1. LoadsFollowSaves /\ EditorFits(ui, 0)
      BY <1>1, <2>3 DEF EditorsInv, Whole
    <3>2. /\ LoadsLast(bridge, "loaded", "saved") /\ LoadedIsStored(bridge)
          /\ LoadsLast(news, "loaded", "saved") /\ LoadedIsStored(news)
      BY <3>1 DEF LoadsFollowSaves
    <3>3. /\ LoadsLast(rest, "loaded", "saved") /\ LoadedIsStored(rest)
          /\ x.do = "loaded" => ~Has(rest, "saved", x.uid) /\ x.content = files[x.uid]
      BY <1>1, <3>2, OrderTaken, StoredTaken
    <3>4. LoadsLast(bridge, "loaded", "saved")' /\ LoadedIsStored(bridge)'
      BY <1>1, <3>3 DEF LoadsLast, LoadedIsStored
    <3>5. x.do = "saved" => ~Has(news, "loaded", x.uid)
      BY <1>3, <1>4, <1>6, <3>1 DEF LoadsFollowSaves
    <3>6. LoadsLast(Append(news, x), "loaded", "saved") /\ LoadedIsStored(Append(news, x))
      BY <1>1, <1>3, <1>6, <3>2, <3>3, <3>5, OrderAppended, StoredAppended
    <3>7. LoadsLast(news, "loaded", "saved")' /\ LoadedIsStored(news)'
      BY <1>1, <2>1, <3>6 DEF LoadsLast, LoadedIsStored
    <3>8. \A do, u : /\ Has(bridge, do, u)' => Has(bridge, do, u) /\ Has(rest, do, u)
                     /\ Has(news, do, u)' => Has(news, do, u) \/ (x.do = do /\ x.uid = u)
                     /\ Has(requests, do, u)' <=> Has(requests, do, u)
                     /\ Doing(do, u)' <=> Doing(do, u)
      <4>1. \A do, u : /\ Has(bridge, do, u)' <=> Has(rest, do, u)
                       /\ Has(news, do, u)' <=> Has(news', do, u)
                       /\ Has(requests, do, u)' <=> Has(requests, do, u)
                       /\ Doing(do, u)' <=> Doing(do, u)
        BY <1>1 DEF Has, Doing
      <4> QED BY <1>4, <2>1, <4>1
    <3>9. LoadsFollowSaves'
      <4>1. LoadsLast(requests, "load", "save")'
        BY <1>1, <3>1 DEF LoadsFollowSaves, LoadsLast
      <4>2. ASSUME NEW u \in Editors!Uids
            PROVE  /\ Has(news, "loaded", u)' => ~Has(bridge, "saved", u)'
                   /\ Has(news, "loaded", u)' \/ Has(bridge, "loaded", u)'
                      => ~Doing("save", u)' /\ ~Has(requests, "save", u)'
                   /\ Doing("load", u)' => ~Has(requests, "save", u)'
        <5>1. /\ Has(news, "loaded", u) => ~Has(bridge, "saved", u)
              /\ Has(news, "loaded", u) \/ Has(bridge, "loaded", u)
                 => ~Doing("save", u) /\ ~Has(requests, "save", u)
              /\ Doing("load", u) => ~Has(requests, "save", u)
          BY <3>1 DEF LoadsFollowSaves
        <5>2. x.do = "loaded" /\ x.uid = u
              => Has(bridge, "loaded", u) /\ ~Has(rest, "saved", u)
          BY <1>4, <3>3
        <5> QED BY <3>8, <5>1, <5>2
      <4> QED BY <3>4, <3>7, <4>1, <4>2 DEF LoadsFollowSaves
    <3>10. ASSUME ui'.editor # None PROVE Fits(ui.editor, 0)'
      <4>1. ui' = ui /\ Fits(ui.editor, 0)
        BY <1>1, <3>1, <3>10 DEF EditorFits
      <4>2. SavedAfter(0, ui.editor.uid)'
            => Has(bridge, "saved", ui.editor.uid) \/ SavedAfter(0, ui.editor.uid)
        <5>1. SavedAfter(0, ui.editor.uid)' => Has(news, "saved", ui.editor.uid)'
          BY DEF SavedAfter, Has
        <5>2. Has(news, "saved", ui.editor.uid)' => Has(news', "saved", ui.editor.uid)
          BY <4>1 DEF Has
        <5>3. Has(news, "saved", ui.editor.uid) => SavedAfter(0, ui.editor.uid)
          BY DEF SavedAfter, Has
        <5> QED BY <1>4, <2>1, <5>1, <5>2, <5>3
      <4>3. Has(bridge, "saved", ui.editor.uid)' => Has(bridge, "saved", ui.editor.uid)
        BY <1>1, <1>4 DEF Has
      <4> QED BY <1>1, <4>1, <4>2, <4>3 DEF Fits, Doing
    <3> QED BY <3>9, <3>10 DEF EditorFits
  <2> QED BY <2>2, <2>3 DEF EditorsInv
<1> QED BY <1>5, <1>6

\* One more event leaves the worker, of a snapshot, or of an answer.
LEMMA Emitted ==
  ASSUME NEW q \in Seq(Answers \cup Snapshots), NEW x \in Answers \cup Snapshots
  PROVE  /\ Append(q, x) \in Seq(Answers \cup Snapshots)
         /\ \A do, u : Has(Append(q, x), do, u) <=> Has(q, do, u) \/ (x.do = do /\ x.uid = u)
         /\ LoadsLast(q, "loaded", "saved") /\ (x.do = "saved" => ~Has(q, "loaded", x.uid))
            => LoadsLast(Append(q, x), "loaded", "saved")
         /\ LoadedIsStored(q) /\ (x.do = "loaded" => x.content = files[x.uid])
            => LoadedIsStored(Append(q, x))
<1>1. Append(q, x) \in Seq(Answers \cup Snapshots)
  BY Appended
<1>2. \A do, u : Has(Append(q, x), do, u) <=> Has(q, do, u) \/ (x.do = do /\ x.uid = u)
  BY HasAppended
<1>3. LoadsLast(q, "loaded", "saved") /\ (x.do = "saved" => ~Has(q, "loaded", x.uid))
      => LoadsLast(Append(q, x), "loaded", "saved")
  BY OrderAppended
<1>4. LoadedIsStored(q) /\ (x.do = "loaded" => x.content = files[x.uid])
      => LoadedIsStored(Append(q, x))
  BY StoredAppended
<1> QED BY <1>1, <1>2, <1>3, <1>4

LEMMA SnapshotIsOne ==
  ASSUME NEW busy \in BOOLEAN, NEW p \in Profiles
  PROVE  Editors!Snapshot(busy, p) \in Snapshots /\ Editors!Snapshot(busy, p).do = "snapshot"
  BY DEF Editors!Snapshot, Snapshots, Editors!Shown

LEMMA BeginKeeps ==
  ASSUME Editors!EditorAssumption, EditorsInv, Editors!Begin
  PROVE  EditorsInv'
<1> PICK r : r = Head(requests)
  OBVIOUS
<1> PICK rest : rest = Tail(requests)
  OBVIOUS
<1> PICK x : x = Editors!Snapshot(TRUE, current)
  OBVIOUS
<1>1. /\ job = None /\ requests # <<>> /\ job' = r /\ requests' = rest
      /\ bridge' = Append(bridge, x)
      /\ UNCHANGED <<files, current, screen, news, ui, made, givenUp, gaps>>
      /\ requests \in Seq(Editors!Requests) /\ Len(requests) <= Capacity /\ Capacity \in Nat
      /\ bridge \in Seq(Answers \cup Snapshots) /\ current \in Profiles
      /\ None \notin Editors!Requests
  BY DEF Editors!Begin, EditorsInv, EditorsTyped, Editors!EditorAssumption
<1>2. x \in Answers \cup Snapshots /\ x.do = "snapshot"
  BY <1>1, SnapshotIsOne
<1>3. /\ r \in Editors!Requests /\ r = requests[1] /\ rest \in Seq(Editors!Requests)
      /\ Len(rest) = Len(requests) - 1 /\ Len(requests) \in Nat \ {0}
      /\ \A i \in 1 .. Len(rest) : i + 1 \in 1 .. Len(requests) /\ rest[i] = requests[i + 1]
  BY <1>1, Taken
<1>4. /\ \A do, u : Has(rest, do, u) => Has(requests, do, u)
      /\ \A do, u : r.do = do /\ r.uid = u => Has(requests, do, u)
  BY <1>1, HasTaken
<1>5. bridge' \in Seq(Answers \cup Snapshots)
  BY <1>1, <1>2, Emitted
<1>6. EditorsTyped'
  <2>1. /\ files \in [Editors!Uids -> SUBSET Edits] /\ current \in Profiles
        /\ news \in Seq(Answers)
        /\ screen \in Editors!Shown /\ ui \in Frames /\ made \subseteq Edits
        /\ givenUp \subseteq Edits
    BY DEF EditorsInv, EditorsTyped
  <2>2. /\ requests' \in Seq(Editors!Requests) /\ Len(requests') <= Capacity
        /\ job' \in Editors!Requests \cup {None}
    BY <1>1, <1>3
  <2> QED BY <1>1, <1>5, <2>1, <2>2 DEF EditorsTyped
<1>7. ASSUME Whole' PROVE LoadsFollowSaves' /\ EditorFits(ui, 0)'
  <2>1. LoadsFollowSaves /\ EditorFits(ui, 0)
    BY <1>1, <1>7 DEF EditorsInv, Whole
  <2>2. /\ LoadsLast(rest, "load", "save")
        /\ r.do = "load" => ~Has(rest, "save", r.uid)
    BY <1>1, <2>1, OrderTaken DEF LoadsFollowSaves
  <2>3. LoadsLast(bridge, "loaded", "saved") /\ LoadedIsStored(bridge)
    BY <2>1 DEF LoadsFollowSaves
  <2>4. /\ LoadsLast(Append(bridge, x), "loaded", "saved")
        /\ LoadedIsStored(Append(bridge, x))
        /\ \A do, u : Has(Append(bridge, x), do, u) => Has(bridge, do, u) \/ do = "snapshot"
    BY <1>1, <1>2, <2>3, Emitted
  <2>5. \A do, u : /\ Has(bridge, do, u)' <=> Has(Append(bridge, x), do, u)
                   /\ Has(news, do, u)' <=> Has(news, do, u)
                   /\ Has(requests, do, u)' <=> Has(rest, do, u)
                   /\ Doing(do, u)' <=> r.do = do /\ r.uid = u
    BY <1>1, <1>3 DEF Has, Doing
  <2>6. /\ LoadsLast(requests, "load", "save")' /\ LoadsLast(bridge, "loaded", "saved")'
        /\ LoadsLast(news, "loaded", "saved")' /\ LoadedIsStored(bridge)'
        /\ LoadedIsStored(news)'
    BY ZenonT(40), <1>1, <2>1, <2>2, <2>4 DEF LoadsFollowSaves, LoadsLast, LoadedIsStored
  <2>7. ASSUME NEW u \in Editors!Uids
        PROVE  /\ Has(news, "loaded", u)' => ~Has(bridge, "saved", u)'
               /\ Has(news, "loaded", u)' \/ Has(bridge, "loaded", u)'
                  => ~Doing("save", u)' /\ ~Has(requests, "save", u)'
               /\ Doing("load", u)' => ~Has(requests, "save", u)'
    <3>1. /\ Has(news, "loaded", u) => ~Has(bridge, "saved", u)
          /\ Has(news, "loaded", u) \/ Has(bridge, "loaded", u) => ~Has(requests, "save", u)
      BY <2>1 DEF LoadsFollowSaves
    <3> QED BY <1>4, <2>2, <2>4, <2>5, <3>1
  <2>8. ASSUME ui'.editor # None PROVE Fits(ui.editor, 0)'
    <3>1. ui' = ui /\ Fits(ui.editor, 0)
      BY <1>1, <2>1, <2>8 DEF EditorFits
    <3>2. 1 \in 1 .. Len(requests)
      BY <1>3
    <3>3. Has(bridge, "saved", ui.editor.uid)' => Has(bridge, "saved", ui.editor.uid)
      BY <2>4, <2>5, <3>1
    <3>4. /\ \A i \in 1 .. Len(rest) :
               rest[i].do = "save" /\ rest[i].uid = ui.editor.uid
               => rest[i].content = ui.editor.content
          /\ r.do = "save" /\ r.uid = ui.editor.uid => r.content = ui.editor.content
      BY <1>3, <3>1, <3>2 DEF Fits
    <3>5. SavedAfter(0, ui.editor.uid)' => SavedAfter(0, ui.editor.uid)
      BY <1>1 DEF SavedAfter
    <3> QED BY <1>1, <3>1, <3>3, <3>4, <3>5 DEF Fits, Doing
  <2> QED BY <2>6, <2>7, <2>8 DEF LoadsFollowSaves, EditorFits
<1> QED BY <1>6, <1>7 DEF EditorsInv

\* The worker's answers to a job that is over: whatever it has done, there is a snapshot.
LEMMA JobEnds ==
  ASSUME Editors!EditorAssumption, EditorsInv, job # None, job' = None,
         NEW sent \in Seq(Answers \cup Snapshots),
         NEW x \in Snapshots, x.do = "snapshot", bridge' = Append(sent, x),
         files' \in [Editors!Uids -> SUBSET Edits], current' \in Profiles,
         UNCHANGED <<requests, screen, news, ui, made, givenUp>>,
         Whole' =>
           /\ Whole /\ LoadsLast(sent, "loaded", "saved")
           /\ \A i \in 1 .. Len(sent) :
                sent[i].do = "loaded" => sent[i].content = files'[sent[i].uid]
           /\ \A i \in 1 .. Len(news) :
                news[i].do = "loaded" => news[i].content = files'[news[i].uid]
           /\ \A u \in Editors!Uids :
                /\ Has(sent, "loaded", u) => Has(bridge, "loaded", u) \/ Doing("load", u)
                /\ Has(news, "loaded", u) => ~Has(sent, "saved", u)
           /\ \A content : \A u \in Editors!Uids :
                /\ (Has(bridge, "saved", u) => content = files[u])
                /\ (Doing("save", u) => content = job.content)
                => (Has(sent, "saved", u) => content = files'[u])
           /\ \A content : \A u \in Editors!Uids :
                content = files[u] /\ (Doing("save", u) => content = job.content)
                => content = files'[u]
  PROVE  EditorsInv'
<1>1. bridge' \in Seq(Answers \cup Snapshots)
  BY Emitted
<1>2. EditorsTyped'
  <2>1. /\ requests \in Seq(Editors!Requests) /\ Len(requests) <= Capacity
        /\ news \in Seq(Answers)
        /\ screen \in Editors!Shown /\ ui \in Frames /\ made \subseteq Edits
        /\ givenUp \subseteq Edits
    BY DEF EditorsInv, EditorsTyped
  <2> QED BY <1>1, <2>1 DEF EditorsTyped
<1>3. ASSUME Whole' PROVE LoadsFollowSaves' /\ EditorFits(ui, 0)'
  <2>1. LoadsFollowSaves /\ EditorFits(ui, 0)
    BY <1>3 DEF EditorsInv
  <2>2. /\ LoadsLast(Append(sent, x), "loaded", "saved")
        /\ \A do, u : Has(Append(sent, x), do, u) => Has(sent, do, u) \/ do = "snapshot"
    BY <1>3, Emitted
  <2>3. \A i \in 1 .. Len(Append(sent, x)) :
          Append(sent, x)[i].do = "loaded"
          => Append(sent, x)[i].content = files'[Append(sent, x)[i].uid]
    <3>1. /\ Len(Append(sent, x)) = Len(sent) + 1 /\ Len(sent) \in Nat
          /\ Append(sent, x)[Len(sent) + 1] = x
          /\ \A i \in 1 .. Len(sent) : Append(sent, x)[i] = sent[i]
      BY Appended
    <3>2. \A i \in 1 .. Len(Append(sent, x)) : i \in 1 .. Len(sent) \/ i = Len(sent) + 1
      BY <3>1
    <3> QED BY <1>3, <3>1, <3>2
  <2>4. \A do, u : /\ Has(bridge, do, u)' <=> Has(Append(sent, x), do, u)
                   /\ Has(news, do, u)' <=> Has(news, do, u)
                   /\ Has(requests, do, u)' <=> Has(requests, do, u)
                   /\ ~Doing(do, u)'
    BY DEF Has, Doing
  <2>5. /\ LoadsLast(requests, "load", "save")' /\ LoadsLast(bridge, "loaded", "saved")'
        /\ LoadsLast(news, "loaded", "saved")'
    BY <2>1, <2>2 DEF LoadsFollowSaves, LoadsLast
  <2>6. LoadedIsStored(bridge)' /\ LoadedIsStored(news)'
    BY <1>3, <2>3 DEF LoadedIsStored
  <2>7. ASSUME NEW u \in Editors!Uids
        PROVE  /\ Has(news, "loaded", u)' => ~Has(bridge, "saved", u)'
               /\ Has(news, "loaded", u)' \/ Has(bridge, "loaded", u)'
                  => ~Doing("save", u)' /\ ~Has(requests, "save", u)'
               /\ Doing("load", u)' => ~Has(requests, "save", u)'
    <3>1. /\ Has(news, "loaded", u) \/ Has(bridge, "loaded", u) => ~Has(requests, "save", u)
          /\ Doing("load", u) => ~Has(requests, "save", u)
      BY <2>1 DEF LoadsFollowSaves
    <3>2. /\ Has(sent, "loaded", u) => Has(bridge, "loaded", u) \/ Doing("load", u)
          /\ Has(news, "loaded", u) => ~Has(sent, "saved", u)
      BY <1>3
    <3> QED BY <2>2, <2>4, <3>1, <3>2
  <2>8. ASSUME ui'.editor # None PROVE Fits(ui.editor, 0)'
    <3> DEFINE e == ui.editor
    <3>1. ui' = ui /\ Fits(e, 0)
      BY <2>1, <2>8 DEF EditorFits
    <3>2. e.uid \in Editors!Uids
      BY <2>8, <3>1, FrameParts DEF EditorsInv, EditorsTyped, Editors!Editor
    <3>3. /\ Has(bridge, "saved", e.uid) => e.content = files[e.uid]
          /\ ~e.dirty \/ SavedAfter(0, e.uid) => e.content = files[e.uid]
          /\ Doing("save", e.uid) => e.content = job.content
      BY <3>1 DEF Fits
    <3> HIDE DEF e
    <3>4. /\ Has(sent, "saved", e.uid) => e.content = files'[e.uid]
          /\ ~e.dirty \/ SavedAfter(0, e.uid) => e.content = files'[e.uid]
      <4>1. \A content :
              /\ (Has(bridge, "saved", e.uid) => content = files[e.uid])
              /\ (Doing("save", e.uid) => content = job.content)
              => (Has(sent, "saved", e.uid) => content = files'[e.uid])
        BY <1>3, <3>2
      <4>2. \A content : content = files[e.uid] /\ (Doing("save", e.uid) => content = job.content)
                         => content = files'[e.uid]
        BY <1>3, <3>2
      <4>3. Has(sent, "saved", e.uid) => e.content = files'[e.uid]
        BY <3>3, <4>1
      <4>4. ~e.dirty \/ SavedAfter(0, e.uid) => e.content = files'[e.uid]
        BY <3>3, <4>2
      <4> QED BY <4>3, <4>4
    <3>5. SavedAfter(0, ui.editor.uid)' => SavedAfter(0, ui.editor.uid)
      BY <3>1 DEF SavedAfter
    <3>6. Has(bridge, "saved", ui.editor.uid)' => Has(sent, "saved", ui.editor.uid)
      BY <2>2, <2>4, <3>1
    <3>7. \A i \in 1 .. Len(requests) :
            requests[i].do = "save" /\ requests[i].uid = e.uid
            => requests[i].content = e.content
      BY <3>1 DEF Fits
    <3> QED BY <3>1, <3>4, <3>5, <3>6, <3>7 DEF Fits, Doing, e
  <2> QED BY <2>5, <2>6, <2>7, <2>8 DEF LoadsFollowSaves, EditorFits
<1> QED BY <1>2, <1>3 DEF EditorsInv

LEMMA ConcatIsAppend ==
  ASSUME NEW q \in Seq(Answers \cup Snapshots), NEW x \in Answers \cup Snapshots
  PROVE  q \o <<x>> = Append(q, x) /\ q \o <<>> = q
  BY AppendIsConcat, ConcatEmptySeq

LEMMA FailKeeps ==
  ASSUME Editors!EditorAssumption, EditorsInv, Editors!Fail
  PROVE  EditorsInv'
<1> PICK x : x = Editors!Snapshot(FALSE, current)
  OBVIOUS
<1>1. /\ job # None /\ job' = None /\ bridge' = Append(bridge, x)
      /\ UNCHANGED <<files, current, requests, screen, news, ui, made, givenUp, gaps>>
      /\ files \in [Editors!Uids -> SUBSET Edits] /\ current \in Profiles
      /\ bridge \in Seq(Answers \cup Snapshots)
  BY DEF Editors!Fail, EditorsInv, EditorsTyped
<1>2. x \in Snapshots /\ x.do = "snapshot"
  BY <1>1, SnapshotIsOne
<1>3. ASSUME Whole'
      PROVE  /\ Whole /\ LoadsLast(bridge, "loaded", "saved")
             /\ LoadedIsStored(bridge) /\ LoadedIsStored(news)
             /\ \A u \in Editors!Uids : Has(news, "loaded", u) => ~Has(bridge, "saved", u)
  BY <1>1, <1>3 DEF EditorsInv, LoadsFollowSaves, Whole
<1>4. files' = files
  BY <1>1
<1> QED BY <1>1, <1>2, <1>3, <1>4, JobEnds DEF LoadedIsStored

LEMMA SucceedKeeps ==
  ASSUME Editors!EditorAssumption, EditorsInv, NEW parses \in BOOLEAN,
         Editors!Succeed(parses)
  PROVE  EditorsInv'
<1> PICK x : x = Editors!Snapshot(FALSE, current')
  OBVIOUS
<1> DEFINE loaded == [do |-> "loaded", uid |-> job.uid, content |-> files[job.uid],
                      parses |-> parses]
           saved == [do |-> "saved", uid |-> job.uid]
           none == {}
<1>1. /\ job # None /\ job' = None
      /\ UNCHANGED <<requests, screen, news, ui, made, givenUp>>
      /\ files \in [Editors!Uids -> SUBSET Edits] /\ current \in Profiles
      /\ job \in Editors!Requests
      /\ bridge \in Seq(Answers \cup Snapshots) /\ none \in SUBSET Edits
  BY DEF Editors!Succeed, EditorsInv, EditorsTyped
<1>2. /\ job.do \in {"load", "save", "activate", "update"} /\ job.uid \in Editors!Uids
      /\ job.content \in SUBSET Edits /\ job.uid[1] \in Profiles
  BY <1>1 DEF Editors!Requests, Editors!Uids
<1>3. current' \in Profiles
  BY <1>1, <1>2 DEF Editors!Succeed
<1>4. x \in Snapshots /\ x \in Answers \cup Snapshots /\ x.do = "snapshot"
  BY <1>3, SnapshotIsOne
<1>5. loaded \in Answers \cup Snapshots /\ saved \in Answers \cup Snapshots
  BY <1>1, <1>2 DEF Answers
<1>6. /\ loaded.do = "loaded" /\ loaded.uid = job.uid /\ loaded.content = files[job.uid]
      /\ saved.do = "saved" /\ saved.uid = job.uid
  OBVIOUS
<1>7. /\ job.do = "load" => bridge' = (bridge \o <<loaded>>) \o <<x>>
      /\ job.do = "save" => bridge' = (bridge \o <<saved>>) \o <<x>>
      /\ job.do \in {"activate", "update"} => bridge' = (bridge \o <<>>) \o <<x>>
  BY <1>2 DEF Editors!Succeed
<1>8. /\ job.do = "save" => files' = [files EXCEPT ![job.uid] = job.content] /\ gaps' = gaps
      /\ job.do \in {"load", "activate"} => files' = files /\ gaps' = gaps
      /\ job.do = "update" => files' = [files EXCEPT ![job.uid] = none] /\ ~Whole'
  BY <1>2 DEF Editors!Succeed, Whole
<1> HIDE DEF loaded, saved, none
<1>9. ASSUME Whole
      PROVE  /\ LoadsLast(bridge, "loaded", "saved")
             /\ LoadedIsStored(bridge) /\ LoadedIsStored(news)
             /\ \A u \in Editors!Uids : /\ Has(news, "loaded", u) => ~Has(bridge, "saved", u)
                                        /\ Has(news, "loaded", u) \/ Has(bridge, "loaded", u)
                                           => ~Doing("save", u)
  BY <1>9 DEF EditorsInv, LoadsFollowSaves
<1>10. CASE job.do = "load"
  <2> DEFINE sent == Append(bridge, loaded)
  <2>1. /\ sent \in Seq(Answers \cup Snapshots) /\ bridge' = Append(sent, x)
        /\ files' = files /\ gaps' = gaps
    <3>1. bridge \o <<loaded>> = sent
      BY <1>1, <1>5, ConcatIsAppend
    <3>2. sent \in Seq(Answers \cup Snapshots)
      BY <1>1, <1>5, Emitted
    <3>3. sent \o <<x>> = Append(sent, x)
      BY <1>4, <3>2, ConcatIsAppend
    <3> QED BY <1>7, <1>8, <1>10, <3>1, <3>2, <3>3
  <2>2. \A do, u : Has(sent, do, u) <=> Has(bridge, do, u) \/ (do = "loaded" /\ u = job.uid)
    BY <1>1, <1>5, <1>6, Emitted
  <2>3. ASSUME Whole PROVE LoadsLast(sent, "loaded", "saved") /\ LoadedIsStored(sent)
    BY <1>1, <1>5, <1>6, <1>9, <2>3, Emitted
  <2> HIDE DEF sent
  <2>4. \A u : Doing("load", u) <=> u = job.uid
    BY <1>1, <1>10 DEF Doing
  <2>5. ASSUME Whole'
        PROVE  /\ Whole /\ LoadsLast(sent, "loaded", "saved")
               /\ LoadedIsStored(sent) /\ LoadedIsStored(news)
               /\ \A u \in Editors!Uids :
                    /\ Has(sent, "loaded", u) => Has(bridge, "loaded", u) \/ Doing("load", u)
                    /\ Has(news, "loaded", u) => ~Has(sent, "saved", u)
    BY <1>9, <2>1, <2>2, <2>3, <2>4, <2>5 DEF Whole
  <2>6. \A u : Has(sent, "saved", u) <=> Has(bridge, "saved", u)
    BY <2>2
  <2> QED BY <1>1, <1>3, <1>4, <2>1, <2>5, <2>6, JobEnds DEF LoadedIsStored
<1>11. CASE job.do = "save"
  <2> DEFINE sent == Append(bridge, saved)
  <2>1. /\ sent \in Seq(Answers \cup Snapshots) /\ bridge' = Append(sent, x)
        /\ files' = [files EXCEPT ![job.uid] = job.content] /\ gaps' = gaps
    <3>1. bridge \o <<saved>> = sent
      BY <1>1, <1>5, ConcatIsAppend
    <3>2. sent \in Seq(Answers \cup Snapshots)
      BY <1>1, <1>5, Emitted
    <3>3. sent \o <<x>> = Append(sent, x)
      BY <1>4, <3>2, ConcatIsAppend
    <3> QED BY <1>7, <1>8, <1>11, <3>1, <3>2, <3>3
  <2>2. \A do, u : Has(sent, do, u) <=> Has(bridge, do, u) \/ (do = "saved" /\ u = job.uid)
    BY <1>1, <1>5, <1>6, Emitted
  <2>3. \A u : Doing("save", u) <=> u = job.uid
    BY <1>1, <1>11 DEF Doing
  <2>4. ASSUME Whole PROVE LoadsLast(sent, "loaded", "saved") /\ LoadedIsStored(sent)
    <3>1. ~Has(bridge, "loaded", job.uid)
      BY <1>2, <1>9, <2>3, <2>4
    <3> QED BY <1>1, <1>5, <1>6, <1>9, <2>4, <3>1, Emitted
  <2> HIDE DEF sent
  <2>5. /\ files' \in [Editors!Uids -> SUBSET Edits] /\ files'[job.uid] = job.content
        /\ \A u \in Editors!Uids : u # job.uid => files'[u] = files[u]
    BY <1>1, <1>2, <2>1
  <2>6. ASSUME Whole'
        PROVE  /\ Whole /\ LoadsLast(sent, "loaded", "saved")
               /\ \A i \in 1 .. Len(sent) :
                    sent[i].do = "loaded" => sent[i].content = files'[sent[i].uid]
               /\ \A i \in 1 .. Len(news) :
                    news[i].do = "loaded" => news[i].content = files'[news[i].uid]
               /\ \A u \in Editors!Uids :
                    /\ Has(sent, "loaded", u) => Has(bridge, "loaded", u) \/ Doing("load", u)
                    /\ Has(news, "loaded", u) => ~Has(sent, "saved", u)
    <3>1. Whole /\ LoadsLast(sent, "loaded", "saved") /\ LoadedIsStored(sent)
      BY <2>1, <2>4, <2>6 DEF Whole
    <3>2. ~Has(bridge, "loaded", job.uid) /\ ~Has(news, "loaded", job.uid)
      BY <1>2, <1>9, <2>3, <3>1
    <3>3. ASSUME NEW i \in 1 .. Len(sent), sent[i].do = "loaded"
          PROVE  sent[i].content = files'[sent[i].uid]
      <4>1. sent[i] \in Answers \cup Snapshots
        BY <2>1
      <4>2. sent[i].uid \in Editors!Uids
        BY <3>3, <4>1, AnswerParts
      <4>3. Has(sent, "loaded", sent[i].uid)
        BY <3>3 DEF Has
      <4>4. sent[i].uid # job.uid
        BY <2>2, <3>2, <4>3
      <4>5. sent[i].content = files[sent[i].uid]
        BY <3>1, <3>3 DEF LoadedIsStored
      <4> QED BY <2>5, <4>2, <4>4, <4>5
    <3>4. ASSUME NEW i \in 1 .. Len(news), news[i].do = "loaded"
          PROVE  news[i].content = files'[news[i].uid]
      <4>1. news[i] \in Answers
        BY DEF EditorsInv, EditorsTyped
      <4>2. news[i].uid \in Editors!Uids
        BY <4>1, AnswerParts
      <4>3. Has(news, "loaded", news[i].uid)
        BY <3>4 DEF Has
      <4>4. news[i].uid # job.uid
        BY <3>2, <4>3
      <4>5. news[i].content = files[news[i].uid]
        BY <1>9, <3>1, <3>4 DEF LoadedIsStored
      <4> QED BY <2>5, <4>2, <4>4, <4>5
    <3>5. \A u \in Editors!Uids :
            /\ Has(sent, "loaded", u) => Has(bridge, "loaded", u) \/ Doing("load", u)
            /\ Has(news, "loaded", u) => ~Has(sent, "saved", u)
      BY <1>9, <2>2, <3>1, <3>2
    <3> QED BY <3>1, <3>3, <3>4, <3>5
  <2>7. \A content : \A u \in Editors!Uids :
          /\ (Has(bridge, "saved", u) => content = files[u])
          /\ (Doing("save", u) => content = job.content)
          => (Has(sent, "saved", u) => content = files'[u])
    BY <2>2, <2>3, <2>5
  <2>8. \A content : \A u \in Editors!Uids :
          content = files[u] /\ (Doing("save", u) => content = job.content)
          => content = files'[u]
    BY <2>3, <2>5
  <2> QED BY <1>1, <1>3, <1>4, <2>1, <2>5, <2>6, <2>7, <2>8, JobEnds
<1>12. CASE job.do = "activate"
  <2>1. bridge' = Append(bridge, x) /\ files' = files /\ gaps' = gaps
    <3>1. bridge \o <<>> = bridge /\ bridge \o <<x>> = Append(bridge, x)
      BY <1>1, <1>4, ConcatIsAppend
    <3> QED BY <1>7, <1>8, <1>12, <3>1
  <2>2. ASSUME Whole'
        PROVE  /\ Whole /\ LoadsLast(bridge, "loaded", "saved")
               /\ LoadedIsStored(bridge) /\ LoadedIsStored(news)
               /\ \A u \in Editors!Uids : Has(news, "loaded", u) => ~Has(bridge, "saved", u)
    BY <1>9, <2>1, <2>2 DEF Whole
  <2> QED BY <1>1, <1>3, <1>4, <2>1, <2>2, JobEnds DEF LoadedIsStored
<1>13. CASE job.do = "update"
  <2>1. /\ bridge' = Append(bridge, x) /\ files' = [files EXCEPT ![job.uid] = none]
        /\ ~Whole'
    <3>1. bridge \o <<>> = bridge /\ bridge \o <<x>> = Append(bridge, x)
      BY <1>1, <1>4, ConcatIsAppend
    <3> QED BY <1>7, <1>8, <1>13, <3>1
  <2>2. files' \in [Editors!Uids -> SUBSET Edits]
    BY <1>1, <2>1
  <2> QED BY <1>1, <1>3, <1>4, <2>1, <2>2, JobEnds
<1> QED BY <1>2, <1>10, <1>11, <1>12, <1>13

\* What the interface does with an answer.
LEMMA OnSavedIs ==
  ASSUME Editors!EditorAssumption, NEW v \in Frames, NEW x \in Answers, NEW w,
         w = Editors!OnSaved(v, x)
  PROVE  /\ w \in Frames /\ w.rule = v.rule
         /\ \/ w = v /\ (v.editor = None \/ v.editor.uid # x.uid)
            \/ /\ v.editor \in Editors!Editor /\ w.editor \in Editors!Editor
               /\ v.editor # None /\ w.editor # None
               /\ v.editor.uid = x.uid /\ w.editor.uid = x.uid
               /\ w.editor.content = v.editor.content
<1>1. CASE v.editor # None /\ v.editor.uid = x.uid
  <2> DEFINE dirty == FALSE
             editor == [v.editor EXCEPT !.dirty = dirty]
  <2>1. v.editor \in Editors!Editor /\ dirty \in BOOLEAN
    BY <1>1, FrameParts
  <2>2. w = [v EXCEPT !.editor = editor]
    BY <1>1 DEF Editors!OnSaved
  <2> HIDE DEF dirty
  <2>3. /\ editor \in Editors!Editor /\ editor.uid = v.editor.uid
        /\ editor.content = v.editor.content
    BY <2>1 DEF Editors!Editor
  <2> HIDE DEF editor
  <2>4. w \in Frames /\ w.editor = editor /\ w.rule = v.rule
    BY <2>2, <2>3 DEF Frames
  <2>5. w.editor # None
    BY <2>3, <2>4 DEF Editors!EditorAssumption
  <2> QED BY <1>1, <2>1, <2>3, <2>4, <2>5
<1>2. CASE ~(v.editor # None /\ v.editor.uid = x.uid)
  BY <1>2 DEF Editors!OnSaved
<1> QED BY <1>1, <1>2

LEMMA OnLoadedIs ==
  ASSUME Editors!EditorAssumption, NEW v \in Frames, NEW x \in Answers, x.do = "loaded",
         NEW w, w = Editors!OnLoaded(v, x)
  PROVE  /\ w \in Frames
         /\ \/ /\ w.editor = v.editor /\ w.rule = v.rule
               /\ v.pending = x.uid /\ ~x.parses
            \/ /\ v.pending # x.uid \/ x.parses
               /\ w.editor \in Editors!Editor /\ w.editor # None
               /\ w.editor.uid = x.uid /\ x.content \subseteq w.editor.content
               /\ ~w.editor.dirty => w.editor.content = x.content
               /\ w.rule = v.rule \/ v.rule = None \/ v.rule \in w.editor.content
<1>0. CASE v.pending = x.uid /\ ~x.parses
  <2>1. w = [v EXCEPT !.pending = None]
    BY <1>0 DEF Editors!OnLoaded
  <2>2. w \in Frames /\ w.editor = v.editor /\ w.rule = v.rule
    BY <2>1 DEF Frames
  <2> QED BY <1>0, <2>2
<1> SUFFICES ASSUME v.pending # x.uid \/ x.parses
             PROVE  /\ w \in Frames /\ w.editor \in Editors!Editor /\ w.editor # None
                    /\ w.editor.uid = x.uid /\ x.content \subseteq w.editor.content
                    /\ ~w.editor.dirty => w.editor.content = x.content
                    /\ w.rule = v.rule \/ v.rule = None \/ v.rule \in w.editor.content
  BY <1>0
<1> DEFINE none == {}
           visual == v.pending = x.uid
           rule == IF visual /\ v.rule # None THEN {v.rule} ELSE none
           dirty == rule # none
           content == x.content \cup rule
           editor == [uid |-> x.uid, visual |-> visual, content |-> content, dirty |-> dirty]
           left == IF visual THEN None ELSE v.rule
           confirm == FALSE
<1>1. w = [v EXCEPT !.pending = None, !.confirm = confirm, !.rule = left, !.editor = editor]
  BY DEF Editors!OnLoaded
<1>2. x.uid \in Editors!Uids /\ x.content \in SUBSET Edits
  BY DEF Answers
<1>3. v.rule \in Edits \cup {None} /\ left \in Edits \cup {None}
  BY FrameParts
<1>4. /\ rule \in SUBSET Edits /\ visual \in BOOLEAN /\ dirty \in BOOLEAN
      /\ confirm \in BOOLEAN
      /\ dirty <=> rule # none
  BY <1>3
<1>5. /\ content \in SUBSET Edits /\ x.content \subseteq content
      /\ (~dirty => content = x.content)
      /\ (left = v.rule \/ v.rule = None \/ v.rule \in content)
  BY <1>2, <1>4
<1> HIDE DEF visual, rule, dirty, content, left, confirm
<1>6. /\ editor \in Editors!Editor /\ editor.uid = x.uid /\ editor.content = content
      /\ editor.dirty = dirty
  BY <1>2, <1>4, <1>5 DEF Editors!Editor
<1> HIDE DEF editor
<1>7. w \in Frames /\ w.editor = editor /\ w.rule = left
  BY <1>1, <1>3, <1>4, <1>6 DEF Frames
<1>8. w.editor # None
  BY <1>6, <1>7 DEF Editors!EditorAssumption
<1> QED BY <1>5, <1>6, <1>7, <1>8

\* It stays what it is made of.
LEMMA ReadingTyped ==
  ASSUME Editors!EditorAssumption, EditorsTyped
  PROVE  \A k \in Nat : k <= Len(news) => Editors!After[k] \in Frames
<1> DEFINE S == {k \in Nat : k <= Len(news) => Editors!After[k] \in Frames}
<1>1. ui \in Frames /\ screen \in Editors!Shown /\ news \in Seq(Answers) /\ Len(news) \in Nat
  BY LenProperties DEF EditorsTyped
<1>2. 0 \in S
  <2>1. Editors!After[0] = [ui EXCEPT !.snap = screen]
    BY AfterEach
  <2>2. Editors!After[0] \in Frames
    BY <1>1, <2>1 DEF Frames
  <2> QED BY <2>2
<1>3. ASSUME NEW k \in S PROVE k + 1 \in S
  <2>1. SUFFICES ASSUME k + 1 <= Len(news) PROVE Editors!After[k + 1] \in Frames
    OBVIOUS
  <2>2. k \in Nat /\ Editors!After[k] \in Frames /\ k + 1 \in 1 .. Len(news)
    BY <1>1, <2>1
  <2> PICK x \in Answers : x = news[k + 1]
    BY <1>1, <2>2
  <2>3. Editors!After[k + 1] = Editors!OnEvent(Editors!After[k], x)
    BY <2>2, AfterEach
  <2>4. x.do \in {"loaded", "saved"}
    BY AnswerParts
  <2> QED BY <2>2, <2>3, <2>4, OnLoadedIs, OnSavedIs DEF Editors!OnEvent
<1> HIDE DEF S
<1>4. \A k \in Nat : k \in S
  BY <1>2, <1>3, Counting DEF S
<1> QED BY <1>4 DEF S

\* What an answer leaves in the editor fits.
LEMMA AnswerFits ==
  ASSUME Editors!EditorAssumption, EditorsTyped, LoadsFollowSaves, NEW k \in Nat,
         k + 1 <= Len(news),
         NEW v \in Frames, EditorFits(v, k),
         NEW w, w = Editors!OnEvent(v, news[k + 1])
  PROVE  EditorFits(w, k + 1)
<1>1. news \in Seq(Answers) /\ k + 1 \in 1 .. Len(news)
  BY LenProperties DEF EditorsTyped
<1> PICK x \in Answers : x = news[k + 1]
  BY <1>1
<1>2. x.do \in {"loaded", "saved"} /\ x.uid \in Editors!Uids
  BY AnswerParts
<1>3. ASSUME v.editor # None, w.editor = v.editor PROVE EditorFits(w, k + 1)
  <2>1. SavedAfter(k + 1, v.editor.uid) => SavedAfter(k, v.editor.uid)
    <3>1. \A i \in 1 .. Len(news) : i > k + 1 => i > k
      BY <1>1
    <3> QED BY <3>1 DEF SavedAfter
  <2> QED BY <1>3, <2>1 DEF EditorFits, Fits
<1>4. CASE x.do = "saved"
  <2>1. w = Editors!OnSaved(v, x)
    BY <1>4 DEF Editors!OnEvent
  <2>2. CASE w = v /\ (v.editor = None \/ v.editor.uid # x.uid)
    BY <1>3, <2>2 DEF EditorFits
  <2>3. CASE /\ v.editor \in Editors!Editor /\ w.editor \in Editors!Editor /\ v.editor # None
             /\ w.editor # None
             /\ v.editor.uid = x.uid /\ w.editor.uid = x.uid
             /\ w.editor.content = v.editor.content
    <3>1. Fits(v.editor, k)
      BY <2>3 DEF EditorFits
    <3>2. SavedAfter(k, v.editor.uid)
      <4>1. k + 1 > k
        OBVIOUS
      <4> QED BY <1>1, <1>4, <2>3, <4>1 DEF SavedAfter
    <3>3. v.editor.content = files[v.editor.uid]
      BY <3>1, <3>2 DEF Fits
    <3>4. Fits(w.editor, k + 1)
      BY <2>3, <3>1, <3>3 DEF Fits
    <3> QED BY <2>3, <3>4 DEF EditorFits
  <2> QED BY <2>1, <2>2, <2>3, OnSavedIs
<1>5. CASE x.do = "loaded"
  <2>1. w = Editors!OnLoaded(v, x)
    BY <1>5 DEF Editors!OnEvent
  <2>2. CASE w.editor = v.editor
    BY <1>3, <2>2 DEF EditorFits
  <2>3. CASE /\ w.editor \in Editors!Editor /\ w.editor # None /\ w.editor.uid = x.uid
             /\ ~w.editor.dirty => w.editor.content = x.content
    <3>1. x.content = files[x.uid]
      BY <1>1, <1>5 DEF LoadsFollowSaves, LoadedIsStored
    <3>2. Has(news, "loaded", x.uid)
      BY <1>1, <1>5 DEF Has
    <3>3. /\ ~Has(bridge, "saved", x.uid) /\ ~Doing("save", x.uid)
          /\ ~Has(requests, "save", x.uid)
      BY <1>2, <3>2 DEF LoadsFollowSaves
    <3>4. ~SavedAfter(k + 1, x.uid)
      <4>1. ASSUME NEW j \in 1 .. Len(news), j > k + 1, news[j].do = "saved",
                   news[j].uid = x.uid
            PROVE  FALSE
        <5>1. j < k + 1
          BY <1>1, <1>5, <4>1 DEF LoadsFollowSaves, LoadsLast
        <5> QED BY <4>1, <5>1
      <4> QED BY <4>1 DEF SavedAfter
    <3>5. Fits(w.editor, k + 1)
      BY <2>3, <3>1, <3>3, <3>4 DEF Fits, Has
    <3> QED BY <2>3, <3>5 DEF EditorFits
  <2> QED BY <1>5, <2>1, <2>2, <2>3, OnLoadedIs
<1> QED BY <1>2, <1>4, <1>5

\* So it is with all the news.
LEMMA NewsFit ==
  ASSUME Editors!EditorAssumption, EditorsTyped, LoadsFollowSaves, EditorFits(ui, 0)
  PROVE  \A k \in Nat : k <= Len(news) => EditorFits(Editors!After[k], k)
<1> DEFINE S == {k \in Nat : k <= Len(news) => EditorFits(Editors!After[k], k)}
<1>1. ui \in Frames /\ Len(news) \in Nat
  BY LenProperties DEF EditorsTyped
<1>2. 0 \in S
  <2>1. Editors!After[0] = [ui EXCEPT !.snap = screen]
    BY AfterEach
  <2>2. Editors!After[0].editor = ui.editor
    BY <1>1, <2>1 DEF Frames
  <2> QED BY <2>2 DEF EditorFits
<1>3. ASSUME NEW k \in S PROVE k + 1 \in S
  <2>1. SUFFICES ASSUME k + 1 <= Len(news) PROVE EditorFits(Editors!After[k + 1], k + 1)
    OBVIOUS
  <2>2. k \in Nat /\ k <= Len(news) /\ EditorFits(Editors!After[k], k)
    BY <1>1, <2>1
  <2>3. Editors!After[k] \in Frames
    BY <2>2, ReadingTyped
  <2>4. Editors!After[k + 1] = Editors!OnEvent(Editors!After[k], news[k + 1])
    BY <2>2, AfterEach
  <2> HIDE DEF S
  <2> QED BY <2>1, <2>2, <2>3, <2>4, AnswerFits
<1> HIDE DEF S
<1>4. \A k \in Nat : k \in S
  BY <1>2, <1>3, Counting DEF S
<1> QED BY <1>4 DEF S

LEMMA FrameKeeps ==
  ASSUME Editors!EditorAssumption, EditorsInv, Editors!Frame
  PROVE  EditorsInv'
<1> PICK n : n = Len(news)
  OBVIOUS
<1>1. /\ n \in Nat /\ ui' = Editors!After[n] /\ news' = <<>>
      /\ UNCHANGED <<files, current, requests, job, bridge, screen, made, givenUp>>
      /\ EditorsTyped
      /\ gaps' = gaps \/ gaps' = gaps \cup {"replaced"}
  BY LenProperties DEF Editors!Frame, EditorsInv, EditorsTyped
<1>2. ui' \in Frames
  BY <1>1, ReadingTyped
<1>3. news' \in Seq(Answers)
  BY <1>1, EmptySeq
<1>4. EditorsTyped'
  BY <1>1, <1>2, <1>3 DEF EditorsTyped
<1>5. ASSUME Whole' PROVE LoadsFollowSaves' /\ EditorFits(ui, 0)'
  <2>1. LoadsFollowSaves /\ EditorFits(ui, 0)
    BY <1>1, <1>5 DEF EditorsInv, Whole
  <2>2. EditorFits(Editors!After[n], n)
    BY <1>1, <2>1, NewsFit
  <2>3. \A do, u : /\ ~Has(news, do, u)'
                   /\ Has(bridge, do, u)' <=> Has(bridge, do, u)
                   /\ Has(requests, do, u)' <=> Has(requests, do, u)
                   /\ Doing(do, u)' <=> Doing(do, u)
    <3>1. \A do, u : ~Has(<<>>, do, u)
      BY NothingIn
    <3>2. \A do, u : Has(news, do, u)' <=> Has(<<>>, do, u)
      BY <1>1 DEF Has
    <3>3. \A do, u : /\ Has(bridge, do, u)' <=> Has(bridge, do, u)
                     /\ Has(requests, do, u)' <=> Has(requests, do, u)
                     /\ Doing(do, u)' <=> Doing(do, u)
      BY <1>1 DEF Has, Doing
    <3> QED BY <3>1, <3>2, <3>3
  <2>4. LoadsFollowSaves'
    <3>1. /\ LoadsLast(requests, "load", "save")' /\ LoadsLast(bridge, "loaded", "saved")'
          /\ LoadedIsStored(bridge)'
      BY <1>1, <2>1 DEF LoadsFollowSaves, LoadsLast, LoadedIsStored
    <3>2. LoadsLast(news, "loaded", "saved")' /\ LoadedIsStored(news)'
      <4>1. Len(news') = 0
        BY <1>1, EmptySeq
      <4> QED BY <4>1 DEF LoadsLast, LoadedIsStored
    <3> QED BY <2>1, <2>3, <3>1, <3>2 DEF LoadsFollowSaves
  <2>5. ASSUME ui'.editor # None PROVE Fits(ui.editor, 0)'
    <3> PICK e : e = ui'.editor
      OBVIOUS
    <3>1. Fits(e, n)
      BY <1>1, <2>2, <2>5 DEF EditorFits
    <3>2. ~SavedAfter(0, e.uid)'
      <4>1. Len(news') = 0
        BY <1>1, EmptySeq
      <4> QED BY <4>1 DEF SavedAfter
    <3> QED BY <1>1, <2>3, <3>1, <3>2 DEF Fits, Doing
  <2> QED BY <2>4, <2>5 DEF EditorFits
<1> QED BY <1>4, <1>5 DEF EditorsInv

\* An answer that is lost is one the interface need not have had.
LEMMA LagKeeps ==
  ASSUME Editors!EditorAssumption, EditorsInv, Editors!Lag
  PROVE  EditorsInv'
<1> PICK rest : rest = Tail(news)
  OBVIOUS
<1>1. /\ news # <<>> /\ news' = rest /\ news \in Seq(Answers)
      /\ UNCHANGED <<files, current, requests, job, bridge, screen, ui, made, givenUp, gaps>>
  BY DEF Editors!Lag, EditorsInv, EditorsTyped
<1>2. rest \in Seq(Answers)
  BY <1>1, Taken
<1>3. EditorsTyped'
  BY <1>1, <1>2 DEF EditorsInv, EditorsTyped
<1>4. ASSUME Whole' PROVE LoadsFollowSaves' /\ EditorFits(ui, 0)'
  <2>1. LoadsFollowSaves /\ EditorFits(ui, 0)
    BY <1>1, <1>4 DEF EditorsInv, Whole
  <2>2. LoadsLast(news, "loaded", "saved") /\ LoadedIsStored(news)
    BY <2>1 DEF LoadsFollowSaves
  <2>3. LoadsLast(rest, "loaded", "saved") /\ LoadedIsStored(rest)
    BY <1>1, <2>2, OrderTaken, StoredTaken
  <2>4. \A do, u : Has(rest, do, u) => Has(news, do, u)
    BY <1>1, HasTaken
  <2>5. \A do, u : /\ Has(news, do, u)' <=> Has(rest, do, u)
                   /\ Has(bridge, do, u)' <=> Has(bridge, do, u)
                   /\ Has(requests, do, u)' <=> Has(requests, do, u)
                   /\ Doing(do, u)' <=> Doing(do, u)
    BY <1>1 DEF Has, Doing
  <2>6. /\ LoadsLast(requests, "load", "save")' /\ LoadsLast(bridge, "loaded", "saved")'
        /\ LoadsLast(news, "loaded", "saved")' /\ LoadedIsStored(bridge)'
        /\ LoadedIsStored(news)'
    BY <1>1, <2>1, <2>3 DEF LoadsFollowSaves, LoadsLast, LoadedIsStored
  <2>7. LoadsFollowSaves'
    BY <2>1, <2>4, <2>5, <2>6 DEF LoadsFollowSaves
  <2>8. \A u : SavedAfter(0, u)' => SavedAfter(0, u)
    <3>1. \A u : SavedAfter(0, u)' => Has(news, "saved", u)'
      BY DEF SavedAfter, Has
    <3>2. \A u : Has(news, "saved", u) => SavedAfter(0, u)
      BY DEF SavedAfter, Has
    <3> QED BY <2>4, <2>5, <3>1, <3>2
  <2>9. ASSUME ui'.editor # None PROVE Fits(ui.editor, 0)'
    <3>1. ui' = ui /\ Fits(ui.editor, 0)
      BY <1>1, <2>1, <2>9 DEF EditorFits
    <3> QED BY <1>1, <2>5, <2>8, <3>1 DEF Fits, Doing
  <2> QED BY <2>7, <2>9 DEF EditorFits
<1> QED BY <1>3, <1>4 DEF EditorsInv

LEMMA EditorsStart ==
  ASSUME Editors!EditorAssumption, Editors!Init
  PROVE  EditorsInv
<1> DEFINE none == {}
<1>1. /\ <<>> \in Seq(Editors!Requests) /\ <<>> \in Seq(Answers \cup Snapshots)
      /\ <<>> \in Seq(Answers)
      /\ Len(<<>>) = 0
  BY EmptySeq
<1>2. none \in SUBSET Edits
  OBVIOUS
<1>3. /\ files = [u \in Editors!Uids |-> none] /\ made = none /\ givenUp = none
      /\ current \in Profiles /\ screen = [busy |-> FALSE, current |-> current]
      /\ requests = <<>> /\ job = None /\ bridge = <<>> /\ news = <<>>
      /\ ui = [snap |-> screen, editor |-> None, pending |-> None, rule |-> None,
               confirm |-> FALSE]
  BY DEF Editors!Init
<1> HIDE DEF none
<1>4. files \in [Editors!Uids -> SUBSET Edits]
  BY <1>2, <1>3
<1>5. screen \in Editors!Shown
  BY <1>3 DEF Editors!Shown
<1>6. ui \in Frames /\ ui.editor = None
  BY <1>3, <1>5 DEF Frames
<1>7. EditorsTyped
  BY <1>1, <1>2, <1>3, <1>4, <1>5, <1>6 DEF EditorsTyped, Editors!EditorAssumption
<1>8. LoadsFollowSaves
  BY <1>3, NothingIn DEF LoadsFollowSaves, Doing
<1> QED BY <1>6, <1>7, <1>8 DEF EditorsInv, EditorFits

LEMMA EditorsIdle ==
  ASSUME EditorsInv, UNCHANGED Editors!vars
  PROVE  EditorsInv'
<1>1. /\ UNCHANGED <<files, current, requests, job, bridge, news>>
      /\ UNCHANGED <<screen, ui, made, givenUp, gaps>>
  BY DEF Editors!vars
<1>2. EditorsTyped'
  BY <1>1 DEF EditorsInv, EditorsTyped
<1>3. LoadsFollowSaves' <=> LoadsFollowSaves
  BY <1>1 DEF LoadsFollowSaves, LoadsLast, LoadedIsStored, Has, Doing
<1>4. EditorFits(ui, 0)' <=> EditorFits(ui, 0)
  BY <1>1 DEF EditorFits, Fits, Has, Doing, SavedAfter
<1> QED BY <1>1, <1>2, <1>3, <1>4 DEF EditorsInv, Whole

LEMMA EditorsStay ==
  ASSUME Editors!EditorAssumption, EditorsInv, [Editors!Next]_(Editors!vars)
  PROVE  EditorsInv'
<1>1. CASE Editors!Next
  BY <1>1, UserKeeps, FrameKeeps, LagKeeps, HandlingKeeps, BeginKeeps, SucceedKeeps, FailKeeps
     DEF Editors!Next
<1> QED BY <1>1, EditorsIdle

\* What the interface shows when it is clean.
LEMMA EditorIsRight ==
  ASSUME Editors!EditorAssumption, EditorsInv
  PROVE  Editors!TypeOK /\ Editors!CleanMeansStored
<1>1. ui \in Frames
  BY DEF EditorsInv, EditorsTyped
<1>2. Editors!TypeOK
  BY <1>1, FrameParts DEF EditorsInv, EditorsTyped, Editors!TypeOK
<1>3. Editors!CleanMeansStored
  BY DEF EditorsInv, Whole, EditorFits, Fits, Editors!CleanMeansStored
<1> QED BY <1>2, <1>3

\* What is being saved of the file u takes nothing from it and is one and the same.
Agreed(u, content) ==
  /\ files[u] \subseteq content
  /\ \A i \in 1 .. Len(requests) :
       requests[i].do = "save" /\ requests[i].uid = u => requests[i].content = content
  /\ Doing("save", u) => job.content = content

SavesAgree == \A u \in Editors!Uids : \E content \in SUBSET Edits : Agreed(u, content)

\* When the interface is v, no edit has vanished, nor will with a save.
Kept(v) ==
  /\ v.editor # None => files[v.editor.uid] \subseteq v.editor.content
  /\ \A e \in made : \/ e \in Editors!Content(v.editor) \/ e = v.rule \/ e \in givenUp
                     \/ \E u \in Editors!Uids : e \in files[u]

KeptInv == gaps = {} => SavesAgree /\ Kept(ui)

LEMMA NoGap ==
  ASSUME EditorsInv, gaps = {}
  PROVE  LoadsFollowSaves /\ EditorFits(ui, 0)
BY DEF EditorsInv, Whole

\* An answer takes an edit from an editor only to leave it in its file.
LEMMA AnswerKeeps ==
  ASSUME Editors!EditorAssumption, EditorsTyped, LoadsFollowSaves, NEW k \in Nat,
         k + 1 <= Len(news),
         NEW v \in Frames, EditorFits(v, k), Kept(v), ~Editors!Lost(v, news[k + 1]),
         NEW w, w = Editors!OnEvent(v, news[k + 1])
  PROVE  Kept(w)
<1>1. /\ news \in Seq(Answers) /\ k + 1 \in 1 .. Len(news)
      /\ made \subseteq Edits /\ None \notin Edits
  BY LenProperties DEF EditorsTyped, Editors!EditorAssumption
<1> PICK x \in Answers : x = news[k + 1]
  BY <1>1
<1>2. x.do \in {"loaded", "saved"} /\ x.uid \in Editors!Uids
  BY AnswerParts
<1>3. ASSUME w.rule = v.rule, w.editor = v.editor PROVE Kept(w)
  BY <1>3 DEF Kept
<1>4. CASE x.do = "saved"
  <2>1. w = Editors!OnSaved(v, x)
    BY <1>4 DEF Editors!OnEvent
  <2>2. ASSUME w.rule = v.rule, v.editor # None, w.editor # None,
               v.editor.uid = w.editor.uid, w.editor.content = v.editor.content
        PROVE  Kept(w)
    BY <2>2 DEF Kept, Editors!Content
  <2> QED BY <1>3, <2>1, <2>2, OnSavedIs
<1>5. CASE x.do = "loaded"
  <2>1. w = Editors!OnLoaded(v, x)
    BY <1>5 DEF Editors!OnEvent
  <2>2. CASE w.editor = v.editor /\ w.rule = v.rule
    BY <1>3, <2>2
  <2>3. CASE /\ v.pending # x.uid \/ x.parses
             /\ w.editor # None /\ w.editor.uid = x.uid /\ x.content \subseteq w.editor.content
             /\ w.rule = v.rule \/ v.rule = None \/ v.rule \in w.editor.content
    <3>1. x.content = files[x.uid]
      BY <1>1, <1>5 DEF LoadsFollowSaves, LoadedIsStored
    <3>2. ASSUME NEW e \in Editors!Content(v.editor)
          PROVE  \E u \in Editors!Uids : e \in files[u]
      <4>1. v.editor # None /\ ~v.editor.dirty /\ e \in v.editor.content
        BY <1>5, <2>3, <3>2 DEF Editors!Content, Editors!Lost
      <4>2. v.editor.content = files[v.editor.uid]
        BY <4>1 DEF EditorFits, Fits
      <4>3. v.editor.uid \in Editors!Uids
        BY <4>1, FrameParts DEF Editors!Editor
      <4> QED BY <4>1, <4>2, <4>3
    <3>3. ASSUME NEW e \in made
          PROVE  \/ e \in Editors!Content(w.editor) \/ e = w.rule \/ e \in givenUp
                 \/ \E u \in Editors!Uids : e \in files[u]
      <4>1. \/ e \in Editors!Content(v.editor) \/ e = v.rule \/ e \in givenUp
            \/ \E u \in Editors!Uids : e \in files[u]
        BY DEF Kept
      <4>2. CASE e = v.rule
        BY <1>1, <2>3, <4>2 DEF Editors!Content
      <4> QED BY <3>2, <4>1, <4>2
    <3> QED BY <2>3, <3>1, <3>3 DEF Kept
  <2> QED BY <1>5, <2>1, <2>2, <2>3, OnLoadedIs
<1> QED BY <1>2, <1>4, <1>5

LEMMA NewsKept ==
  ASSUME Editors!EditorAssumption, EditorsTyped, LoadsFollowSaves, EditorFits(ui, 0), Kept(ui),
         \A i \in 1 .. Len(news) : ~Editors!Lost(Editors!After[i - 1], news[i])
  PROVE  \A k \in Nat : k <= Len(news) => Kept(Editors!After[k])
<1> DEFINE S == {k \in Nat : k <= Len(news) => Kept(Editors!After[k])}
<1>1. ui \in Frames /\ Len(news) \in Nat
  BY LenProperties DEF EditorsTyped
<1>2. 0 \in S
  <2>1. Editors!After[0] = [ui EXCEPT !.snap = screen]
    BY AfterEach
  <2>2. Editors!After[0].editor = ui.editor /\ Editors!After[0].rule = ui.rule
    BY <1>1, <2>1 DEF Frames
  <2> QED BY <2>2 DEF Kept
<1>3. ASSUME NEW k \in S PROVE k + 1 \in S
  <2>1. SUFFICES ASSUME k + 1 <= Len(news) PROVE Kept(Editors!After[k + 1])
    OBVIOUS
  <2>2. k \in Nat /\ k <= Len(news) /\ Kept(Editors!After[k]) /\ k + 1 \in 1 .. Len(news)
        /\ (k + 1) - 1 = k
    BY <1>1, <2>1
  <2>3. Editors!After[k] \in Frames /\ EditorFits(Editors!After[k], k)
    BY <2>2, ReadingTyped, NewsFit
  <2>4. Editors!After[k + 1] = Editors!OnEvent(Editors!After[k], news[k + 1])
    BY <2>2, AfterEach
  <2>5. ~Editors!Lost(Editors!After[k], news[k + 1])
    BY <2>2
  <2> HIDE DEF S
  <2> QED BY <2>1, <2>2, <2>3, <2>4, <2>5, AnswerKeeps
<1> HIDE DEF S
<1>4. \A k \in Nat : k \in S
  BY <1>2, <1>3, Counting DEF S
<1> QED BY <1>4 DEF S

LEMMA FrameKept ==
  ASSUME Editors!EditorAssumption, EditorsInv, KeptInv, Editors!Frame
  PROVE  KeptInv'
<1> SUFFICES ASSUME gaps' = {} PROVE SavesAgree' /\ Kept(ui)'
  BY DEF KeptInv
<1> PICK n : n = Len(news)
  OBVIOUS
<1>1. /\ n \in Nat /\ ui' = Editors!After[n] /\ DOMAIN news = 1 .. Len(news)
      /\ UNCHANGED <<files, requests, job, made, givenUp>>
      /\ EditorsTyped
      /\ gaps' = IF \E i \in DOMAIN news : Editors!Lost(Editors!After[i - 1], news[i])
                 THEN gaps \cup {"replaced"} ELSE gaps
  BY LenProperties DEF Editors!Frame, EditorsInv, EditorsTyped
<1>2. gaps = {} /\ \A i \in 1 .. Len(news) : ~Editors!Lost(Editors!After[i - 1], news[i])
  BY <1>1
<1>3. LoadsFollowSaves /\ EditorFits(ui, 0) /\ SavesAgree /\ Kept(ui)
  BY <1>2, NoGap DEF KeptInv
<1>4. Kept(Editors!After[n])
  BY <1>1, <1>2, <1>3, NewsKept
<1>5. Kept(ui)'
  BY <1>1, <1>4 DEF Kept
<1>6. SavesAgree'
  BY <1>1, <1>3 DEF SavesAgree, Agreed, Doing
<1> QED BY <1>5, <1>6

\* A request that is no save leaves those there are.
LEMMA AskedAgrees ==
  ASSUME Editors!EditorAssumption, EditorsInv, SavesAgree,
         \/ requests' = requests
         \/ \E r \in Editors!Requests : r.do # "save" /\ requests' = Editors!Requested(r),
         UNCHANGED <<files, job>>
  PROVE  SavesAgree'
<1>1. SUFFICES ASSUME NEW u \in Editors!Uids
               PROVE  \E content \in SUBSET Edits : Agreed(u, content)'
  BY DEF SavesAgree
<1>2. PICK content \in SUBSET Edits : Agreed(u, content)
  BY DEF SavesAgree
<1>3. CASE requests' = requests
  BY <1>2, <1>3 DEF Agreed, Doing
<1>4. ASSUME NEW r \in Editors!Requests, r.do # "save", requests' = Editors!Requested(r)
      PROVE  Agreed(u, content)'
  <2>1. \A i \in 1 .. Len(requests') :
          requests'[i] = r \/ \E j \in 1 .. Len(requests) : requests'[i] = requests[j]
    BY <1>4, Requesting DEF EditorsInv, EditorsTyped
  <2> QED BY <1>2, <1>4, <2>1 DEF Agreed, Doing
<1> QED BY <1>3, <1>4

\* The editor stays, and what waits for one, if anything does.
LEMMA WaitingKept ==
  ASSUME Editors!EditorAssumption, EditorsTyped, Kept(ui),
         ui'.editor = ui.editor, ui'.rule = ui.rule \/ ui.rule = None,
         made' = made \/ made' = made \cup {ui'.rule}, UNCHANGED <<files, givenUp>>
  PROVE  Kept(ui)'
<1>1. made \subseteq Edits /\ None \notin Edits
  BY DEF EditorsTyped, Editors!EditorAssumption
<1>2. ASSUME NEW e \in made'
      PROVE  \/ e \in Editors!Content(ui'.editor) \/ e = ui'.rule \/ e \in givenUp'
             \/ \E u \in Editors!Uids : e \in files'[u]
  <2>1. CASE e \in made
    BY <1>1, <2>1 DEF Kept
  <2> QED BY <2>1
<1> QED BY <1>2 DEF Kept

LEMMA TypeKept ==
  ASSUME Editors!EditorAssumption, EditorsInv, KeptInv, NEW e \in Edits, Editors!Type(e)
  PROVE  KeptInv'
<1> SUFFICES ASSUME gaps' = {} PROVE SavesAgree' /\ Kept(ui)'
  BY DEF KeptInv
<1> DEFINE content == ui.editor.content \cup {e}
           editor == [ui.editor EXCEPT !.content = content, !.dirty = TRUE]
<1>1. /\ ui \in Frames /\ ui.editor # None /\ gaps = {}
      /\ UNCHANGED <<files, requests, job, givenUp>> /\ made' = made \cup {e}
      /\ ui' = [ui EXCEPT !.editor = editor, !.confirm = FALSE]
  BY DEF Editors!Type, EditorsInv, EditorsTyped
<1>2. ui.editor \in Editors!Editor
  BY <1>1, FrameParts
<1>3. /\ content \in SUBSET Edits /\ ui.editor.content \subseteq content /\ e \in content
  BY <1>2 DEF Editors!Editor
<1> HIDE DEF content
<1>4. editor \in Editors!Editor /\ editor.uid = ui.editor.uid /\ editor.content = content
  BY <1>2, <1>3 DEF Editors!Editor
<1> HIDE DEF editor
<1>5. ui'.editor = editor /\ ui'.editor # None /\ ui'.rule = ui.rule
  BY <1>1, <1>4 DEF Frames, Editors!EditorAssumption
<1>6. SavesAgree /\ Kept(ui)
  BY <1>1 DEF KeptInv
<1>7. SavesAgree'
  BY <1>1, <1>6, AskedAgrees
<1>8. Kept(ui)'
  BY <1>1, <1>3, <1>4, <1>5, <1>6 DEF Kept, Editors!Content
<1> QED BY <1>7, <1>8

LEMMA SaveKept ==
  ASSUME Editors!EditorAssumption, EditorsInv, KeptInv, Editors!Save
  PROVE  KeptInv'
<1> SUFFICES ASSUME gaps' = {} PROVE SavesAgree' /\ Kept(ui)'
  BY DEF KeptInv
<1> DEFINE r == [do |-> "save", uid |-> ui.editor.uid, content |-> ui.editor.content]
<1>1. /\ ui.editor # None /\ requests' = Editors!Requested(r) /\ gaps = {}
      /\ UNCHANGED <<files, job, ui, made, givenUp>>
  BY DEF Editors!Save, Editors!Unsaved
<1>2. ui.editor \in Editors!Editor
  BY <1>1, FrameParts DEF EditorsInv, EditorsTyped
<1>3. /\ r \in Editors!Requests /\ r.do = "save" /\ r.uid = ui.editor.uid
      /\ r.content = ui.editor.content /\ ui.editor.content \in SUBSET Edits
  BY <1>2 DEF Editors!Editor, Editors!Requests
<1> HIDE DEF r
<1>4. \A i \in 1 .. Len(requests') :
        requests'[i] = r \/ \E j \in 1 .. Len(requests) : requests'[i] = requests[j]
  BY <1>1, <1>3, Requesting DEF EditorsInv, EditorsTyped
<1>5. Fits(ui.editor, 0) /\ SavesAgree /\ Kept(ui)
  BY <1>1, NoGap DEF KeptInv, EditorFits
<1>6. Kept(ui)'
  BY <1>1, <1>5 DEF Kept
<1>7. ASSUME NEW u \in Editors!Uids PROVE \E content \in SUBSET Edits : Agreed(u, content)'
  <2>1. CASE u = ui.editor.uid
    <3>1. Agreed(u, ui.editor.content)'
      BY <1>1, <1>3, <1>4, <1>5, <2>1 DEF Agreed, Fits, Kept, Doing
    <3> QED BY <1>1, <1>3, <3>1
  <2>2. CASE u # ui.editor.uid
    <3>1. PICK content \in SUBSET Edits : Agreed(u, content)
      BY <1>5 DEF SavesAgree
    <3>2. Agreed(u, content)'
      BY <1>1, <1>3, <1>4, <2>2, <3>1 DEF Agreed, Doing
    <3> QED BY <3>2
  <2> QED BY <2>1, <2>2
<1> QED BY <1>6, <1>7 DEF SavesAgree

\* What is clean is stored, and goes without being given up.
LEMMA CloseKept ==
  ASSUME Editors!EditorAssumption, EditorsInv, KeptInv, Editors!Close
  PROVE  KeptInv'
<1> SUFFICES ASSUME gaps' = {} PROVE SavesAgree' /\ Kept(ui)'
  BY DEF KeptInv
<1>1. /\ ui \in Frames /\ ui.editor # None /\ gaps = {}
      /\ UNCHANGED <<files, requests, job, made>>
  BY DEF Editors!Close, EditorsInv, EditorsTyped
<1>2. ui.editor \in Editors!Editor /\ ui.editor.uid \in Editors!Uids
  BY <1>1, FrameParts DEF Editors!Editor
<1>3. EditorFits(ui, 0) /\ SavesAgree /\ Kept(ui) /\ EditorsTyped
  BY <1>1, NoGap DEF KeptInv, EditorsInv
<1>4. SavesAgree'
  BY <1>1, <1>3, AskedAgrees
<1>5. CASE ui.editor.dirty /\ ~ui.confirm
  <2>1. ui' = [ui EXCEPT !.confirm = TRUE] /\ givenUp' = givenUp
    BY <1>5 DEF Editors!Close
  <2>2. ui'.editor = ui.editor /\ ui'.rule = ui.rule
    BY <1>1, <2>1 DEF Frames
  <2>3. Kept(ui)'
    BY <1>1, <1>3, <2>1, <2>2, WaitingKept
  <2> QED BY <1>4, <2>3
<1>6. CASE ~(ui.editor.dirty /\ ~ui.confirm)
  <2>1. /\ ui' = [ui EXCEPT !.editor = None, !.confirm = FALSE]
        /\ givenUp' = IF ui.editor.dirty THEN givenUp \cup ui.editor.content ELSE givenUp
    BY <1>6 DEF Editors!Close
  <2>2. ui'.editor = None /\ ui'.rule = ui.rule
    BY <1>1, <2>1 DEF Frames
  <2>3. ~ui.editor.dirty => ui.editor.content = files[ui.editor.uid]
    BY <1>1, <1>3 DEF EditorFits, Fits
  <2>4. ASSUME NEW e \in made
        PROVE  \/ e = ui'.rule \/ e \in givenUp' \/ \E u \in Editors!Uids : e \in files[u]
    <3>1. \/ e \in ui.editor.content \/ e = ui.rule \/ e \in givenUp
          \/ \E u \in Editors!Uids : e \in files[u]
      BY <1>1, <1>3 DEF Kept, Editors!Content
    <3> QED BY <1>2, <2>1, <2>2, <2>3, <3>1
  <2>5. Kept(ui)'
    BY <1>1, <2>2, <2>4 DEF Kept
  <2> QED BY <1>4, <2>5
<1> QED BY <1>5, <1>6

LEMMA UserKept ==
  ASSUME Editors!EditorAssumption, EditorsInv, KeptInv,
         \/ \E u \in Editors!Uids :
              Editors!OpenProfileEditor(u) \/ Editors!OpenSequenceEditor(u)
         \/ \E e \in Edits : Editors!AppendRule(e) \/ Editors!Type(e)
         \/ Editors!Save \/ Editors!Close \/ Editors!CancelClose
         \/ \E do \in {"activate", "update"}, p \in Profiles : Editors!Command(do, p)
  PROVE  KeptInv'
<1> DEFINE none == {}
           Asked == \/ requests' = requests
                    \/ \E r \in Editors!Requests :
                         r.do # "save" /\ requests' = Editors!Requested(r)
<1>1. ui \in Frames /\ EditorsTyped /\ none \in SUBSET Edits
  BY DEF EditorsInv, EditorsTyped
<1> HIDE DEF none
<1>2. Editors!RulesOf(ui.snap.current) \in Editors!Uids
  BY <1>1, FrameParts
<1>3. ASSUME NEW u \in Editors!Uids, NEW do \in {"load", "activate", "update"},
             requests' = Editors!Requested([do |-> do, uid |-> u, content |-> none])
      PROVE  Asked
  <2>1. /\ [do |-> do, uid |-> u, content |-> none] \in Editors!Requests
        /\ [do |-> do, uid |-> u, content |-> none].do # "save"
    BY <1>1 DEF Editors!Requests
  <2> QED BY <1>3, <2>1
<1>4. ASSUME Asked, UNCHANGED <<files, job, givenUp>>, ui'.editor = ui.editor,
             ui'.rule = ui.rule \/ ui.rule = None \/ gaps' # {},
             made' = made \/ made' = made \cup {ui'.rule}, gaps' = {} => gaps = {}
      PROVE  KeptInv'
  <2> SUFFICES ASSUME gaps' = {} PROVE SavesAgree' /\ Kept(ui)'
    BY DEF KeptInv
  <2>1. SavesAgree /\ Kept(ui)
    BY <1>4 DEF KeptInv
  <2>2. SavesAgree'
    BY <1>4, <2>1, AskedAgrees
  <2>3. Kept(ui)'
    BY <1>1, <1>4, <2>1, WaitingKept
  <2> QED BY <2>2, <2>3
<1>5. ASSUME NEW u \in Editors!Uids,
             Editors!OpenProfileEditor(u) \/ Editors!OpenSequenceEditor(u)
      PROVE  KeptInv'
  <2>1. /\ requests' = Editors!Requested([do |-> "load", uid |-> u, content |-> none])
        /\ ui' = [ui EXCEPT !.pending = None] \/ ui' = [ui EXCEPT !.pending = u]
        /\ UNCHANGED <<files, job, made, givenUp, gaps>>
    BY <1>5 DEF Editors!OpenProfileEditor, Editors!OpenSequenceEditor, none
  <2>2. ui'.editor = ui.editor /\ ui'.rule = ui.rule
    BY <1>1, <2>1 DEF Frames
  <2>3. Asked
    BY <1>3, <2>1
  <2> QED BY <1>4, <2>1, <2>2, <2>3
<1>6. ASSUME NEW e \in Edits, Editors!AppendRule(e) PROVE KeptInv'
  <2> PICK u \in Editors!Uids : u = Editors!RulesOf(ui.snap.current)
    BY <1>2
  <2>1. /\ requests' = Editors!Requested([do |-> "load", uid |-> u, content |-> none])
        /\ ui' = [ui EXCEPT !.rule = e, !.pending = u] /\ made' = made \cup {e}
        /\ gaps' = IF ui.rule = None THEN gaps ELSE gaps \cup {"superseded"}
        /\ UNCHANGED <<files, job, givenUp>>
    BY <1>6 DEF Editors!AppendRule, none
  <2>2. ui'.editor = ui.editor /\ ui'.rule = e
    BY <1>1, <2>1 DEF Frames
  <2>3. Asked
    BY <1>3, <2>1
  <2>4. (ui.rule = None \/ gaps' # {}) /\ (gaps' = {} => gaps = {})
    BY <2>1
  <2> QED BY <1>4, <2>1, <2>2, <2>3, <2>4
<1>7. ASSUME Editors!CancelClose PROVE KeptInv'
  <2>1. /\ ui' = [ui EXCEPT !.confirm = FALSE]
        /\ UNCHANGED <<files, requests, job, made, givenUp, gaps>>
    BY <1>7 DEF Editors!CancelClose
  <2>2. ui'.editor = ui.editor /\ ui'.rule = ui.rule
    BY <1>1, <2>1 DEF Frames
  <2> QED BY <1>4, <2>1, <2>2
<1>8. ASSUME NEW do \in {"activate", "update"}, NEW p \in Profiles, Editors!Command(do, p)
      PROVE  KeptInv'
  <2>1. <<p, "source">> \in Editors!Uids
    BY DEF Editors!Uids
  <2>2. /\ requests' = Editors!Requested([do |-> do, uid |-> <<p, "source">>,
                                          content |-> none])
        /\ UNCHANGED <<files, job, ui, made, givenUp, gaps>>
    BY <1>8 DEF Editors!Command, none
  <2>3. Asked
    BY <1>3, <2>1, <2>2
  <2> QED BY <1>4, <2>2, <2>3
<1> HIDE DEF Asked
<1> QED BY <1>5, <1>6, <1>7, <1>8, TypeKept, SaveKept, CloseKept

LEMMA WorkerKept ==
  ASSUME Editors!EditorAssumption, EditorsInv, KeptInv,
         \/ Editors!HandleProfileEvent \/ Editors!Lag \/ Editors!Begin \/ Editors!Fail
         \/ \E parses \in BOOLEAN : Editors!Succeed(parses)
  PROVE  KeptInv'
<1> SUFFICES ASSUME gaps' = {} PROVE SavesAgree' /\ Kept(ui)'
  BY DEF KeptInv
<1>1. /\ UNCHANGED <<ui, made, givenUp>>
      /\ requests \in Seq(Editors!Requests) /\ job \in Editors!Requests \cup {None}
      /\ files \in [Editors!Uids -> SUBSET Edits] /\ None \notin Editors!Requests
  BY DEF Editors!HandleProfileEvent, Editors!Lag, Editors!Begin, Editors!Fail, Editors!Succeed,
         EditorsInv, EditorsTyped, Editors!EditorAssumption
<1>2. gaps = {}
  BY DEF Editors!HandleProfileEvent, Editors!Lag, Editors!Begin, Editors!Fail, Editors!Succeed
<1>3. EditorFits(ui, 0) /\ SavesAgree /\ Kept(ui)
  BY <1>2, NoGap DEF KeptInv
<1>4. CASE Editors!HandleProfileEvent \/ Editors!Lag
  <2>1. UNCHANGED <<files, requests, job>>
    BY <1>4 DEF Editors!HandleProfileEvent, Editors!Lag
  <2>2. ASSUME NEW u, NEW content, Agreed(u, content) PROVE Agreed(u, content)'
    BY <2>1, <2>2 DEF Agreed, Doing
  <2>3. SavesAgree'
    BY <1>3, <2>2 DEF SavesAgree
  <2> QED BY <1>1, <1>3, <2>1, <2>3 DEF Kept
<1>5. CASE Editors!Begin
  <2> PICK r : r = Head(requests)
    OBVIOUS
  <2> PICK rest : rest = Tail(requests)
    OBVIOUS
  <2>1. requests # <<>> /\ job' = r /\ requests' = rest /\ files' = files
    BY <1>5 DEF Editors!Begin
  <2>2. /\ r = requests[1] /\ 1 \in 1 .. Len(requests)
        /\ \A i \in 1 .. Len(rest) : i + 1 \in 1 .. Len(requests) /\ rest[i] = requests[i + 1]
    <3>1. /\ r = requests[1] /\ Len(requests) \in Nat \ {0}
          /\ \A i \in 1 .. Len(rest) :
               i + 1 \in 1 .. Len(requests) /\ rest[i] = requests[i + 1]
      BY <1>1, <2>1, Taken
    <3> QED BY <3>1
  <2>3. ASSUME NEW u, NEW content, Agreed(u, content) PROVE Agreed(u, content)'
    BY <2>1, <2>2, <2>3 DEF Agreed, Doing
  <2>4. SavesAgree'
    BY <1>3, <2>3 DEF SavesAgree
  <2> QED BY <1>1, <1>3, <2>1, <2>4 DEF Kept
<1>6. CASE Editors!Fail
  <2>1. UNCHANGED <<files, requests>> /\ job' = None
    BY <1>6 DEF Editors!Fail
  <2>2. ASSUME NEW u, NEW content, Agreed(u, content) PROVE Agreed(u, content)'
    BY <2>1, <2>2 DEF Agreed, Doing
  <2>3. SavesAgree'
    BY <1>3, <2>2 DEF SavesAgree
  <2> QED BY <1>1, <1>3, <2>1, <2>3 DEF Kept
<1>7. ASSUME NEW parses \in BOOLEAN, Editors!Succeed(parses) PROVE SavesAgree' /\ Kept(ui)'
  <2>1. job # None /\ UNCHANGED requests /\ job' = None /\ job \in Editors!Requests
    BY <1>1, <1>7 DEF Editors!Succeed
  <2>2. job.do \in {"load", "save", "activate", "update"} /\ job.uid \in Editors!Uids
    BY <2>1 DEF Editors!Requests
  <2>3. job.do # "update"
    BY <1>7 DEF Editors!Succeed
  <2>4. CASE job.do # "save"
    <3>1. files' = files
      BY <1>7, <2>2, <2>3, <2>4 DEF Editors!Succeed
    <3> QED BY SMTT(30), <1>1, <1>3, <2>1, <3>1 DEF SavesAgree, Agreed, Doing, Kept
  <2>5. CASE job.do = "save"
    <3>1. files' = [files EXCEPT ![job.uid] = job.content]
      BY <1>7, <2>5 DEF Editors!Succeed
    <3>2. /\ files'[job.uid] = job.content
          /\ \A u \in Editors!Uids : u # job.uid => files'[u] = files[u]
      BY <1>1, <2>2, <3>1
    <3>3. Doing("save", job.uid)
      BY <2>1, <2>5 DEF Doing
    <3>4. \A u \in Editors!Uids : files[u] \subseteq files'[u]
      <4>1. files[job.uid] \subseteq job.content
        BY <1>3, <2>2, <3>3 DEF SavesAgree, Agreed
      <4> QED BY <3>2, <4>1
    <3>5. ASSUME NEW u \in Editors!Uids, NEW content, Agreed(u, content)
          PROVE  Agreed(u, content)'
      <4>1. files'[u] \subseteq content
        BY <3>2, <3>3, <3>5 DEF Agreed
      <4> QED BY <2>1, <3>5, <4>1 DEF Agreed, Doing
    <3>6. SavesAgree'
      BY <1>3, <3>5 DEF SavesAgree
    <3>7. ASSUME ui.editor # None PROVE files'[ui.editor.uid] \subseteq ui.editor.content
      <4>1. ui.editor.uid \in Editors!Uids
        BY <3>7, FrameParts DEF EditorsInv, EditorsTyped, Editors!Editor
      <4>2. CASE ui.editor.uid = job.uid
        BY <1>3, <3>2, <3>3, <3>7, <4>2 DEF EditorFits, Fits
      <4>3. CASE ui.editor.uid # job.uid
        BY <1>3, <3>2, <3>7, <4>1, <4>3 DEF Kept
      <4> QED BY <4>2, <4>3
    <3>8. Kept(ui)'
      BY <1>1, <1>3, <3>4, <3>7 DEF Kept
    <3> QED BY <3>6, <3>8
  <2> QED BY <2>4, <2>5
<1> QED BY <1>4, <1>5, <1>6, <1>7

LEMMA KeptStays ==
  ASSUME Editors!EditorAssumption, EditorsInv, KeptInv, [Editors!Next]_(Editors!vars)
  PROVE  KeptInv'
<1>1. CASE Editors!Next
  BY <1>1, UserKept, FrameKept, WorkerKept DEF Editors!Next
<1>2. CASE UNCHANGED Editors!vars
  BY <1>2 DEF Editors!vars, KeptInv, SavesAgree, Agreed, Doing, Kept
<1> QED BY <1>1, <1>2

LEMMA KeptStarts ==
  ASSUME Editors!EditorAssumption, Editors!Init
  PROVE  KeptInv
<1> DEFINE none == {}
<1>1. /\ files = [u \in Editors!Uids |-> none] /\ made = none /\ requests = <<>> /\ job = None
      /\ ui.editor = None /\ none \in SUBSET Edits /\ Len(<<>>) = 0
  BY EmptySeq DEF Editors!Init
<1>2. ASSUME NEW u \in Editors!Uids PROVE Agreed(u, none)
  BY <1>1 DEF Agreed, Doing
<1> QED BY <1>1, <1>2 DEF KeptInv, SavesAgree, Kept

LEMMA EditsStay ==
  ASSUME KeptInv
  PROVE  Editors!NoEditVanishes
<1> SUFFICES ASSUME gaps = {}, NEW e \in made
             PROVE  e \in Editors!Content(ui.editor) \cup {ui.rule} \cup givenUp
                            \cup UNION {files[u] : u \in Editors!Uids}
  BY DEF Editors!NoEditVanishes
<1> QED BY DEF KeptInv, Kept

-----------------------------------------------------------------------------
(* The theorems                                                            *)

\* A behaviour is one of a single part, whose invariant holds.
DesktopInv ==
  /\ part \in {"shell", "draft", "editors"}
  /\ part = "shell" => ShellInv
  /\ part = "draft" => DraftInv
  /\ part = "editors" => EditorsInv /\ KeptInv

\* A step is one of the part that is in play, or of none.
LEMMA StepOfOnePart ==
  ASSUME DesktopInv, [DesktopNext]_allVars
  PROVE  /\ part' = part
         /\ part = "shell" => [Next]_vars
         /\ part = "draft" => [Draft!Next]_(Draft!vars)
         /\ part = "editors" => [Editors!Next]_(Editors!vars)
<1>1. CASE UNCHANGED allVars
  <2>1. /\ UNCHANGED <<part, path, proc, backlog, shell, fate, gaps, inputs>>
        /\ UNCHANGED <<files, current, made, givenUp, file, worker>>
        /\ UNCHANGED <<requests, job, bridge, screen, news, ui>>
    BY <1>1 DEF allVars, ofShell, ofEditors, ofDraft, ofPages
  <2> QED BY <2>1 DEF vars, Draft!vars, Editors!vars
<1>2. CASE ShellNext
  BY <1>2 DEF ShellNext
<1>3. CASE DraftNext
  BY <1>3 DEF DraftNext
<1>4. CASE EditorsNext
  BY <1>4 DEF EditorsNext
<1> QED BY <1>1, <1>2, <1>3, <1>4 DEF DesktopNext

\* The invariant of the part that is in play holds.
THEOREM DesktopIsGood == DesktopSpec => []DesktopInv
<1>1. DesktopInit => DesktopInv
  BY ShellAssumption, PagesAssumption, ShellStarts, DraftStarts, EditorsStart, KeptStarts
     DEF DesktopInit, DesktopInv
<1>2. DesktopInv /\ [DesktopNext]_allVars => DesktopInv'
  <2> SUFFICES ASSUME DesktopInv, [DesktopNext]_allVars PROVE DesktopInv'
    OBVIOUS
  <2>1. /\ part' = part
        /\ part = "shell" => [Next]_vars
        /\ part = "draft" => [Draft!Next]_(Draft!vars)
        /\ part = "editors" => [Editors!Next]_(Editors!vars)
    BY StepOfOnePart
  <2>2. part = "shell" => ShellInv'
    BY <2>1, ShellAssumption, ShellStays DEF DesktopInv
  <2>3. part = "draft" => DraftInv'
    BY <2>1, PagesAssumption, DraftStays DEF DesktopInv
  <2>4. part = "editors" => EditorsInv' /\ KeptInv'
    BY <2>1, PagesAssumption, EditorsStay, KeptStays DEF DesktopInv
  <2> QED BY <2>1, <2>2, <2>3, <2>4 DEF DesktopInv
<1> QED BY <1>1, <1>2, PTL DEF DesktopSpec

\* Of the launches that look for the socket, remove what a crash left there, forward or end, no
\* two come to be primary, except where two find the same stale socket, an instance that ends
\* removes the socket of the next, a request is too long to encode, or a listener fails.
THEOREM OnePrimaryOnly == DesktopSpec => []OnlyOnePrimary
<1>1. DesktopInv => OnlyOnePrimary
  BY NoOtherPrimary DEF DesktopInv, OnlyOnePrimary
<1> QED BY <1>1, DesktopIsGood, PTL

\* A window that the user has closed can be had back from the icon, unless the setting of the
\* icon was turned off while it was away or the icon could not be shown again.  Whatever has
\* hidden a window, and with an icon or without, the next launch reaches its instance, with the
\* exceptions of OnePrimaryOnly.
THEOREM ClosedKeepsIcon == DesktopSpec => []ClosedHasIcon
<1>1. DesktopInv => ClosedHasIcon
  BY HiddenHasIcon DEF DesktopInv, ClosedHasIcon
<1> QED BY <1>1, DesktopIsGood, PTL

\* A request that a second launch has forwarded waits where somebody listens, until it is
\* served, or lost with the instance, its listener or a full queue.
THEOREM LaunchesStayHeard == DesktopSpec => []LaunchesAreHeard
<1>1. DesktopInv => LaunchesAreHeard
  <2> SUFFICES ASSUME DesktopInv, part = "shell" PROVE TypeOK /\ EveryLaunchIsHeard
    BY DEF LaunchesAreHeard
  <2>1. ShellInv
    BY DEF DesktopInv
  <2> QED BY <2>1, ShellAssumption, ShellIsTyped, LaunchIsHeard DEF ShellInv
<1> QED BY <1>1, DesktopIsGood, PTL

\* An editor without unsaved edits shows what is stored, except where edits, a save and a load
\* of one file overlap or a subscription is updated.  The settings page, when nothing is under
\* way, shows the file; its draft, when it is being changed, has been made from it, except where
\* an event reached the page under an older snapshot, or was lost.
THEOREM PagesShowFiles == DesktopSpec => []PagesShowTheFiles
<1>1. DesktopInv => PagesShowTheFiles
  BY PagesAssumption, PageIsRight, EditorIsRight DEF DesktopInv, PagesShowTheFiles
<1> QED BY <1>1, DesktopIsGood, PTL

\* Every edit, typed or generated, is in the editor, waits for it, is in a file, where no later
\* save undoes it, or was given up at the user's word; except where a file replaces unsaved
\* edits, a rule another that waits, and in the cases that PagesShowFiles leaves out.
THEOREM EditsAreKept == DesktopSpec => []NoEditVanishes
<1>1. DesktopInv => NoEditVanishes
  BY EditsStay DEF DesktopInv, NoEditVanishes
<1> QED BY <1>1, DesktopIsGood, PTL

\* A request made from what the file holds changes no field but those its author touched.
THEOREM OthersFieldsAreKept == DesktopSpec => OthersFieldsSurvive
<1>1. DesktopInv /\ [DesktopNext]_allVars => [part = "draft" => Draft!FieldsKept]_allVars
  BY PagesAssumption, StepOfOnePart, OthersFieldsStay DEF DesktopInv
<1> QED BY <1>1, DesktopIsGood, PTL DEF DesktopSpec, OthersFieldsSurvive
=============================================================================

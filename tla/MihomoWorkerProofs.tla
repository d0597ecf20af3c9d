--------------------------- MODULE MihomoWorkerProofs ---------------------------
(***************************************************************************)
(* What the run `mihomo' checks of the Mihomo worker, for any nodes,       *)
(* profiles and modes, any number of connections and inputs and any        *)
(* capacity: a connection is listed as closed once, the node stored for    *)
(* the current profile is the one in use, connections of a node that was   *)
(* left are closed, and the window shows what the worker and the core do.  *)
(*                                                                         *)
(* The last three are promised at rest only and none is inductive.  Each   *)
(* gets the form "the last message of its kind in the channel says so, or  *)
(* there is none and it is so" (Follows): for the snapshot, the page, the  *)
(* node to restore and the node selected, which passes two channels.  A    *)
(* connection of a node that was left has the order to close it under way  *)
(* in one of four forms (OnItsWay).                                        *)
(*                                                                         *)
(* Most steps touch neither selections nor restores (Passing, Serving,     *)
(* Outside); SelectProxy, the steps of a restore and those of the profile  *)
(* worker do, each in a lemma of its own.                                  *)
(***************************************************************************)
EXTENDS MCMihomoWorker, FiniteSetTheorems, SequenceTheorems, TLAPS

\* What the channels carry.
StreamKinds == {"traffic", "memory", "connections", "logs"}
Selections == [node : Nodes, previous : Nodes \cup {None}]
Presentations == [page : AllPages, visible : BOOLEAN]

Commands ==
  [do : {"sync"}, with : Sync] \cup [do : {"state"}, with : Modes \cup {None}]
  \cup [do : {"show"}, with : Presentations] \cup [do : {"select", "leave"}, with : Nodes]
  \cup [do : {"close"}, with : SUBSET Ids] \cup [do : {"pause"}, with : BOOLEAN]
  \cup [do : {"clear", "refresh", "test"}, with : {None}]

Events == [do : {"view"}, with : View] \cup [do : {"selected"}, with : Selections]
Orders == [do : {"persist"}, with : Selections] \cup [do : {"activate"}, with : Profiles]

\* TypeOK with whole records.
WorkerTyped(w) ==
  /\ w \in [active : Modes \cup {None}, view : View, node : Nodes \cup {None},
            paused : BOOLEAN, page : AllPages, visible : BOOLEAN,
            streams : SUBSET StreamKinds, items : Seq(SUBSET Ids),
            connections : SUBSET Ids, closed : Seq(Ids), dirty : BOOLEAN,
            pending : Sync \cup {None}, events : Seq(Events), lost : BOOLEAN, late : BOOLEAN]
  /\ Len(w.items) <= 1 /\ Len(w.closed) <= Kept /\ Len(w.events) <= Capacity

CoreTyped(c) ==
  c \in [mode : Modes \cup {None}, profile : Profiles \cup {None},
         node : Nodes \cup {None}, conns : Connections]

Gaps == {"failed", "dropped", "crossed", "reset", "kept", "unread", "overtaken"}

Typed ==
  /\ CoreTyped(core) /\ WorkerTyped(worker) /\ unseen \in BOOLEAN
  /\ commands \in Seq(Commands) /\ Len(commands) <= Capacity
  /\ queue \in Seq(Orders) /\ Len(queue) <= Capacity
  /\ screen \in [view : View, page : AllPages, visible : BOOLEAN]
  /\ catalog \in [current : Profiles, stored : [Profiles -> Nodes \cup {None}]]
  /\ job \in Jobs \cup {None}
  /\ used \in 0..MaxConnections /\ gaps \subseteq Gaps /\ inputs \in 0..MaxInputs

\* The last message that does `do' carries one of the values; there is none; there is one of
\* the values among them; the last has been sent, or has arrived.
Ends(channel, do, values) ==
  \E i \in 1 .. Len(channel) :
    /\ channel[i].do = do /\ channel[i].with \in values
    /\ \A j \in i + 1 .. Len(channel) : channel[j].do # do

Lacks(channel, do) == \A i \in 1 .. Len(channel) : channel[i].do # do

Holds(channel, do, values) ==
  \E i \in 1 .. Len(channel) : channel[i].do = do /\ channel[i].with \in values

Follows(channel, do, values, arrived) ==
  Ends(channel, do, values) \/ (Lacks(channel, do) /\ arrived)

\* A core that runs, or is reloaded, has the current profile and a node of it; one that is
\* stopped has no connections, and ids are given out in order.
CoreFits ==
  /\ (core.mode # None \/ (job # None /\ job.mode # None)) =>
       core.profile = catalog.current /\ core.node \in Nodes
  /\ job # None => core.mode = None
  /\ core.mode = None /\ (job = None \/ job.mode = None) => core.conns = NoConnections
  /\ Open(core.conns) \subseteq 1 .. used

\* The latest snapshot is on its way, or it is the one shown.
Shown(w, view) == ~w.lost => Follows(w.events, "view", {w.view}, view = w.view)

\* The status tells whether the worker has a controller, but for a late snapshot.
StatusFits(w) == ~w.late => (w.active = None <=> w.view.status = "offline")

\* What every handler keeps of the worker, beside a window that shows `view'.
WorkerFits(w, view) ==
  /\ WorkerTyped(w) /\ w.streams \subseteq Wanted(w)
  /\ Shown(w, view) /\ StatusFits(w)

\* The worker's snapshot is what the window shows or is told, and the worker serves the page
\* it shows or is told of the page.
WindowFollows ==
  /\ WorkerFits(worker, screen.view) /\ ~worker.view.busy
  /\ "dropped" \notin gaps =>
       Follows(commands, "show", {[page |-> screen.page, visible |-> screen.visible]},
               worker.page = screen.page /\ worker.visible = screen.visible)

\* The lists a worker has are those of a core with the connections `open', of `n' so far.
ListsFit(w, open, n) ==
  /\ IsInjective(w.closed)
  /\ w.connections \subseteq 1 .. n
  /\ \A k \in DOMAIN w.closed :
       w.closed[k] \in 1 .. n /\ w.closed[k] \notin w.connections /\ w.closed[k] \notin open
  /\ \A k \in DOMAIN w.items :
       /\ w.items[k] \subseteq 1 .. n
       /\ w.connections \cap open \subseteq w.items[k]
       /\ \A m \in DOMAIN w.closed : w.closed[m] \notin w.items[k]

ClosedOnce == "overtaken" \notin gaps => ListsFit(worker, Open(core.conns), used)

\* Selections and restores of a node, selections that leave one, restores that close.
With(values, node) == {v \in values : v.node = node}
Leaving(node) == {s \in Selections : s.previous = node}
Closing == {s \in Sync : s.close}

StoredNode == catalog.stored[catalog.current]
Waiting == ~Lacks(commands, "sync") \/ worker.pending # None

\* Only the sync of the start keeps connections, and it is the first.
Keeping == {s \in Sync : ~s.close}

OnlyFirstKeeps(c) ==
  \A j \in 1 .. Len(c) :
    c[j].do = "sync" /\ ~c[j].with.close => \A i \in 1 .. j - 1 : c[i].do # "sync"

\* A restore waits for a controller only without one, and closes unless it is the first.
Restores ==
  /\ worker.pending # None => worker.active = None /\ ~Holds(commands, "sync", Keeping)
  /\ job # None => job.sync.close
  /\ OnlyFirstKeeps(commands)

\* No selection waits behind an activation.
PersistsFirst(q) ==
  \A j \in 1 .. Len(q) : q[j].do = "persist" => \A i \in 1 .. j : q[i].do = "persist"

\* The last restore under way is that of the node stored for the current profile.  With none
\* under way the node in use is stored, or the selection of it is on its way to the catalogue.
SelectionsFollow ==
  gaps \cap {"failed", "dropped", "crossed", "reset"} = {} =>
    /\ job # None \/ Waiting => Lacks(worker.events, "selected") /\ Lacks(queue, "persist")
    /\ PersistsFirst(queue)
    /\ job # None => job.sync.node = catalog.stored[job.profile]
    /\ Follows(commands, "sync", With(Sync, StoredNode),
               worker.pending = None \/ worker.pending.node = StoredNode)
    /\ ~Waiting =>
         Follows(worker.events, "selected", With(Selections, core.node),
           Follows(queue, "persist", With(Selections, core.node),
             StoredNode \in Offers[catalog.current] => core.node = StoredNode))

\* Whatever will have the connections of a node closed: the order itself, the selection that
\* gives the order when it is stored, or a restore with the close policy.
OnItsWay(node) ==
  \/ Holds(commands, "leave", {node}) \/ Holds(queue, "persist", Leaving(node))
  \/ Holds(worker.events, "selected", Leaving(node))
  \/ Holds(commands, "sync", Closing) \/ worker.pending \in Closing

LeftAreClosed ==
  gaps \cap {"failed", "dropped", "crossed", "reset", "kept", "unread"} = {} =>
    \A id \in Open(core.conns) : core.conns[id] = core.node \/ OnItsWay(core.conns[id])

\* The inductive invariant.
WorkerInv ==
  /\ Typed /\ CoreFits /\ WindowFollows /\ ClosedOnce
  /\ Restores /\ SelectionsFollow /\ LeftAreClosed

-----------------------------------------------------------------------------
(* Channels                                                                *)

LEMMA Appended ==
  ASSUME NEW M, NEW c \in Seq(M), NEW x \in M
  PROVE  /\ Append(c, x) \in Seq(M) /\ Len(Append(c, x)) = Len(c) + 1 /\ Len(c) \in Nat
         /\ \A i \in 1 .. Len(c) : Append(c, x)[i] = c[i]
         /\ Append(c, x)[Len(c) + 1] = x
BY AppendProperties, LenProperties

LEMMA Taken ==
  ASSUME NEW M, NEW c \in Seq(M), c # <<>>
  PROVE  /\ Head(c) \in M /\ Head(c) = c[1]
         /\ Tail(c) \in Seq(M) /\ Len(Tail(c)) = Len(c) - 1
         /\ Len(c) \in Nat /\ Len(c) >= 1
         /\ \A i \in 1 .. Len(Tail(c)) : Tail(c)[i] = c[i + 1] /\ i + 1 \in 1 .. Len(c)
BY HeadTailProperties, LenProperties, EmptySeq

LEMMA Nothing == \A do, values : Lacks(<<>>, do) /\ ~Ends(<<>>, do, values)
                                /\ ~Holds(<<>>, do, values)
BY EmptySeq DEF Lacks, Ends, Holds

LEMMA AfterAppend ==
  ASSUME NEW M, NEW c \in Seq(M), NEW x \in M, NEW do
  PROVE  /\ Lacks(Append(c, x), do) <=> (Lacks(c, do) /\ x.do # do)
         /\ \A values :
              /\ x.do = do /\ x.with \in values =>
                   Ends(Append(c, x), do, values) /\ Holds(Append(c, x), do, values)
              /\ x.do # do /\ Ends(c, do, values) => Ends(Append(c, x), do, values)
              /\ Holds(c, do, values) => Holds(Append(c, x), do, values)
<1> DEFINE d == Append(c, x)
           n == Len(c)
<1>1. /\ n \in Nat /\ Len(d) = n + 1
      /\ \A i \in 1 .. n : d[i] = c[i]
      /\ d[n + 1] = x
  BY Appended
<1> HIDE DEF d, n
<1>2. \A j \in 1 .. Len(d) : j = n + 1 \/ j \in 1 .. n
  BY <1>1
<1>3. n + 1 \in 1 .. Len(d) /\ \A j \in 1 .. n : j \in 1 .. Len(d)
  BY <1>1
<1>4. Lacks(d, do) <=> (Lacks(c, do) /\ x.do # do)
  BY <1>1, <1>2, <1>3 DEF Lacks, n
<1>5. ASSUME NEW values, x.do = do, x.with \in values
      PROVE  Ends(d, do, values) /\ Holds(d, do, values)
  <2>1. \A j \in (n + 1) + 1 .. Len(d) : FALSE
    BY <1>1
  <2> QED BY <1>1, <1>3, <1>5, <2>1 DEF Ends, Holds
<1>6. ASSUME NEW values, x.do # do, Ends(c, do, values) PROVE Ends(d, do, values)
  <2>1. PICK i \in 1 .. n : /\ c[i].do = do /\ c[i].with \in values
                            /\ \A j \in i + 1 .. n : c[j].do # do
    BY <1>6 DEF Ends, n
  <2>2. \A j \in i + 1 .. Len(d) : j = n + 1 \/ (j \in i + 1 .. n /\ j \in 1 .. n)
    BY <1>1, <2>1
  <2>3. \A j \in i + 1 .. Len(d) : d[j].do # do
    BY <1>1, <1>6, <2>1, <2>2
  <2> QED BY <1>1, <1>3, <2>1, <2>3 DEF Ends
<1>7. ASSUME NEW values, Holds(c, do, values) PROVE Holds(d, do, values)
  BY <1>1, <1>3, <1>7 DEF Holds, n
<1> QED BY <1>4, <1>5, <1>6, <1>7 DEF d

LEMMA AfterTail ==
  ASSUME NEW M, NEW c \in Seq(M), c # <<>>, NEW do
  PROVE  /\ Lacks(c, do) <=> (Lacks(Tail(c), do) /\ Head(c).do # do)
         /\ \A values :
              /\ Ends(c, do, values) =>
                   \/ Ends(Tail(c), do, values)
                   \/ Lacks(Tail(c), do) /\ Head(c).do = do /\ Head(c).with \in values
              /\ Holds(c, do, values) =>
                   Holds(Tail(c), do, values) \/ (Head(c).do = do /\ Head(c).with \in values)
<1> DEFINE d == Tail(c)
           n == Len(c)
<1>1. /\ n \in Nat /\ n >= 1 /\ Len(d) = n - 1
      /\ \A i \in 1 .. Len(d) : d[i] = c[i + 1] /\ i + 1 \in 1 .. n
      /\ Head(c) = c[1]
  BY Taken
<1> HIDE DEF d, n
<1>2. \A i \in 1 .. n : i = 1 \/ (i - 1 \in 1 .. Len(d) /\ (i - 1) + 1 = i)
  BY <1>1
<1>3. 1 \in 1 .. n
  BY <1>1
<1>4. \A i \in 1 .. n : i = 1 \/ (i - 1 \in 1 .. Len(d) /\ d[i - 1] = c[i])
  BY <1>1, <1>2
<1>5. Lacks(c, do) <=> (Lacks(d, do) /\ Head(c).do # do)
  <2>1. ASSUME Lacks(c, do) PROVE Lacks(d, do) /\ Head(c).do # do
    BY <1>1, <1>3, <2>1 DEF Lacks, n
  <2>2. ASSUME Lacks(d, do), Head(c).do # do PROVE Lacks(c, do)
    BY <1>1, <1>4, <2>2 DEF Lacks, n
  <2> QED BY <2>1, <2>2
<1>6. ASSUME NEW values, Ends(c, do, values)
      PROVE  \/ Ends(d, do, values)
             \/ Lacks(d, do) /\ Head(c).do = do /\ Head(c).with \in values
  <2>1. PICK i \in 1 .. n : /\ c[i].do = do /\ c[i].with \in values
                            /\ \A j \in i + 1 .. n : c[j].do # do
    BY <1>6 DEF Ends, n
  <2>2. CASE i = 1
    <3>1. \A j \in 1 .. Len(d) : j + 1 \in i + 1 .. n
      BY <1>1, <2>2
    <3> QED BY <1>1, <2>1, <2>2, <3>1 DEF Lacks
  <2>3. CASE i # 1
    <3>1. i - 1 \in 1 .. Len(d) /\ d[i - 1] = c[i]
      BY <1>4, <2>3
    <3>2. \A j \in (i - 1) + 1 .. Len(d) : j \in 1 .. Len(d) /\ j + 1 \in i + 1 .. n
      BY <1>1, <2>3
    <3>3. \A j \in (i - 1) + 1 .. Len(d) : d[j].do # do
      BY <1>1, <2>1, <3>2
    <3> QED BY <2>1, <3>1, <3>3 DEF Ends
  <2> QED BY <2>2, <2>3
<1>7. ASSUME NEW values, Holds(c, do, values)
      PROVE  Holds(d, do, values) \/ (Head(c).do = do /\ Head(c).with \in values)
  BY <1>1, <1>4, <1>7 DEF Holds, n
<1> QED BY <1>5, <1>6, <1>7 DEF d

LEMMA FollowsAppend ==
  ASSUME NEW M, NEW c \in Seq(M), NEW x \in M, NEW do, NEW values, NEW arrived
  PROVE  /\ x.do # do /\ Follows(c, do, values, arrived) =>
              Follows(Append(c, x), do, values, arrived)
         /\ x.do = do /\ x.with \in values => Follows(Append(c, x), do, values, arrived)
BY AfterAppend DEF Follows

LEMMA FollowsTail ==
  ASSUME NEW M, NEW c \in Seq(M), c # <<>>, NEW do, NEW values, NEW arrived,
         Follows(c, do, values, arrived)
  PROVE  /\ Head(c).do # do => Follows(Tail(c), do, values, arrived)
         /\ Head(c).do = do => Follows(Tail(c), do, values, Head(c).with \in values)
BY AfterTail DEF Follows

-----------------------------------------------------------------------------
(* What the worker's handlers are built from                               *)

\* Snapshots are sent, and nothing else.
OnlyViews(w, v) ==
  /\ Lacks(w.events, "selected") <=> Lacks(v.events, "selected")
  /\ \A values :
       /\ Ends(w.events, "selected", values) => Ends(v.events, "selected", values)
       /\ Holds(w.events, "selected", values) => Holds(v.events, "selected", values)

\* The worker has the same controller, page and waiting restore; the same lists.
Same(w, v) ==
  /\ v.active = w.active /\ v.page = w.page /\ v.visible = w.visible
  /\ v.pending = w.pending /\ v.paused = w.paused

SameLists(w, v) ==
  v.connections = w.connections /\ v.closed = w.closed /\ v.items = w.items

LEMMA Constants ==
  /\ Capacity \in Nat /\ Capacity >= 1 /\ Kept \in Nat /\ Kept >= 1
  /\ MaxInputs \in Nat /\ MaxConnections \in Nat
  /\ None \notin Nodes /\ None \notin Profiles /\ None \notin Modes
  /\ None \notin Sync /\ None \notin Jobs
BY WorkerAssumption

LEMMA Publishing ==
  ASSUME NEW w, WorkerTyped(w), NEW v, v = Publish(w)
  PROVE  /\ WorkerTyped(v) /\ \A view : Shown(v, view)
         /\ OnlyViews(w, v) /\ Same(w, v) /\ SameLists(w, v)
         /\ v.view = w.view /\ v.node = w.node /\ v.streams = w.streams
         /\ v.dirty = w.dirty /\ v.late = w.late
         /\ Len(v.events) >= Len(w.events)
<1> DEFINE e == [do |-> "view", with |-> w.view]
<1>1. e \in Events /\ e.do = "view" /\ e.with = w.view
  BY DEF WorkerTyped, Events
<1>2. w.events \in Seq(Events) /\ Len(w.events) \in Nat
  BY LenProperties DEF WorkerTyped
<1>3. CASE Len(w.events) < Capacity
  <2>1. v = [w EXCEPT !.events = Append(w.events, e)]
    BY <1>3 DEF Publish
  <2> HIDE DEF e
  <2>2. /\ Append(w.events, e) \in Seq(Events)
        /\ Len(Append(w.events, e)) = Len(w.events) + 1
    BY <1>1, <1>2, Appended
  <2>3. WorkerTyped(v) /\ v.events = Append(w.events, e)
    <3> DEFINE events == Append(w.events, e)
    <3>1. events \in Seq(Events) /\ Len(events) <= Capacity
      BY <1>2, <1>3, <2>2, Constants
    <3>2. v = [w EXCEPT !.events = events]
      BY <2>1
    <3> HIDE DEF events
    <3>3. WorkerTyped(v) /\ v.events = events
      BY <3>1, <3>2 DEF WorkerTyped
    <3> QED BY <3>3 DEF events
  <2>4. \A view : Shown(v, view)
    <3>1. v.view = w.view
      BY <2>1 DEF WorkerTyped
    <3> QED BY <1>1, <1>2, <2>3, <3>1, FollowsAppend DEF Shown
  <2>5. OnlyViews(w, v)
    BY <1>1, <1>2, <2>3, AfterAppend DEF OnlyViews
  <2>6. /\ Same(w, v) /\ SameLists(w, v)
        /\ v.view = w.view /\ v.node = w.node /\ v.streams = w.streams
        /\ v.dirty = w.dirty /\ v.late = w.late
    BY <2>1 DEF WorkerTyped, Same, SameLists
  <2> QED BY <1>2, <2>2, <2>3, <2>4, <2>5, <2>6
<1>4. CASE ~(Len(w.events) < Capacity)
  <2>1. v = [w EXCEPT !.lost = TRUE]
    BY <1>4 DEF Publish
  <2>2. /\ WorkerTyped(v) /\ v.lost /\ v.events = w.events
        /\ Same(w, v) /\ SameLists(w, v)
        /\ v.view = w.view /\ v.node = w.node /\ v.streams = w.streams
        /\ v.dirty = w.dirty /\ v.late = w.late
    BY <2>1 DEF WorkerTyped, Same, SameLists
  <2> QED BY <1>2, <2>2 DEF Shown, OnlyViews
<1> QED BY <1>3, <1>4

LEMMA ShowingIs ==
  ASSUME NEW w, WorkerTyped(w), NEW status \in Statuses, NEW v, v = Showing(w, status)
  PROVE  /\ WorkerTyped(v) /\ \A view : Shown(v, view)
         /\ OnlyViews(w, v) /\ Same(w, v) /\ SameLists(w, v)
         /\ v.view.status = status /\ v.view.busy = w.view.busy
         /\ v.node = w.node /\ v.streams = w.streams
         /\ v.dirty = w.dirty /\ v.late = w.late
<1> DEFINE u == [w EXCEPT !.view.status = status]
<1>1. /\ WorkerTyped(u) /\ u.events = w.events /\ Same(w, u) /\ SameLists(w, u)
      /\ u.view.status = status /\ u.view.busy = w.view.busy
      /\ u.node = w.node /\ u.streams = w.streams
      /\ u.dirty = w.dirty /\ u.late = w.late
  BY DEF WorkerTyped, View, Same, SameLists
<1>2. v = Publish(u)
  BY DEF Showing
<1> HIDE DEF u
<1>3. /\ WorkerTyped(v) /\ \A view : Shown(v, view)
      /\ OnlyViews(u, v) /\ Same(u, v) /\ SameLists(u, v)
      /\ v.view = u.view /\ v.node = u.node /\ v.streams = u.streams
      /\ v.dirty = u.dirty /\ v.late = u.late
  BY <1>1, <1>2, Publishing
<1> QED BY <1>1, <1>3 DEF OnlyViews, Same, SameLists

LEMMA DegradedIs ==
  ASSUME NEW w, NEW view, WorkerTyped(w), Shown(w, view), NEW v, v = MarkDegraded(w)
  PROVE  /\ WorkerTyped(v) /\ Shown(v, view)
         /\ OnlyViews(w, v) /\ Same(w, v) /\ SameLists(w, v)
         /\ v.view.status = "degraded" /\ v.view.busy = w.view.busy
         /\ v.node = w.node /\ v.streams = w.streams
         /\ v.dirty = w.dirty /\ v.late = w.late
<1>1. CASE w.view.status = "degraded"
  <2>1. v = w
    BY <1>1 DEF MarkDegraded
  <2> QED BY <1>1, <2>1 DEF OnlyViews, Same, SameLists
<1>2. CASE w.view.status # "degraded"
  <2> DEFINE status == "degraded"
  <2>1. v = Showing(w, status) /\ status \in Statuses /\ status = "degraded"
    BY <1>2 DEF MarkDegraded, Statuses
  <2> HIDE DEF status
  <2> QED BY <2>1, ShowingIs
<1> QED BY <1>1, <1>2

\* SetBusy is the one that changes the flag.
LEMMA BusyIs ==
  ASSUME NEW w, NEW view, WorkerFits(w, view), NEW busy \in BOOLEAN, NEW v, v = SetBusy(w, busy)
  PROVE  /\ WorkerFits(v, view) /\ OnlyViews(w, v) /\ Same(w, v) /\ SameLists(w, v)
         /\ v.view.busy = busy
<1>1. CASE w.view.busy = busy
  <2>1. v = w
    BY <1>1 DEF SetBusy
  <2> QED BY <1>1, <2>1 DEF OnlyViews, Same, SameLists
<1>2. CASE w.view.busy # busy
  <2> DEFINE u == [w EXCEPT !.view.busy = busy]
  <2>1. /\ WorkerTyped(u) /\ u.events = w.events /\ Same(w, u) /\ SameLists(w, u)
        /\ u.view.status = w.view.status /\ u.view.busy = busy
        /\ u.streams = w.streams /\ u.late = w.late
    BY DEF WorkerFits, WorkerTyped, View, Same, SameLists
  <2>2. v = Publish(u)
    BY <1>2 DEF SetBusy
  <2> HIDE DEF u
  <2>3. /\ WorkerTyped(v) /\ Shown(v, view)
        /\ OnlyViews(u, v) /\ Same(u, v) /\ SameLists(u, v)
        /\ v.view = u.view /\ v.streams = u.streams /\ v.late = u.late
    BY <2>1, <2>2, Publishing
  <2>4. Same(w, v) /\ SameLists(w, v) /\ OnlyViews(w, v)
    BY <2>1, <2>3 DEF Same, SameLists, OnlyViews
  <2>5. v.streams \subseteq Wanted(v) /\ StatusFits(v)
    BY <2>1, <2>3, <2>4 DEF WorkerFits, Same, Wanted, StatusFits
  <2> QED BY <2>1, <2>3, <2>4, <2>5 DEF WorkerFits
<1> QED BY <1>1, <1>2

\* What a refresh leaves as it is.
Keeps(w, v) == Same(w, v) /\ OnlyViews(w, v) /\ v.view.busy = w.view.busy

LEMMA KeepsBoth ==
  ASSUME NEW u, NEW v, NEW w, Keeps(u, v), Keeps(v, w)
  PROVE  Keeps(u, w)
BY DEF Keeps, Same, OnlyViews

\* The lists of connections stay, but for an item that is dropped.
Trimmed(w, v) ==
  v.connections = w.connections /\ v.closed = w.closed /\ v.items \in {w.items, <<>>}

LEMMA WantedStreamsAre == \A w : Wanted(w) \in SUBSET StreamKinds
BY DEF Wanted, WantedStreams, StreamKinds

LEMMA WithStreamsIs ==
  ASSUME NEW w, NEW view, WorkerTyped(w), Shown(w, view), NEW streams \in SUBSET StreamKinds,
         NEW v, v = WithStreams(w, streams)
  PROVE  /\ WorkerTyped(v) /\ Shown(v, view) /\ Keeps(w, v) /\ Trimmed(w, v)
         /\ v.streams = streams /\ v.view = w.view /\ v.late = w.late /\ v.dirty = w.dirty
         /\ v.node = w.node
<1> DEFINE items == IF "connections" \in streams THEN w.items ELSE <<>>
<1>1. v = [w EXCEPT !.streams = streams, !.items = items]
  BY DEF WithStreams
<1>2. items \in Seq(SUBSET Ids) /\ Len(items) <= 1 /\ items \in {w.items, <<>>}
  BY EmptySeq DEF WorkerTyped
<1> HIDE DEF items
<1>3. WorkerTyped(v)
  BY <1>1, <1>2 DEF WorkerTyped
<1>4. /\ Same(w, v) /\ Trimmed(w, v) /\ v.events = w.events /\ v.lost = w.lost
      /\ v.streams = streams /\ v.view = w.view /\ v.late = w.late /\ v.dirty = w.dirty
      /\ v.node = w.node
  BY <1>1, <1>2 DEF WorkerTyped, Same, Trimmed
<1> QED BY <1>3, <1>4 DEF Shown, Keeps, OnlyViews

LEMMA ConfiguringIs ==
  ASSUME NEW w, NEW view, WorkerTyped(w), Shown(w, view), StatusFits(w), NEW up,
         NEW v, v = ConfigureStreams(w, up)
  PROVE  WorkerFits(v, view) /\ Keeps(w, v) /\ Trimmed(w, v)
<1>1. CASE Wanted(w) \subseteq w.streams \/ "streams" \in up
  <2>1. v = WithStreams(w, Wanted(w))
    BY <1>1 DEF ConfigureStreams
  <2>2. /\ WorkerTyped(v) /\ Shown(v, view) /\ Keeps(w, v) /\ Trimmed(w, v)
        /\ v.streams = Wanted(w) /\ v.view = w.view /\ v.late = w.late
    BY <2>1, WithStreamsIs, WantedStreamsAre
  <2>3. Wanted(v) = Wanted(w) /\ StatusFits(v)
    BY <2>2 DEF Keeps, Same, Wanted, StatusFits
  <2> QED BY <2>2, <2>3 DEF WorkerFits
<1>2. CASE ~(Wanted(w) \subseteq w.streams \/ "streams" \in up)
  <2> DEFINE u == WithStreams(w, w.streams \cap Wanted(w))
  <2>1. v = MarkDegraded(u)
    BY <1>2 DEF ConfigureStreams
  <2>2. w.streams \cap Wanted(w) \in SUBSET StreamKinds
    BY WantedStreamsAre
  <2>3. /\ WorkerTyped(u) /\ Shown(u, view) /\ Keeps(w, u) /\ Trimmed(w, u)
        /\ u.streams \subseteq Wanted(w) /\ u.view = w.view /\ u.late = w.late
    BY <2>2, WithStreamsIs
  <2> HIDE DEF u
  <2>4. /\ WorkerTyped(v) /\ Shown(v, view)
        /\ OnlyViews(u, v) /\ Same(u, v) /\ SameLists(u, v)
        /\ v.view.status = "degraded" /\ v.view.busy = u.view.busy
        /\ v.streams = u.streams /\ v.late = u.late
    BY <2>1, <2>3, DegradedIs
  <2>5. Keeps(w, v) /\ Trimmed(w, v)
    <3>1. Keeps(u, v)
      BY <2>4 DEF Keeps
    <3> QED BY <2>3, <2>4, <3>1, KeepsBoth DEF Trimmed, SameLists
  <2>6. w.active # None /\ v.active = w.active
    BY <1>2, <2>5 DEF Wanted, Keeps, Same
  <2>7. Wanted(v) = Wanted(w) /\ StatusFits(v)
    BY <2>4, <2>5, <2>6 DEF Keeps, Same, Wanted, StatusFits
  <2> QED BY <2>3, <2>4, <2>5, <2>7 DEF WorkerFits
<1> QED BY <1>1, <1>2

LEMMA MetadataIs ==
  ASSUME NEW w, NEW view, WorkerFits(w, view), NEW node \in Nodes \cup {None}, NEW up,
         NEW v, v = RefreshMetadata(w, node, up)
  PROVE  WorkerFits(v, view) /\ Keeps(w, v) /\ Trimmed(w, v)
<1>1. CASE w.active = None
  <2>1. v = w
    BY <1>1 DEF RefreshMetadata
  <2> QED BY <2>1 DEF Keeps, Trimmed, Same, OnlyViews
<1>2. CASE w.active # None /\ "metadata" \in up
  <2> DEFINE u == [w EXCEPT !.node = node]
             status == "connected"
  <2>1. v = Showing(u, status) /\ status \in Statuses /\ status = "connected"
    BY <1>2 DEF RefreshMetadata, Statuses
  <2>2. /\ WorkerTyped(u) /\ Same(w, u) /\ SameLists(w, u) /\ u.events = w.events
        /\ u.view = w.view /\ u.streams = w.streams
    BY DEF WorkerFits, WorkerTyped, Same, SameLists
  <2> HIDE DEF u, status
  <2>3. /\ WorkerTyped(v) /\ Shown(v, view)
        /\ OnlyViews(u, v) /\ Same(u, v) /\ SameLists(u, v)
        /\ v.view.status = "connected" /\ v.view.busy = u.view.busy /\ v.streams = u.streams
    BY <2>1, <2>2, ShowingIs
  <2>4. Keeps(w, v) /\ Trimmed(w, v) /\ v.active # None
    BY <1>2, <2>2, <2>3 DEF Keeps, Trimmed, Same, SameLists, OnlyViews
  <2>5. v.streams \subseteq Wanted(v) /\ StatusFits(v)
    BY <2>2, <2>3, <2>4 DEF WorkerFits, Keeps, Same, Wanted, StatusFits
  <2> QED BY <2>3, <2>4, <2>5 DEF WorkerFits
<1>3. CASE w.active # None /\ "metadata" \notin up
  <2>1. v = MarkDegraded(w)
    BY <1>3 DEF RefreshMetadata
  <2>2. /\ WorkerTyped(v) /\ Shown(v, view)
        /\ OnlyViews(w, v) /\ Same(w, v) /\ SameLists(w, v)
        /\ v.view.status = "degraded" /\ v.view.busy = w.view.busy /\ v.streams = w.streams
    BY <2>1, DegradedIs DEF WorkerFits
  <2>3. v.streams \subseteq Wanted(v) /\ StatusFits(v)
    BY <1>3, <2>2 DEF WorkerFits, Same, Wanted, StatusFits
  <2> QED BY <2>2, <2>3 DEF WorkerFits, Keeps, Trimmed, SameLists
<1> QED BY <1>1, <1>2, <1>3

\* flush_stream_state publishes what is dirty, and is late only without a controller.
LEMMA FlushIs ==
  ASSUME NEW w, NEW view, WorkerTyped(w), Shown(w, view) \/ w.dirty,
         w.streams \subseteq Wanted(w), StatusFits(w) \/ (w.dirty /\ w.active # None),
         NEW v, v = Flush(w)
  PROVE  WorkerFits(v, view) /\ Keeps(w, v) /\ SameLists(w, v)
<1>1. CASE ~w.dirty
  <2>1. v = w
    BY <1>1 DEF Flush
  <2> QED BY <1>1, <2>1 DEF WorkerFits, Keeps, SameLists, Same, OnlyViews
<1>2. CASE w.dirty
  <2> DEFINE u == Showing(w, "connected")
             dirty == Len(w.events) = Capacity
             late == u.late \/ w.active = None
  <2>1. v = [u EXCEPT !.dirty = dirty, !.late = late]
    BY <1>2 DEF Flush
  <2>2. /\ WorkerTyped(u) /\ Shown(u, view)
        /\ OnlyViews(w, u) /\ Same(w, u) /\ SameLists(w, u)
        /\ u.view.status = "connected" /\ u.view.busy = w.view.busy /\ u.streams = w.streams
        /\ u.late = w.late
    <3> DEFINE status == "connected"
    <3>1. u = Showing(w, status) /\ status \in Statuses /\ status = "connected"
      BY DEF Statuses
    <3> HIDE DEF u, status
    <3> QED BY <3>1, ShowingIs
  <2>3. dirty \in BOOLEAN /\ late \in BOOLEAN /\ (~late => w.active # None)
    BY <2>2 DEF WorkerTyped
  <2> HIDE DEF u, dirty, late
  <2>4. /\ WorkerTyped(v) /\ v.late = late /\ v.events = u.events /\ v.lost = u.lost
        /\ v.view = u.view /\ v.streams = u.streams /\ Same(u, v) /\ SameLists(u, v)
    BY <2>1, <2>2, <2>3 DEF WorkerTyped, Same, SameLists
  <2>5. Keeps(w, v) /\ SameLists(w, v) /\ Shown(v, view)
    BY <2>2, <2>4 DEF Keeps, Same, SameLists, OnlyViews, Shown
  <2>6. v.streams \subseteq Wanted(v) /\ StatusFits(v)
    BY <2>2, <2>3, <2>4, <2>5 DEF Keeps, Same, Wanted, StatusFits
  <2> QED BY <2>4, <2>5, <2>6 DEF WorkerFits
<1> QED BY <1>1, <1>2 DEF WorkerTyped

-----------------------------------------------------------------------------
(* The lists of connections                                                *)

\* The elements of a set, as a sequence.
LEMMA SetAsSequence ==
  ASSUME NEW S, IsFiniteSet(S)
  PROVE  SetToSeq(S) \in Seq(S) /\ IsInjective(SetToSeq(S))
<1> DEFINE c == Cardinality(S)
           f == SetToSeq(S)
<1>1. c \in Nat /\ ExistsBijection(1 .. c, S)
  BY FS_CardinalityType
<1>2. \E g \in [1 .. c -> S] : IsInjective(g)
  BY <1>1 DEF ExistsBijection, Bijection, Injection, IsInjective
<1>3. f \in [1 .. c -> S] /\ IsInjective(f)
  BY <1>2 DEF SetToSeq
<1> QED BY <1>1, <1>3, SeqDef

\* The end of a sequence.
LEMMA RecentIs ==
  ASSUME NEW S, NEW s \in Seq(S), NEW bound \in Nat, bound >= 1
  PROVE  /\ Recent(s, bound) \in Seq(S) /\ Len(Recent(s, bound)) <= bound
         /\ \E k \in Nat : \A i \in 1 .. Len(Recent(s, bound)) :
              i + k \in 1 .. Len(s) /\ Recent(s, bound)[i] = s[i + k]
<1> DEFINE n == Len(s)
           first == IF n > bound THEN n - bound + 1 ELSE 1
           r == Recent(s, bound)
<1>1. n \in Nat /\ \A i \in 1 .. n : s[i] \in S
  BY LenProperties
<1>2. r = SubSeq(s, first, n)
  BY DEF Recent
<1>3. first \in Nat /\ first >= 1 /\ first <= n + 1 /\ n - first + 1 <= bound
  BY <1>1
<1> HIDE DEF n, first
<1>4. /\ r \in Seq(S) /\ Len(r) = (IF first <= n THEN n - first + 1 ELSE 0)
      /\ \A i \in 1 .. n - first + 1 : r[i] = s[first + i - 1]
  <2>1. first \in Int /\ n \in Int /\ \A i \in first .. n : s[i] \in S
    BY <1>1, <1>3
  <2> HIDE DEF r
  <2> QED BY <1>2, <2>1, SubSeqProperties
<1> HIDE DEF r
<1>5. Len(r) <= bound
  BY <1>1, <1>3, <1>4
<1>6. ASSUME NEW i \in 1 .. Len(r)
      PROVE  i + (first - 1) \in 1 .. n /\ r[i] = s[i + (first - 1)]
  <2>1. i \in 1 .. n - first + 1 /\ first + i - 1 = i + (first - 1)
    BY <1>1, <1>3, <1>4
  <2>2. i + (first - 1) \in 1 .. n
    BY <1>1, <1>3, <2>1
  <2> QED BY <1>4, <2>1, <2>2
<1>7. first - 1 \in Nat
  BY <1>3
<1> QED BY <1>4, <1>5, <1>6, <1>7 DEF n, r

\* What is closed anew comes after what was, and each is there once.
LEMMA ClosedMore ==
  ASSUME NEW closed \in Seq(Ids), NEW more \in SUBSET Ids, NEW new,
         new = Recent(closed \o SetToSeq(more), Kept)
  PROVE  /\ new \in Seq(Ids) /\ Len(new) <= Kept
         /\ \A i \in DOMAIN new : new[i] \in more \/ \E j \in DOMAIN closed : new[i] = closed[j]
         /\ IsInjective(closed) /\ (\A j \in DOMAIN closed : closed[j] \notin more) =>
              IsInjective(new)
<1> DEFINE added == SetToSeq(more)
           all == closed \o added
           n == Len(closed)
<1>1. added \in Seq(more) /\ IsInjective(added)
  <2>1. IsFiniteSet(Ids)
    <3>1. IsFiniteSet(1 .. MaxConnections)
      BY Constants, FS_Interval
    <3> QED BY <3>1 DEF Ids
  <2>2. IsFiniteSet(more)
    BY <2>1, FS_Subset
  <2> QED BY <2>2, SetAsSequence
<1> HIDE DEF added
<1>2. added \in Seq(Ids) /\ \A i \in 1 .. Len(added) : added[i] \in more
  BY <1>1, LenProperties
<1>3. /\ n \in Nat /\ Len(added) \in Nat
      /\ all \in Seq(Ids) /\ Len(all) = n + Len(added)
      /\ \A i \in 1 .. n + Len(added) : all[i] = IF i <= n THEN closed[i] ELSE added[i - n]
  BY <1>2, ConcatProperties, LenProperties
<1>4. DOMAIN closed = 1 .. n /\ DOMAIN added = 1 .. Len(added)
  BY <1>2, LenProperties
<1> HIDE DEF all, n
<1>5. \A i \in 1 .. Len(all) :
        \/ i \in 1 .. n /\ all[i] = closed[i]
        \/ i - n \in 1 .. Len(added) /\ all[i] = added[i - n] /\ all[i] \in more
  <2> TAKE i \in 1 .. Len(all)
  <2>1. CASE i <= n
    BY <1>3, <2>1
  <2>2. CASE ~(i <= n)
    <3>1. i - n \in 1 .. Len(added)
      BY <1>3, <2>2
    <3> QED BY <1>2, <1>3, <2>2, <3>1
  <2> QED BY <2>1, <2>2
<1>6. /\ new \in Seq(Ids) /\ Len(new) <= Kept
      /\ \E k \in Nat : \A i \in 1 .. Len(new) : i + k \in 1 .. Len(all) /\ new[i] = all[i + k]
  <2>1. new = Recent(all, Kept)
    BY DEF all, added
  <2>2. all \in Seq(Ids) /\ Kept \in Nat /\ Kept >= 1
    BY <1>3, Constants
  <2>3. /\ Recent(all, Kept) \in Seq(Ids) /\ Len(Recent(all, Kept)) <= Kept
        /\ \E k \in Nat : \A i \in 1 .. Len(Recent(all, Kept)) :
             i + k \in 1 .. Len(all) /\ Recent(all, Kept)[i] = all[i + k]
    BY <2>2, RecentIs
  <2> QED BY <2>1, <2>3
<1>7. PICK k \in Nat : \A i \in 1 .. Len(new) : i + k \in 1 .. Len(all) /\ new[i] = all[i + k]
  BY <1>6
<1>8. DOMAIN new = 1 .. Len(new) /\ Len(new) \in Nat
  BY <1>6, LenProperties
<1>9. \A i \in DOMAIN new : new[i] \in more \/ \E j \in DOMAIN closed : new[i] = closed[j]
  BY <1>4, <1>5, <1>7, <1>8
<1>10. ASSUME IsInjective(closed), \A j \in DOMAIN closed : closed[j] \notin more,
              NEW i \in DOMAIN new, NEW j \in DOMAIN new, new[i] = new[j]
       PROVE  i = j
  <2>1. \A x, y \in 1 .. Len(all) : all[x] = all[y] => x = y
    <3> TAKE x, y \in 1 .. Len(all)
    <3> HAVE all[x] = all[y]
    <3>1. CASE x \in 1 .. n /\ all[x] = closed[x]
      <4>1. y \in 1 .. n /\ all[y] = closed[y]
        BY <1>4, <1>5, <1>10, <3>1
      <4> QED BY <1>4, <1>10, <3>1, <4>1 DEF IsInjective
    <3>2. CASE x - n \in 1 .. Len(added) /\ all[x] = added[x - n] /\ all[x] \in more
      <4>1. y - n \in 1 .. Len(added) /\ all[y] = added[y - n]
        BY <1>4, <1>5, <1>10, <3>2
      <4>2. x - n = y - n
        BY <1>1, <1>4, <3>2, <4>1 DEF IsInjective
      <4> QED BY <1>3, <4>2
    <3> QED BY <1>5, <3>1, <3>2
  <2>2. i + k = j + k
    BY <1>7, <1>8, <1>10, <2>1
  <2> QED BY <1>7, <1>8, <2>2
<1> QED BY <1>6, <1>9, <1>10 DEF IsInjective

LEMMA UpdatingIs ==
  ASSUME NEW w, WorkerTyped(w), NEW ids \in SUBSET Ids, NEW v, v = UpdateConnections(w, ids)
  PROVE  /\ WorkerTyped(v) /\ Keeps(w, v) /\ v.dirty /\ v.items = w.items
         /\ v.events = w.events /\ v.lost = w.lost /\ v.late = w.late
         /\ v.view = w.view /\ v.streams = w.streams /\ v.node = w.node
         /\ v.connections = ids
<1> DEFINE new == Recent(w.closed \o SetToSeq(w.connections \ ids), Kept)
<1>1. v = [w EXCEPT !.connections = ids, !.closed = new, !.dirty = TRUE]
  BY DEF UpdateConnections, WorkerTyped
<1>2. new \in Seq(Ids) /\ Len(new) <= Kept
  <2>1. w.closed \in Seq(Ids) /\ w.connections \ ids \in SUBSET Ids
    BY DEF WorkerTyped
  <2> QED BY <2>1, ClosedMore
<1> HIDE DEF new
<1>3. WorkerTyped(v)
  BY <1>1, <1>2 DEF WorkerTyped
<1>4. /\ Same(w, v) /\ v.dirty /\ v.items = w.items
      /\ v.events = w.events /\ v.lost = w.lost /\ v.late = w.late
      /\ v.view = w.view /\ v.streams = w.streams /\ v.node = w.node
      /\ v.connections = ids
  BY <1>1, <1>2 DEF WorkerTyped, Same
<1> QED BY <1>3, <1>4 DEF Keeps, OnlyViews

\* A new list fits when nothing that was closed is in it, and nothing open is missing.
LEMMA UpdateFits ==
  ASSUME NEW w, WorkerTyped(w), NEW ids \in SUBSET Ids, NEW v, v = UpdateConnections(w, ids),
         w.items = <<>>, NEW n \in Nat, NEW open, ids \subseteq 1 .. n,
         IsInjective(w.closed), w.connections \subseteq 1 .. n,
         w.connections \cap open \subseteq ids,
         \A k \in DOMAIN w.closed :
           /\ w.closed[k] \in 1 .. n /\ w.closed[k] \notin w.connections
           /\ w.closed[k] \notin open /\ w.closed[k] \notin ids
  PROVE  ListsFit(v, open, n)
<1> DEFINE more == w.connections \ ids
<1>1. v.items = <<>> /\ v.connections = ids
  BY UpdatingIs
<1>2. /\ more \in SUBSET Ids /\ w.closed \in Seq(Ids)
      /\ v.closed = Recent(w.closed \o SetToSeq(more), Kept)
  BY DEF WorkerTyped, UpdateConnections
<1>3. \A j \in DOMAIN w.closed : w.closed[j] \notin more
  OBVIOUS
<1>4. /\ \A i \in DOMAIN v.closed :
           v.closed[i] \in more \/ \E j \in DOMAIN w.closed : v.closed[i] = w.closed[j]
      /\ IsInjective(v.closed)
  <2> HIDE DEF more
  <2> QED BY <1>2, <1>3, ClosedMore
<1>5. \A k \in DOMAIN v.items : FALSE
  BY <1>1, EmptySeq
<1> QED BY <1>1, <1>4, <1>5 DEF ListsFit

LEMMA TrimmedFit ==
  ASSUME NEW w, NEW v, Trimmed(w, v), NEW open, NEW n, ListsFit(w, open, n)
  PROVE  ListsFit(v, open, n)
<1>1. \A k \in DOMAIN <<>> : FALSE
  BY EmptySeq
<1> QED BY <1>1 DEF Trimmed, ListsFit

LEMMA FewerFit ==
  ASSUME NEW w, NEW open, NEW n, ListsFit(w, open, n), NEW fewer, fewer \subseteq open
  PROVE  ListsFit(w, fewer, n)
BY DEF ListsFit

-----------------------------------------------------------------------------
(* The refreshes                                                           *)

\* With nothing in the stream, a refresh makes lists that fit of lists that do.
Refreshes(w, v, open) ==
  /\ w.items = <<>> => v.items = <<>>
  /\ \A n \in Nat : w.items = <<>> /\ open \subseteq 1 .. n /\ ListsFit(w, open, n) =>
       ListsFit(v, open, n)

LEMMA TrimmedRefreshes ==
  ASSUME NEW w, NEW v, Trimmed(w, v), NEW open
  PROVE  Refreshes(w, v, open)
BY TrimmedFit DEF Refreshes, Trimmed

LEMMA RefreshesBoth ==
  ASSUME NEW u, NEW v, NEW w, NEW open, Refreshes(u, v, open), Refreshes(v, w, open)
  PROVE  Refreshes(u, w, open)
BY DEF Refreshes

LEMMA StatsAre ==
  ASSUME NEW w, NEW view, WorkerFits(w, view), NEW ids \in SUBSET Ids, NEW up,
         NEW v, v = RefreshStats(w, ids, up)
  PROVE  WorkerFits(v, view) /\ Keeps(w, v) /\ Refreshes(w, v, ids)
<1>1. CASE w.active = None
  <2>1. v = w
    BY <1>1 DEF RefreshStats
  <2> QED BY <2>1 DEF Keeps, Refreshes, Same, OnlyViews
<1>2. CASE w.active # None /\ "stats" \in up
  <2> DEFINE u == UpdateConnections(w, ids)
             s == [u EXCEPT !.view.status = "connected"]
  <2>1. v = Flush(s)
    BY <1>2 DEF RefreshStats
  <2>2. /\ WorkerTyped(u) /\ Keeps(w, u) /\ u.dirty /\ u.items = w.items
        /\ u.events = w.events /\ u.streams = w.streams
    BY UpdatingIs DEF WorkerFits
  <2>3. \A n \in Nat : w.items = <<>> /\ ids \subseteq 1 .. n /\ ListsFit(w, ids, n) =>
          ListsFit(u, ids, n)
    <3> SUFFICES ASSUME NEW n \in Nat, w.items = <<>>, ids \subseteq 1 .. n, ListsFit(w, ids, n)
                 PROVE  ListsFit(u, ids, n)
      OBVIOUS
    <3>1. WorkerTyped(w) /\ w.connections \cap ids \subseteq ids
      BY DEF WorkerFits
    <3>2. /\ IsInjective(w.closed) /\ w.connections \subseteq 1 .. n
          /\ \A k \in DOMAIN w.closed :
               w.closed[k] \in 1 .. n /\ w.closed[k] \notin w.connections
               /\ w.closed[k] \notin ids
      BY DEF ListsFit
    <3> HIDE DEF u
    <3>3. u = UpdateConnections(w, ids)
      BY DEF u
    <3> QED BY <3>1, <3>2, <3>3, UpdateFits
  <2> HIDE DEF u
  <2>4. /\ WorkerTyped(s) /\ Keeps(u, s) /\ SameLists(u, s) /\ s.dirty
        /\ s.streams = u.streams
    <3>1. /\ WorkerTyped(s) /\ Same(u, s) /\ SameLists(u, s) /\ s.dirty
          /\ s.streams = u.streams /\ s.events = u.events /\ s.view.busy = u.view.busy
      BY <2>2 DEF WorkerTyped, View, Statuses, Same, SameLists
    <3> QED BY <3>1 DEF Keeps, OnlyViews
  <2> HIDE DEF s
  <2>5. s.streams \subseteq Wanted(s) /\ s.active # None
    BY <1>2, <2>2, <2>4 DEF WorkerFits, Keeps, Same, Wanted
  <2>6. WorkerFits(v, view) /\ Keeps(s, v) /\ SameLists(s, v)
    BY <2>1, <2>4, <2>5, FlushIs
  <2>7. Keeps(w, v)
    BY <2>2, <2>4, <2>6, KeepsBoth
  <2>8. Refreshes(w, v, ids)
    BY <2>2, <2>3, <2>4, <2>6 DEF Refreshes, SameLists, ListsFit
  <2> QED BY <2>6, <2>7, <2>8
<1>3. CASE w.active # None /\ "stats" \notin up
  <2>1. v = MarkDegraded(w)
    BY <1>3 DEF RefreshStats
  <2>2. /\ WorkerTyped(v) /\ Shown(v, view)
        /\ OnlyViews(w, v) /\ Same(w, v) /\ SameLists(w, v)
        /\ v.view.status = "degraded" /\ v.view.busy = w.view.busy /\ v.streams = w.streams
    BY <2>1, DegradedIs DEF WorkerFits
  <2>3. v.streams \subseteq Wanted(v) /\ StatusFits(v)
    BY <1>3, <2>2 DEF WorkerFits, Same, Wanted, StatusFits
  <2> QED BY <2>2, <2>3 DEF WorkerFits, Keeps, SameLists, Refreshes, ListsFit
<1> QED BY <1>1, <1>2, <1>3

LEMMA OpenAreIds == \A conns : Open(conns) \in SUBSET Ids
BY DEF Open

\* RefreshAll of a worker whose streams may still be those of another page or controller.
LEMMA AllIs ==
  ASSUME NEW w, NEW view, WorkerFits(w, view), NEW now, CoreTyped(now), NEW up,
         NEW v, v = RefreshAll(w, now, up)
  PROVE  WorkerFits(v, view) /\ Keeps(w, v) /\ Refreshes(w, v, Open(now.conns))
<1>1. CASE w.active = None
  <2>1. v = w
    BY <1>1 DEF RefreshAll
  <2> QED BY <2>1 DEF Keeps, Refreshes, Same, OnlyViews
<1>2. CASE w.active # None
  <2> DEFINE m == RefreshMetadata(w, now.node, up)
             c == ConfigureStreams(m, up)
             open == Open(now.conns)
  <2>1. v = RefreshStats(c, open, up)
    BY <1>2 DEF RefreshAll
  <2>2. WorkerFits(m, view) /\ Keeps(w, m) /\ Trimmed(w, m)
    <3>1. now.node \in Nodes \cup {None}
      BY DEF CoreTyped
    <3> QED BY <3>1, MetadataIs
  <2> HIDE DEF m
  <2>3. WorkerFits(c, view) /\ Keeps(m, c) /\ Trimmed(m, c)
    BY <2>2, ConfiguringIs DEF WorkerFits
  <2> HIDE DEF c
  <2>4. open \in SUBSET Ids
    BY OpenAreIds
  <2> HIDE DEF open
  <2>5. WorkerFits(v, view) /\ Keeps(c, v) /\ Refreshes(c, v, open)
    BY <2>1, <2>3, <2>4, StatsAre
  <2>6. Keeps(w, v)
    BY <2>2, <2>3, <2>5, KeepsBoth
  <2>7. Refreshes(w, m, open) /\ Refreshes(m, c, open)
    BY <2>2, <2>3, TrimmedRefreshes
  <2>8. Refreshes(w, v, open)
    BY <2>5, <2>7, RefreshesBoth
  <2> QED BY <2>5, <2>6, <2>8 DEF open
<1> QED BY <1>1, <1>2

-----------------------------------------------------------------------------
(* Calls and commands                                                      *)

\* What a handler's calls tell, if nothing is noted as failed.
LEMMA CalledIs ==
  ASSUME Typed, NEW mode, NEW up \in Succeeding(mode), NEW needed, NEW others \in SUBSET Gaps,
         Called(up, mode, needed, others)
  PROVE  /\ inputs' \in 0 .. MaxInputs /\ gaps \subseteq gaps' /\ gaps' \subseteq Gaps
         /\ others \subseteq gaps'
         /\ "failed" \notin gaps' => mode = None \/ needed \subseteq up
         /\ up # {} => mode # None /\ core.mode = mode
         /\ up \subseteq AllCalls
<1>1. up # {} => mode # None /\ core.mode = mode
  BY DEF Succeeding
<1>2. up \in {{}, AllCalls} \/ inputs < MaxInputs
  BY DEF Succeeding
<1>3. inputs' \in 0 .. MaxInputs
  BY <1>2, Constants DEF Called, Typed
<1>4. up \subseteq AllCalls
  BY DEF Succeeding
<1>5. /\ gaps \subseteq gaps' /\ gaps' \subseteq Gaps /\ others \subseteq gaps'
      /\ "failed" \notin gaps' => mode = None \/ needed \subseteq up
  BY DEF Called, Typed, Gaps
<1> QED BY <1>1, <1>3, <1>4, <1>5

LEMMA OvertakenIs ==
  /\ Overtaken \in SUBSET Gaps
  /\ \A S : "overtaken" \notin S /\ Overtaken \subseteq S => worker.items = <<>>
BY DEF Overtaken, Gaps

LEMMA CommandIs ==
  ASSUME NEW c \in Commands
  PROVE  /\ c.do = "sync" => c.with \in Sync
         /\ c.do = "state" => c.with \in Modes \cup {None}
         /\ c.do = "show" => c.with \in Presentations
         /\ c.do \in {"select", "leave"} => c.with \in Nodes
         /\ c.do = "close" => c.with \in SUBSET Ids
         /\ c.do = "pause" => c.with \in BOOLEAN
BY DEF Commands

LEMMA TakeIs ==
  ASSUME Typed, NEW kind, Take(kind)
  PROVE  /\ commands # <<>> /\ commands \in Seq(Commands) /\ commands' = Tail(commands)
         /\ Head(commands).do = kind /\ Head(commands) \in Commands /\ Given = Head(commands).with
         /\ commands' \in Seq(Commands) /\ Len(commands') <= Capacity
<1>1. commands # <<>> /\ commands \in Seq(Commands) /\ commands' = Tail(commands)
  BY DEF Take, Typed
<1>2. Len(commands) <= Capacity /\ Head(commands).do = kind /\ Given = Head(commands).with
  BY DEF Take, Typed, Given
<1> QED BY <1>1, <1>2, Taken, Constants

\* What the channel of commands keeps of the syncs in it.
SyncsStay(c, d) ==
  /\ Lacks(c, "sync") <=> Lacks(d, "sync")
  /\ \A values :
       /\ Ends(c, "sync", values) => Ends(d, "sync", values)
       /\ Holds(c, "sync", values) <=> Holds(d, "sync", values)
  /\ OnlyFirstKeeps(c) => OnlyFirstKeeps(d)

LEMMA HoldsAppend ==
  ASSUME NEW M, NEW c \in Seq(M), NEW x \in M, NEW do, NEW values
  PROVE  Holds(Append(c, x), do, values) <=>
           (Holds(c, do, values) \/ (x.do = do /\ x.with \in values))
<1> DEFINE d == Append(c, x)
           n == Len(c)
<1>1. /\ n \in Nat /\ Len(d) = n + 1
      /\ \A i \in 1 .. n : d[i] = c[i]
      /\ d[n + 1] = x
  BY Appended
<1> HIDE DEF d, n
<1>2. \A j \in 1 .. Len(d) : j = n + 1 \/ j \in 1 .. n
  BY <1>1
<1>3. n + 1 \in 1 .. Len(d) /\ \A j \in 1 .. n : j \in 1 .. Len(d)
  BY <1>1
<1>4. Holds(d, do, values) <=> (Holds(c, do, values) \/ (x.do = do /\ x.with \in values))
  BY <1>1, <1>2, <1>3 DEF Holds, n
<1> QED BY <1>4 DEF d

LEMMA HoldsTail ==
  ASSUME NEW M, NEW c \in Seq(M), c # <<>>, NEW do, NEW values
  PROVE  Holds(c, do, values) <=>
           (Holds(Tail(c), do, values) \/ (Head(c).do = do /\ Head(c).with \in values))
<1> DEFINE d == Tail(c)
           n == Len(c)
<1>1. /\ n \in Nat /\ n >= 1 /\ Len(d) = n - 1
      /\ \A i \in 1 .. Len(d) : d[i] = c[i + 1] /\ i + 1 \in 1 .. n
      /\ Head(c) = c[1]
  BY Taken
<1> HIDE DEF d, n
<1>2. 1 \in 1 .. n /\ \A i \in 1 .. n : i = 1 \/ (i - 1 \in 1 .. Len(d) /\ d[i - 1] = c[i])
  <2>1. \A i \in 1 .. n : i = 1 \/ (i - 1 \in 1 .. Len(d) /\ (i - 1) + 1 = i)
    BY <1>1
  <2> QED BY <1>1, <2>1
<1>3. Holds(c, do, values) <=>
        (Holds(d, do, values) \/ (Head(c).do = do /\ Head(c).with \in values))
  BY <1>1, <1>2 DEF Holds, n
<1> QED BY <1>3 DEF d

LEMMA FirstAppend ==
  ASSUME NEW M, NEW c \in Seq(M), NEW x \in M, OnlyFirstKeeps(c),
         x.do # "sync" \/ x.with.close
  PROVE  OnlyFirstKeeps(Append(c, x))
<1> DEFINE d == Append(c, x)
           n == Len(c)
<1>1. /\ n \in Nat /\ Len(d) = n + 1
      /\ \A i \in 1 .. n : d[i] = c[i]
      /\ d[n + 1] = x
  BY Appended
<1> HIDE DEF d, n
<1>2. SUFFICES ASSUME NEW j \in 1 .. Len(d), d[j].do = "sync", ~d[j].with.close,
                      NEW i \in 1 .. j - 1
               PROVE  d[i].do # "sync"
  BY DEF OnlyFirstKeeps, d
<1>3. j # n + 1
  BY <1>1, <1>2
<1>4. j \in 1 .. n /\ i \in 1 .. n
  BY <1>1, <1>3
<1> QED BY <1>1, <1>2, <1>4 DEF OnlyFirstKeeps, n

LEMMA FirstTail ==
  ASSUME NEW M, NEW c \in Seq(M), c # <<>>, OnlyFirstKeeps(c)
  PROVE  /\ OnlyFirstKeeps(Tail(c))
         /\ Head(c).do = "sync" =>
              \A i \in 1 .. Len(Tail(c)) : Tail(c)[i].do = "sync" => Tail(c)[i].with.close
<1> DEFINE d == Tail(c)
           n == Len(c)
<1>1. /\ n \in Nat /\ n >= 1 /\ Len(d) = n - 1
      /\ \A i \in 1 .. Len(d) : d[i] = c[i + 1] /\ i + 1 \in 1 .. n
      /\ Head(c) = c[1]
  BY Taken
<1> HIDE DEF d, n
<1>2. ASSUME NEW j \in 1 .. Len(d), d[j].do = "sync", ~d[j].with.close
      PROVE  (\A i \in 1 .. j - 1 : d[i].do # "sync") /\ Head(c).do # "sync"
  <2>1. j + 1 \in 1 .. n /\ c[j + 1].do = "sync" /\ ~c[j + 1].with.close
    BY <1>1, <1>2
  <2>2. \A i \in 1 .. (j + 1) - 1 : c[i].do # "sync"
    BY <2>1 DEF OnlyFirstKeeps, n
  <2>3. 1 \in 1 .. (j + 1) - 1 /\ \A i \in 1 .. j - 1 : i + 1 \in 1 .. (j + 1) - 1 /\ i \in 1 .. Len(d)
    BY <1>1
  <2> QED BY <1>1, <2>2, <2>3
<1> QED BY <1>2 DEF OnlyFirstKeeps, d

LEMMA SyncsPass ==
  ASSUME NEW c \in Seq(Commands)
  PROVE  /\ SyncsStay(c, c)
         /\ \A x \in Commands : x.do # "sync" => SyncsStay(c, Append(c, x))
         /\ c # <<>> /\ Head(c).do # "sync" => SyncsStay(c, Tail(c))
<1>1. SyncsStay(c, c)
  BY DEF SyncsStay
<1>2. ASSUME NEW x \in Commands, x.do # "sync" PROVE SyncsStay(c, Append(c, x))
  BY <1>2, AfterAppend, HoldsAppend, FirstAppend DEF SyncsStay
<1>3. ASSUME c # <<>>, Head(c).do # "sync" PROVE SyncsStay(c, Tail(c))
  BY <1>3, AfterTail, HoldsTail, FirstTail DEF SyncsStay
<1> QED BY <1>1, <1>2, <1>3

-----------------------------------------------------------------------------
(* Steps that neither select nor restore                                   *)

\* No connection is new but on the node in use, and an order to close those of another node
\* that is gone has closed them.
ConnectionsPass ==
  /\ \A id \in Open(core'.conns) :
       core'.conns[id] = core.node \/ (id \in Open(core.conns) /\ core'.conns[id] = core.conns[id])
  /\ gaps' \cap {"failed", "dropped", "crossed", "reset", "kept", "unread"} = {} =>
       \A id \in Open(core'.conns) : Holds(commands, "leave", {core'.conns[id]}) =>
         core'.conns[id] = core.node \/ Holds(commands', "leave", {core'.conns[id]})

\* A step that passes selections and restores by keeps what is said of them.
LEMMA Passing ==
  ASSUME WorkerInv, UNCHANGED <<catalog, queue, job>>, gaps \subseteq gaps',
         OnlyViews(worker, worker'), worker'.pending = worker.pending,
         worker'.pending # None => worker'.active = None,
         core'.node = core.node, SyncsStay(commands, commands'), ConnectionsPass
  PROVE  Restores' /\ SelectionsFollow' /\ LeftAreClosed'
<1>1. Restores'
  BY DEF WorkerInv, Restores, SyncsStay
<1>2. SelectionsFollow'
  <2> SUFFICES ASSUME gaps' \cap {"failed", "dropped", "crossed", "reset"} = {}
               PROVE  SelectionsFollow'
    BY DEF SelectionsFollow
  <2>1. gaps \cap {"failed", "dropped", "crossed", "reset"} = {}
    OBVIOUS
  <2>2. /\ job # None \/ Waiting => Lacks(worker.events, "selected") /\ Lacks(queue, "persist")
        /\ PersistsFirst(queue)
        /\ job # None => job.sync.node = catalog.stored[job.profile]
        /\ Follows(commands, "sync", With(Sync, StoredNode),
                   worker.pending = None \/ worker.pending.node = StoredNode)
        /\ ~Waiting =>
             Follows(worker.events, "selected", With(Selections, core.node),
               Follows(queue, "persist", With(Selections, core.node),
                 StoredNode \in Offers[catalog.current] => core.node = StoredNode))
    BY <2>1 DEF WorkerInv, SelectionsFollow
  <2>3. Waiting' <=> Waiting
    BY DEF Waiting, SyncsStay
  <2>4. StoredNode' = StoredNode
    BY DEF StoredNode
  <2>5. Follows(commands', "sync", With(Sync, StoredNode),
                worker'.pending = None \/ worker'.pending.node = StoredNode)
    BY <2>2 DEF Follows, SyncsStay
  <2>6. Lacks(worker.events, "selected") => Lacks(worker'.events, "selected")
    BY DEF OnlyViews
  <2>7. \A values, arrived : Follows(worker.events, "selected", values, arrived) =>
                             Follows(worker'.events, "selected", values, arrived)
    BY DEF OnlyViews, Follows
  <2> QED BY <2>2, <2>3, <2>4, <2>5, <2>6, <2>7 DEF SelectionsFollow
<1>3. LeftAreClosed'
  <2> SUFFICES ASSUME gaps' \cap {"failed", "dropped", "crossed", "reset", "kept", "unread"} = {},
                      NEW id \in Open(core'.conns)
               PROVE  core'.conns[id] = core'.node \/ OnItsWay(core.conns[id])'
    BY DEF LeftAreClosed
  <2> DEFINE node == core'.conns[id]
  <2>1. CASE node = core.node
    BY <2>1
  <2>2. CASE node # core.node
    <3>1. id \in Open(core.conns) /\ node = core.conns[id]
      BY <2>2 DEF ConnectionsPass
    <3>2. gaps \cap {"failed", "dropped", "crossed", "reset", "kept", "unread"} = {}
      OBVIOUS
    <3>3. OnItsWay(node)
      BY <2>2, <3>1, <3>2 DEF WorkerInv, LeftAreClosed
    <3>4. Holds(commands, "leave", {node}) => Holds(commands', "leave", {node})
      BY <2>2 DEF ConnectionsPass
    <3>5. /\ Holds(worker.events, "selected", Leaving(node)) =>
               Holds(worker'.events, "selected", Leaving(node))
          /\ Holds(commands, "sync", Closing) => Holds(commands', "sync", Closing)
      BY DEF OnlyViews, SyncsStay
    <3> QED BY <3>3, <3>4, <3>5 DEF OnItsWay
  <2> QED BY <2>1, <2>2
<1> QED BY <1>1, <1>2, <1>3

\* The worker is served, or serves a page, and its core is as it was but for connections.
Serves ==
  /\ UNCHANGED Elsewhere
  /\ inputs' \in 0 .. MaxInputs /\ gaps \subseteq gaps' /\ gaps' \subseteq Gaps
  /\ CoreTyped(core') /\ core'.mode = core.mode
  /\ core'.profile = core.profile /\ core'.node = core.node
  /\ \A id \in Ids : core'.conns[id] \in {None, core.conns[id]}
  /\ WorkerFits(worker', screen.view) /\ ~worker'.view.busy
  /\ OnlyViews(worker, worker') /\ worker'.pending = worker.pending
  /\ worker'.pending # None => worker'.active = None
  /\ "overtaken" \notin gaps' => ListsFit(worker', Open(core'.conns), used)

\* The page the window shows, and the worker that serves it.
Presentation == [page |-> screen.page, visible |-> screen.visible]
PageFits == worker.page = screen.page /\ worker.visible = screen.visible

\* A step of the worker that serves keeps the invariant.
LEMMA Serving ==
  ASSUME WorkerInv, Serves, commands' \in Seq(Commands), Len(commands') <= Capacity,
         SyncsStay(commands, commands'),
         "dropped" \notin gaps' => Follows(commands', "show", {Presentation}, PageFits'),
         ConnectionsPass
  PROVE  WorkerInv'
<1>1. UNCHANGED <<unseen, screen, catalog, queue, job, used>> /\ gaps \subseteq gaps'
  BY DEF Serves, Elsewhere
<1>2. Typed'
  BY <1>1 DEF WorkerInv, Typed, Serves, WorkerFits
<1>3. CoreFits'
  <2>1. core'.conns \in [Ids -> Nodes \cup {None}] /\ core.conns \in [Ids -> Nodes \cup {None}]
    BY DEF WorkerInv, Typed, Serves, CoreTyped, Connections
  <2>2. core.conns = NoConnections => core'.conns = NoConnections
    BY <2>1 DEF Serves, NoConnections
  <2>3. Open(core'.conns) \subseteq Open(core.conns)
    BY DEF Serves, Open
  <2> QED BY <1>1, <2>2, <2>3 DEF WorkerInv, CoreFits, Serves
<1>4. WindowFollows'
  BY <1>1 DEF Serves, WindowFollows, Presentation, PageFits
<1>5. ClosedOnce'
  BY <1>1 DEF Serves, ClosedOnce
<1>6. Restores' /\ SelectionsFollow' /\ LeftAreClosed'
  BY <1>1, Passing DEF Serves
<1> QED BY <1>2, <1>3, <1>4, <1>5, <1>6 DEF WorkerInv

\* Without a command, or with one that concerns neither.
LEMMA ServingSome ==
  ASSUME WorkerInv, Serves, worker'.page = worker.page, worker'.visible = worker.visible,
         \/ commands' = commands
         \/ \E kind \in {"state", "close", "pause", "clear", "refresh", "test"} : Take(kind)
  PROVE  WorkerInv'
<1>1. Typed /\ commands \in Seq(Commands) /\ Len(commands) <= Capacity
      /\ gaps \subseteq gaps' /\ UNCHANGED screen
  BY DEF WorkerInv, Typed, Serves, Elsewhere
<1>2. "dropped" \notin gaps => Follows(commands, "show", {Presentation}, PageFits)
  BY DEF WorkerInv, WindowFollows, Presentation, PageFits
<1>3. PageFits' <=> PageFits
  BY <1>1 DEF PageFits
<1>4. /\ \A id \in Open(core'.conns) : id \in Open(core.conns) /\ core'.conns[id] = core.conns[id]
  BY DEF Serves, Open
<1>5. CASE commands' = commands
  <2>1. ConnectionsPass
    BY <1>4, <1>5 DEF ConnectionsPass
  <2>2. SyncsStay(commands, commands')
    BY <1>1, <1>5, SyncsPass
  <2> QED BY <1>1, <1>2, <1>3, <1>5, <2>1, <2>2, Serving
<1>6. ASSUME NEW kind \in {"state", "close", "pause", "clear", "refresh", "test"}, Take(kind)
      PROVE  WorkerInv'
  <2>1. /\ commands # <<>> /\ commands' = Tail(commands)
        /\ Head(commands).do = kind
        /\ commands' \in Seq(Commands) /\ Len(commands') <= Capacity
    BY <1>1, <1>6, TakeIs
  <2>2. kind # "sync" /\ kind # "show" /\ kind # "leave"
    OBVIOUS
  <2>3. SyncsStay(commands, commands')
    BY <1>1, <2>1, <2>2, SyncsPass
  <2>4. \A node : Holds(commands, "leave", {node}) => Holds(commands', "leave", {node})
    BY <1>1, <2>1, <2>2, HoldsTail
  <2>5. ConnectionsPass
    BY <1>4, <2>4 DEF ConnectionsPass
  <2>6. "dropped" \notin gaps' => Follows(commands', "show", {Presentation}, PageFits')
    <3>1. Follows(commands, "show", {Presentation}, PageFits) =>
          Follows(Tail(commands), "show", {Presentation}, PageFits)
      BY <1>1, <2>1, <2>2, FollowsTail
    <3> QED BY <1>1, <1>2, <1>3, <2>1, <3>1
  <2> QED BY <2>1, <2>3, <2>5, <2>6, Serving
<1> QED BY <1>5, <1>6

\* What every step of the worker starts from.
LEMMA Known ==
  ASSUME WorkerInv
  PROVE  /\ Typed /\ CoreTyped(core) /\ WorkerTyped(worker)
         /\ WorkerFits(worker, screen.view) /\ ~worker.view.busy
         /\ worker.pending # None => worker.active = None
         /\ "overtaken" \notin gaps => ListsFit(worker, Open(core.conns), used)
         /\ Open(core.conns) \subseteq 1 .. used /\ used \in Nat
         /\ gaps \subseteq Gaps /\ inputs \in 0 .. MaxInputs
         /\ commands \in Seq(Commands) /\ Len(commands) <= Capacity
<1>1. used \in Nat
  BY Constants DEF WorkerInv, Typed
<1> QED BY <1>1 DEF WorkerInv, Typed, CoreFits, WindowFollows, ClosedOnce, Restores

\* The core keeps all but connections.
CoreStays ==
  /\ CoreTyped(core') /\ core'.mode = core.mode
  /\ core'.profile = core.profile /\ core'.node = core.node
  /\ \A id \in Ids : core'.conns[id] \in {None, core.conns[id]}

LEMMA SameCoreStays == ASSUME WorkerInv, core' = core PROVE CoreStays
BY Known DEF CoreStays

LEMMA Refreshing ==
  ASSUME WorkerInv, UNCHANGED Elsewhere, inputs' \in 0 .. MaxInputs,
         gaps \subseteq gaps', gaps' \subseteq Gaps, CoreStays,
         WorkerFits(worker', screen.view), OnlyViews(worker, worker'),
         worker'.pending = worker.pending, worker'.pending # None => worker'.active = None,
         worker'.view.busy = FALSE,
         \/ Refreshes(worker, worker', Open(core'.conns)) /\ Overtaken \subseteq gaps'
         \/ Trimmed(worker, worker')
  PROVE  Serves
<1>1. Open(core'.conns) \subseteq Open(core.conns)
  BY DEF CoreStays, Open
<1>2. ASSUME "overtaken" \notin gaps' PROVE ListsFit(worker', Open(core'.conns), used)
  <2>1. ListsFit(worker, Open(core'.conns), used)
    BY <1>1, <1>2, Known, FewerFit
  <2>2. CASE Refreshes(worker, worker', Open(core'.conns)) /\ Overtaken \subseteq gaps'
    <3>1. worker.items = <<>>
      BY <1>2, <2>2, OvertakenIs
    <3> QED BY <1>1, <2>1, <2>2, <3>1, Known DEF Refreshes
  <2>3. CASE Trimmed(worker, worker')
    BY <2>1, <2>3, TrimmedFit
  <2> QED BY <2>2, <2>3
<1> QED BY <1>2 DEF Serves, CoreStays

LEMMA KeepsFits ==
  ASSUME WorkerInv, Keeps(worker, worker')
  PROVE  /\ OnlyViews(worker, worker') /\ worker'.pending = worker.pending
         /\ worker'.pending # None => worker'.active = None
         /\ worker'.view.busy = FALSE
         /\ worker'.page = worker.page /\ worker'.visible = worker.visible
<1>1. worker'.view.busy \in {worker.view.busy}
  BY DEF Keeps
<1>2. worker.view.busy = FALSE
  BY Known DEF WorkerTyped, View
<1> QED BY <1>1, <1>2, Known DEF Keeps, Same

LEMMA RefreshKeeps == ASSUME WorkerInv, Refresh PROVE WorkerInv'
<1>1. PICK up \in Succeeding(worker.active) :
        /\ worker' = RefreshAll(worker, core, up)
        /\ Called(up, worker.active, {}, Overtaken)
  BY DEF Refresh
<1>2. Take("refresh") /\ UNCHANGED <<core, Elsewhere>>
  BY DEF Refresh
<1>3. /\ inputs' \in 0 .. MaxInputs /\ gaps \subseteq gaps' /\ gaps' \subseteq Gaps
      /\ Overtaken \subseteq gaps'
  BY <1>1, Known, CalledIs, OvertakenIs
<1>4. /\ WorkerFits(worker', screen.view) /\ Keeps(worker, worker')
      /\ Refreshes(worker, worker', Open(core.conns))
  BY <1>1, Known, AllIs
<1>5. CoreStays
  BY <1>2, SameCoreStays
<1>6. Serves
  BY <1>2, <1>3, <1>4, <1>5, KeepsFits, Refreshing
<1> QED BY <1>2, <1>4, <1>6, KeepsFits, ServingSome

LEMMA TestProxiesKeeps == ASSUME WorkerInv, TestProxies PROVE WorkerInv'
<1>1. PICK up \in Succeeding(worker.active) :
        /\ worker' = IF worker.active = None THEN worker ELSE Tested(worker, up)
        /\ Called(up, worker.active, {}, {})
  BY DEF TestProxies
<1>2. Take("test") /\ UNCHANGED <<core, Elsewhere>>
  BY DEF TestProxies
<1>3. inputs' \in 0 .. MaxInputs /\ gaps \subseteq gaps' /\ gaps' \subseteq Gaps
  BY <1>1, Known, CalledIs
<1>4. /\ WorkerFits(worker', screen.view) /\ Keeps(worker, worker')
      /\ Trimmed(worker, worker')
  <2>1. CASE worker.active = None
    BY <1>1, <2>1, Known DEF Keeps, Same, OnlyViews, Trimmed
  <2>2. CASE worker.active # None
    <3> DEFINE u == SetBusy(worker, TRUE)
               m == RefreshMetadata(u, core.node, up)
    <3>1. worker' = SetBusy(m, FALSE)
      BY <1>1, <2>2 DEF Tested
    <3>2. /\ WorkerFits(u, screen.view) /\ OnlyViews(worker, u) /\ Same(worker, u)
          /\ SameLists(worker, u)
      BY Known, BusyIs
    <3> HIDE DEF u
    <3>3. WorkerFits(m, screen.view) /\ Keeps(u, m) /\ Trimmed(u, m)
      <4>1. core.node \in Nodes \cup {None}
        BY Known DEF CoreTyped
      <4> QED BY <3>2, <4>1, MetadataIs
    <3> HIDE DEF m
    <3>4. /\ WorkerFits(worker', screen.view) /\ OnlyViews(m, worker') /\ Same(m, worker')
          /\ SameLists(m, worker') /\ worker'.view.busy = FALSE
      BY <3>1, <3>3, BusyIs
    <3>5. Keeps(worker, worker')
      <4>1. worker.view.busy = FALSE
        BY Known DEF WorkerTyped, View
      <4> QED BY <3>2, <3>3, <3>4, <4>1 DEF Keeps, Same, OnlyViews
    <3> QED BY <3>2, <3>3, <3>4, <3>5 DEF Trimmed, SameLists
  <2> QED BY <2>1, <2>2
<1>5. CoreStays
  BY <1>2, SameCoreStays
<1>6. Serves
  BY <1>2, <1>3, <1>4, <1>5, KeepsFits, Refreshing
<1> QED BY <1>2, <1>4, <1>6, KeepsFits, ServingSome

LEMMA PollKeeps == ASSUME WorkerInv, Poll PROVE WorkerInv'
<1>1. PICK up \in Succeeding(worker.active), metadata \in BOOLEAN :
        /\ LET w == ConfigureStreams(worker, up) IN
           worker' = IF metadata THEN RefreshMetadata(w, core.node, up) ELSE w
        /\ Called(up, worker.active, {}, {})
  BY DEF Poll
<1>2. commands' = commands /\ UNCHANGED <<core, Elsewhere>>
  BY DEF Poll
<1>3. inputs' \in 0 .. MaxInputs /\ gaps \subseteq gaps' /\ gaps' \subseteq Gaps
  BY <1>1, Known, CalledIs
<1>4. /\ WorkerFits(worker', screen.view) /\ Keeps(worker, worker')
      /\ Trimmed(worker, worker')
  <2> DEFINE w == ConfigureStreams(worker, up)
  <2>1. WorkerFits(w, screen.view) /\ Keeps(worker, w) /\ Trimmed(worker, w)
    BY Known, ConfiguringIs DEF WorkerFits
  <2> HIDE DEF w
  <2>2. CASE metadata
    <3>1. worker' = RefreshMetadata(w, core.node, up)
      BY <1>1, <2>2 DEF w
    <3>2. core.node \in Nodes \cup {None}
      BY Known DEF CoreTyped
    <3>3. WorkerFits(worker', screen.view) /\ Keeps(w, worker') /\ Trimmed(w, worker')
      BY <2>1, <3>1, <3>2, MetadataIs
    <3>4. Keeps(worker, worker')
      BY <2>1, <3>3, KeepsBoth
    <3> QED BY <2>1, <3>3, <3>4 DEF Trimmed
  <2>3. CASE ~metadata
    <3>1. worker' = w
      BY <1>1, <2>3 DEF w
    <3> QED BY <2>1, <3>1
  <2> QED BY <2>2, <2>3
<1>5. CoreStays
  BY <1>2, SameCoreStays
<1>6. Serves
  BY <1>2, <1>3, <1>4, <1>5, KeepsFits, Refreshing
<1> QED BY <1>2, <1>4, <1>6, KeepsFits, ServingSome

LEMMA FlushTickKeeps == ASSUME WorkerInv, FlushTick PROVE WorkerInv'
<1>1. /\ worker' = Flush(worker) /\ commands' = commands
      /\ UNCHANGED <<core, gaps, inputs>> /\ UNCHANGED Elsewhere
  BY DEF FlushTick
<1>2. WorkerFits(worker', screen.view) /\ Keeps(worker, worker') /\ SameLists(worker, worker')
  BY <1>1, Known, FlushIs DEF WorkerFits
<1>3. Trimmed(worker, worker')
  BY <1>2 DEF Trimmed, SameLists
<1>4. CoreStays /\ gaps' \subseteq Gaps /\ inputs' \in 0 .. MaxInputs
  BY <1>1, SameCoreStays, Known
<1>5. Serves
  BY <1>1, <1>2, <1>3, <1>4, KeepsFits, Refreshing
<1> QED BY <1>1, <1>2, <1>5, KeepsFits, ServingSome

LEMMA OtherItemKeeps == ASSUME WorkerInv, OtherItem PROVE WorkerInv'
<1>1. /\ worker' = [worker EXCEPT !.dirty = TRUE] /\ commands' = commands
      /\ UNCHANGED <<core, gaps, inputs>> /\ UNCHANGED Elsewhere
  BY DEF OtherItem
<1>2. /\ WorkerTyped(worker') /\ Same(worker, worker') /\ Trimmed(worker, worker')
      /\ worker'.events = worker.events /\ worker'.lost = worker.lost
      /\ worker'.late = worker.late /\ worker'.view = worker.view
      /\ worker'.streams = worker.streams
  BY <1>1, Known DEF WorkerTyped, Same, Trimmed
<1>3. WorkerFits(worker', screen.view) /\ Keeps(worker, worker')
  BY <1>2, Known DEF WorkerFits, Shown, StatusFits, Wanted, Keeps, Same, OnlyViews
<1>4. CoreStays /\ gaps' \subseteq Gaps /\ inputs' \in 0 .. MaxInputs
  BY <1>1, SameCoreStays, Known
<1>5. Serves
  BY <1>1, <1>2, <1>3, <1>4, KeepsFits, Refreshing
<1> QED BY <1>1, <1>3, <1>5, KeepsFits, ServingSome

LEMMA StreamEndsKeeps == ASSUME WorkerInv, StreamEnds PROVE WorkerInv'
<1>1. PICK kind \in worker.streams :
        worker' = MarkDegraded([worker EXCEPT !.streams = @ \ {kind}])
  BY DEF StreamEnds
<1>2. commands' = commands /\ UNCHANGED <<core, gaps, inputs>> /\ UNCHANGED Elsewhere
  BY DEF StreamEnds
<1> DEFINE u == [worker EXCEPT !.streams = worker.streams \ {kind}]
<1>3. worker' = MarkDegraded(u)
  BY <1>1
<1>4. /\ WorkerTyped(u) /\ Same(worker, u) /\ SameLists(worker, u)
      /\ u.events = worker.events /\ u.lost = worker.lost /\ u.view = worker.view
      /\ u.streams = worker.streams \ {kind}
  BY Known DEF WorkerTyped, Same, SameLists
<1> HIDE DEF u
<1>5. Shown(u, screen.view)
  BY <1>4, Known DEF WorkerFits, Shown
<1>6. /\ WorkerTyped(worker') /\ Shown(worker', screen.view)
      /\ OnlyViews(u, worker') /\ Same(u, worker') /\ SameLists(u, worker')
      /\ worker'.view.status = "degraded" /\ worker'.view.busy = u.view.busy
      /\ worker'.streams = u.streams
  BY <1>3, <1>4, <1>5, DegradedIs
<1>7. Keeps(worker, worker') /\ Trimmed(worker, worker')
  BY <1>4, <1>6 DEF Keeps, Trimmed, Same, SameLists, OnlyViews
<1>8. worker.active # None /\ worker.streams \subseteq Wanted(worker)
  BY <1>1, Known DEF WorkerFits, Wanted
<1>9. worker'.streams \subseteq Wanted(worker') /\ StatusFits(worker')
  BY <1>4, <1>6, <1>7, <1>8 DEF Keeps, Same, Wanted, StatusFits
<1>10. CoreStays /\ gaps' \subseteq Gaps /\ inputs' \in 0 .. MaxInputs
  BY <1>2, SameCoreStays, Known
<1>11. WorkerFits(worker', screen.view)
  BY <1>6, <1>9 DEF WorkerFits
<1>12. Serves
  BY <1>2, <1>7, <1>10, <1>11, KeepsFits, Refreshing
<1> QED BY <1>2, <1>7, <1>12, KeepsFits, ServingSome

LEMMA SendItemKeeps == ASSUME WorkerInv, SendItem PROVE WorkerInv'
<1> DEFINE open == Open(core.conns)
           items == <<open>>
<1>1. /\ worker' = [worker EXCEPT !.items = items] /\ commands' = commands
      /\ UNCHANGED <<core, gaps, inputs>> /\ UNCHANGED Elsewhere
      /\ "connections" \in worker.streams
  BY DEF SendItem
<1>2. open \in SUBSET Ids
  BY OpenAreIds
<1>3. /\ items \in Seq(SUBSET Ids) /\ Len(items) = 1
      /\ \A k \in DOMAIN items : items[k] = open
  <2> HIDE DEF open
  <2> QED BY <1>2
<1> HIDE DEF items, open
<1>a. items \in Seq(SUBSET Ids) /\ Len(items) <= 1
  BY <1>3
<1>b. WorkerTyped(worker')
  BY <1>1, <1>a, Known DEF WorkerTyped
<1>4. /\ WorkerTyped(worker') /\ Same(worker, worker')
      /\ worker'.connections = worker.connections /\ worker'.closed = worker.closed
      /\ worker'.items = items
      /\ worker'.events = worker.events /\ worker'.lost = worker.lost
      /\ worker'.late = worker.late /\ worker'.view = worker.view
      /\ worker'.streams = worker.streams
  BY <1>1, <1>b, Known DEF WorkerTyped, Same
<1>5. WorkerFits(worker', screen.view) /\ Keeps(worker, worker')
  BY <1>4, Known DEF WorkerFits, Shown, StatusFits, Wanted, Keeps, Same, OnlyViews
<1>6. CoreStays /\ gaps' \subseteq Gaps /\ inputs' \in 0 .. MaxInputs
  BY <1>1, SameCoreStays, Known
<1>7. "overtaken" \notin gaps' => ListsFit(worker', Open(core'.conns), used)
  BY <1>1, <1>3, <1>4, Known DEF ListsFit, open
<1>8. Serves
  BY <1>1, <1>5, <1>6, <1>7, KeepsFits DEF Serves, CoreStays
<1> QED BY <1>1, <1>5, <1>8, KeepsFits, ServingSome

LEMMA OneItem ==
  ASSUME NEW S, NEW s \in Seq(S), s # <<>>, Len(s) <= 1
  PROVE  Head(s) \in S /\ 1 \in DOMAIN s /\ Head(s) = s[1] /\ Tail(s) = <<>>
<1>1. /\ Head(s) \in S /\ Head(s) = s[1] /\ Tail(s) \in Seq(S)
      /\ Len(Tail(s)) = Len(s) - 1 /\ Len(s) \in Nat /\ Len(s) >= 1
  BY Taken
<1>2. DOMAIN s = 1 .. Len(s)
  BY LenProperties
<1>3. Len(s) = 1
  BY <1>1
<1>4. Len(Tail(s)) = 0
  BY <1>1, <1>3
<1>5. Tail(s) = <<>>
  BY <1>1, <1>4, EmptySeq
<1>6. 1 \in DOMAIN s
  BY <1>2, <1>3
<1> QED BY <1>1, <1>5, <1>6

LEMMA ConnectionsItemKeeps == ASSUME WorkerInv, ConnectionsItem PROVE WorkerInv'
<1> DEFINE w == [worker EXCEPT !.items = Tail(worker.items)]
           item == Head(worker.items)
<1>1. /\ worker' = IF worker.paused THEN w ELSE UpdateConnections(w, item)
      /\ worker.items # <<>> /\ commands' = commands
      /\ UNCHANGED <<core, gaps, inputs>> /\ UNCHANGED Elsewhere
  BY Known DEF ConnectionsItem, WorkerTyped
<1>2. worker.items \in Seq(SUBSET Ids) /\ Len(worker.items) <= 1
  BY Known DEF WorkerTyped
<1>3. /\ item \in SUBSET Ids /\ 1 \in DOMAIN worker.items /\ item = worker.items[1]
      /\ Tail(worker.items) = <<>>
  BY <1>1, <1>2, OneItem
<1> DEFINE none == <<>>
<1>4. w = [worker EXCEPT !.items = none]
  BY <1>3
<1> HIDE DEF item, w
<1>5. /\ WorkerTyped(w) /\ Same(worker, w) /\ w.items = <<>>
      /\ w.connections = worker.connections /\ w.closed = worker.closed
      /\ w.events = worker.events /\ w.lost = worker.lost /\ w.late = worker.late
      /\ w.view = worker.view /\ w.streams = worker.streams
  <2>1. none \in Seq(SUBSET Ids) /\ Len(none) <= 1
    BY EmptySeq
  <2> HIDE DEF none
  <2>a. WorkerTyped(worker)
    BY Known
  <2>b. WorkerTyped(w)
    BY <1>4, <2>1, <2>a DEF WorkerTyped
  <2>2. /\ WorkerTyped(w) /\ Same(worker, w) /\ w.items = none
        /\ w.connections = worker.connections /\ w.closed = worker.closed
        /\ w.events = worker.events /\ w.lost = worker.lost /\ w.late = worker.late
        /\ w.view = worker.view /\ w.streams = worker.streams
    BY <1>4, <2>a, <2>b DEF WorkerTyped, Same
  <2> QED BY <2>2 DEF none
<1>6. /\ WorkerTyped(worker') /\ Same(w, worker') /\ worker'.items = <<>>
      /\ worker'.events = w.events /\ worker'.lost = w.lost /\ worker'.late = w.late
      /\ worker'.view = w.view /\ worker'.streams = w.streams
  <2>1. CASE worker.paused
    BY <1>1, <1>5, <2>1 DEF Same
  <2>2. CASE ~worker.paused
    BY <1>1, <1>3, <1>5, <2>2, UpdatingIs DEF Keeps
  <2> QED BY <2>1, <2>2
<1>7. WorkerFits(worker', screen.view) /\ Keeps(worker, worker')
  BY <1>5, <1>6, Known DEF WorkerFits, Shown, StatusFits, Wanted, Keeps, Same, OnlyViews
<1>8. CoreStays /\ gaps' \subseteq Gaps /\ inputs' \in 0 .. MaxInputs
  BY <1>1, SameCoreStays, Known
<1>9. ASSUME "overtaken" \notin gaps' PROVE ListsFit(worker', Open(core'.conns), used)
  <2>1. ListsFit(worker, Open(core.conns), used)
    BY <1>1, <1>9, Known
  <2>2. CASE worker.paused
    <3>1. worker' = w
      BY <1>1, <2>2
    <3>2. Trimmed(worker, w)
      BY <1>5 DEF Trimmed
    <3> QED BY <1>1, <2>1, <3>1, <3>2, TrimmedFit
  <2>3. CASE ~worker.paused
    <3>1. worker' = UpdateConnections(w, item)
      BY <1>1, <2>3
    <3>2. /\ item \subseteq 1 .. used /\ worker.connections \cap Open(core.conns) \subseteq item
          /\ \A m \in DOMAIN worker.closed : worker.closed[m] \notin item
      BY <1>3, <2>1 DEF ListsFit
    <3>3. /\ IsInjective(w.closed) /\ w.connections \subseteq 1 .. used
          /\ w.connections \cap Open(core.conns) \subseteq item
          /\ \A k \in DOMAIN w.closed :
               /\ w.closed[k] \in 1 .. used /\ w.closed[k] \notin w.connections
               /\ w.closed[k] \notin Open(core.conns) /\ w.closed[k] \notin item
      BY <1>5, <2>1, <3>2 DEF ListsFit
    <3>4. used \in Nat
      BY Known
    <3>5. ListsFit(worker', Open(core.conns), used)
      BY <1>3, <1>5, <3>1, <3>2, <3>3, <3>4, UpdateFits
    <3> QED BY <1>1, <3>5
  <2> QED BY <2>2, <2>3
<1>10. Serves
  BY <1>1, <1>7, <1>8, <1>9, KeepsFits DEF Serves, CoreStays
<1> QED BY <1>1, <1>7, <1>10, KeepsFits, ServingSome

\* What is published otherwise.
LEMMA PublishedServes ==
  ASSUME WorkerInv, NEW u, WorkerTyped(u), worker' = Publish(u), StatusFits(u),
         u.streams \subseteq Wanted(u), u.events = worker.events, u.view.busy = FALSE
  PROVE  /\ WorkerFits(worker', screen.view) /\ OnlyViews(worker, worker')
         /\ Same(u, worker') /\ SameLists(u, worker') /\ worker'.view.busy = FALSE
<1>1. /\ WorkerTyped(worker') /\ Shown(worker', screen.view)
      /\ OnlyViews(u, worker') /\ Same(u, worker') /\ SameLists(u, worker')
      /\ worker'.view = u.view /\ worker'.streams = u.streams /\ worker'.late = u.late
  BY Publishing
<1>2. worker'.streams \subseteq Wanted(worker') /\ StatusFits(worker')
  BY <1>1 DEF Same, Wanted, StatusFits
<1> QED BY <1>1, <1>2 DEF WorkerFits, OnlyViews

LEMMA SetPausedKeeps == ASSUME WorkerInv, SetPaused PROVE WorkerInv'
<1> DEFINE u == [worker EXCEPT !.paused = Given]
<1>1. /\ Take("pause") /\ worker' = Publish(u)
      /\ UNCHANGED <<core, gaps, inputs>> /\ UNCHANGED Elsewhere
  BY DEF SetPaused
<1>2. Given \in BOOLEAN
  BY <1>1, Known, TakeIs, CommandIs
<1>3. /\ WorkerTyped(u) /\ SameLists(worker, u)
      /\ u.events = worker.events /\ u.view = worker.view /\ u.streams = worker.streams
      /\ u.late = worker.late /\ u.active = worker.active /\ u.page = worker.page
      /\ u.visible = worker.visible /\ u.pending = worker.pending
  BY <1>2, Known DEF WorkerTyped, SameLists
<1> HIDE DEF u
<1>4. StatusFits(u) /\ u.streams \subseteq Wanted(u) /\ u.view.busy = FALSE
  BY <1>3, Known DEF WorkerFits, StatusFits, Wanted, WorkerTyped, View
<1>5. /\ WorkerFits(worker', screen.view) /\ OnlyViews(worker, worker')
      /\ Same(u, worker') /\ SameLists(u, worker') /\ worker'.view.busy = FALSE
  BY <1>1, <1>3, <1>4, PublishedServes
<1>6. CoreStays /\ gaps' \subseteq Gaps /\ inputs' \in 0 .. MaxInputs
  BY <1>1, SameCoreStays, Known
<1>7. /\ Trimmed(worker, worker') /\ worker'.pending = worker.pending
      /\ worker'.active = worker.active
      /\ worker'.page = worker.page /\ worker'.visible = worker.visible
  BY <1>3, <1>5 DEF Trimmed, SameLists, Same
<1>8. Serves
  BY <1>1, <1>5, <1>6, <1>7, Known, Refreshing
<1> QED BY <1>1, <1>7, <1>8, ServingSome

LEMMA NoneClosed ==
  ASSUME NEW w, NEW open, NEW n, ListsFit(w, open, n),
         NEW v, v.closed = <<>>, v.connections \subseteq w.connections,
         v.items \in {w.items, <<>>}
  PROVE  ListsFit(v, open, n)
<1>1. IsInjective(<<>>) /\ \A k \in DOMAIN <<>> : FALSE
  BY EmptySeq DEF IsInjective
<1> QED BY <1>1 DEF ListsFit

LEMMA ClearClosedKeeps == ASSUME WorkerInv, ClearClosed PROVE WorkerInv'
<1> DEFINE none == <<>>
           u == [worker EXCEPT !.closed = none]
<1>1. /\ Take("clear") /\ worker' = Publish(u)
      /\ UNCHANGED <<core, gaps, inputs>> /\ UNCHANGED Elsewhere
  BY DEF ClearClosed
<1>2. /\ WorkerTyped(u) /\ Same(worker, u)
      /\ u.events = worker.events /\ u.view = worker.view /\ u.streams = worker.streams
      /\ u.late = worker.late /\ u.closed = <<>> /\ u.connections = worker.connections
      /\ u.items = worker.items
  <2>1. none \in Seq(Ids) /\ Len(none) <= Kept
    BY EmptySeq, Constants
  <2> HIDE DEF none
  <2>a. WorkerTyped(worker)
    BY Known
  <2>b. WorkerTyped(u)
    BY <2>1, <2>a DEF WorkerTyped
  <2>2. /\ WorkerTyped(u) /\ Same(worker, u)
        /\ u.events = worker.events /\ u.view = worker.view /\ u.streams = worker.streams
        /\ u.late = worker.late /\ u.closed = none /\ u.connections = worker.connections
        /\ u.items = worker.items
    BY <2>a, <2>b DEF WorkerTyped, Same
  <2> QED BY <2>2 DEF none
<1> HIDE DEF u
<1>3. StatusFits(u) /\ u.streams \subseteq Wanted(u) /\ u.view.busy = FALSE
  BY <1>2, Known DEF WorkerFits, StatusFits, Wanted, WorkerTyped, View, Same
<1>4. /\ WorkerFits(worker', screen.view) /\ OnlyViews(worker, worker')
      /\ Same(u, worker') /\ SameLists(u, worker') /\ worker'.view.busy = FALSE
  BY <1>1, <1>2, <1>3, PublishedServes
<1>5. CoreStays /\ gaps' \subseteq Gaps /\ inputs' \in 0 .. MaxInputs
  BY <1>1, SameCoreStays, Known
<1>6. /\ worker'.pending = worker.pending /\ worker'.active = worker.active
      /\ worker'.page = worker.page /\ worker'.visible = worker.visible
  BY <1>2, <1>4 DEF Same
<1>7. "overtaken" \notin gaps' => ListsFit(worker', Open(core'.conns), used)
  BY <1>1, <1>2, <1>4, Known, NoneClosed DEF SameLists
<1>8. Serves
  BY <1>1, <1>4, <1>5, <1>6, <1>7, Known DEF Serves, CoreStays
<1> QED BY <1>1, <1>6, <1>8, ServingSome

LEMMA CoreStopsKeeps == ASSUME WorkerInv, CoreStops PROVE WorkerInv'
<1>1. /\ Take("state") /\ UNCHANGED <<core, gaps, inputs>> /\ UNCHANGED Elsewhere
  BY DEF CoreStops
<1>2. CoreStays /\ gaps' \subseteq Gaps /\ inputs' \in 0 .. MaxInputs
  BY <1>1, SameCoreStays, Known
<1>3. CASE worker.active = None /\ Unconnected(worker) = worker
  <2>1. worker' = worker
    BY <1>3 DEF CoreStops
  <2>2. /\ WorkerFits(worker', screen.view) /\ Keeps(worker, worker')
        /\ Trimmed(worker, worker')
    BY <2>1, Known DEF Keeps, Same, OnlyViews, Trimmed
  <2>3. Serves
    BY <1>1, <1>2, <2>2, KeepsFits, Refreshing
  <2> QED BY <1>1, <2>2, <2>3, KeepsFits, ServingSome
<1>4. CASE ~(worker.active = None /\ Unconnected(worker) = worker)
  <2> DEFINE u == [WithStreams(Unconnected(worker), {}) EXCEPT !.active = None,
                     !.connections = {}, !.closed = <<>>]
             s == Unconnected(worker)
             none == <<>>
             t == [s EXCEPT !.streams = {}, !.items = none]
  <2>1. worker' = Publish(u)
    BY <1>4 DEF CoreStops
  <2>2. u = [t EXCEPT !.active = None, !.connections = {}, !.closed = none]
    BY DEF WithStreams
  <2>3. /\ WorkerTyped(s) /\ s.events = worker.events /\ s.view = Offline
        /\ s.page = worker.page /\ s.visible = worker.visible /\ s.pending = worker.pending
    BY Known DEF Unconnected, WorkerTyped, Offline, View, Statuses
  <2> HIDE DEF s, u
  <2>4. /\ WorkerTyped(u) /\ u.events = worker.events /\ u.view = Offline
        /\ u.page = worker.page /\ u.visible = worker.visible /\ u.pending = worker.pending
        /\ u.streams = {} /\ u.active = None /\ u.connections = {} /\ u.closed = <<>>
        /\ u.items = <<>>
    <3>1. /\ none \in Seq(Ids) /\ none \in Seq(SUBSET Ids)
          /\ Len(none) <= 1 /\ Len(none) <= Kept
      BY EmptySeq, Constants
    <3> HIDE DEF none
    <3>a. WorkerTyped(s)
      BY <2>3
    <3>b. WorkerTyped(t)
      BY <3>1, <3>a DEF WorkerTyped
    <3>2. /\ WorkerTyped(t) /\ t.events = s.events /\ t.view = s.view
          /\ t.page = s.page /\ t.visible = s.visible /\ t.pending = s.pending
          /\ t.streams = {} /\ t.items = none
      BY <3>a, <3>b DEF WorkerTyped
    <3> HIDE DEF t
    <3>c. WorkerTyped(u)
      BY <2>2, <3>1, <3>b DEF WorkerTyped
    <3>3. /\ WorkerTyped(u) /\ u.events = t.events /\ u.view = t.view
          /\ u.page = t.page /\ u.visible = t.visible /\ u.pending = t.pending
          /\ u.streams = t.streams /\ u.active = None /\ u.connections = {}
          /\ u.closed = none /\ u.items = t.items
      BY <2>2, <3>b, <3>c DEF WorkerTyped
    <3> QED BY <2>3, <3>2, <3>3 DEF none
  <2>5. StatusFits(u) /\ u.streams \subseteq Wanted(u) /\ u.view.busy = FALSE
    BY <2>4 DEF StatusFits, Offline
  <2>6. /\ WorkerFits(worker', screen.view) /\ OnlyViews(worker, worker')
        /\ Same(u, worker') /\ SameLists(u, worker') /\ worker'.view.busy = FALSE
    BY <2>1, <2>4, <2>5, PublishedServes
  <2>7. /\ worker'.pending = worker.pending /\ worker'.active = None
        /\ worker'.page = worker.page /\ worker'.visible = worker.visible
    BY <2>4, <2>6 DEF Same
  <2>8. "overtaken" \notin gaps' => ListsFit(worker', Open(core'.conns), used)
    BY <1>1, <2>4, <2>6, Known, NoneClosed DEF SameLists
  <2>9. Serves
    BY <1>1, <1>2, <2>6, <2>7, <2>8 DEF Serves, CoreStays
  <2> QED BY <1>1, <2>7, <2>9, ServingSome
<1> QED BY <1>3, <1>4

\* Connections that are closed are gone, the others stay.
LEMMA ClosingStays ==
  ASSUME WorkerInv, NEW gone, NEW conns, conns = [id \in Ids |-> IF gone[id] THEN None ELSE core.conns[id]],
         core' = [core EXCEPT !.conns = conns]
  PROVE  /\ CoreStays /\ core'.conns = conns
         /\ \A id \in Open(conns) : ~gone[id] /\ id \in Open(core.conns)
                                    /\ core'.conns[id] = core.conns[id]
<1>1. CoreTyped(core) /\ core.conns \in [Ids -> Nodes \cup {None}]
  BY Known DEF CoreTyped, Connections
<1>2. conns \in Connections
  BY <1>1 DEF Connections
<1>3. /\ CoreTyped(core') /\ core'.mode = core.mode /\ core'.profile = core.profile
      /\ core'.node = core.node /\ core'.conns = conns
  BY <1>1, <1>2 DEF CoreTyped
<1> QED BY <1>3 DEF CoreStays, Open

LEMMA CloseConnectionsKeeps == ASSUME WorkerInv, CloseConnections PROVE WorkerInv'
<1>1. Take("close") /\ UNCHANGED Elsewhere
  BY DEF CloseConnections
<1>2. PICK up \in Succeeding(worker.active) :
        LET conns == [id \in Ids |-> IF id \in Given THEN None ELSE core.conns[id]] IN
        IF "close" \in up
        THEN /\ core' = [core EXCEPT !.conns = conns]
             /\ worker' = RefreshStats(worker, Open(conns), up)
             /\ Called(up, worker.active, {}, Overtaken)
        ELSE /\ UNCHANGED <<core, worker>>
             /\ Called(up, worker.active, {}, {})
  BY DEF CloseConnections
<1>3. CASE "close" \in up
  <2> DEFINE gone == [id \in Ids |-> id \in Given]
             conns == [id \in Ids |-> IF gone[id] THEN None ELSE core.conns[id]]
  <2>1. /\ core' = [core EXCEPT !.conns = conns]
        /\ worker' = RefreshStats(worker, Open(conns), up)
        /\ Called(up, worker.active, {}, Overtaken)
    <3>1. conns = [id \in Ids |-> IF id \in Given THEN None ELSE core.conns[id]]
      OBVIOUS
    <3> HIDE DEF conns
    <3> QED BY <1>2, <1>3, <3>1
  <2>2. CoreStays /\ core'.conns = conns
    <3> HIDE DEF gone
    <3> QED BY <2>1, ClosingStays
  <2> HIDE DEF conns
  <2>3. /\ WorkerFits(worker', screen.view) /\ Keeps(worker, worker')
        /\ Refreshes(worker, worker', Open(conns))
    BY <2>1, Known, OpenAreIds, StatsAre
  <2>4. /\ inputs' \in 0 .. MaxInputs /\ gaps \subseteq gaps' /\ gaps' \subseteq Gaps
        /\ Overtaken \subseteq gaps'
    BY <2>1, Known, CalledIs, OvertakenIs
  <2>5. Serves
    BY <1>1, <2>2, <2>3, <2>4, KeepsFits, Refreshing
  <2> QED BY <1>1, <2>3, <2>5, KeepsFits, ServingSome
<1>4. CASE "close" \notin up
  <2>1. UNCHANGED <<core, worker>> /\ Called(up, worker.active, {}, {})
    BY <1>2, <1>4
  <2>2. inputs' \in 0 .. MaxInputs /\ gaps \subseteq gaps' /\ gaps' \subseteq Gaps
    BY <2>1, Known, CalledIs
  <2>3. /\ WorkerFits(worker', screen.view) /\ Keeps(worker, worker')
        /\ Trimmed(worker, worker')
    BY <2>1, Known DEF Keeps, Same, OnlyViews, Trimmed
  <2>4. CoreStays
    BY <2>1, SameCoreStays
  <2>5. Serves
    BY <1>1, <2>2, <2>3, <2>4, KeepsFits, Refreshing
  <2> QED BY <1>1, <2>3, <2>5, KeepsFits, ServingSome
<1> QED BY <1>3, <1>4

LEMMA CloseForProxyKeeps == ASSUME WorkerInv, CloseConnectionsForProxy PROVE WorkerInv'
<1>1. Take("leave") /\ UNCHANGED Elsewhere
  BY DEF CloseConnectionsForProxy
<1>2. PICK up \in Succeeding(worker.active) :
        LET conns == IF {"stats", "close"} \subseteq up
                     THEN [id \in Ids |-> IF core.conns[id] = Given THEN None ELSE core.conns[id]]
                     ELSE core.conns IN
        /\ core' = [core EXCEPT !.conns = conns]
        /\ worker' = IF "stats" \in up THEN RefreshStats(worker, Open(conns), up) ELSE worker
        /\ Called(up, worker.active, {"stats", "close"}, Overtaken \cup Missed(Given))
  BY DEF CloseConnectionsForProxy
<1>3. /\ inputs' \in 0 .. MaxInputs /\ gaps \subseteq gaps' /\ gaps' \subseteq Gaps
      /\ Overtaken \subseteq gaps' /\ Missed(Given) \subseteq gaps'
      /\ "failed" \notin gaps' => worker.active = None \/ {"stats", "close"} \subseteq up
      /\ up # {} => worker.active # None
  <2>1. Overtaken \cup Missed(Given) \in SUBSET Gaps
    BY OvertakenIs DEF Missed, Gaps
  <2> QED BY <1>2, <2>1, Known, CalledIs
<1> DEFINE gone == [id \in Ids |-> {"stats", "close"} \subseteq up /\ core.conns[id] = Given]
           conns == [id \in Ids |-> IF gone[id] THEN None ELSE core.conns[id]]
<1>4. /\ core' = [core EXCEPT !.conns = conns]
      /\ worker' = IF "stats" \in up THEN RefreshStats(worker, Open(conns), up) ELSE worker
  <2>1. core.conns \in [Ids -> Nodes \cup {None}]
    BY Known DEF CoreTyped, Connections
  <2>2. conns = IF {"stats", "close"} \subseteq up
                THEN [id \in Ids |-> IF core.conns[id] = Given THEN None ELSE core.conns[id]]
                ELSE core.conns
    <3>1. CASE {"stats", "close"} \subseteq up
      BY <3>1
    <3>2. CASE ~({"stats", "close"} \subseteq up)
      BY <2>1, <3>2
    <3> QED BY <3>1, <3>2
  <2> HIDE DEF conns
  <2> QED BY <1>2, <2>2
<1>5. /\ CoreStays /\ core'.conns = conns
      /\ \A id \in Open(conns) : ~gone[id] /\ id \in Open(core.conns)
                                 /\ core'.conns[id] = core.conns[id]
  <2> HIDE DEF gone
  <2> QED BY <1>4, ClosingStays
<1> HIDE DEF conns
<1>6. /\ WorkerFits(worker', screen.view) /\ Keeps(worker, worker')
      /\ Refreshes(worker, worker', Open(conns))
  <2>1. CASE "stats" \in up
    BY <1>4, <2>1, Known, OpenAreIds, StatsAre
  <2>2. CASE "stats" \notin up
    BY <1>4, <2>2, Known DEF Keeps, Same, OnlyViews, Refreshes
  <2> QED BY <2>1, <2>2
<1>7. Serves
  BY <1>1, <1>3, <1>5, <1>6, KeepsFits, Refreshing
<1>8. /\ commands # <<>> /\ commands \in Seq(Commands) /\ commands' = Tail(commands)
      /\ Head(commands).do = "leave" /\ Given = Head(commands).with
      /\ commands' \in Seq(Commands) /\ Len(commands') <= Capacity
  BY <1>1, Known, TakeIs
<1>9. SyncsStay(commands, commands')
  BY <1>8, SyncsPass
<1>10. "dropped" \notin gaps' => Follows(commands', "show", {Presentation}, PageFits')
  <2>1. "dropped" \notin gaps => Follows(commands, "show", {Presentation}, PageFits)
    BY DEF WorkerInv, WindowFollows, Presentation, PageFits
  <2>2. Follows(commands, "show", {Presentation}, PageFits) =>
        Follows(Tail(commands), "show", {Presentation}, PageFits)
    BY <1>8, FollowsTail
  <2>3. PageFits' <=> PageFits
    BY <1>1, <1>6, KeepsFits DEF PageFits, Elsewhere
  <2> QED BY <1>3, <1>8, <2>1, <2>2, <2>3
<1>11. ConnectionsPass
  <2>1. ASSUME gaps' \cap {"failed", "dropped", "crossed", "reset", "kept", "unread"} = {},
               NEW id \in Open(core'.conns), Holds(commands, "leave", {core'.conns[id]}),
               core'.conns[id] # core.node
        PROVE  Holds(commands', "leave", {core'.conns[id]})
    <3>1. Holds(commands', "leave", {core'.conns[id]}) \/ Given = core'.conns[id]
      BY <1>8, <2>1, HoldsTail
    <3>2. ~gone[id] /\ id \in Ids /\ core'.conns[id] = core.conns[id]
      BY <1>5, <2>1 DEF Open
    <3>3. CASE Given = core'.conns[id]
      <4>1. ~({"stats", "close"} \subseteq up)
        BY <3>2, <3>3
      <4>2. worker.active = None
        BY <1>3, <2>1, <4>1
      <4>3. Missed(Given) = {"crossed"}
        BY <2>1, <3>2, <3>3, <4>2 DEF Missed
      <4> QED BY <1>3, <2>1, <4>3
    <3> QED BY <3>1, <3>3
  <2> QED BY <1>5, <2>1 DEF ConnectionsPass
<1> QED BY <1>7, <1>8, <1>9, <1>10, <1>11, Serving

LEMMA SetPresentationKeeps == ASSUME WorkerInv, SetPresentation PROVE WorkerInv'
<1>1. Take("show") /\ UNCHANGED <<core, Elsewhere>>
  BY DEF SetPresentation
<1>2. PICK up \in Succeeding(worker.active) :
        /\ worker' = ConfigureStreams([worker EXCEPT !.page = Given.page,
                                                     !.visible = Given.visible], up)
        /\ Called(up, worker.active, {}, {})
  BY DEF SetPresentation
<1>3. inputs' \in 0 .. MaxInputs /\ gaps \subseteq gaps' /\ gaps' \subseteq Gaps
  BY <1>2, Known, CalledIs
<1>4. /\ commands # <<>> /\ commands \in Seq(Commands) /\ commands' = Tail(commands)
      /\ Head(commands).do = "show" /\ Given = Head(commands).with
      /\ commands' \in Seq(Commands) /\ Len(commands') <= Capacity
      /\ Given \in Presentations
  BY <1>1, Known, TakeIs, CommandIs
<1> DEFINE u == [worker EXCEPT !.page = Given.page, !.visible = Given.visible]
<1>5. worker' = ConfigureStreams(u, up)
  BY <1>2
<1>6. /\ WorkerTyped(u) /\ u.page = Given.page /\ u.visible = Given.visible
      /\ u.active = worker.active /\ u.pending = worker.pending /\ u.view = worker.view
      /\ u.events = worker.events /\ u.lost = worker.lost /\ u.late = worker.late
      /\ SameLists(worker, u)
  BY <1>4, Known DEF WorkerTyped, Presentations, SameLists
<1> HIDE DEF u
<1>7. Shown(u, screen.view) /\ StatusFits(u)
  BY <1>6, Known DEF WorkerFits, Shown, StatusFits
<1>8. WorkerFits(worker', screen.view) /\ Keeps(u, worker') /\ Trimmed(u, worker')
  BY <1>5, <1>6, <1>7, ConfiguringIs
<1>9. /\ OnlyViews(worker, worker') /\ Trimmed(worker, worker')
      /\ worker'.pending = worker.pending /\ worker'.active = worker.active
      /\ worker'.view.busy = FALSE
      /\ worker'.page = Given.page /\ worker'.visible = Given.visible
  <2>1. worker.view.busy = FALSE
    BY Known DEF WorkerTyped, View
  <2> QED BY <1>6, <1>8, <2>1 DEF Keeps, Same, OnlyViews, Trimmed, SameLists
<1>10. CoreStays
  BY <1>1, SameCoreStays
<1>11. Serves
  BY <1>1, <1>3, <1>8, <1>9, <1>10, Known, Refreshing
<1>12. SyncsStay(commands, commands')
  BY <1>4, SyncsPass
<1>13. "dropped" \notin gaps' => Follows(commands', "show", {Presentation}, PageFits')
  <2>1. "dropped" \notin gaps => Follows(commands, "show", {Presentation}, PageFits)
    BY DEF WorkerInv, WindowFollows, Presentation, PageFits
  <2>2. Follows(commands, "show", {Presentation}, PageFits) =>
        Follows(Tail(commands), "show", {Presentation}, Given \in {Presentation})
    BY <1>4, FollowsTail
  <2>3. Given \in {Presentation} => PageFits'
    BY <1>1, <1>9 DEF PageFits, Presentation, Elsewhere
  <2> QED BY <1>3, <1>4, <2>1, <2>2, <2>3 DEF Follows
<1>14. ConnectionsPass
  <2>1. \A node : Holds(commands, "leave", {node}) => Holds(commands', "leave", {node})
    BY <1>4, HoldsTail
  <2>2. core' = core
    BY <1>1
  <2> QED BY <2>1, <2>2 DEF ConnectionsPass
<1> QED BY <1>4, <1>11, <1>12, <1>13, <1>14, Serving

-----------------------------------------------------------------------------
(* Restores                                                                *)

LEMMA RestoredIs ==
  ASSUME WorkerInv, NEW sync \in Sync, NEW up, up # {} => core.mode # None,
         NEW now, now = IF up = {} THEN core ELSE Restored(core, sync, up)
  PROVE  /\ CoreTyped(now) /\ now.mode = core.mode /\ now.profile = core.profile
         /\ core.node \in Nodes => now.node \in Nodes
         /\ \A id \in Ids : now.conns[id] \in {None, core.conns[id]}
         /\ {"groups", "select", "close"} \subseteq up =>
              /\ sync.node \in Offers[catalog.current] => now.node = sync.node
              /\ sync.close => now.conns = NoConnections
<1>1. CoreTyped(core) /\ core.conns \in [Ids -> Nodes \cup {None}]
  BY Known DEF CoreTyped, Connections
<1>2. CASE up = {}
  BY <1>1, <1>2
<1>3. CASE up # {}
  <2> DEFINE node == IF {"groups", "select"} \subseteq up /\ sync.node \in Offers[core.profile]
                     THEN sync.node ELSE core.node
             conns == IF sync.close /\ "close" \in up THEN NoConnections ELSE core.conns
  <2>1. core.profile = catalog.current /\ catalog.current \in Profiles
    BY <1>3 DEF WorkerInv, CoreFits, Typed
  <2>2. Offers[core.profile] \subseteq Nodes
    BY <2>1, WorkerAssumption
  <2>3. now = [core EXCEPT !.node = node, !.conns = conns]
    BY <1>1, <1>3 DEF Restored, CoreTyped
  <2>4. /\ node \in Nodes \cup {None} /\ (core.node \in Nodes => node \in Nodes)
        /\ conns \in Connections
        /\ \A id \in Ids : conns[id] \in {None, core.conns[id]}
    BY <1>1, <2>2 DEF CoreTyped, Connections, NoConnections
  <2>5. {"groups", "select", "close"} \subseteq up =>
          /\ sync.node \in Offers[catalog.current] => node = sync.node
          /\ sync.close => conns = NoConnections
    BY <2>1
  <2> HIDE DEF node, conns
  <2>6. /\ CoreTyped(now) /\ now.mode = core.mode /\ now.profile = core.profile
        /\ now.node = node /\ now.conns = conns
    BY <1>1, <2>3, <2>4 DEF CoreTyped
  <2> QED BY <2>4, <2>5, <2>6
<1> QED BY <1>2, <1>3

\* A restore that is handled has the stored node selected and those of others closed.
LEMMA RestoringKeeps ==
  ASSUME WorkerInv, NEW w, WorkerFits(w, screen.view), w.view.busy = FALSE,
         OnlyViews(worker, w), w.active # None, w.pending = None,
         w.page = worker.page, w.visible = worker.visible,
         Refreshes(worker, w, Open(core.conns)),
         NEW sync \in Sync, NEW up \in Succeeding(w.active), Synchronizing(w, sync, up),
         UNCHANGED Elsewhere, commands # <<>>, commands' = Tail(commands),
         Head(commands).do # "show", Waiting,
         gaps \cap {"failed", "dropped", "crossed", "reset"} = {} =>
           Follows(commands', "sync", With(Sync, StoredNode), sync.node = StoredNode)
  PROVE  WorkerInv'
<1>1. /\ core' = IF up = {} THEN core ELSE Restored(core, sync, up)
      /\ worker' = RefreshAll(w, core', up)
      /\ Called(up, w.active, {"groups", "select", "close"}, Overtaken \cup Left(sync, core'))
  BY DEF Synchronizing
<1>2. /\ inputs' \in 0 .. MaxInputs /\ gaps \subseteq gaps' /\ gaps' \subseteq Gaps
      /\ Overtaken \subseteq gaps' /\ Left(sync, core') \subseteq gaps'
      /\ "failed" \notin gaps' => {"groups", "select", "close"} \subseteq up
      /\ up # {} => core.mode # None
  <2>1. Overtaken \cup Left(sync, core') \in SUBSET Gaps
    BY OvertakenIs DEF Left, Gaps
  <2> QED BY <1>1, <2>1, Known, CalledIs
<1>3. /\ CoreTyped(core') /\ core'.mode = core.mode /\ core'.profile = core.profile
      /\ core.node \in Nodes => core'.node \in Nodes
      /\ \A id \in Ids : core'.conns[id] \in {None, core.conns[id]}
      /\ {"groups", "select", "close"} \subseteq up =>
           /\ sync.node \in Offers[catalog.current] => core'.node = sync.node
           /\ sync.close => core'.conns = NoConnections
  <2> DEFINE now == core'
  <2>1. now = IF up = {} THEN core ELSE Restored(core, sync, up)
    BY <1>1
  <2> HIDE DEF now
  <2>2. /\ CoreTyped(now) /\ now.mode = core.mode /\ now.profile = core.profile
        /\ core.node \in Nodes => now.node \in Nodes
        /\ \A id \in Ids : now.conns[id] \in {None, core.conns[id]}
        /\ {"groups", "select", "close"} \subseteq up =>
             /\ sync.node \in Offers[catalog.current] => now.node = sync.node
             /\ sync.close => now.conns = NoConnections
    BY <1>2, <2>1, RestoredIs
  <2> QED BY <2>2 DEF now
<1>4. /\ WorkerFits(worker', screen.view) /\ Keeps(w, worker')
      /\ Refreshes(w, worker', Open(core'.conns))
  BY <1>1, <1>3, AllIs
<1>5. Open(core'.conns) \subseteq Open(core.conns)
  BY <1>3 DEF Open
<1>6. /\ worker'.pending = None /\ worker'.page = worker.page /\ worker'.visible = worker.visible
      /\ worker'.view.busy = FALSE /\ OnlyViews(worker, worker')
  BY <1>4 DEF Keeps, Same, OnlyViews
<1>7. /\ commands' \in Seq(Commands) /\ Len(commands') <= Capacity
      /\ commands \in Seq(Commands)
  BY Known, Taken, Constants
<1>8. /\ UNCHANGED <<unseen, screen, catalog, queue, job, used>>
      /\ StoredNode' = StoredNode
  BY DEF Elsewhere, StoredNode
<1>9. Typed'
  BY <1>2, <1>3, <1>4, <1>7, <1>8 DEF WorkerInv, Typed, WorkerFits
<1>10. CoreFits'
  <2>1. core'.conns \in [Ids -> Nodes \cup {None}] /\ core.conns \in [Ids -> Nodes \cup {None}]
    BY <1>3, Known DEF CoreTyped, Connections
  <2>2. core.conns = NoConnections => core'.conns = NoConnections
    BY <1>3, <2>1 DEF NoConnections
  <2> QED BY <1>3, <1>5, <1>8, <2>2 DEF WorkerInv, CoreFits
<1>11. WindowFollows'
  <2>1. "dropped" \notin gaps => Follows(commands, "show", {Presentation}, PageFits)
    BY DEF WorkerInv, WindowFollows, Presentation, PageFits
  <2>2. Follows(commands, "show", {Presentation}, PageFits) =>
        Follows(Tail(commands), "show", {Presentation}, PageFits)
    BY <1>7, FollowsTail
  <2>3. PageFits' <=> PageFits
    BY <1>6, <1>8 DEF PageFits
  <2> QED BY <1>2, <1>4, <1>6, <1>8, <2>1, <2>2, <2>3 DEF WindowFollows, Presentation, PageFits
<1>12. ClosedOnce'
  <2> SUFFICES ASSUME "overtaken" \notin gaps'
               PROVE  ListsFit(worker', Open(core'.conns), used)
    BY <1>8 DEF ClosedOnce
  <2>1. worker.items = <<>> /\ ListsFit(worker, Open(core.conns), used)
    BY <1>2, OvertakenIs, Known
  <2>2. w.items = <<>> /\ ListsFit(w, Open(core.conns), used)
    BY <2>1, Known DEF Refreshes
  <2>3. ListsFit(w, Open(core'.conns), used)
    BY <1>5, <2>2, FewerFit
  <2> QED BY <1>4, <1>5, <2>2, <2>3, Known DEF Refreshes
<1>13. Restores'
  <2>1. OnlyFirstKeeps(commands')
    BY <1>7, FirstTail DEF WorkerInv, Restores
  <2> QED BY <1>6, <1>8, <2>1 DEF WorkerInv, Restores
<1>14. SelectionsFollow'
  <2> SUFFICES ASSUME gaps' \cap {"failed", "dropped", "crossed", "reset"} = {}
               PROVE  SelectionsFollow'
    BY DEF SelectionsFollow
  <2>1. gaps \cap {"failed", "dropped", "crossed", "reset"} = {} /\ "failed" \notin gaps'
    BY <1>2
  <2>2. /\ Lacks(worker.events, "selected") /\ Lacks(queue, "persist")
        /\ PersistsFirst(queue)
        /\ job # None => job.sync.node = catalog.stored[job.profile]
    BY <2>1 DEF WorkerInv, SelectionsFollow
  <2>3. Lacks(worker'.events, "selected")
    BY <1>6, <2>2 DEF OnlyViews
  <2>4. Follows(commands', "sync", With(Sync, StoredNode), sync.node = StoredNode)
    BY <2>1
  <2>5. ~Waiting' => (StoredNode \in Offers[catalog.current] => core'.node = StoredNode)
    BY <1>2, <1>3, <2>1, <2>4, AfterTail, Nothing DEF Waiting, Follows, Ends, Lacks
  <2>6. Follows(commands', "sync", With(Sync, StoredNode), TRUE)
    BY <2>4 DEF Follows
  <2> QED BY <1>6, <1>8, <2>2, <2>3, <2>5, <2>6 DEF SelectionsFollow, Follows
<1>15. LeftAreClosed'
  <2> SUFFICES ASSUME gaps' \cap {"failed", "dropped", "crossed", "reset", "kept", "unread"} = {},
                      NEW id \in Open(core'.conns)
               PROVE  core'.conns[id] = core'.node
    BY DEF LeftAreClosed
  <2>1. {"groups", "select", "close"} \subseteq up
    BY <1>2
  <2>2. ~sync.close
    BY <1>3, <2>1 DEF Open, NoConnections
  <2>3. Left(sync, core') # {"kept"}
    BY <1>2
  <2> QED BY <2>2, <2>3 DEF Left, Open
<1> QED BY <1>9, <1>10, <1>11, <1>12, <1>13, <1>14, <1>15 DEF WorkerInv

LEMMA SynchronizeKeeps == ASSUME WorkerInv, Synchronize PROVE WorkerInv'
<1>1. Take("sync") /\ UNCHANGED Elsewhere
  BY DEF Synchronize
<1>2. /\ commands # <<>> /\ commands \in Seq(Commands) /\ commands' = Tail(commands)
      /\ Head(commands).do = "sync" /\ Given = Head(commands).with
      /\ commands' \in Seq(Commands) /\ Len(commands') <= Capacity
      /\ Given \in Sync
  BY <1>1, Known, TakeIs, CommandIs
<1>3. ~Lacks(commands, "sync") /\ Waiting
  BY <1>2, AfterTail DEF Waiting
<1>4. \A arrived : Follows(commands, "sync", With(Sync, StoredNode), arrived) =>
        Follows(commands', "sync", With(Sync, StoredNode), Given.node = StoredNode)
  <2> TAKE arrived
  <2> HAVE Follows(commands, "sync", With(Sync, StoredNode), arrived)
  <2>1. Follows(Tail(commands), "sync", With(Sync, StoredNode), Given \in With(Sync, StoredNode))
    BY <1>2, FollowsTail
  <2> QED BY <1>2, <2>1 DEF With, Follows
<1>5. gaps \cap {"failed", "dropped", "crossed", "reset"} = {} =>
        Follows(commands', "sync", With(Sync, StoredNode), Given.node = StoredNode)
  BY <1>4 DEF WorkerInv, SelectionsFollow
<1>6. CASE worker.active # None
  <2>1. PICK up \in Succeeding(worker.active) : Synchronizing(worker, Given, up)
    BY <1>6 DEF Synchronize
  <2>2. worker.pending = None /\ worker.view.busy = FALSE
    BY <1>6, Known DEF WorkerTyped, View
  <2>3. OnlyViews(worker, worker) /\ Refreshes(worker, worker, Open(core.conns))
    BY DEF OnlyViews, Refreshes
  <2>4. WorkerFits(worker, screen.view)
    BY Known
  <2>5. Head(commands).do # "show"
    BY <1>2
  <2> QED BY <1>1, <1>2, <1>3, <1>5, <1>6, <2>1, <2>2, <2>3, <2>4, <2>5, RestoringKeeps
<1>7. CASE worker.active = None
  <2>1. worker' = [worker EXCEPT !.pending = Given] /\ UNCHANGED <<core, gaps, inputs>>
    BY <1>7 DEF Synchronize
  <2>2. /\ UNCHANGED <<unseen, screen, catalog, queue, job, used>>
        /\ StoredNode' = StoredNode
    BY <1>1 DEF Elsewhere, StoredNode
  <2>a. WorkerTyped(worker)
    BY Known
  <2>3. /\ WorkerTyped(worker') /\ worker'.pending = Given /\ worker'.active = None
        /\ worker'.page = worker.page /\ worker'.visible = worker.visible
        /\ worker'.view = worker.view /\ worker'.events = worker.events
        /\ worker'.lost = worker.lost /\ worker'.late = worker.late
        /\ worker'.streams = worker.streams /\ SameLists(worker, worker')
    BY <1>2, <1>7, <2>1, <2>a DEF WorkerTyped, SameLists
  <2>4. Given # None
    BY <1>2, Constants
  <2>5. Typed'
    BY <1>2, <2>1, <2>2, <2>3 DEF WorkerInv, Typed
  <2>6. CoreFits'
    BY <2>1, <2>2 DEF WorkerInv, CoreFits
  <2>7. WindowFollows'
    <3>1. WorkerFits(worker', screen.view) /\ ~worker'.view.busy
      BY <1>7, <2>3, Known DEF WorkerFits, Shown, StatusFits, Wanted
    <3>2. "dropped" \notin gaps => Follows(commands, "show", {Presentation}, PageFits)
      BY DEF WorkerInv, WindowFollows, Presentation, PageFits
    <3>3. Follows(commands, "show", {Presentation}, PageFits) =>
          Follows(Tail(commands), "show", {Presentation}, PageFits)
      BY <1>2, FollowsTail
    <3>4. PageFits' <=> PageFits
      BY <2>2, <2>3 DEF PageFits
    <3> QED BY <1>2, <2>1, <2>2, <3>1, <3>2, <3>3, <3>4 DEF WindowFollows, Presentation, PageFits
  <2>8. ClosedOnce'
    BY <2>1, <2>2, <2>3, Known DEF ClosedOnce, SameLists, ListsFit
  <2>9. Restores'
    <3>1. OnlyFirstKeeps(commands')
      BY <1>2, FirstTail DEF WorkerInv, Restores
    <3>2. \A i \in 1 .. Len(commands') : commands'[i].do = "sync" => commands'[i].with.close
      BY <1>2, FirstTail DEF WorkerInv, Restores
    <3>3. ~Holds(commands', "sync", Keeping)
      BY <3>2 DEF Holds, Keeping
    <3> QED BY <2>2, <2>3, <3>1, <3>3 DEF WorkerInv, Restores
  <2>10. SelectionsFollow'
    <3> SUFFICES ASSUME gaps \cap {"failed", "dropped", "crossed", "reset"} = {}
                 PROVE  SelectionsFollow'
      BY <2>1 DEF SelectionsFollow
    <3>1. /\ Lacks(worker.events, "selected") /\ Lacks(queue, "persist")
          /\ PersistsFirst(queue)
          /\ job # None => job.sync.node = catalog.stored[job.profile]
      BY <1>3 DEF WorkerInv, SelectionsFollow
    <3>2. Waiting'
      BY <2>3, <2>4 DEF Waiting
    <3>3. Follows(commands', "sync", With(Sync, StoredNode), Given.node = StoredNode)
      BY <1>5
    <3>4. Follows(commands', "sync", With(Sync, StoredNode),
                  worker'.pending = None \/ worker'.pending.node = StoredNode)
      BY <2>3, <3>3 DEF Follows
    <3> QED BY <2>2, <2>3, <3>1, <3>2, <3>4 DEF SelectionsFollow
  <2>11. LeftAreClosed'
    <3> SUFFICES ASSUME gaps \cap {"failed", "dropped", "crossed", "reset", "kept", "unread"} = {},
                        NEW id \in Open(core.conns)
                 PROVE  core.conns[id] = core.node \/ OnItsWay(core.conns[id])'
      BY <2>1 DEF LeftAreClosed
    <3>1. core.conns[id] = core.node \/ OnItsWay(core.conns[id])
      BY DEF WorkerInv, LeftAreClosed
    <3>2. \A node : Holds(commands, "leave", {node}) => Holds(commands', "leave", {node})
      BY <1>2, HoldsTail
    <3>3. Holds(commands, "sync", Closing) =>
            Holds(commands', "sync", Closing) \/ worker'.pending \in Closing
      BY <1>2, <2>3, HoldsTail
    <3>4. worker.pending \in Closing => worker'.pending \in Closing
      <4> SUFFICES ASSUME worker.pending \in Closing PROVE Given \in Closing
        BY <2>3
      <4>1. worker.pending # None
        BY Constants DEF Closing
      <4>2. ~Holds(commands, "sync", Keeping)
        BY <4>1 DEF WorkerInv, Restores
      <4>3. Given \notin Keeping
        BY <1>2, <4>2, HoldsTail
      <4> QED BY <1>2, <4>3 DEF Keeping, Closing
    <3>5. OnItsWay(core.conns[id]) => OnItsWay(core.conns[id])'
      BY <2>1, <2>2, <2>3, <3>2, <3>3, <3>4 DEF OnItsWay
    <3> QED BY <3>1, <3>5
  <2> QED BY <2>5, <2>6, <2>7, <2>8, <2>9, <2>10, <2>11 DEF WorkerInv
<1> QED BY <1>6, <1>7

LEMMA CoreRunsKeeps == ASSUME WorkerInv, CoreRuns PROVE WorkerInv'
<1>1. Take("state") /\ Given # None /\ UNCHANGED Elsewhere
  BY DEF CoreRuns
<1>2. /\ commands # <<>> /\ commands \in Seq(Commands) /\ commands' = Tail(commands)
      /\ Head(commands).do = "state" /\ Given = Head(commands).with
      /\ Given \in Modes \cup {None}
  BY <1>1, Known, TakeIs, CommandIs
<1>3. CASE worker.active = Given
  <2>1. UNCHANGED <<core, worker, gaps, inputs>>
    BY <1>3 DEF CoreRuns
  <2>2. CoreStays /\ gaps' \subseteq Gaps /\ inputs' \in 0 .. MaxInputs
    BY <2>1, SameCoreStays, Known
  <2>3. /\ WorkerFits(worker', screen.view) /\ Keeps(worker, worker')
        /\ Trimmed(worker, worker')
    BY <2>1, Known DEF Keeps, Same, OnlyViews, Trimmed
  <2>4. Serves
    BY <1>1, <2>1, <2>2, <2>3, KeepsFits, Refreshing
  <2> QED BY <1>1, <2>3, <2>4, KeepsFits, ServingSome
<1>4. CASE worker.active # Given
  <2> DEFINE u == [Unconnected(worker) EXCEPT !.active = Given, !.view.status = "connecting"]
             w == Publish(u)
             s == Unconnected(worker)
  <2>1. PICK up \in Succeeding(Given) :
          IF w.pending = None
          THEN /\ worker' = RefreshAll(w, core, up)
               /\ Called(up, Given, {}, Overtaken)
               /\ UNCHANGED core
          ELSE Synchronizing(RefreshAll([w EXCEPT !.pending = None], core, up), w.pending, up)
    BY <1>4 DEF CoreRuns
  <2>2. /\ WorkerTyped(s) /\ s.events = worker.events /\ s.view = Offline
        /\ s.page = worker.page /\ s.visible = worker.visible /\ s.pending = worker.pending
        /\ s.streams = worker.streams /\ s.late = worker.late /\ SameLists(worker, s)
    BY Known DEF Unconnected, WorkerTyped, Offline, View, Statuses, SameLists
  <2> HIDE DEF w
  <2>3. u = [s EXCEPT !.active = Given, !.view.status = "connecting"]
    OBVIOUS
  <2> HIDE DEF s, u
  <2>4. /\ WorkerTyped(u) /\ u.events = worker.events /\ u.active = Given
        /\ u.view.status = "connecting" /\ u.view.busy = FALSE
        /\ u.page = worker.page /\ u.visible = worker.visible /\ u.pending = worker.pending
        /\ u.streams = worker.streams /\ SameLists(worker, u)
    <3>1. WorkerTyped(u)
      BY <1>2, <2>2, <2>3 DEF WorkerTyped, View, Statuses
    <3>2. u.view.status = "connecting" /\ u.view.busy = s.view.busy
      BY <1>2, <2>2, <2>3 DEF WorkerTyped, View
    <3>3. s.view.busy = FALSE
      BY <2>2 DEF Offline
    <3>4. /\ u.events = s.events /\ u.active = Given
          /\ u.page = s.page /\ u.visible = s.visible /\ u.pending = s.pending
          /\ u.streams = s.streams /\ SameLists(s, u)
      BY <2>2, <2>3 DEF WorkerTyped, SameLists
    <3> QED BY <2>2, <3>1, <3>2, <3>3, <3>4 DEF SameLists
  <2>5. u.streams \subseteq Wanted(u)
    <3>1. worker.streams \subseteq Wanted(worker)
      BY Known DEF WorkerFits
    <3> QED BY <1>1, <2>4, <3>1 DEF Wanted
  <2>6. /\ WorkerTyped(w) /\ Shown(w, screen.view)
        /\ OnlyViews(u, w) /\ Same(u, w) /\ SameLists(u, w)
        /\ w.view = u.view /\ w.streams = u.streams /\ w.late = u.late
    BY <2>4, Publishing DEF w
  <2>7. /\ WorkerFits(w, screen.view) /\ OnlyViews(worker, w) /\ w.view.busy = FALSE
        /\ w.active = Given /\ w.page = worker.page /\ w.visible = worker.visible
        /\ w.pending = worker.pending /\ SameLists(worker, w)
    <3>1. w.streams \subseteq Wanted(w) /\ StatusFits(w)
      BY <1>1, <2>4, <2>5, <2>6 DEF Same, Wanted, StatusFits
    <3> QED BY <2>4, <2>6, <3>1 DEF WorkerFits, Same, SameLists, OnlyViews
  <2>8. CASE worker.pending = None
    <3>1. /\ worker' = RefreshAll(w, core, up) /\ Called(up, Given, {}, Overtaken)
          /\ UNCHANGED core
      BY <2>1, <2>7, <2>8
    <3>2. /\ WorkerFits(worker', screen.view) /\ Keeps(w, worker')
          /\ Refreshes(w, worker', Open(core.conns))
      BY <2>7, <3>1, Known, AllIs
    <3>3. /\ OnlyViews(worker, worker') /\ worker'.pending = worker.pending
          /\ worker'.pending = None /\ worker'.view.busy = FALSE
          /\ worker'.page = worker.page /\ worker'.visible = worker.visible
      BY <2>7, <2>8, <3>2 DEF Keeps, Same, OnlyViews
    <3>4. Refreshes(worker, worker', Open(core'.conns))
      <4>1. Trimmed(worker, w)
        BY <2>7 DEF Trimmed, SameLists
      <4>2. Refreshes(worker, w, Open(core.conns))
        BY <4>1, TrimmedRefreshes
      <4> QED BY <3>1, <3>2, <4>2, RefreshesBoth
    <3>5. /\ inputs' \in 0 .. MaxInputs /\ gaps \subseteq gaps' /\ gaps' \subseteq Gaps
          /\ Overtaken \subseteq gaps'
      BY <3>1, Known, CalledIs, OvertakenIs
    <3>6. CoreStays
      BY <3>1, SameCoreStays
    <3>7. Serves
      BY <1>1, <3>2, <3>3, <3>4, <3>5, <3>6, Refreshing
    <3> QED BY <1>1, <3>3, <3>7, ServingSome
  <2>9. CASE worker.pending # None
    <3> DEFINE v == [w EXCEPT !.pending = None]
               x == RefreshAll(v, core, up)
    <3>1. Synchronizing(x, worker.pending, up)
      BY <2>1, <2>7, <2>9
    <3>2. /\ WorkerFits(v, screen.view) /\ OnlyViews(worker, v) /\ v.view.busy = FALSE
          /\ v.active = Given /\ v.page = worker.page /\ v.visible = worker.visible
          /\ v.pending = None /\ SameLists(worker, v)
      <4>a. WorkerTyped(w)
        BY <2>6
      <4>b. WorkerTyped(v)
        BY <4>a DEF WorkerTyped
      <4>1. /\ WorkerTyped(v) /\ v.events = w.events /\ v.lost = w.lost /\ v.late = w.late
            /\ v.view = w.view /\ v.streams = w.streams /\ v.active = w.active
            /\ v.page = w.page /\ v.visible = w.visible /\ v.pending = None
            /\ SameLists(w, v)
        BY <4>a, <4>b DEF WorkerTyped, SameLists
      <4> HIDE DEF v
      <4>2. WorkerFits(v, screen.view)
        BY <2>7, <4>1 DEF WorkerFits, Shown, StatusFits, Wanted
      <4> QED BY <2>7, <4>1, <4>2 DEF OnlyViews, SameLists
    <3> HIDE DEF v
    <3>3. /\ WorkerFits(x, screen.view) /\ Keeps(v, x) /\ Refreshes(v, x, Open(core.conns))
      BY <3>2, Known, AllIs
    <3> HIDE DEF x
    <3>4. /\ OnlyViews(worker, x) /\ x.pending = None /\ x.active = Given
          /\ x.view.busy = FALSE /\ x.page = worker.page /\ x.visible = worker.visible
      BY <3>2, <3>3 DEF Keeps, Same, OnlyViews
    <3>5. Refreshes(worker, x, Open(core.conns))
      <4>1. Trimmed(worker, v)
        BY <3>2 DEF Trimmed, SameLists
      <4>2. Refreshes(worker, v, Open(core.conns))
        BY <4>1, TrimmedRefreshes
      <4> QED BY <3>3, <4>2, RefreshesBoth
    <3>6. worker.pending \in Sync
      <4>1. WorkerTyped(worker)
        BY Known
      <4> QED BY <2>9, <4>1 DEF WorkerTyped
    <3>7. gaps \cap {"failed", "dropped", "crossed", "reset"} = {} =>
            Follows(commands', "sync", With(Sync, StoredNode), worker.pending.node = StoredNode)
      <4> SUFFICES ASSUME gaps \cap {"failed", "dropped", "crossed", "reset"} = {}
                   PROVE  Follows(commands', "sync", With(Sync, StoredNode),
                                  worker.pending.node = StoredNode)
        OBVIOUS
      <4>1. Follows(commands, "sync", With(Sync, StoredNode),
                    worker.pending = None \/ worker.pending.node = StoredNode)
        BY DEF WorkerInv, SelectionsFollow
      <4>2. Follows(commands, "sync", With(Sync, StoredNode), worker.pending.node = StoredNode)
        BY <2>9, <4>1 DEF Follows
      <4> QED BY <1>2, <4>2, FollowsTail
    <3>8. Waiting /\ Head(commands).do # "show"
      BY <1>2, <2>9 DEF Waiting
    <3>9. up \in Succeeding(x.active) /\ x.active # None
      BY <1>1, <3>4
    <3> QED BY <1>1, <1>2, <3>1, <3>3, <3>4, <3>5, <3>6, <3>7, <3>8, <3>9, RestoringKeeps
  <2> QED BY <2>8, <2>9
<1> QED BY <1>3, <1>4

-----------------------------------------------------------------------------
(* The coordinator                                                         *)

\* A step that leaves the worker as it is, and no connection that was not there.
LEMMA Outside ==
  ASSUME WorkerInv, UNCHANGED <<worker, used>>, screen'.view = screen.view,
         gaps \subseteq gaps', Open(core'.conns) \subseteq Open(core.conns),
         "dropped" \notin gaps' => Follows(commands', "show", {Presentation'}, PageFits'),
         Typed', CoreFits', Restores', SelectionsFollow', LeftAreClosed'
  PROVE  WorkerInv'
<1>1. WindowFollows'
  BY Known DEF WindowFollows, Presentation, PageFits
<1>2. ClosedOnce'
  <2> SUFFICES ASSUME "overtaken" \notin gaps'
               PROVE  ListsFit(worker, Open(core'.conns), used)
    BY DEF ClosedOnce
  <2>1. ListsFit(worker, Open(core.conns), used)
    BY Known
  <2> QED BY <2>1, FewerFit
<1> QED BY <1>1, <1>2 DEF WorkerInv

\* The page that is shown is served, or the worker is told of it, after such a step.
LEMMA PageStays ==
  ASSUME WorkerInv, gaps \subseteq gaps', UNCHANGED screen,
         worker'.page = worker.page, worker'.visible = worker.visible,
         \/ commands' = commands
         \/ \E x \in Commands : x.do # "show" /\ commands' = Append(commands, x)
  PROVE  "dropped" \notin gaps' => Follows(commands', "show", {Presentation'}, PageFits')
<1>1. "dropped" \notin gaps => Follows(commands, "show", {Presentation}, PageFits)
  BY DEF WorkerInv, WindowFollows, Presentation, PageFits
<1>2. commands \in Seq(Commands)
  BY Known
<1>3. Presentation' = Presentation /\ (PageFits' <=> PageFits)
  BY DEF Presentation, PageFits
<1>4. ASSUME NEW x \in Commands, x.do # "show", Follows(commands, "show", {Presentation}, PageFits)
      PROVE  Follows(Append(commands, x), "show", {Presentation}, PageFits)
  BY <1>2, <1>4, FollowsAppend
<1> QED BY <1>1, <1>3, <1>4

LEMMA ForwardIs ==
  ASSUME WorkerInv, NEW do, NEW with, Forward(do, with),
         NEW x \in Commands, x = [do |-> do, with |-> with]
  PROVE  /\ commands' \in Seq(Commands) /\ Len(commands') <= Capacity
         /\ gaps \subseteq gaps' /\ gaps' \subseteq Gaps
         /\ \/ commands' = Append(commands, x) /\ gaps' = gaps
            \/ commands' = commands /\ "dropped" \in gaps'
         /\ x.do = do /\ x.with = with
<1>1. commands \in Seq(Commands) /\ Len(commands) <= Capacity /\ gaps \subseteq Gaps
  BY Known
<1>2. CASE Len(commands) < Capacity
  <2>1. commands' = Append(commands, x) /\ gaps' = gaps
    BY <1>2 DEF Forward, Accepts
  <2> QED BY <1>1, <1>2, <2>1, Appended, Constants
<1>3. CASE ~(Len(commands) < Capacity)
  <2>1. commands' = commands /\ gaps' = gaps \cup {"dropped"}
    BY <1>3 DEF Forward, Accepts
  <2> QED BY <1>1, <2>1 DEF Gaps
<1> QED BY <1>2, <1>3

\* Orders that neither restore nor show another page.
LEMMA Forwarding ==
  ASSUME WorkerInv, NEW do, NEW with, Forward(do, with), do # "sync",
         [do |-> do, with |-> with] \in Commands,
         UNCHANGED <<core, worker, catalog, queue, job, used>>,
         unseen' \in BOOLEAN, inputs' \in 0 .. MaxInputs, screen'.view = screen.view,
         screen' \in [view : View, page : AllPages, visible : BOOLEAN],
         IF do = "show" THEN with = Presentation' ELSE UNCHANGED screen
  PROVE  WorkerInv'
<1> DEFINE x == [do |-> do, with |-> with]
<1>0. x \in Commands /\ x = [do |-> do, with |-> with]
  OBVIOUS
<1> HIDE DEF x
<1>1. /\ commands' \in Seq(Commands) /\ Len(commands') <= Capacity
      /\ gaps \subseteq gaps' /\ gaps' \subseteq Gaps
      /\ \/ commands' = Append(commands, x) /\ gaps' = gaps
         \/ commands' = commands /\ "dropped" \in gaps'
      /\ x.do = do /\ x.with = with
  BY <1>0, ForwardIs
<1>2. commands \in Seq(Commands)
  BY Known
<1>3. Typed' /\ CoreFits'
  BY <1>1 DEF WorkerInv, Typed, CoreFits
<1>4. SyncsStay(commands, commands')
  BY <1>0, <1>1, <1>2, SyncsPass
<1>5. ConnectionsPass
  <2>1. \A node : Holds(commands, "leave", {node}) => Holds(commands', "leave", {node})
    <3> TAKE node
    <3> DEFINE values == {node}
    <3>1. Holds(commands, "leave", values) => Holds(Append(commands, x), "leave", values)
      <4> HIDE DEF values
      <4> QED BY <1>0, <1>2, HoldsAppend
    <3> QED BY <1>1, <3>1
  <2> QED BY <2>1 DEF ConnectionsPass
<1>6. Restores' /\ SelectionsFollow' /\ LeftAreClosed'
  <2>1. OnlyViews(worker, worker') /\ (worker'.pending # None => worker'.active = None)
    BY Known DEF OnlyViews
  <2> QED BY <1>1, <1>4, <1>5, <2>1, Passing
<1>7. "dropped" \notin gaps' => Follows(commands', "show", {Presentation'}, PageFits')
  <2>1. CASE do = "show"
    <3> DEFINE values == {Presentation'}
               arrived == PageFits'
    <3>1. x.with \in values /\ x.do = "show"
      BY <1>1, <2>1
    <3> HIDE DEF values, arrived
    <3>2. Follows(Append(commands, x), "show", values, arrived)
      BY <1>0, <1>2, <3>1, FollowsAppend
    <3> QED BY <1>1, <3>2 DEF values, arrived
  <2>2. CASE do # "show"
    BY <1>0, <1>1, <2>2, PageStays
  <2> QED BY <2>1, <2>2
<1> QED BY <1>1, <1>3, <1>6, <1>7, Outside

LEMMA RelayCoreStateKeeps == ASSUME WorkerInv, RelayCoreState PROVE WorkerInv'
<1>1. /\ Forward("state", core.mode) /\ unseen' = FALSE
      /\ UNCHANGED <<core, worker, screen, catalog, queue, job, used, inputs>>
  BY DEF RelayCoreState
<1>2. [do |-> "state", with |-> core.mode] \in Commands
  BY Known DEF CoreTyped, Commands
<1> QED BY <1>1, <1>2, Forwarding, Known DEF Typed

LEMMA InputIs == ASSUME WorkerInv, Input PROVE inputs' \in 0 .. MaxInputs
BY Known, Constants DEF Input

LEMMA ShowKeeps == ASSUME WorkerInv, Show PROVE WorkerInv'
<1>1. PICK page \in Pages, visible \in BOOLEAN :
        /\ screen' = [screen EXCEPT !.page = page, !.visible = visible]
        /\ Forward("show", [page |-> page, visible |-> visible])
  BY DEF Show
<1>2. Input /\ UNCHANGED <<core, unseen, worker, catalog, queue, job, used>>
  BY DEF Show
<1> DEFINE shown == [page |-> page, visible |-> visible]
<1>3. /\ screen' \in [view : View, page : AllPages, visible : BOOLEAN]
      /\ screen'.view = screen.view /\ screen'.page = page /\ screen'.visible = visible
  BY <1>1, WorkerAssumption DEF WorkerInv, Typed
<1>4. shown = Presentation' /\ shown \in Presentations
  BY <1>3 DEF Presentation, Presentations
<1> HIDE DEF shown
<1>5. [do |-> "show", with |-> shown] \in Commands
  BY <1>4 DEF Commands
<1>6. Forward("show", shown) /\ unseen' \in BOOLEAN
  BY <1>1, <1>2 DEF shown, WorkerInv, Typed
<1> QED BY <1>2, <1>3, <1>4, <1>5, <1>6, InputIs, Forwarding

LEMMA OrderKeeps == ASSUME WorkerInv, Order PROVE WorkerInv'
<1>1. Input /\ UNCHANGED <<core, unseen, worker, screen, catalog, queue, job, used>>
  BY DEF Order
<1>2. PICK do, with :
        /\ do \in {"select", "close", "pause", "clear", "refresh", "test"}
        /\ [do |-> do, with |-> with] \in Commands /\ Forward(do, with)
  <2>1. CASE \E node \in Nodes : Forward("select", node)
    BY <2>1 DEF Commands
  <2>2. CASE \E ids \in {Ids} \cup {{id} : id \in Ids} : Forward("close", ids)
    <3>1. PICK ids \in SUBSET Ids : Forward("close", ids)
      BY <2>2
    <3>2. [do |-> "close", with |-> ids] \in Commands
      BY DEF Commands
    <3> QED BY <3>1, <3>2
  <2>3. CASE \E paused \in BOOLEAN : Forward("pause", paused)
    <3>1. PICK paused \in BOOLEAN : Forward("pause", paused)
      BY <2>3
    <3>2. [do |-> "pause", with |-> paused] \in Commands
      BY DEF Commands
    <3> QED BY <3>1, <3>2
  <2>4. CASE \E do \in {"clear", "refresh", "test"} : Forward(do, None)
    BY <2>4 DEF Commands
  <2> QED BY <2>1, <2>2, <2>3, <2>4 DEF Order
<1>3. /\ unseen' \in BOOLEAN /\ screen' \in [view : View, page : AllPages, visible : BOOLEAN]
      /\ screen'.view = screen.view
  BY <1>1 DEF WorkerInv, Typed
<1> QED BY <1>1, <1>2, <1>3, InputIs, Forwarding

LEMMA PersistsAppend ==
  ASSUME NEW q \in Seq(Orders), NEW x \in Orders, PersistsFirst(q),
         x.do # "persist" \/ \A n \in 1 .. Len(q) : q[n].do = "persist"
  PROVE  PersistsFirst(Append(q, x))
<1> DEFINE d == Append(q, x)
           n == Len(q)
<1>1. /\ n \in Nat /\ Len(d) = n + 1
      /\ \A i \in 1 .. n : d[i] = q[i]
      /\ d[n + 1] = x
  BY Appended
<1> HIDE DEF d, n
<1>2. SUFFICES ASSUME NEW j \in 1 .. Len(d), d[j].do = "persist", NEW i \in 1 .. j
               PROVE  d[i].do = "persist"
  BY DEF PersistsFirst, d
<1>3. CASE j = n + 1
  <2>1. x.do = "persist" /\ \A k \in 1 .. n : d[k].do = "persist"
    BY <1>1, <1>2, <1>3 DEF n
  <2>2. i = n + 1 \/ i \in 1 .. n
    BY <1>1, <1>3
  <2> QED BY <1>1, <2>1, <2>2
<1>4. CASE j # n + 1
  <2>1. j \in 1 .. n /\ i \in 1 .. n
    BY <1>1, <1>4
  <2>2. q[j].do = "persist"
    BY <1>1, <1>2, <2>1
  <2>3. q[i].do = "persist"
    BY <2>1, <2>2 DEF PersistsFirst, n
  <2> QED BY <1>1, <2>1, <2>3
<1> QED BY <1>3, <1>4

LEMMA PersistsTail ==
  ASSUME NEW q \in Seq(Orders), q # <<>>, PersistsFirst(q)
  PROVE  /\ PersistsFirst(Tail(q))
         /\ Head(q).do # "persist" => Lacks(q, "persist")
<1> DEFINE d == Tail(q)
           n == Len(q)
<1>1. /\ n \in Nat /\ n >= 1 /\ Len(d) = n - 1
      /\ \A i \in 1 .. Len(d) : d[i] = q[i + 1] /\ i + 1 \in 1 .. n
      /\ Head(q) = q[1]
  BY Taken
<1> HIDE DEF d, n
<1>2. ASSUME NEW j \in 1 .. Len(d), d[j].do = "persist", NEW i \in 1 .. j
      PROVE  d[i].do = "persist"
  <2>1. j + 1 \in 1 .. n /\ q[j + 1].do = "persist" /\ i + 1 \in 1 .. j + 1 /\ i \in 1 .. Len(d)
    BY <1>1, <1>2
  <2>2. q[i + 1].do = "persist"
    BY <2>1 DEF PersistsFirst, n
  <2> QED BY <1>1, <2>1, <2>2
<1>3. ASSUME Head(q).do # "persist", NEW j \in 1 .. n PROVE q[j].do # "persist"
  <2>1. 1 \in 1 .. j
    BY <1>1
  <2> QED BY <1>1, <1>3, <2>1 DEF PersistsFirst, n
<1> QED BY <1>2, <1>3 DEF PersistsFirst, Lacks, d, n

\* Taking a message from the worker's events.
LEMMA EventIs ==
  ASSUME WorkerInv, worker.events # <<>>, worker' = [worker EXCEPT !.events = Tail(@)]
  PROVE  /\ worker.events \in Seq(Events) /\ Head(worker.events) \in Events
         /\ WorkerTyped(worker') /\ worker'.events = Tail(worker.events)
         /\ Same(worker, worker') /\ SameLists(worker, worker')
         /\ worker'.view = worker.view /\ worker'.streams = worker.streams
         /\ worker'.lost = worker.lost /\ worker'.late = worker.late
         /\ worker'.node = worker.node
<1> DEFINE events == Tail(worker.events)
<1>1. WorkerTyped(worker)
  BY Known
<1>2. worker.events \in Seq(Events) /\ Len(worker.events) <= Capacity
  BY <1>1 DEF WorkerTyped
<1>3. Head(worker.events) \in Events /\ events \in Seq(Events) /\ Len(events) <= Capacity
  BY <1>2, Taken, Constants
<1>4. worker' = [worker EXCEPT !.events = events]
  BY <1>1 DEF WorkerTyped
<1> HIDE DEF events
<1>5. WorkerTyped(worker') /\ worker'.events = events
  BY <1>1, <1>3, <1>4 DEF WorkerTyped
<1>6. /\ Same(worker, worker') /\ SameLists(worker, worker')
      /\ worker'.view = worker.view /\ worker'.streams = worker.streams
      /\ worker'.lost = worker.lost /\ worker'.late = worker.late
      /\ worker'.node = worker.node
  BY <1>1, <1>4, <1>5 DEF WorkerTyped, Same, SameLists
<1> QED BY <1>2, <1>3, <1>5, <1>6 DEF events

LEMMA HandleViewKeeps ==
  ASSUME WorkerInv, HandleMihomoEvent, Head(worker.events).do = "view"
  PROVE  WorkerInv'
<1>1. /\ worker.events # <<>> /\ worker' = [worker EXCEPT !.events = Tail(@)]
      /\ screen' = [screen EXCEPT !.view = Head(worker.events).with]
      /\ UNCHANGED <<queue, gaps>>
      /\ UNCHANGED <<core, unseen, commands, catalog, job, used, inputs>>
  BY DEF HandleMihomoEvent
<1>2. /\ worker.events \in Seq(Events) /\ Head(worker.events) \in Events
      /\ WorkerTyped(worker') /\ worker'.events = Tail(worker.events)
      /\ Same(worker, worker') /\ SameLists(worker, worker')
      /\ worker'.view = worker.view /\ worker'.streams = worker.streams
      /\ worker'.lost = worker.lost /\ worker'.late = worker.late
  BY <1>1, EventIs
<1>3. Head(worker.events).with \in View
  BY <1>2 DEF Events
<1>4. /\ screen' \in [view : View, page : AllPages, visible : BOOLEAN]
      /\ screen'.view = Head(worker.events).with
      /\ screen'.page = screen.page /\ screen'.visible = screen.visible
  BY <1>1, <1>3 DEF WorkerInv, Typed
<1>5. OnlyViews(worker, worker')
  <2>1. Lacks(worker.events, "selected") <=> Lacks(worker'.events, "selected")
    BY <1>1, <1>2, AfterTail
  <2>2. ASSUME NEW values
        PROVE  /\ Ends(worker.events, "selected", values) => Ends(worker'.events, "selected", values)
               /\ Holds(worker.events, "selected", values) => Holds(worker'.events, "selected", values)
    <3>1. Head(worker.events).do # "selected"
      OBVIOUS
    <3>2. Holds(worker.events, "selected", values) => Holds(Tail(worker.events), "selected", values)
      BY <1>1, <1>2, <3>1, HoldsTail
    <3>3. Ends(worker.events, "selected", values) => Ends(Tail(worker.events), "selected", values)
      BY <1>1, <1>2, <3>1, AfterTail
    <3> QED BY <1>2, <3>2, <3>3
  <2> QED BY <2>1, <2>2 DEF OnlyViews
<1>6. Typed' /\ CoreFits'
  BY <1>1, <1>2, <1>4 DEF WorkerInv, Typed, CoreFits
<1>7. WindowFollows'
  <2>1. Shown(worker', Head(worker.events).with)
    <3> SUFFICES ASSUME ~worker.lost
                 PROVE  Follows(worker'.events, "view", {worker'.view},
                                worker'.view = Head(worker.events).with)
      BY <1>2 DEF Shown
    <3>1. Follows(worker.events, "view", {worker.view}, worker.view = screen.view)
      BY Known DEF WorkerFits, Shown
    <3>2. Follows(Tail(worker.events), "view", {worker.view},
                  Head(worker.events).with \in {worker.view})
      BY <1>1, <1>2, <3>1, FollowsTail
    <3> QED BY <1>2, <3>2 DEF Follows
  <2>2. worker'.streams \subseteq Wanted(worker') /\ StatusFits(worker') /\ ~worker'.view.busy
    BY <1>2, Known DEF WorkerFits, StatusFits, Wanted, Same
  <2>3. WorkerFits(worker', screen'.view)
    BY <1>2, <1>4, <2>1, <2>2 DEF WorkerFits
  <2>4. "dropped" \notin gaps =>
          Follows(commands, "show", {[page |-> screen.page, visible |-> screen.visible]},
                  worker.page = screen.page /\ worker.visible = screen.visible)
    BY DEF WorkerInv, WindowFollows
  <2> QED BY <1>1, <1>2, <1>4, <2>2, <2>3, <2>4 DEF WindowFollows, Same
<1>8. ClosedOnce'
  BY <1>1, <1>2, Known DEF ClosedOnce, SameLists, ListsFit
<1>9. Restores' /\ SelectionsFollow' /\ LeftAreClosed'
  <2>1. commands \in Seq(Commands)
    BY Known
  <2>2. SyncsStay(commands, commands') /\ ConnectionsPass
    BY <1>1, <2>1, SyncsPass DEF ConnectionsPass
  <2>3. worker'.pending = worker.pending /\ (worker'.pending # None => worker'.active = None)
    BY <1>2, Known DEF Same
  <2> QED BY <1>1, <1>5, <2>2, <2>3, Passing
<1> QED BY <1>6, <1>7, <1>8, <1>9 DEF WorkerInv

LEMMA HandleSelectionKeeps ==
  ASSUME WorkerInv, HandleMihomoEvent, Head(worker.events).do # "view"
  PROVE  WorkerInv'
<1> DEFINE event == Head(worker.events)
           x == [do |-> "persist", with |-> event.with]
<1>1. /\ worker.events # <<>> /\ worker' = [worker EXCEPT !.events = Tail(@)]
      /\ IF Accepts(queue)
         THEN /\ queue' = Append(queue, x)
              /\ gaps' = IF job = None /\ \A n \in DOMAIN queue : queue[n].do = "persist"
                         THEN gaps ELSE gaps \cup {"crossed"}
         ELSE UNCHANGED queue /\ gaps' = gaps \cup {"dropped"}
      /\ UNCHANGED <<screen, core, unseen, commands, catalog, job, used, inputs>>
  BY DEF HandleMihomoEvent
<1>2. /\ worker.events \in Seq(Events) /\ event \in Events
      /\ WorkerTyped(worker') /\ worker'.events = Tail(worker.events)
      /\ Same(worker, worker') /\ SameLists(worker, worker')
      /\ worker'.view = worker.view /\ worker'.streams = worker.streams
      /\ worker'.lost = worker.lost /\ worker'.late = worker.late
  BY <1>1, EventIs
<1>3. /\ event.do = "selected" /\ event.with \in Selections
      /\ x \in Orders /\ x.do = "persist" /\ x.with = event.with
  BY <1>2 DEF Events, Orders
<1>4. queue \in Seq(Orders) /\ Len(queue) <= Capacity /\ gaps \subseteq Gaps
  BY DEF WorkerInv, Typed
<1> HIDE DEF x, event
<1>5. /\ queue' \in Seq(Orders) /\ Len(queue') <= Capacity
      /\ gaps \subseteq gaps' /\ gaps' \subseteq Gaps
      /\ gaps' \cap {"dropped", "crossed"} = {} =>
           /\ queue' = Append(queue, x) /\ job = None
           /\ \A n \in 1 .. Len(queue) : queue[n].do = "persist"
  <2>1. CASE Accepts(queue)
    <3>1. queue' = Append(queue, x) /\ Len(queue) < Capacity
      BY <1>1, <2>1 DEF Accepts
    <3>2. queue' \in Seq(Orders) /\ Len(queue') = Len(queue) + 1 /\ Len(queue) \in Nat
      BY <1>3, <1>4, <3>1, Appended
    <3>3. DOMAIN queue = 1 .. Len(queue)
      BY <1>4, LenProperties
    <3>4. Len(queue') <= Capacity
      BY <3>1, <3>2, Constants
    <3>5. \/ gaps' = gaps \cup {"crossed"}
          \/ gaps' = gaps /\ job = None /\ \A n \in 1 .. Len(queue) : queue[n].do = "persist"
      BY <1>1, <2>1, <3>3
    <3> QED BY <1>4, <3>1, <3>2, <3>4, <3>5 DEF Gaps
  <2>2. CASE ~Accepts(queue)
    BY <1>1, <1>4, <2>2 DEF Gaps
  <2> QED BY <2>1, <2>2
<1>6. Typed' /\ CoreFits'
  BY <1>1, <1>2, <1>5 DEF WorkerInv, Typed, CoreFits
<1>7. WindowFollows'
  <2>1. Shown(worker', screen.view)
    BY <1>1, <1>2, <1>3, Known, FollowsTail DEF WorkerFits, Shown, event
  <2>2. worker'.streams \subseteq Wanted(worker') /\ StatusFits(worker') /\ ~worker'.view.busy
    BY <1>2, Known DEF WorkerFits, StatusFits, Wanted, Same
  <2>3. WorkerFits(worker', screen'.view)
    BY <1>1, <1>2, <2>1, <2>2 DEF WorkerFits
  <2>4. "dropped" \notin gaps =>
          Follows(commands, "show", {[page |-> screen.page, visible |-> screen.visible]},
                  worker.page = screen.page /\ worker.visible = screen.visible)
    BY DEF WorkerInv, WindowFollows
  <2> QED BY <1>1, <1>2, <1>5, <2>2, <2>3, <2>4 DEF WindowFollows, Same
<1>8. ClosedOnce'
  BY <1>1, <1>2, <1>5, Known DEF ClosedOnce, SameLists, ListsFit
<1>9. Restores'
  BY <1>1, <1>2 DEF WorkerInv, Restores, Same
<1>10. SelectionsFollow'
  <2> SUFFICES ASSUME gaps' \cap {"failed", "dropped", "crossed", "reset"} = {}
               PROVE  SelectionsFollow'
    BY DEF SelectionsFollow
  <2>1. gaps \cap {"failed", "dropped", "crossed", "reset"} = {}
    BY <1>5
  <2>2. /\ queue' = Append(queue, x) /\ job = None
        /\ \A n \in 1 .. Len(queue) : queue[n].do = "persist"
    BY <1>5
  <2>3. ~Lacks(worker.events, "selected")
    BY <1>1, <1>2, <1>3, AfterTail DEF event
  <2>4. ~Waiting /\ ~Waiting'
    BY <1>1, <1>2, <2>1, <2>3 DEF WorkerInv, SelectionsFollow, Waiting, Same
  <2>5. PersistsFirst(queue')
    BY <1>3, <1>4, <2>1, <2>2, PersistsAppend DEF WorkerInv, SelectionsFollow
  <2>6. Follows(commands, "sync", With(Sync, StoredNode),
                worker.pending = None \/ worker.pending.node = StoredNode)
    BY <2>1 DEF WorkerInv, SelectionsFollow
  <2>7. StoredNode' = StoredNode
    BY <1>1 DEF StoredNode
  <2> DEFINE values == With(Selections, core.node)
             arrived == StoredNode \in Offers[catalog.current] => core.node = StoredNode
  <2>8. Follows(worker'.events, "selected", values, Follows(queue', "persist", values, arrived))
    <3>1. Follows(worker.events, "selected", values, Follows(queue, "persist", values, arrived))
      BY <2>1, <2>4 DEF WorkerInv, SelectionsFollow
    <3> HIDE DEF values, arrived
    <3>2. Follows(Tail(worker.events), "selected", values, event.with \in values)
      BY <1>1, <1>2, <1>3, <3>1, FollowsTail DEF event
    <3>3. event.with \in values => Follows(queue', "persist", values, arrived)
      BY <1>3, <1>4, <2>2, FollowsAppend
    <3> QED BY <1>2, <3>2, <3>3 DEF Follows
  <2> QED BY <1>1, <1>2, <2>2, <2>4, <2>5, <2>6, <2>7, <2>8 DEF SelectionsFollow, Same
<1>11. LeftAreClosed'
  <2> SUFFICES ASSUME gaps' \cap {"failed", "dropped", "crossed", "reset", "kept", "unread"} = {},
                      NEW id \in Open(core.conns)
               PROVE  core.conns[id] = core.node \/ OnItsWay(core.conns[id])'
    BY <1>1 DEF LeftAreClosed
  <2>1. queue' = Append(queue, x)
    BY <1>5
  <2>2. core.conns[id] = core.node \/ OnItsWay(core.conns[id])
    BY <1>5 DEF WorkerInv, LeftAreClosed
  <2> DEFINE values == Leaving(core.conns[id])
  <2>3. Holds(queue, "persist", values) => Holds(queue', "persist", values)
    BY <1>3, <1>4, <2>1, HoldsAppend
  <2>4. Holds(worker.events, "selected", values) =>
          Holds(worker'.events, "selected", values) \/ Holds(queue', "persist", values)
    <3> HIDE DEF values
    <3>1. Holds(worker.events, "selected", values) =>
            Holds(worker'.events, "selected", values) \/ event.with \in values
      BY <1>1, <1>2, HoldsTail DEF event
    <3>2. event.with \in values => Holds(queue', "persist", values)
      BY <1>3, <1>4, <2>1, HoldsAppend
    <3> QED BY <3>1, <3>2
  <2> QED BY <1>1, <1>2, <2>2, <2>3, <2>4 DEF OnItsWay, Same
<1> QED BY <1>6, <1>7, <1>8, <1>9, <1>10, <1>11 DEF WorkerInv

LEMMA HandleMihomoEventKeeps == ASSUME WorkerInv, HandleMihomoEvent PROVE WorkerInv'
BY HandleViewKeeps, HandleSelectionKeeps

-----------------------------------------------------------------------------
(* The profile worker                                                      *)

LEMMA OrderActivationKeeps == ASSUME WorkerInv, OrderActivation PROVE WorkerInv'
<1>1. /\ Input /\ Len(queue) < Capacity
      /\ UNCHANGED <<core, unseen, worker, commands, screen, catalog, job, used, gaps>>
  BY DEF OrderActivation, Accepts
<1>2. PICK p \in Profiles : queue' = Append(queue, [do |-> "activate", with |-> p])
  BY DEF OrderActivation
<1> DEFINE x == [do |-> "activate", with |-> p]
<1>3. x \in Orders /\ x.do = "activate" /\ queue' = Append(queue, x)
  BY <1>2 DEF Orders
<1> HIDE DEF x
<1>4. queue \in Seq(Orders)
  BY DEF WorkerInv, Typed
<1>5. queue' \in Seq(Orders) /\ Len(queue') <= Capacity
  BY <1>1, <1>3, <1>4, Appended, Constants
<1>6. Typed' /\ CoreFits' /\ Restores'
  BY <1>1, <1>5, InputIs DEF WorkerInv, Typed, CoreFits, Restores
<1>7. SelectionsFollow'
  <2> SUFFICES ASSUME gaps \cap {"failed", "dropped", "crossed", "reset"} = {}
               PROVE  SelectionsFollow'
    BY <1>1 DEF SelectionsFollow
  <2> DEFINE values == With(Selections, core.node)
             arrived == StoredNode \in Offers[catalog.current] => core.node = StoredNode
  <2>1. Lacks(queue, "persist") => Lacks(queue', "persist")
    BY <1>3, <1>4, AfterAppend
  <2>2. PersistsFirst(queue')
    BY <1>3, <1>4, PersistsAppend DEF WorkerInv, SelectionsFollow
  <2>3. Follows(queue, "persist", values, arrived) => Follows(queue', "persist", values, arrived)
    <3> HIDE DEF values, arrived
    <3> QED BY <1>3, <1>4, FollowsAppend
  <2>4. Waiting' <=> Waiting
    BY <1>1 DEF Waiting
  <2>5. StoredNode' = StoredNode
    BY <1>1 DEF StoredNode
  <2>6. ~Waiting =>
          Follows(worker.events, "selected", values, Follows(queue', "persist", values, arrived))
    BY <2>3 DEF WorkerInv, SelectionsFollow, Follows
  <2> QED BY <1>1, <2>1, <2>2, <2>4, <2>5, <2>6 DEF WorkerInv, SelectionsFollow
<1>8. LeftAreClosed'
  <2>1. \A values : Holds(queue, "persist", values) => Holds(queue', "persist", values)
    BY <1>3, <1>4, HoldsAppend
  <2> QED BY <1>1, <2>1 DEF WorkerInv, LeftAreClosed, OnItsWay
<1>9. "dropped" \notin gaps' => Follows(commands', "show", {Presentation'}, PageFits')
  BY <1>1, PageStays
<1> QED BY <1>1, <1>6, <1>7, <1>8, <1>9, Outside

LEMMA OrderIs ==
  ASSUME WorkerInv, NEW kind, NextJob(kind)
  PROVE  /\ job = None /\ queue # <<>> /\ queue \in Seq(Orders) /\ Head(queue).do = kind
         /\ Head(queue) \in Orders /\ queue' = Tail(queue)
         /\ queue' \in Seq(Orders) /\ Len(queue') <= Capacity
         /\ kind = "persist" => Head(queue).with \in Selections
         /\ kind = "activate" => Head(queue).with \in Profiles
<1>1. /\ job = None /\ queue # <<>> /\ Head(queue).do = kind /\ queue' = Tail(queue)
      /\ queue \in Seq(Orders) /\ Len(queue) <= Capacity
  BY DEF NextJob, WorkerInv, Typed
<1>2. Head(queue) \in Orders /\ queue' \in Seq(Orders) /\ Len(queue') <= Capacity
  BY <1>1, Taken, Constants
<1> QED BY <1>1, <1>2 DEF Orders

LEMMA StartActivationKeeps == ASSUME WorkerInv, StartActivation PROVE WorkerInv'
<1> DEFINE p == Head(queue).with
           sync == [node |-> catalog.stored[p], close |-> TRUE]
<1>1. /\ NextJob("activate")
      /\ job' = [profile |-> p, sync |-> sync, mode |-> core.mode]
      /\ IF core.mode = None
         THEN UNCHANGED <<core, unseen>>
         ELSE core' = [core EXCEPT !.mode = None] /\ unseen' = TRUE
      /\ gaps' = IF \E n \in DOMAIN worker.events : worker.events[n].do = "selected"
                 THEN gaps \cup {"crossed"} ELSE gaps
      /\ UNCHANGED <<worker, commands, screen, catalog, used, inputs>>
  BY DEF StartActivation
<1>2. /\ job = None /\ queue # <<>> /\ queue \in Seq(Orders) /\ Head(queue).do = "activate"
      /\ queue' = Tail(queue) /\ queue' \in Seq(Orders) /\ Len(queue') <= Capacity
      /\ p \in Profiles
  BY <1>1, OrderIs
<1> HIDE DEF p
<1>3. /\ sync \in Sync /\ sync.close /\ sync.node = catalog.stored[p]
  BY <1>2 DEF WorkerInv, Typed, Sync
<1> HIDE DEF sync
<1>4. /\ job' \in Jobs /\ job' # None /\ job'.sync = sync /\ job'.profile = p
      /\ job'.mode = core.mode
  <2>1. job' \in Jobs
    BY <1>1, <1>2, <1>3, Known DEF Jobs, CoreTyped
  <2> QED BY <1>1, <2>1, Constants
<1>5. /\ CoreTyped(core') /\ core'.mode = None /\ core'.profile = core.profile
      /\ core'.node = core.node /\ core'.conns = core.conns /\ unseen' \in BOOLEAN
  <2>1. CoreTyped(core) /\ unseen \in BOOLEAN
    BY DEF WorkerInv, Typed
  <2>2. CASE core.mode = None
    BY <1>1, <2>1, <2>2
  <2>3. CASE core.mode # None
    BY <1>1, <2>1, <2>3 DEF CoreTyped
  <2> QED BY <2>2, <2>3
<1>6. /\ gaps \subseteq gaps' /\ gaps' \subseteq Gaps
      /\ "crossed" \notin gaps' => Lacks(worker.events, "selected")
  <2>1. DOMAIN worker.events = 1 .. Len(worker.events)
    BY Known, LenProperties DEF WorkerTyped
  <2> QED BY <1>1, <2>1, Known DEF Gaps, Lacks
<1>7. Typed'
  BY <1>1, <1>2, <1>4, <1>5, <1>6 DEF WorkerInv, Typed
<1>8. CoreFits'
  BY <1>1, <1>2, <1>4, <1>5 DEF WorkerInv, CoreFits
<1>9. Restores'
  BY <1>1, <1>3, <1>4 DEF WorkerInv, Restores
<1>10. SelectionsFollow'
  <2> SUFFICES ASSUME gaps' \cap {"failed", "dropped", "crossed", "reset"} = {}
               PROVE  SelectionsFollow'
    BY DEF SelectionsFollow
  <2>1. gaps \cap {"failed", "dropped", "crossed", "reset"} = {}
    BY <1>6
  <2>2. Lacks(worker.events, "selected")
    BY <1>6
  <2>3. Lacks(queue, "persist") /\ PersistsFirst(queue')
    BY <1>2, <2>1, PersistsTail DEF WorkerInv, SelectionsFollow
  <2>4. Lacks(queue', "persist")
    BY <1>2, <2>3, AfterTail
  <2>5. Waiting' <=> Waiting
    BY <1>1 DEF Waiting
  <2>6. StoredNode' = StoredNode
    BY <1>1 DEF StoredNode
  <2>7. ~Waiting => (StoredNode \in Offers[catalog.current] => core.node = StoredNode)
    BY <2>1, <2>2, <2>3 DEF WorkerInv, SelectionsFollow, Follows, Ends, Lacks
  <2>8. Follows(commands, "sync", With(Sync, StoredNode),
                worker.pending = None \/ worker.pending.node = StoredNode)
    BY <2>1 DEF WorkerInv, SelectionsFollow
  <2> QED BY <1>1, <1>3, <1>4, <1>5, <2>2, <2>3, <2>4, <2>5, <2>6, <2>7, <2>8
          DEF SelectionsFollow, Follows
<1>11. LeftAreClosed'
  <2>1. \A values : Holds(queue, "persist", values) => Holds(queue', "persist", values)
    BY <1>2, HoldsTail
  <2> QED BY <1>1, <1>5, <1>6, <2>1 DEF WorkerInv, LeftAreClosed, OnItsWay
<1>12. "dropped" \notin gaps' => Follows(commands', "show", {Presentation'}, PageFits')
  BY <1>1, <1>6, PageStays
<1> QED BY <1>1, <1>5, <1>6, <1>7, <1>8, <1>9, <1>10, <1>11, <1>12, Outside

LEMMA FailActivationKeeps == ASSUME WorkerInv, FailActivation PROVE WorkerInv'
<1>1. /\ Input /\ job # None /\ job' = None
      /\ core' = [core EXCEPT !.mode = job.mode]
      /\ unseen' = (unseen \/ job.mode # None)
      /\ UNCHANGED <<worker, commands, screen, catalog, queue, used, gaps>>
  BY DEF FailActivation
<1>2. job \in Jobs /\ CoreTyped(core) /\ unseen \in BOOLEAN
  BY <1>1 DEF WorkerInv, Typed
<1>3. /\ CoreTyped(core') /\ core'.mode = job.mode /\ core'.profile = core.profile
      /\ core'.node = core.node /\ core'.conns = core.conns
  BY <1>1, <1>2 DEF CoreTyped, Jobs
<1>4. Typed'
  BY <1>1, <1>2, <1>3, InputIs DEF WorkerInv, Typed
<1>5. CoreFits' /\ Restores'
  BY <1>1, <1>3 DEF WorkerInv, CoreFits, Restores
<1>6. SelectionsFollow'
  BY <1>1, <1>3 DEF WorkerInv, SelectionsFollow, StoredNode, Waiting
<1>7. LeftAreClosed'
  BY <1>1, <1>3 DEF WorkerInv, LeftAreClosed, OnItsWay
<1>8. "dropped" \notin gaps' => Follows(commands', "show", {Presentation'}, PageFits')
  BY <1>1, PageStays
<1> QED BY <1>1, <1>3, <1>4, <1>5, <1>6, <1>7, <1>8, Outside

LEMMA FinishActivationKeeps == ASSUME WorkerInv, FinishActivation PROVE WorkerInv'
<1>1. /\ job # None /\ job' = None
      /\ catalog' = [catalog EXCEPT !.current = job.profile]
      /\ unseen' = (unseen \/ job.mode # None)
      /\ Forward("sync", job.sync)
      /\ UNCHANGED <<worker, screen, queue, used, inputs>>
  BY DEF FinishActivation
<1>2. PICK node \in Offers[job.profile] :
        core' = [core EXCEPT !.mode = job.mode,
                             !.profile = IF job.mode = None THEN core.profile ELSE job.profile,
                             !.node = IF job.mode = None THEN core.node ELSE node]
  BY DEF FinishActivation, WorkerInv, Typed, CoreTyped
<1>3. /\ job \in Jobs /\ CoreTyped(core) /\ unseen \in BOOLEAN
      /\ catalog \in [current : Profiles, stored : [Profiles -> Nodes \cup {None}]]
  BY <1>1 DEF WorkerInv, Typed
<1>4. /\ job.profile \in Profiles /\ job.sync \in Sync /\ job.mode \in Modes \cup {None}
      /\ job.sync.close
  BY <1>1, <1>3 DEF Jobs, WorkerInv, Restores
<1>5. node \in Nodes
  BY <1>4, WorkerAssumption
<1>6. /\ CoreTyped(core') /\ core'.mode = job.mode /\ core'.conns = core.conns
      /\ job.mode # None => core'.profile = job.profile /\ core'.node = node
      /\ job.mode = None => core'.profile = core.profile /\ core'.node = core.node
  BY <1>2, <1>3, <1>4, <1>5 DEF CoreTyped
<1>7. /\ catalog' \in [current : Profiles, stored : [Profiles -> Nodes \cup {None}]]
      /\ catalog'.current = job.profile /\ catalog'.stored = catalog.stored
  BY <1>1, <1>3, <1>4
<1> DEFINE x == [do |-> "sync", with |-> job.sync]
<1>8. x \in Commands /\ x = [do |-> "sync", with |-> job.sync]
  BY <1>4 DEF Commands
<1> HIDE DEF x
<1>9. /\ commands' \in Seq(Commands) /\ Len(commands') <= Capacity
      /\ gaps \subseteq gaps' /\ gaps' \subseteq Gaps
      /\ \/ commands' = Append(commands, x) /\ gaps' = gaps
         \/ commands' = commands /\ "dropped" \in gaps'
      /\ x.do = "sync" /\ x.with = job.sync
  BY <1>1, <1>8, ForwardIs
<1>10. commands \in Seq(Commands)
  BY Known
<1>11. Typed'
  BY <1>1, <1>3, <1>6, <1>7, <1>9 DEF WorkerInv, Typed
<1>12. CoreFits'
  BY <1>1, <1>5, <1>6, <1>7 DEF WorkerInv, CoreFits
<1>13. Restores'
  <2>1. OnlyFirstKeeps(commands')
    BY <1>4, <1>8, <1>9, <1>10, FirstAppend DEF WorkerInv, Restores
  <2>2. ~Holds(commands, "sync", Keeping) => ~Holds(commands', "sync", Keeping)
    <3>1. x.with \notin Keeping
      BY <1>4, <1>9 DEF Keeping
    <3>2. Holds(Append(commands, x), "sync", Keeping) <=>
            (Holds(commands, "sync", Keeping) \/ (x.do = "sync" /\ x.with \in Keeping))
      BY <1>8, <1>10, HoldsAppend
    <3> QED BY <1>9, <3>1, <3>2
  <2> QED BY <1>1, <2>1, <2>2 DEF WorkerInv, Restores
<1>14. SelectionsFollow'
  <2> SUFFICES ASSUME gaps' \cap {"failed", "dropped", "crossed", "reset"} = {}
               PROVE  SelectionsFollow'
    BY DEF SelectionsFollow
  <2>1. /\ gaps \cap {"failed", "dropped", "crossed", "reset"} = {}
        /\ commands' = Append(commands, x)
    BY <1>9
  <2>2. /\ Lacks(worker.events, "selected") /\ Lacks(queue, "persist") /\ PersistsFirst(queue)
        /\ job.sync.node = catalog.stored[job.profile]
    BY <1>1, <2>1 DEF WorkerInv, SelectionsFollow
  <2>3. StoredNode' = job.sync.node
    BY <1>7, <2>2 DEF StoredNode
  <2> DEFINE values == With(Sync, StoredNode')
             arrived == (worker.pending = None \/ worker.pending.node = StoredNode')
  <2>4. x.with \in values
    BY <1>4, <1>9, <2>3 DEF With
  <2> HIDE DEF values, arrived
  <2>5. Follows(commands', "sync", values, arrived)
    BY <1>8, <1>9, <1>10, <2>1, <2>4, FollowsAppend
  <2>6. Waiting'
    BY <1>8, <1>9, <1>10, <2>1, AfterAppend DEF Waiting
  <2> QED BY <1>1, <2>2, <2>5, <2>6 DEF SelectionsFollow, values, arrived
<1>15. LeftAreClosed'
  <2> SUFFICES ASSUME gaps' \cap {"failed", "dropped", "crossed", "reset", "kept", "unread"} = {},
                      NEW id \in Open(core'.conns)
               PROVE  OnItsWay(core.conns[id])'
    BY <1>6 DEF LeftAreClosed
  <2>1. commands' = Append(commands, x)
    BY <1>9
  <2>2. x.with \in Closing
    BY <1>4, <1>9 DEF Closing
  <2>3. Holds(commands', "sync", Closing)
    BY <1>8, <1>9, <1>10, <2>1, <2>2, HoldsAppend
  <2> QED BY <2>3 DEF OnItsWay
<1>16. "dropped" \notin gaps' => Follows(commands', "show", {Presentation'}, PageFits')
  <2>1. \/ commands' = commands
        \/ \E y \in Commands : y.do # "show" /\ commands' = Append(commands, y)
    BY <1>8, <1>9
  <2> QED BY <1>1, <1>9, <2>1, PageStays
<1> QED BY <1>1, <1>6, <1>9, <1>11, <1>12, <1>13, <1>14, <1>15, <1>16, Outside

LEMMA PersistSelectionKeeps == ASSUME WorkerInv, PersistSelection PROVE WorkerInv'
<1> DEFINE selection == Head(queue).with
           x == [do |-> "leave", with |-> selection.previous]
<1>1. /\ NextJob("persist")
      /\ catalog' = [catalog EXCEPT !.stored[catalog.current] = selection.node]
      /\ IF selection.previous = None THEN UNCHANGED <<commands, gaps>>
         ELSE Forward("leave", selection.previous)
      /\ UNCHANGED <<core, unseen, worker, screen, job, used, inputs>>
  BY DEF PersistSelection
<1>2. /\ job = None /\ queue # <<>> /\ queue \in Seq(Orders) /\ Head(queue).do = "persist"
      /\ queue' = Tail(queue) /\ queue' \in Seq(Orders) /\ Len(queue') <= Capacity
      /\ selection \in Selections
  BY <1>1, OrderIs
<1>3. /\ catalog \in [current : Profiles, stored : [Profiles -> Nodes \cup {None}]]
      /\ commands \in Seq(Commands) /\ Len(commands) <= Capacity /\ gaps \subseteq Gaps
  BY DEF WorkerInv, Typed
<1> HIDE DEF selection
<1>4. selection.node \in Nodes /\ selection.previous \in Nodes \cup {None}
  BY <1>2 DEF Selections
<1>5. /\ catalog' \in [current : Profiles, stored : [Profiles -> Nodes \cup {None}]]
      /\ catalog'.current = catalog.current /\ StoredNode' = selection.node
  BY <1>1, <1>3, <1>4 DEF StoredNode
<1>6. /\ x.do = "leave" /\ x.with = selection.previous
      /\ selection.previous # None => x \in Commands
  BY <1>4 DEF Commands
<1>7. /\ commands' \in Seq(Commands) /\ Len(commands') <= Capacity
      /\ gaps \subseteq gaps' /\ gaps' \subseteq Gaps
      /\ \/ commands' = commands /\ (selection.previous = None \/ "dropped" \in gaps')
         \/ commands' = Append(commands, x) /\ selection.previous # None /\ x \in Commands
  <2>1. CASE selection.previous = None
    BY <1>1, <1>3, <2>1
  <2>2. CASE selection.previous # None
    <3>1. x \in Commands /\ Forward("leave", selection.previous)
      BY <1>1, <1>6, <2>2
    <3>2. x = [do |-> "leave", with |-> selection.previous]
      OBVIOUS
    <3> HIDE DEF x
    <3> QED BY <2>2, <3>1, <3>2, ForwardIs
  <2> QED BY <2>1, <2>2
<1> HIDE DEF x
<1>8. Typed'
  BY <1>1, <1>2, <1>5, <1>7 DEF WorkerInv, Typed
<1>9. CoreFits'
  BY <1>1, <1>2, <1>5 DEF WorkerInv, CoreFits
<1>10. SyncsStay(commands, commands')
  BY <1>3, <1>6, <1>7, SyncsPass
<1>11. Restores'
  BY <1>1, <1>2, <1>10 DEF WorkerInv, Restores, SyncsStay
<1>12. SelectionsFollow'
  <2> SUFFICES ASSUME gaps' \cap {"failed", "dropped", "crossed", "reset"} = {}
               PROVE  SelectionsFollow'
    BY DEF SelectionsFollow
  <2>1. gaps \cap {"failed", "dropped", "crossed", "reset"} = {}
    BY <1>7
  <2>2. ~Lacks(queue, "persist")
    BY <1>2, AfterTail
  <2>3. ~Waiting /\ PersistsFirst(queue)
    BY <2>1, <2>2 DEF WorkerInv, SelectionsFollow
  <2>4. ~Waiting' /\ Lacks(commands', "sync") /\ worker.pending = None
    BY <1>1, <1>10, <2>3 DEF Waiting, SyncsStay
  <2>5. PersistsFirst(queue')
    BY <1>2, <2>3, PersistsTail
  <2>6. Follows(commands', "sync", With(Sync, StoredNode'), worker.pending = None)
    BY <2>4 DEF Follows
  <2> DEFINE values == With(Selections, core.node)
             arrived == StoredNode \in Offers[catalog.current] => core.node = StoredNode
             after == StoredNode' \in Offers[catalog.current] => core.node = StoredNode'
  <2>7. Follows(worker.events, "selected", values, Follows(queue', "persist", values, after))
    <3>1. Follows(worker.events, "selected", values, Follows(queue, "persist", values, arrived))
      BY <2>1, <2>3 DEF WorkerInv, SelectionsFollow
    <3>2. selection \in values => after
      BY <1>5 DEF With
    <3> HIDE DEF values, arrived, after
    <3>3. Follows(queue, "persist", values, arrived) =>
            Follows(queue', "persist", values, selection \in values)
      BY <1>2, FollowsTail DEF selection
    <3>4. Follows(queue, "persist", values, arrived) => Follows(queue', "persist", values, after)
      BY <3>2, <3>3 DEF Follows
    <3> QED BY <3>1, <3>4 DEF Follows
  <2> QED BY <1>1, <1>2, <1>5, <2>4, <2>5, <2>6, <2>7 DEF SelectionsFollow, Follows
<1>13. LeftAreClosed'
  <2> SUFFICES ASSUME gaps' \cap {"failed", "dropped", "crossed", "reset", "kept", "unread"} = {},
                      NEW id \in Open(core.conns)
               PROVE  core.conns[id] = core.node \/ OnItsWay(core.conns[id])'
    BY <1>1 DEF LeftAreClosed
  <2> DEFINE node == core.conns[id]
             values == Leaving(node)
             leave == {node}
  <2>1. node = core.node \/ OnItsWay(node)
    BY <1>7 DEF WorkerInv, LeftAreClosed
  <2>2. Holds(commands, "leave", leave) => Holds(commands', "leave", leave)
    <3> HIDE DEF leave
    <3>1. CASE commands' = commands
      BY <3>1
    <3>2. CASE commands' = Append(commands, x) /\ x \in Commands
      BY <1>3, <3>2, HoldsAppend
    <3> QED BY <1>7, <3>1, <3>2
  <2>3. Holds(queue, "persist", values) =>
          Holds(queue', "persist", values) \/ Holds(commands', "leave", leave)
    <3>1. Holds(queue, "persist", values) =>
            Holds(queue', "persist", values) \/ selection \in values
      <4> HIDE DEF values
      <4> QED BY <1>2, HoldsTail DEF selection
    <3>2. ASSUME selection \in values PROVE Holds(commands', "leave", leave)
      <4>1. node # None /\ selection.previous = node
        BY <3>2 DEF Leaving, Open
      <4>2. commands' = Append(commands, x) /\ x \in Commands
        BY <1>7, <4>1
      <4>3. x.with \in leave
        BY <1>6, <4>1
      <4> HIDE DEF leave
      <4> QED BY <1>3, <1>6, <4>2, <4>3, HoldsAppend
    <3> QED BY <3>1, <3>2
  <2>4. Holds(commands, "sync", Closing) => Holds(commands', "sync", Closing)
    BY <1>10 DEF SyncsStay
  <2> QED BY <1>1, <2>1, <2>2, <2>3, <2>4 DEF OnItsWay
<1>14. "dropped" \notin gaps' => Follows(commands', "show", {Presentation'}, PageFits')
  <2>1. \/ commands' = commands
        \/ \E y \in Commands : y.do # "show" /\ commands' = Append(commands, y)
    BY <1>6, <1>7
  <2> QED BY <1>1, <1>7, <2>1, PageStays
<1> QED BY <1>1, <1>7, <1>8, <1>9, <1>11, <1>12, <1>13, <1>14, Outside

-----------------------------------------------------------------------------
(* The core and its users                                                  *)

LEMMA NoneOpen == Open(NoConnections) = {}
BY DEF Open, NoConnections

LEMMA StartCoreKeeps == ASSUME WorkerInv, StartCore PROVE WorkerInv'
<1>1. /\ Input /\ core.mode = None /\ job = None /\ unseen' = TRUE
      /\ UNCHANGED <<worker, commands, screen, catalog, queue, job, used>>
  BY DEF StartCore
<1>2. PICK mode \in Modes, node \in Offers[catalog.current] :
        /\ core' = [core EXCEPT !.mode = mode, !.profile = catalog.current, !.node = node]
        /\ gaps' = IF Unrestored /\ core.node # node THEN gaps \cup {"reset"} ELSE gaps
  BY DEF StartCore
<1>3. catalog.current \in Profiles /\ node \in Nodes /\ CoreTyped(core)
  BY WorkerAssumption DEF WorkerInv, Typed
<1>4. /\ CoreTyped(core') /\ core'.mode = mode /\ core'.profile = catalog.current
      /\ core'.node = node /\ core'.conns = core.conns
  BY <1>2, <1>3 DEF CoreTyped
<1>5. core.conns = NoConnections
  BY <1>1 DEF WorkerInv, CoreFits
<1>6. /\ gaps \subseteq gaps' /\ gaps' \subseteq Gaps
      /\ "reset" \notin gaps' => ~Unrestored \/ core.node = node
  BY <1>2, Known DEF Gaps
<1>7. Typed'
  BY <1>1, <1>4, <1>6, InputIs DEF WorkerInv, Typed
<1>8. CoreFits' /\ Restores'
  BY <1>1, <1>3, <1>4, Constants DEF WorkerInv, CoreFits, Restores
<1>9. SelectionsFollow'
  <2> SUFFICES ASSUME gaps' \cap {"failed", "dropped", "crossed", "reset"} = {}
               PROVE  SelectionsFollow'
    BY DEF SelectionsFollow
  <2>1. gaps \cap {"failed", "dropped", "crossed", "reset"} = {}
    BY <1>6
  <2>2. ~Waiting => core'.node = core.node
    <3>1. DOMAIN commands = 1 .. Len(commands)
      BY Known, LenProperties
    <3> QED BY <1>4, <1>6, <3>1 DEF Unrestored, Restoring, Waiting, Lacks
  <2>3. (Waiting' <=> Waiting) /\ StoredNode' = StoredNode
    BY <1>1 DEF Waiting, StoredNode
  <2>4. job' = None /\ UNCHANGED <<worker, commands, catalog, queue>>
    BY <1>1
  <2> QED BY <2>1, <2>2, <2>3, <2>4 DEF WorkerInv, SelectionsFollow
<1>10. LeftAreClosed'
  BY <1>4, <1>5, NoneOpen DEF LeftAreClosed
<1>11. "dropped" \notin gaps' => Follows(commands', "show", {Presentation'}, PageFits')
  BY <1>1, <1>6, PageStays
<1> QED BY <1>1, <1>4, <1>6, <1>7, <1>8, <1>9, <1>10, <1>11, Outside

LEMMA StopCoreKeeps == ASSUME WorkerInv, StopCore PROVE WorkerInv'
<1>1. /\ Input /\ core.mode # None /\ unseen' = TRUE
      /\ core' = [core EXCEPT !.mode = None, !.conns = NoConnections]
      /\ UNCHANGED <<worker, commands, screen, catalog, queue, job, used, gaps>>
  BY DEF StopCore
<1>2. NoConnections \in Connections /\ CoreTyped(core)
  BY Known DEF NoConnections, Connections
<1>3. /\ CoreTyped(core') /\ core'.mode = None /\ core'.profile = core.profile
      /\ core'.node = core.node /\ core'.conns = NoConnections
  BY <1>1, <1>2 DEF CoreTyped
<1>4. Typed'
  BY <1>1, <1>3, InputIs DEF WorkerInv, Typed
<1>5. CoreFits'
  BY <1>1, <1>3, NoneOpen DEF WorkerInv, CoreFits
<1>6. Restores' /\ SelectionsFollow' /\ LeftAreClosed'
  <2>1. ConnectionsPass
    BY <1>3, NoneOpen DEF ConnectionsPass
  <2>2. SyncsStay(commands, commands')
    BY <1>1, Known, SyncsPass
  <2>3. OnlyViews(worker, worker') /\ (worker'.pending # None => worker'.active = None)
    BY <1>1, Known DEF OnlyViews
  <2> QED BY <1>1, <1>3, <2>1, <2>2, <2>3, Passing
<1>7. "dropped" \notin gaps' => Follows(commands', "show", {Presentation'}, PageFits')
  BY <1>1, PageStays
<1> QED BY <1>1, <1>3, <1>4, <1>5, <1>6, <1>7, NoneOpen, Outside

LEMMA DisconnectKeeps == ASSUME WorkerInv, Disconnect PROVE WorkerInv'
<1>1. PICK id \in Open(core.conns) : core' = [core EXCEPT !.conns[id] = None]
  BY DEF Disconnect
<1>2. UNCHANGED <<unseen, worker, commands, screen, catalog, queue, job, used, gaps, inputs>>
  BY DEF Disconnect
<1>3. CoreTyped(core) /\ core.conns \in [Ids -> Nodes \cup {None}]
  BY Known DEF CoreTyped, Connections
<1> DEFINE conns == [core.conns EXCEPT ![id] = None]
<1>4. core' = [core EXCEPT !.conns = conns]
  BY <1>1
<1>5. conns \in Connections /\ \A i \in Ids : conns[i] \in {None, core.conns[i]}
  BY <1>3 DEF Connections
<1> HIDE DEF conns
<1>6. /\ CoreTyped(core') /\ core'.mode = core.mode /\ core'.profile = core.profile
      /\ core'.node = core.node /\ core'.conns = conns
  BY <1>3, <1>4, <1>5 DEF CoreTyped
<1>7. \A i \in Open(core'.conns) : i \in Open(core.conns) /\ core'.conns[i] = core.conns[i]
  BY <1>5, <1>6 DEF Open
<1>8. Typed'
  BY <1>2, <1>6 DEF WorkerInv, Typed
<1>9. CoreFits'
  <2>1. core.conns = NoConnections => core'.conns = NoConnections
    BY <1>5, <1>6 DEF NoConnections, Connections
  <2> QED BY <1>2, <1>6, <1>7, <2>1 DEF WorkerInv, CoreFits
<1>10. Restores' /\ SelectionsFollow' /\ LeftAreClosed'
  <2>1. ConnectionsPass
    BY <1>2, <1>7 DEF ConnectionsPass
  <2>2. SyncsStay(commands, commands')
    BY <1>2, Known, SyncsPass
  <2>3. OnlyViews(worker, worker') /\ (worker'.pending # None => worker'.active = None)
    BY <1>2, Known DEF OnlyViews
  <2> QED BY <1>2, <1>6, <2>1, <2>2, <2>3, Passing
<1>11. "dropped" \notin gaps' => Follows(commands', "show", {Presentation'}, PageFits')
  BY <1>2, PageStays
<1> QED BY <1>2, <1>7, <1>8, <1>9, <1>10, <1>11, Outside

LEMMA ConnectKeeps == ASSUME WorkerInv, Connect PROVE WorkerInv'
<1> DEFINE new == used + 1
           conns == [core.conns EXCEPT ![new] = core.node]
<1>1. /\ core.mode # None /\ used < MaxConnections /\ used' = new
      /\ UNCHANGED <<unseen, worker, commands, screen, catalog, queue, job, gaps, inputs>>
      /\ core' = [core EXCEPT !.conns = conns]
  BY DEF Connect
<1>2. CoreTyped(core) /\ core.conns \in [Ids -> Nodes \cup {None}]
  BY Known DEF CoreTyped, Connections
<1>3. /\ used \in Nat /\ new \in Ids /\ new \in 0 .. MaxConnections
      /\ new \notin 1 .. used /\ new \in 1 .. new /\ 1 .. used \subseteq 1 .. new
  BY <1>1, Known, Constants DEF Ids
<1>4. core.node \in Nodes
  BY <1>1 DEF WorkerInv, CoreFits
<1>a. used' = new
  BY <1>1
<1> HIDE DEF new
<1>5. /\ conns \in Connections /\ conns[new] = core.node
      /\ \A i \in Ids : i # new => conns[i] = core.conns[i]
  BY <1>2, <1>3, <1>4 DEF Connections
<1>b. core' = [core EXCEPT !.conns = conns]
  BY <1>1
<1> HIDE DEF conns
<1>6. /\ CoreTyped(core') /\ core'.mode = core.mode /\ core'.profile = core.profile
      /\ core'.node = core.node /\ core'.conns = conns
  BY <1>2, <1>b, <1>5 DEF CoreTyped
<1>7. \A i \in Open(core'.conns) :
        \/ i = new /\ core'.conns[i] = core.node
        \/ i \in Open(core.conns) /\ core'.conns[i] = core.conns[i]
  BY <1>5, <1>6 DEF Open
<1>8. Typed'
  BY <1>1, <1>a, <1>3, <1>6 DEF WorkerInv, Typed
<1>9. CoreFits'
  <2>1. Open(core'.conns) \subseteq 1 .. new
    BY <1>3, <1>7, Known
  <2> QED BY <1>1, <1>a, <1>6, <2>1 DEF WorkerInv, CoreFits
<1>10. Restores' /\ SelectionsFollow' /\ LeftAreClosed'
  <2>1. ConnectionsPass
    BY <1>1, <1>7 DEF ConnectionsPass
  <2>2. SyncsStay(commands, commands')
    BY <1>1, Known, SyncsPass
  <2>3. OnlyViews(worker, worker') /\ (worker'.pending # None => worker'.active = None)
    BY <1>1, Known DEF OnlyViews
  <2> QED BY <1>1, <1>6, <2>1, <2>2, <2>3, Passing
<1>11. WindowFollows'
  BY <1>1 DEF WorkerInv, WindowFollows
<1>12. ClosedOnce'
  <2> SUFFICES ASSUME "overtaken" \notin gaps
               PROVE  ListsFit(worker, Open(core'.conns), new)
    BY <1>1, <1>a DEF ClosedOnce
  <2>1. ListsFit(worker, Open(core.conns), used)
    BY Known
  <2>2. \A i \in Open(core'.conns) : i = new \/ i \in Open(core.conns)
    BY <1>7
  <2> QED BY <1>3, <2>1, <2>2 DEF ListsFit
<1> QED BY <1>8, <1>9, <1>10, <1>11, <1>12 DEF WorkerInv

-----------------------------------------------------------------------------
(* A node is selected                                                      *)

\* The worker publishes the selection behind its snapshot.
LEMMA SelectedIs ==
  ASSUME NEW w, WorkerTyped(w), Shown(w, screen.view), w.active # None,
         w.streams \subseteq Wanted(w), w.view.status = "connected",
         NEW x \in Events, x.do = "selected", Len(w.events) < Capacity,
         NEW events, events = Append(w.events, x),
         NEW v, v = [w EXCEPT !.events = events]
  PROVE  /\ WorkerFits(v, screen.view) /\ v.view = w.view
         /\ Same(w, v) /\ SameLists(w, v) /\ v.events = events
<1>1. w.events \in Seq(Events)
  BY DEF WorkerTyped
<1>2. events \in Seq(Events) /\ Len(events) <= Capacity
  BY <1>1, Appended, Constants
<1>3. ~w.lost => Follows(events, "view", {w.view}, w.view = screen.view)
  BY <1>1, FollowsAppend DEF Shown
<1>4. WorkerTyped(v) /\ v.events = events
  BY <1>2 DEF WorkerTyped
<1>5. /\ Same(w, v) /\ SameLists(w, v) /\ v.view = w.view
      /\ v.streams = w.streams /\ v.lost = w.lost /\ v.late = w.late
  BY <1>4 DEF WorkerTyped, Same, SameLists
<1>6. Shown(v, screen.view) /\ v.streams \subseteq Wanted(v) /\ StatusFits(v)
  BY <1>3, <1>4, <1>5 DEF Shown, Wanted, StatusFits, Same
<1> QED BY <1>4, <1>5, <1>6 DEF WorkerFits

LEMMA SelectProxyKeeps == ASSUME WorkerInv, SelectProxy PROVE WorkerInv'
<1>1. Take("select") /\ UNCHANGED Elsewhere
  BY DEF SelectProxy
<1>2. PICK up \in Succeeding(worker.active) :
       IF "select" \in up
       THEN LET previous == IF worker.node = Given THEN None ELSE worker.node
                w == Showing([worker EXCEPT !.node = IF @ = None THEN None ELSE Given],
                             "connected") IN
            /\ Given \in Offers[core.profile]
            /\ Len(w.events) < Capacity
            /\ core' = [core EXCEPT !.node = Given]
            /\ worker' = [w EXCEPT !.events =
                 Append(@, [do |-> "selected", with |-> [node |-> Given, previous |-> previous]])]
            /\ Called(up, worker.active, {},
                      (IF job = None /\ ~Restoring THEN {} ELSE {"crossed"})
                      \cup (IF worker.node = core.node THEN {} ELSE {"unread"}))
       ELSE /\ UNCHANGED <<core, worker>>
            /\ Called(up, worker.active, {}, {})
  BY DEF SelectProxy
<1>3. /\ commands # <<>> /\ commands \in Seq(Commands) /\ commands' = Tail(commands)
      /\ Head(commands).do = "select" /\ Given = Head(commands).with
      /\ commands' \in Seq(Commands) /\ Len(commands') <= Capacity
      /\ Given \in Nodes
  BY <1>1, Known, TakeIs, CommandIs
<1>4. SyncsStay(commands, commands')
  BY <1>3, SyncsPass
<1>5. \A node : Holds(commands, "leave", {node}) => Holds(commands', "leave", {node})
  BY <1>3, HoldsTail
<1>6. Follows(commands, "show", {Presentation}, PageFits) =>
      Follows(commands', "show", {Presentation}, PageFits)
  BY <1>3, FollowsTail
<1>7. "dropped" \notin gaps => Follows(commands, "show", {Presentation}, PageFits)
  BY DEF WorkerInv, WindowFollows, Presentation, PageFits
<1>8. /\ UNCHANGED <<unseen, screen, catalog, queue, job, used>>
      /\ StoredNode' = StoredNode /\ Presentation' = Presentation
  BY <1>1 DEF Elsewhere, StoredNode, Presentation
<1>9. CASE "select" \notin up
  <2>1. UNCHANGED <<core, worker>> /\ Called(up, worker.active, {}, {})
    BY <1>2, <1>9
  <2>2. inputs' \in 0 .. MaxInputs /\ gaps \subseteq gaps' /\ gaps' \subseteq Gaps
    BY <2>1, Known, CalledIs
  <2>3. /\ WorkerFits(worker', screen.view) /\ Keeps(worker, worker')
        /\ Trimmed(worker, worker')
    BY <2>1, Known DEF Keeps, Same, OnlyViews, Trimmed
  <2>4. CoreStays
    BY <2>1, SameCoreStays
  <2>5. Serves
    BY <1>1, <2>2, <2>3, <2>4, KeepsFits, Refreshing
  <2>6. ConnectionsPass
    BY <1>5, <2>1 DEF ConnectionsPass
  <2>7. PageFits' <=> PageFits
    BY <1>8, <2>1 DEF PageFits
  <2> QED BY <1>3, <1>4, <1>6, <1>7, <1>8, <2>2, <2>5, <2>6, <2>7, Serving DEF Follows
<1>10. CASE "select" \in up
  <2> DEFINE previous == IF worker.node = Given THEN None ELSE worker.node
             chosen == IF worker.node = None THEN None ELSE Given
             u == [worker EXCEPT !.node = chosen]
             w == Showing(u, "connected")
             x == [do |-> "selected", with |-> [node |-> Given, previous |-> previous]]
  <2>1. /\ Len(w.events) < Capacity
        /\ core' = [core EXCEPT !.node = Given]
        /\ worker' = [w EXCEPT !.events = Append(w.events, x)]
        /\ Called(up, worker.active, {},
                  (IF job = None /\ ~Restoring THEN {} ELSE {"crossed"})
                  \cup (IF worker.node = core.node THEN {} ELSE {"unread"}))
    BY <1>2, <1>10
  <2>2. previous \in Nodes \cup {None}
    BY Known DEF WorkerTyped
  <2> HIDE DEF previous
  <2>3. /\ WorkerFits(worker', screen.view) /\ worker'.view.busy = FALSE
        /\ Same(worker, worker') /\ SameLists(worker, worker')
        /\ x \in Events /\ x.do = "selected" /\ x.with \in Selections
        /\ x.with.node = Given /\ x.with.previous = previous
        /\ OnlyViews(worker, w) /\ w.events \in Seq(Events)
        /\ worker'.events = Append(w.events, x)
    <3>1. x \in Events /\ x.do = "selected" /\ x.with \in Selections
          /\ x.with.node = Given /\ x.with.previous = previous
      <4> DEFINE with == [node |-> Given, previous |-> previous]
      <4>1. with \in Selections /\ with.node = Given /\ with.previous = previous
        BY <1>3, <2>2 DEF Selections
      <4> HIDE DEF with
      <4>2. [do |-> "selected", with |-> with] \in Events
        BY <4>1 DEF Events
      <4> QED BY <4>1, <4>2 DEF with
    <3>2. /\ WorkerTyped(worker) /\ worker.active # None /\ worker.view.busy = FALSE
          /\ worker.streams \subseteq Wanted(worker)
      BY <1>10, Known DEF Succeeding, WorkerFits, WorkerTyped, View
    <3>3. /\ WorkerTyped(u) /\ Same(worker, u) /\ SameLists(worker, u)
          /\ u.events = worker.events /\ u.view = worker.view /\ u.streams = worker.streams
      <4>1. chosen \in Nodes \cup {None}
        BY <1>3
      <4> HIDE DEF chosen
      <4>2. WorkerTyped(u)
        BY <3>2, <4>1 DEF WorkerTyped
      <4> QED BY <3>2, <4>2 DEF WorkerTyped, Same, SameLists
    <3> DEFINE status == "connected"
    <3>4. w = Showing(u, status) /\ status \in Statuses /\ status = "connected"
      BY DEF Statuses
    <3> HIDE DEF x, u, w, status, chosen
    <3>5. /\ WorkerTyped(w) /\ Shown(w, screen.view)
          /\ OnlyViews(u, w) /\ Same(u, w) /\ SameLists(u, w)
          /\ w.view.status = "connected" /\ w.view.busy = u.view.busy /\ w.streams = u.streams
      BY <3>3, <3>4, ShowingIs
    <3>6. w.active # None /\ w.streams \subseteq Wanted(w) /\ w.events \in Seq(Events)
      BY <3>2, <3>3, <3>5 DEF Same, Wanted, WorkerTyped
    <3> DEFINE events == Append(w.events, x)
    <3>7. worker' = [w EXCEPT !.events = events] /\ Len(w.events) < Capacity
      BY <2>1
    <3>8. events = Append(w.events, x)
      OBVIOUS
    <3> HIDE DEF events
    <3>9. /\ WorkerFits(worker', screen.view) /\ worker'.view = w.view
          /\ Same(w, worker') /\ SameLists(w, worker') /\ worker'.events = events
      <4> DEFINE v == worker'
      <4>1. v = [w EXCEPT !.events = events]
        BY <3>7
      <4> HIDE DEF v
      <4>2. /\ WorkerFits(v, screen.view) /\ v.view = w.view
            /\ Same(w, v) /\ SameLists(w, v) /\ v.events = events
        BY <3>1, <3>5, <3>6, <3>7, <3>8, <4>1, SelectedIs
      <4> QED BY <4>2 DEF v
    <3>10. Same(worker, worker') /\ SameLists(worker, worker') /\ OnlyViews(worker, w)
      BY <3>3, <3>5, <3>9 DEF Same, SameLists, OnlyViews
    <3>11. worker'.view.busy = FALSE
      BY <3>2, <3>3, <3>5, <3>9
    <3> QED BY <3>1, <3>6, <3>8, <3>9, <3>10, <3>11
  <2> HIDE DEF w, x, u, chosen
  <2>4. /\ inputs' \in 0 .. MaxInputs /\ gaps \subseteq gaps' /\ gaps' \subseteq Gaps
        /\ "crossed" \notin gaps' => job = None /\ ~Restoring
        /\ "unread" \notin gaps' => worker.node = core.node
        /\ worker.active # None /\ core.mode = worker.active
    <3> DEFINE others == (IF job = None /\ ~Restoring THEN {} ELSE {"crossed"})
                         \cup (IF worker.node = core.node THEN {} ELSE {"unread"})
    <3>1. others \in SUBSET Gaps
      BY DEF Gaps
    <3>2. /\ "crossed" \notin others => job = None /\ ~Restoring
          /\ "unread" \notin others => worker.node = core.node
      OBVIOUS
    <3> HIDE DEF others
    <3>3. Called(up, worker.active, {}, others)
      BY <2>1 DEF others
    <3>4. up # {}
      BY <1>10
    <3>5. /\ inputs' \in 0 .. MaxInputs /\ gaps \subseteq gaps' /\ gaps' \subseteq Gaps
          /\ others \subseteq gaps' /\ worker.active # None /\ core.mode = worker.active
      BY <3>1, <3>3, <3>4, Known, CalledIs
    <3> QED BY <3>2, <3>5
  <2>5. /\ CoreTyped(core') /\ core'.mode = core.mode /\ core'.profile = core.profile
        /\ core'.node = Given /\ core'.conns = core.conns
    BY <1>3, <2>1, Known DEF CoreTyped
  <2>6. Typed'
    BY <1>3, <1>8, <2>3, <2>4, <2>5 DEF WorkerInv, Typed, WorkerFits
  <2>7. CoreFits'
    BY <1>3, <1>8, <2>5 DEF WorkerInv, CoreFits
  <2>8. WindowFollows'
    <3>1. PageFits' <=> PageFits
      BY <1>8, <2>3 DEF PageFits, Same
    <3>2. "dropped" \notin gaps' => Follows(commands', "show", {Presentation}, PageFits)
      BY <1>6, <1>7, <2>4
    <3> QED BY <1>8, <2>3, <3>1, <3>2 DEF WindowFollows, Presentation, PageFits
  <2>9. ClosedOnce'
    <3> SUFFICES ASSUME "overtaken" \notin gaps
                 PROVE  ListsFit(worker', Open(core.conns), used)
      BY <1>8, <2>4, <2>5 DEF ClosedOnce
    <3>1. ListsFit(worker, Open(core.conns), used)
      BY Known
    <3> QED BY <2>3, <3>1 DEF ListsFit, SameLists
  <2>10. Restores'
    BY <1>4, <1>8, <2>3 DEF WorkerInv, Restores, SyncsStay, Same
  <2>11. worker.pending = None /\ worker'.pending = None
    BY <2>3, <2>4, Known DEF Same
  <2>12. SelectionsFollow'
    <3> SUFFICES ASSUME gaps' \cap {"failed", "dropped", "crossed", "reset"} = {}
                 PROVE  SelectionsFollow'
      BY DEF SelectionsFollow
    <3>1. gaps \cap {"failed", "dropped", "crossed", "reset"} = {}
      BY <2>4
    <3>2. job = None /\ Lacks(commands, "sync")
      <4>1. DOMAIN commands = 1 .. Len(commands)
        BY <1>3, LenProperties
      <4> QED BY <2>4, <4>1 DEF Restoring, Lacks
    <3>3. Lacks(commands', "sync") /\ ~Waiting'
      BY <1>4, <2>11, <3>2 DEF SyncsStay, Waiting
    <3>4. PersistsFirst(queue)
      BY <3>1 DEF WorkerInv, SelectionsFollow
    <3>5. \A arrived : Follows(worker'.events, "selected", With(Selections, Given), arrived)
      <4> TAKE arrived
      <4> DEFINE values == With(Selections, Given)
      <4>1. x.with \in values
        BY <2>3 DEF With
      <4> HIDE DEF values
      <4>2. Follows(worker'.events, "selected", values, arrived)
        BY <2>3, <4>1, FollowsAppend
      <4> QED BY <4>2 DEF values
    <3> QED BY <1>8, <2>5, <2>11, <3>2, <3>3, <3>4, <3>5 DEF SelectionsFollow, Follows
  <2>13. LeftAreClosed'
    <3> SUFFICES ASSUME gaps' \cap {"failed", "dropped", "crossed", "reset", "kept", "unread"} = {},
                        NEW id \in Open(core.conns)
                 PROVE  core.conns[id] = Given \/ OnItsWay(core.conns[id])'
      BY <2>5 DEF LeftAreClosed
    <3> DEFINE node == core.conns[id]
               values == Leaving(node)
    <3>1. node = core.node \/ OnItsWay(node)
      BY <2>4 DEF WorkerInv, LeftAreClosed
    <3>2. CASE node = core.node /\ node # Given
      <4>1. previous = node
        BY <2>4, <3>2 DEF previous
      <4>2. x.with \in values
        BY <2>3, <4>1 DEF Leaving
      <4> HIDE DEF values
      <4>3. Holds(worker'.events, "selected", values)
        BY <2>3, <4>2, HoldsAppend
      <4> QED BY <2>5, <4>3 DEF OnItsWay, values
    <3>3. CASE OnItsWay(node)
      <4>1. Holds(worker.events, "selected", values) => Holds(worker'.events, "selected", values)
        <5> HIDE DEF values
        <5>1. Holds(worker.events, "selected", values) => Holds(w.events, "selected", values)
          BY <2>3 DEF OnlyViews
        <5> QED BY <2>3, <5>1, HoldsAppend
      <4>2. Holds(commands, "sync", Closing) => Holds(commands', "sync", Closing)
        BY <1>4 DEF SyncsStay
      <4> QED BY <1>5, <1>8, <2>5, <2>11, <3>3, <4>1, <4>2 DEF OnItsWay
    <3> QED BY <3>1, <3>2, <3>3
  <2> QED BY <2>6, <2>7, <2>8, <2>9, <2>10, <2>12, <2>13 DEF WorkerInv
<1> QED BY <1>9, <1>10

-----------------------------------------------------------------------------
(* The theorems                                                            *)

LEMMA WorkerStarts == Init => WorkerInv
<1> SUFFICES ASSUME Init PROVE WorkerInv
  OBVIOUS
<1> DEFINE none == <<>>
           sync == [node |-> catalog.stored[catalog.current], close |-> FALSE]
           x == [do |-> "sync", with |-> sync]
<1>1. /\ core = [mode |-> None, profile |-> None, node |-> None, conns |-> NoConnections]
      /\ unseen = FALSE
      /\ worker = [active |-> None, view |-> Offline, node |-> None, paused |-> FALSE,
                   page |-> "home", visible |-> TRUE, streams |-> {}, items |-> none,
                   connections |-> {}, closed |-> none, dirty |-> FALSE, pending |-> None,
                   events |-> none, lost |-> FALSE, late |-> FALSE]
      /\ screen = [view |-> Offline, page |-> "home", visible |-> TRUE]
      /\ catalog \in [current : Profiles, stored : {Stored}]
      /\ commands = <<x>> /\ queue = none /\ job = None /\ used = 0 /\ gaps = {} /\ inputs = 0
  BY DEF Init
<1>2. /\ none \in Seq(SUBSET Ids) /\ none \in Seq(Ids) /\ none \in Seq(Events)
      /\ none \in Seq(Orders) /\ none \in Seq(Commands) /\ Len(none) = 0
  BY EmptySeq
<1>3. /\ catalog \in [current : Profiles, stored : [Profiles -> Nodes \cup {None}]]
      /\ sync \in Sync /\ sync.node = StoredNode /\ ~sync.close
  BY <1>1, WorkerAssumption DEF Sync, StoredNode
<1>4. \A do, values : Lacks(none, do) /\ ~Ends(none, do, values) /\ ~Holds(none, do, values)
  BY Nothing
<1>5. IsInjective(none) /\ \A k \in DOMAIN none : FALSE
  BY EmptySeq DEF IsInjective
<1>6. commands = Append(none, x)
  BY <1>1
<1> HIDE DEF sync, none
<1>7. x \in Commands /\ x.do = "sync" /\ x.with = sync
  BY <1>3 DEF Commands
<1> HIDE DEF x
<1>8. /\ commands \in Seq(Commands) /\ Len(commands) = 1 /\ commands[1] = x
  BY <1>2, <1>6, <1>7, Appended
<1>9. Offline \in View /\ Offline.status = "offline" /\ Offline.busy = FALSE
  BY DEF Offline, View, Statuses
<1>10. CoreTyped(core) /\ core.conns = NoConnections /\ core.mode = None
  <2>1. NoConnections \in Connections
    BY DEF NoConnections, Connections
  <2> QED BY <1>1, <2>1 DEF CoreTyped
<1>11. /\ worker.active = None /\ worker.view = Offline /\ worker.page = "home"
       /\ worker.visible = TRUE /\ worker.streams = {} /\ worker.items = none
       /\ worker.connections = {} /\ worker.closed = none /\ worker.pending = None
       /\ worker.events = none /\ worker.lost = FALSE /\ worker.late = FALSE
  BY <1>1
<1>12. WorkerTyped(worker)
  <2>1. {} \subseteq StreamKinds /\ {} \subseteq Ids /\ "home" \in AllPages
    BY DEF AllPages
  <2>2. Len(none) <= 1 /\ Len(none) <= Kept /\ Len(none) <= Capacity
    BY <1>2, Constants
  <2> QED BY <1>1, <1>2, <1>9, <2>1, <2>2 DEF WorkerTyped
<1>13. Typed
  <2>1. screen \in [view : View, page : AllPages, visible : BOOLEAN]
    BY <1>1, <1>9 DEF AllPages
  <2>2. Len(commands) <= Capacity /\ Len(queue) <= Capacity
    BY <1>1, <1>2, <1>8, Constants
  <2>3. used \in 0 .. MaxConnections /\ inputs \in 0 .. MaxInputs
    BY <1>1, Constants
  <2>4. unseen \in BOOLEAN /\ job \in Jobs \cup {None} /\ queue \in Seq(Orders) /\ gaps \subseteq Gaps
    BY <1>1, <1>2
  <2> QED BY <1>3, <1>8, <1>10, <1>12, <2>1, <2>2, <2>3, <2>4 DEF Typed
<1>14. CoreFits
  BY <1>1, <1>10, NoneOpen DEF CoreFits
<1>15. WindowFollows
  <2>1. screen.view = Offline /\ screen.page = "home" /\ screen.visible = TRUE
    BY <1>1
  <2>2. Shown(worker, screen.view)
    BY <1>4, <1>11, <2>1 DEF Shown, Follows
  <2>3. StatusFits(worker) /\ worker.streams \subseteq Wanted(worker) /\ ~worker.view.busy
    BY <1>9, <1>11 DEF StatusFits
  <2>4. Lacks(commands, "show")
    BY <1>2, <1>4, <1>6, <1>7, AfterAppend
  <2> QED BY <1>11, <1>12, <2>1, <2>2, <2>3, <2>4 DEF WindowFollows, WorkerFits, Follows
<1>16. ClosedOnce
  BY <1>5, <1>11 DEF ClosedOnce, ListsFit
<1>17. Restores
  <2>1. OnlyFirstKeeps(commands)
    BY <1>8 DEF OnlyFirstKeeps
  <2> QED BY <1>1, <1>11, <2>1 DEF Restores
<1>18. SelectionsFollow
  <2>1. /\ Lacks(worker.events, "selected") /\ Lacks(queue, "persist") /\ job = None
    BY <1>1, <1>4, <1>11
  <2>2. PersistsFirst(queue)
    BY <1>1, <1>2 DEF PersistsFirst
  <2>3. Waiting
    BY <1>2, <1>6, <1>7, AfterAppend DEF Waiting
  <2> DEFINE values == With(Sync, StoredNode)
             arrived == (worker.pending = None \/ worker.pending.node = StoredNode)
  <2>4. x.with \in values
    BY <1>3, <1>7 DEF With
  <2> HIDE DEF values, arrived
  <2>5. Follows(commands, "sync", values, arrived)
    BY <1>2, <1>6, <1>7, <2>4, FollowsAppend
  <2> QED BY <2>1, <2>2, <2>3, <2>5 DEF SelectionsFollow, values, arrived
<1>19. LeftAreClosed
  BY <1>10, NoneOpen DEF LeftAreClosed
<1> QED BY <1>13, <1>14, <1>15, <1>16, <1>17, <1>18, <1>19 DEF WorkerInv

LEMMA WorkerStays == WorkerInv /\ [Next]_vars => WorkerInv'
<1> SUFFICES ASSUME WorkerInv, [Next]_vars PROVE WorkerInv'
  OBVIOUS
<1>1. CASE UNCHANGED vars
  <2>1. Typed' /\ CoreFits' /\ WindowFollows' /\ ClosedOnce' /\ Restores'
    BY <1>1 DEF vars, WorkerInv, Typed, CoreFits, WindowFollows, ClosedOnce, Restores
  <2>2. SelectionsFollow' /\ LeftAreClosed'
    BY <1>1 DEF vars, WorkerInv, SelectionsFollow, StoredNode, Waiting, LeftAreClosed, OnItsWay
  <2> QED BY <2>1, <2>2 DEF WorkerInv
<1>2. CASE Synchronize BY <1>2, SynchronizeKeeps
<1>3. CASE CoreRuns BY <1>3, CoreRunsKeeps
<1>4. CASE CoreStops BY <1>4, CoreStopsKeeps
<1>5. CASE SelectProxy BY <1>5, SelectProxyKeeps
<1>6. CASE CloseConnectionsForProxy BY <1>6, CloseForProxyKeeps
<1>7. CASE CloseConnections BY <1>7, CloseConnectionsKeeps
<1>8. CASE SetPresentation BY <1>8, SetPresentationKeeps
<1>9. CASE SetPaused BY <1>9, SetPausedKeeps
<1>10. CASE ClearClosed BY <1>10, ClearClosedKeeps
<1>11. CASE Refresh BY <1>11, RefreshKeeps
<1>12. CASE TestProxies BY <1>12, TestProxiesKeeps
<1>13. CASE Poll BY <1>13, PollKeeps
<1>14. CASE FlushTick BY <1>14, FlushTickKeeps
<1>15. CASE SendItem BY <1>15, SendItemKeeps
<1>16. CASE ConnectionsItem BY <1>16, ConnectionsItemKeeps
<1>17. CASE OtherItem BY <1>17, OtherItemKeeps
<1>18. CASE StreamEnds BY <1>18, StreamEndsKeeps
<1>19. CASE RelayCoreState BY <1>19, RelayCoreStateKeeps
<1>20. CASE HandleMihomoEvent BY <1>20, HandleMihomoEventKeeps
<1>21. CASE Show BY <1>21, ShowKeeps
<1>22. CASE Order BY <1>22, OrderKeeps
<1>23. CASE OrderActivation BY <1>23, OrderActivationKeeps
<1>24. CASE StartActivation BY <1>24, StartActivationKeeps
<1>25. CASE FinishActivation BY <1>25, FinishActivationKeeps
<1>26. CASE FailActivation BY <1>26, FailActivationKeeps
<1>27. CASE PersistSelection BY <1>27, PersistSelectionKeeps
<1>28. CASE StartCore BY <1>28, StartCoreKeeps
<1>29. CASE StopCore BY <1>29, StopCoreKeeps
<1>30. CASE Connect BY <1>30, ConnectKeeps
<1>31. CASE Disconnect BY <1>31, DisconnectKeeps
<1> QED BY <1>1, <1>2, <1>3, <1>4, <1>5, <1>6, <1>7, <1>8, <1>9, <1>10, <1>11, <1>12, <1>13,
           <1>14, <1>15, <1>16, <1>17, <1>18, <1>19, <1>20, <1>21, <1>22, <1>23, <1>24, <1>25,
           <1>26, <1>27, <1>28, <1>29, <1>30, <1>31 DEF Next

\* The inductive invariant: every value has its type, no channel holds more than its capacity,
\* and what the parts know of each other is true or about to be told (BackendHandle,
\* mihomo.rs run, lib.rs handle_mihomo_event, profiles.rs synchronize_current_profile).
THEOREM WorkerIsGood == Spec => []WorkerInv
BY WorkerStarts, WorkerStays, PTL DEF Spec

\* A closed connection is listed once and is not listed as active again, over restarts of the
\* core, pauses and both ways to get a list (mihomo.rs update_connections).
THEOREM ClosedStayClosed == Spec => []ClosedOnceAndForAll
<1>1. WorkerInv => ClosedOnceAndForAll
  BY DEF WorkerInv, ClosedOnce, ListsFit, ClosedOnceAndForAll
<1> QED BY <1>1, WorkerIsGood, PTL

\* What holds of the channels when they are empty.
LEMMA RestIs ==
  ASSUME WorkerInv, AtRest
  PROVE  /\ \A do, values : /\ Lacks(commands, do) /\ ~Holds(commands, do, values)
                            /\ Lacks(queue, do) /\ ~Holds(queue, do, values)
                            /\ Lacks(worker.events, do) /\ ~Holds(worker.events, do, values)
         /\ \A do, values, arrived : /\ Follows(commands, do, values, arrived) => arrived
                                     /\ Follows(queue, do, values, arrived) => arrived
                                     /\ Follows(worker.events, do, values, arrived) => arrived
BY Nothing DEF AtRest, Follows

\* Once all is handled the core runs with the node stored for the current profile, and no
\* connection uses a node that was left (profiles.rs profile_runtime_sync,
\* persist_profile_selection; mihomo.rs synchronize_profile, close_connections_for_proxy).
THEOREM SelectionsSurvive == Spec => []ActivationIsFollowed
<1>1. ASSUME WorkerInv PROVE SelectionsAreRestored
  <2> SUFFICES ASSUME AtRest, core.mode # None,
                      gaps \cap {"failed", "dropped", "crossed", "reset"} = {}
               PROVE  StoredNode \in Offers[catalog.current] => core.node = StoredNode
    BY DEF SelectionsAreRestored, StoredNode
  <2>1. worker.pending = None
    BY <1>1, Known DEF AtRest
  <2>2. ~Waiting
    BY <1>1, <2>1, RestIs DEF Waiting
  <2> DEFINE values == With(Selections, core.node)
             arrived == StoredNode \in Offers[catalog.current] => core.node = StoredNode
  <2>3. Follows(worker.events, "selected", values, Follows(queue, "persist", values, arrived))
    BY <1>1, <2>2 DEF WorkerInv, SelectionsFollow
  <2> HIDE DEF values, arrived
  <2>4. Follows(queue, "persist", values, arrived)
    BY <1>1, <2>3, RestIs
  <2>5. arrived
    BY <1>1, <2>4, RestIs
  <2> QED BY <2>5 DEF arrived
<1>2. ASSUME WorkerInv PROVE OldConnectionsAreClosed
  <2> SUFFICES ASSUME AtRest, NEW id \in Open(core.conns),
                      gaps \cap {"failed", "dropped", "crossed", "reset", "kept", "unread"} = {}
               PROVE  core.conns[id] = core.node
    BY DEF OldConnectionsAreClosed
  <2>1. core.conns[id] = core.node \/ OnItsWay(core.conns[id])
    BY <1>2 DEF WorkerInv, LeftAreClosed
  <2>2. core.mode # None
    BY <1>2, NoneOpen DEF WorkerInv, CoreFits, AtRest
  <2>3. worker.pending = None
    BY <1>2, <2>2, Known DEF AtRest
  <2>4. worker.pending \notin Closing
    BY <2>3, Constants DEF Closing
  <2> QED BY <1>2, <2>1, <2>4, RestIs DEF OnItsWay
<1> QED BY <1>1, <1>2, WorkerIsGood, PTL DEF ActivationIsFollowed

\* The worker's state is well typed, it reads the streams of the page that is shown, and once
\* all is handled the window shows the worker's snapshot, no test that never ends and no core
\* that is stopped (mihomo.rs publish, configure_streams, handle_core_state).
THEOREM WindowShowsTheCore == Spec => []WindowIsTrue
<1>1. ASSUME WorkerInv PROVE TypeOK
  BY <1>1, Known DEF WorkerInv, Typed, TypeOK, CoreTyped, WorkerTyped
<1>2. ASSUME WorkerInv PROVE StreamsServeThePage
  <2>1. worker.streams \subseteq Wanted(worker)
    BY <1>2, Known DEF WorkerFits
  <2>2. ASSUME AtRest, "dropped" \notin gaps
        PROVE  worker.streams \subseteq WantedStreams(screen.page, screen.visible)
    <3> DEFINE arrived == worker.page = screen.page /\ worker.visible = screen.visible
               values == {[page |-> screen.page, visible |-> screen.visible]}
    <3>1. Follows(commands, "show", values, arrived)
      BY <1>2, <2>2 DEF WorkerInv, WindowFollows
    <3> HIDE DEF values, arrived
    <3>2. arrived
      BY <1>2, <2>2, <3>1, RestIs
    <3> QED BY <2>1, <3>2 DEF arrived, Wanted
  <2> QED BY <2>1, <2>2 DEF StreamsServeThePage
<1>3. ASSUME WorkerInv PROVE ViewIsTrue
  <2> SUFFICES ASSUME AtRest, ~worker.lost, ~worker.late
               PROVE  /\ screen.view = worker.view /\ ~screen.view.busy
                      /\ core.mode = None <=> screen.view.status = "offline"
    BY DEF ViewIsTrue
  <2> DEFINE arrived == worker.view = screen.view
             values == {worker.view}
  <2>1. Follows(worker.events, "view", values, arrived)
    BY <1>3, Known DEF WorkerFits, Shown
  <2> HIDE DEF values, arrived
  <2>2. arrived
    BY <1>3, <2>1, RestIs
  <2>3. worker.active = None <=> worker.view.status = "offline"
    BY <1>3, Known DEF WorkerFits, StatusFits
  <2> QED BY <1>3, <2>2, <2>3, Known DEF arrived, AtRest
<1> QED BY <1>1, <1>2, <1>3, WorkerIsGood, PTL DEF WindowIsTrue
=============================================================================

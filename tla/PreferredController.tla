------------------------- MODULE PreferredController -------------------------
(***************************************************************************)
(* The controller the desktop's core coordinator drives: it prefers the    *)
(* privileged service and falls back to a sidecar process of its own.  The *)
(* service is reached over a socket with a request timeout, and carries    *)
(* out a request its client has stopped waiting for.  Each request has a   *)
(* connection and a task of its own there, and no lock orders them: a      *)
(* start the client gave up on may be carried out after a later stop.      *)
(*                                                                         *)
(* The controller is called by one coordinator, one call at a time; the    *)
(* caller's discipline is that of CoreSupervisor: a start comes only after *)
(* a stop that succeeded, or first (NoSecondCore there).                   *)
(***************************************************************************)
EXTENDS Naturals, Sequences, SequencesExt

CONSTANTS
  Channels,     \* core channels
  None,         \* Option::None
  MaxRequests   \* bound on the requests the service has not carried out yet

Backends == {"Service", "Sidecar"}

ConstantsAssumption ==
  /\ None \notin Channels \cup Backends
  /\ MaxRequests \in Nat \ {0}

VARIABLES
  active,        \* the active backend, or None
  at,            \* where the call in progress is suspended; "idle" if none is
  target,        \* the channel of the start in progress
  clean,         \* the caller's last call is a stop that succeeded
  reply,         \* what the client has learned of its request
  requests,      \* requests delivered to the service, oldest first
  overtaken,     \* a stop has been carried out before a start delivered earlier
  service_core,  \* the core the service runs and supervises, or None
  sidecar_core   \* the core of the sidecar process, or None

vars == <<active, at, target, clean, reply, requests, overtaken, service_core, sidecar_core>>

Awaits == {"idle", "probe", "serviceStart", "serviceCleanup", "sidecarStart",
           "serviceStop", "sidecarStop"}
StartCore(channel) == [op |-> "StartCore", channel |-> channel, awaited |-> TRUE]
StopCore == [op |-> "StopCore", channel |-> None, awaited |-> TRUE]
Request == [op : {"StartCore", "StopCore"}, channel : Channels \union {None},
            awaited : BOOLEAN]

\* Every variable has its type, and a start has a target as long as it lasts.
TypeOK ==
  /\ active \in Backends \union {None}
  /\ at \in Awaits
  /\ target \in Channels \union {None}
  /\ target # None <=> at \in {"probe", "serviceStart", "serviceCleanup", "sidecarStart"}
  /\ clean \in BOOLEAN
  /\ reply \in {"none", "ok", "error"}
  /\ requests \in Seq(Request)
  /\ overtaken \in BOOLEAN
  /\ service_core \in Channels \union {None}
  /\ sidecar_core \in Channels \union {None}

Init ==
  /\ active = None
  /\ at = "idle"
  /\ target = None
  /\ clean = TRUE
  /\ reply = "none"
  /\ requests = <<>>
  /\ overtaken = FALSE
  /\ service_core = None
  /\ sidecar_core = None

-----------------------------------------------------------------------------
(* The client of the service                                                *)

\* ServiceClient::request: it is delivered, or fails before it is.
Send(request) ==
  \/ /\ Len(requests) < MaxRequests
     /\ requests' = Append(requests, request)
     /\ reply' = "none"
  \/ /\ reply' = "error"
     /\ UNCHANGED requests

\* The client awaits the last request it delivered and gives up on it; the
\* service does not notice.
TimeOut ==
  /\ requests # <<>>
  /\ requests[Len(requests)].awaited
  /\ requests' = [requests EXCEPT ![Len(requests)].awaited = FALSE]
  /\ reply' = "error"
  /\ UNCHANGED <<active, at, target, clean, overtaken, service_core, sidecar_core>>

Answer(request, ok) ==
  reply' = IF request.awaited THEN (IF ok THEN "ok" ELSE "error") ELSE reply

\* The service's own coordinator carries out one request; a start is refused
\* while another channel runs.
ServiceStarts(request) ==
  \/ /\ service_core \in {None, request.channel}
     /\ service_core' = request.channel
     /\ Answer(request, TRUE)
  \/ /\ service_core' = service_core
     /\ Answer(request, FALSE)

\* Mutant: a stop is acknowledged before the core is stopped.
ServiceStopsEarly(request) ==
  /\ service_core' = service_core
  /\ Answer(request, TRUE)

ServiceStops(request) ==
  \/ /\ service_core' = None
     /\ Answer(request, TRUE)
  \/ /\ service_core # None
     /\ service_core' = service_core
     /\ Answer(request, FALSE)

\* The requests the service still has to carry out that may bring a core up.
LateStarts == {i \in DOMAIN requests : requests[i].op = "StartCore"}

\* The requests' tasks reach the service's coordinator in any order.
ServiceHandles(i) ==
  /\ requests' = RemoveAt(requests, i)
  /\ IF requests[i].op = "StartCore"
     THEN ServiceStarts(requests[i]) /\ UNCHANGED overtaken
     ELSE ServiceStops(requests[i]) /\ overtaken' = (overtaken \/ \E j \in LateStarts : j < i)
  /\ UNCHANGED <<active, at, target, clean, sidecar_core>>

-----------------------------------------------------------------------------
(* start                                                                    *)

Return(ok) == at' = "idle" /\ target' = None /\ clean' = ok

CallStart(channel) ==
  /\ at = "idle"
  /\ clean
  /\ IF active # None
     THEN Return(FALSE)
     ELSE at' = "probe" /\ target' = channel /\ clean' = FALSE
  /\ UNCHANGED <<active, reply, requests, overtaken, service_core, sidecar_core>>

\* is_available: no service, a failed probe, a timeout and another version all
\* count as unavailable.
Probe ==
  /\ at = "probe"
  /\ \/ at' = "serviceStart" /\ Send(StartCore(target))
     \/ at' = "sidecarStart" /\ UNCHANGED <<reply, requests>>
  /\ UNCHANGED <<active, target, clean, overtaken, service_core, sidecar_core>>

ServiceStartReturns ==
  /\ at = "serviceStart"
  /\ reply # "none"
  /\ IF reply = "ok"
     THEN /\ active' = "Service"
          /\ Return(FALSE)
          /\ UNCHANGED <<reply, requests>>
     ELSE /\ at' = "serviceCleanup"
          /\ Send(StopCore)
          /\ UNCHANGED <<active, target, clean>>
  /\ UNCHANGED <<overtaken, service_core, sidecar_core>>

\* Without a clean service there is no fallback.
ServiceCleanupReturns ==
  /\ at = "serviceCleanup"
  /\ reply # "none"
  /\ IF reply = "ok"
     THEN at' = "sidecarStart" /\ UNCHANGED <<target, clean>>
     ELSE Return(FALSE)
  /\ UNCHANGED <<active, reply, requests, overtaken, service_core, sidecar_core>>

\* A sidecar that fails to start is terminated, or killed when it is dropped.  One
\* that runs, but whose configured mode cannot be confirmed, is the same to the
\* controller as one that was started: the caller cleans up after either.
SidecarStartReturns(ok) ==
  /\ at = "sidecarStart"
  /\ IF ok
     THEN active' = "Sidecar" /\ sidecar_core' = target
     ELSE UNCHANGED <<active, sidecar_core>>
  /\ Return(FALSE)
  /\ UNCHANGED <<reply, requests, overtaken, service_core>>

-----------------------------------------------------------------------------
(* stop                                                                     *)

CallStop ==
  /\ at = "idle"
  /\ CASE active = None ->
            Return(TRUE) /\ UNCHANGED <<reply, requests>>
       [] active = "Service" ->
            at' = "serviceStop" /\ Send(StopCore) /\ UNCHANGED <<target, clean>>
       [] active = "Sidecar" ->
            at' = "sidecarStop" /\ UNCHANGED <<target, clean, reply, requests>>
  /\ UNCHANGED <<active, overtaken, service_core, sidecar_core>>

ServiceStopReturns ==
  /\ at = "serviceStop"
  /\ reply # "none"
  /\ active' = IF reply = "ok" THEN None ELSE active
  /\ Return(reply = "ok")
  /\ UNCHANGED <<reply, requests, overtaken, service_core, sidecar_core>>

\* Mutant: a stop that fails forgets the sidecar without terminating it.
SidecarStopLeaks(ok) ==
  /\ at = "sidecarStop"
  /\ sidecar_core' = IF ok THEN None ELSE sidecar_core
  /\ active' = None
  /\ Return(ok)
  /\ UNCHANGED <<reply, requests, overtaken, service_core>>

\* The sidecar's handle is taken before the process is terminated: whatever the
\* outcome, the process is gone once the handle is dropped.
SidecarStopReturns(ok) ==
  /\ at = "sidecarStop"
  /\ sidecar_core' = None
  /\ active' = IF ok THEN None ELSE active
  /\ Return(ok)
  /\ UNCHANGED <<reply, requests, overtaken, service_core>>

-----------------------------------------------------------------------------
Next ==
  \/ \E channel \in Channels : CallStart(channel)
  \/ Probe \/ ServiceStartReturns \/ ServiceCleanupReturns
  \/ CallStop \/ ServiceStopReturns
  \/ \E ok \in BOOLEAN : SidecarStartReturns(ok) \/ SidecarStopReturns(ok)
  \/ (\E i \in DOMAIN requests : ServiceHandles(i)) \/ TimeOut

Spec == Init /\ [][Next]_vars

-----------------------------------------------------------------------------
(* Properties                                                               *)

\* A fallback within a start call is safe: once the service has acknowledged the
\* cleanup, no core of it runs, and no start it was asked for can still come,
\* although the client may have given up on requests the service carries out
\* later; unless a stop has overtaken such a start.
FallbackIsSafe ==
  at = "serviceCleanup" /\ reply = "ok" /\ ~overtaken
    => service_core = None /\ LateStarts = {}

\* The active backend is the one that has the core: an active service excludes a
\* sidecar, and a sidecar runs only while it is the active backend.
ActiveBackendOwnsCore == sidecar_core # None => active = "Sidecar"

\* "refusing sidecar fallback because service cleanup failed": two cores never
\* run at once, except for what a start that a stop has overtaken brings up.
OneCore == sidecar_core # None /\ ~overtaken => service_core = None
=============================================================================

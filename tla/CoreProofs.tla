------------------------------- MODULE CoreProofs -------------------------------
(***************************************************************************)
(* The properties of the core's parts, for every behaviour of the run that *)
(* MCCore checks and every value of its constants: of the choice between   *)
(* the two backends (PreferredController), of the sidecar's process        *)
(* (Sidecar) and of the installation (ServiceInstall).                     *)
(*                                                                         *)
(* FallbackIsSafe is not inductive: that the service has no start left to  *)
(* carry out when it answers the cleanup follows from the one request a    *)
(* client can await, the last it has sent, and from what the answered stop *)
(* has not overtaken.                                                      *)
(* Neither are those of the sidecar.  That a call may forget its process   *)
(* follows from where it does (CallEnded); that the answer at the socket   *)
(* is the process's own, from the path being free when it is spawned       *)
(* (PathIsOurs) and from OnlyOwnedLives itself: whoever else could bind    *)
(* the path is an orphan or has been killed.  That an installation is      *)
(* sound rests on how far the installer has come (Reached): what it has    *)
(* written or removed so far, and that a unit that is not there is neither *)
(* enabled nor active.                                                     *)
(***************************************************************************)
EXTENDS MCCore, SequenceTheorems, TLAPS

-----------------------------------------------------------------------------
(* The two backends                                                        *)

\* Where the controller waits for the service, and for which of its operations.
Awaited(op) ==
  IF op = "StartCore" THEN {"serviceStart"} ELSE {"serviceCleanup", "serviceStop"}

\* A request that is awaited is the last one, of the call in progress, and unanswered.
OnlyLastAwaited ==
  \A i \in 1..Len(requests) :
    requests[i].awaited => /\ i = Len(requests) /\ reply = "none"
                           /\ at \in Awaited(requests[i].op)

\* A cleanup that was acknowledged stopped the core, and left no start behind it.
CleanedUp ==
  at = "serviceCleanup" /\ reply = "ok" /\ ~overtaken
    => service_core = None /\ \A i \in 1..Len(requests) : requests[i].op # "StartCore"

\* A start finds no backend active, and a stop the one it stops.
CallsMatchBackend ==
  /\ target # None => active = None
  /\ at = "serviceStop" => active = "Service"
  /\ at = "sidecarStop" => active = "Sidecar"

BackendInv ==
  /\ Backend!TypeOK /\ OnlyLastAwaited /\ CleanedUp /\ CallsMatchBackend
  /\ Backend!ActiveBackendOwnsCore

LEMMA InitBackend == ASSUME Backend!ConstantsAssumption PROVE Backend!Init => BackendInv
<1> SUFFICES ASSUME Backend!Init PROVE BackendInv
  OBVIOUS
<1>1. requests = <<>> /\ 1..Len(requests) = {} /\ requests \in Seq(Backend!Request)
  BY EmptySeq DEF Backend!Init
<1>2. OnlyLastAwaited /\ CleanedUp
  BY <1>1 DEF OnlyLastAwaited, CleanedUp, Backend!Init
<1> QED BY <1>1, <1>2 DEF Backend!Init, BackendInv, Backend!TypeOK, CallsMatchBackend,
           Backend!ActiveBackendOwnsCore, Backend!Backends, Backend!Awaits

\* What Send does where no request is awaited, for the call that will await its answer.
LEMMA SendKeeps ==
  ASSUME NEW request \in Backend!Request, request.awaited, Backend!TypeOK, OnlyLastAwaited,
         reply # "none" \/ at \notin {"serviceStart", "serviceCleanup", "serviceStop"},
         Backend!Send(request), at' \in Awaited(request.op)
  PROVE  /\ requests' \in Seq(Backend!Request) /\ reply' \in {"none", "error"}
         /\ OnlyLastAwaited'
<1>1. \A i \in 1..Len(requests) : ~requests[i].awaited
  BY DEF OnlyLastAwaited, Awaited
<1>2. CASE requests' = Append(requests, request) /\ reply' = "none"
  <2>1. /\ requests' \in Seq(Backend!Request) /\ Len(requests') = Len(requests) + 1
        /\ requests'[Len(requests')] = request
        /\ \A i \in 1..Len(requests) : requests'[i] = requests[i]
    BY <1>2, AppendProperties DEF Backend!TypeOK
  <2>2. Len(requests) \in Nat
    BY LenProperties DEF Backend!TypeOK
  <2>3. OnlyLastAwaited'
    <3> SUFFICES ASSUME NEW i \in 1..Len(requests'), requests'[i].awaited
                 PROVE  /\ i = Len(requests') /\ reply' = "none"
                        /\ at' \in Awaited(requests'[i].op)
      BY DEF OnlyLastAwaited, Awaited
    <3>1. i = Len(requests')
      BY <1>1, <2>1, <2>2
    <3> QED BY <1>2, <2>1, <3>1
  <2> QED BY <1>2, <2>1, <2>3
<1>3. CASE reply' = "error" /\ UNCHANGED requests
  BY <1>1, <1>3 DEF OnlyLastAwaited, Backend!TypeOK
<1> QED BY <1>2, <1>3 DEF Backend!Send

\* The two requests.
LEMMA RequestTypes ==
  /\ Backend!StopCore \in Backend!Request /\ Backend!StopCore.awaited
  /\ Backend!StopCore.op = "StopCore"
  /\ \A channel \in Channels :
       /\ Backend!StartCore(channel) \in Backend!Request /\ Backend!StartCore(channel).awaited
       /\ Backend!StartCore(channel).op = "StartCore"
  BY DEF Backend!StopCore, Backend!StartCore, Backend!Request

\* What is left once a request has been taken from among those delivered.
LEMMA RemovalKeeps ==
  ASSUME NEW S, NEW s \in Seq(S), NEW i \in 1..Len(s)
  PROVE  /\ Backend!RemoveAt(s, i) \in Seq(S) /\ Len(Backend!RemoveAt(s, i)) = Len(s) - 1
         /\ \A j \in 1..Len(s) - 1 :
              Backend!RemoveAt(s, i)[j] = IF j < i THEN s[j] ELSE s[j + 1]
<1> DEFINE n == Len(s) front == SubSeq(s, 1, i - 1) back == SubSeq(s, i + 1, n)
<1>1. n \in Nat /\ i \in 1..n /\ \A k \in 1..n : s[k] \in S
  BY LenProperties
<1>2. /\ front \in Seq(S) /\ Len(front) = i - 1
      /\ \A k \in 1..i - 1 : front[k] = s[k]
  <2>1. 1 \in Int /\ i - 1 \in Int /\ \A k \in 1..i - 1 : s[k] \in S
    BY <1>1
  <2>2. /\ front \in Seq(S) /\ Len(front) = IF 1 <= i - 1 THEN i - 1 - 1 + 1 ELSE 0
        /\ \A k \in 1..i - 1 - 1 + 1 : front[k] = s[1 + k - 1]
    BY <2>1, SubSeqProperties
  <2> HIDE DEF front
  <2> QED BY <1>1, <2>2
<1>3. /\ back \in Seq(S) /\ Len(back) = n - i
      /\ \A k \in 1..n - i : back[k] = s[i + k]
  <2>1. i + 1 \in Int /\ n \in Int /\ \A k \in i + 1..n : s[k] \in S
    BY <1>1
  <2>2. /\ back \in Seq(S) /\ Len(back) = IF i + 1 <= n THEN n - (i + 1) + 1 ELSE 0
        /\ \A k \in 1..n - (i + 1) + 1 : back[k] = s[i + 1 + k - 1]
    BY <2>1, SubSeqProperties
  <2> HIDE DEF back, n
  <2> QED BY <1>1, <2>2
<1>4. Backend!RemoveAt(s, i) = front \o back
  BY DEF Backend!RemoveAt
<1> HIDE DEF front, back, n
<1>5. /\ front \o back \in Seq(S) /\ Len(front \o back) = n - 1
      /\ \A j \in 1..n - 1 :
           (front \o back)[j] = IF j <= i - 1 THEN front[j] ELSE back[j - (i - 1)]
  BY <1>1, <1>2, <1>3, ConcatProperties
<1>6. \A j \in 1..n - 1 : (front \o back)[j] = IF j < i THEN s[j] ELSE s[j + 1]
  <2> TAKE j \in 1..n - 1
  <2>1. CASE j < i
    BY <1>1, <1>2, <1>5, <2>1
  <2>2. CASE ~(j < i)
    BY <1>1, <1>3, <1>5, <2>2
  <2> QED BY <2>1, <2>2
<1> QED BY <1>4, <1>5, <1>6 DEF n

\* The service's step: each request that is left is one that was delivered.
LEMMA HandlingKeeps ==
  ASSUME Backend!ConstantsAssumption, BackendInv, NEW i \in DOMAIN requests,
         Backend!ServiceHandles(i)
  PROVE  BackendInv'
<1> DEFINE n == Len(requests)
<1>1. requests \in Seq(Backend!Request) /\ n \in Nat \ {0} /\ i \in 1..n
  BY LenProperties DEF BackendInv, Backend!TypeOK
<1>2. /\ requests' = Backend!RemoveAt(requests, i)
      /\ UNCHANGED <<active, at, target, clean, sidecar_core>>
      /\ overtaken' \in BOOLEAN /\ (~overtaken' => ~overtaken)
      /\ requests[i].op = "StopCore" /\ ~overtaken'
           => \A j \in 1..n : j < i => requests[j].op # "StartCore"
  <2>1. DOMAIN requests = 1..n
    BY <1>1, LenProperties
  <2>2. overtaken' = overtaken
          \/ (requests[i].op # "StartCore"
               /\ overtaken' = (overtaken \/ \E j \in Backend!LateStarts : j < i))
    BY DEF Backend!ServiceHandles
  <2>3. overtaken \in BOOLEAN
    BY DEF BackendInv, Backend!TypeOK
  <2>4. ASSUME requests[i].op = "StopCore", ~overtaken', NEW j \in 1..n, j < i
        PROVE  requests[j].op # "StartCore"
    <3>1. overtaken' = (overtaken \/ \E k \in Backend!LateStarts : k < i)
      BY <2>4 DEF Backend!ServiceHandles
    <3>2. j \notin Backend!LateStarts
      BY <2>4, <3>1
    <3> QED BY <2>1, <3>2 DEF Backend!LateStarts
  <2>5. overtaken' \in BOOLEAN /\ (~overtaken' => ~overtaken)
    <3>1. CASE overtaken' = overtaken
      BY <2>3, <3>1
    <3>2. CASE overtaken' = (overtaken \/ \E j \in Backend!LateStarts : j < i)
      BY <3>2, Zenon
    <3> QED BY <2>2, <3>1, <3>2
  <2> QED BY <2>4, <2>5 DEF Backend!ServiceHandles
<1>3. requests[i] \in Backend!Request
  BY <1>1
<1>4. /\ reply' = reply \/ (requests[i].awaited /\ reply' \in {"ok", "error"})
      /\ requests[i].op = "StopCore"
           => /\ service_core' \in {service_core, None}
              /\ requests[i].awaited /\ reply' = "ok" => service_core' = None
      /\ service_core' \in Channels \union {None}
  BY <1>3 DEF Backend!ServiceHandles, Backend!ServiceStarts, Backend!ServiceStops,
              Backend!Answer, BackendInv, Backend!TypeOK, Backend!Request
<1>5. requests[i].awaited => i = n /\ reply = "none" /\ at \in Awaited(requests[i].op)
  BY <1>1 DEF BackendInv, OnlyLastAwaited
<1>6. /\ requests' \in Seq(Backend!Request) /\ Len(requests') = n - 1
      /\ \A j \in 1..n - 1 : requests'[j] = IF j < i THEN requests[j] ELSE requests[j + 1]
  BY <1>1, <1>2, RemovalKeeps
<1>7. Backend!TypeOK'
  BY <1>2, <1>4, <1>6 DEF BackendInv, Backend!TypeOK
<1> HIDE DEF n
<1>8. ASSUME NEW j \in 1..n - 1
      PROVE  \E k \in 1..n : /\ k # i /\ requests'[j] = requests[k]
                             /\ (k = n => j = n - 1) /\ (i = n => k < i)
  <2>1. CASE j < i
    BY <1>1, <1>6, <2>1
  <2>2. CASE ~(j < i)
    <3>1. j + 1 \in 1..n /\ j + 1 # i /\ requests'[j] = requests[j + 1]
      BY <1>1, <1>6, <2>2
    <3> QED BY <1>1, <2>2, <3>1
  <2> QED BY <2>1, <2>2
<1>9. OnlyLastAwaited'
  <2> SUFFICES ASSUME NEW j \in 1..n - 1, requests'[j].awaited
               PROVE  /\ j = n - 1 /\ reply' = "none"
                      /\ at' \in Awaited(requests'[j].op)
    BY <1>6 DEF OnlyLastAwaited, Awaited, n
  <2>1. PICK k \in 1..n : /\ k # i /\ requests'[j] = requests[k] /\ (k = n => j = n - 1)
    BY <1>8
  <2>2. k = n /\ reply = "none" /\ at \in Awaited(requests'[j].op)
    BY <2>1 DEF BackendInv, OnlyLastAwaited, n
  <2>3. ~requests[i].awaited
    BY <1>5, <2>1, <2>2
  <2> QED BY <1>2, <1>4, <2>1, <2>2, <2>3 DEF Awaited
<1>10. CleanedUp'
  <2> SUFFICES ASSUME at = "serviceCleanup", reply' = "ok", ~overtaken'
               PROVE  /\ service_core' = None
                      /\ \A j \in 1..n - 1 : requests'[j].op # "StartCore"
    BY <1>2, <1>6 DEF CleanedUp, n
  <2>1. CASE reply = "ok"
    <3>1. service_core = None /\ \A j \in 1..n : requests[j].op # "StartCore"
      BY <1>2, <2>1 DEF BackendInv, CleanedUp, n
    <3>2. requests[i].op = "StopCore"
      BY <1>1, <1>3, <3>1 DEF Backend!Request
    <3> QED BY <1>4, <1>8, <3>1, <3>2
  <2>2. CASE reply # "ok"
    <3>1. requests[i].awaited /\ i = n
      BY <1>4, <1>5, <2>2
    <3>2. requests[i].op = "StopCore"
      BY <1>3, <1>5, <3>1 DEF Awaited, Backend!Request
    <3> QED BY <1>1, <1>2, <1>4, <1>8, <3>1, <3>2
  <2> QED BY <2>1, <2>2
<1>11. CallsMatchBackend' /\ Backend!ActiveBackendOwnsCore'
  BY <1>2 DEF BackendInv, CallsMatchBackend, Backend!ActiveBackendOwnsCore
<1> QED BY <1>7, <1>9, <1>10, <1>11 DEF BackendInv

\* The client's timeout: the request is nobody's from then on.
LEMMA TimeOutKeeps ==
  ASSUME Backend!ConstantsAssumption, BackendInv, Backend!TimeOut
  PROVE  BackendInv'
<1>1. /\ requests \in Seq(Backend!Request) /\ Len(requests) \in 1..Len(requests)
      /\ DOMAIN requests = 1..Len(requests)
  BY EmptySeq, LenProperties DEF BackendInv, Backend!TypeOK, Backend!TimeOut
<1>2. reply = "none" /\ at \in {"serviceStart", "serviceCleanup", "serviceStop"}
  BY <1>1 DEF BackendInv, OnlyLastAwaited, Backend!TimeOut, Awaited
<1>3. /\ requests' = [requests EXCEPT ![Len(requests)].awaited = FALSE] /\ reply' = "error"
      /\ UNCHANGED <<active, at, target, clean, overtaken, service_core, sidecar_core>>
  BY DEF Backend!TimeOut
<1>4. requests' \in Seq(Backend!Request) /\ Len(requests') = Len(requests)
  <2>1. [requests[Len(requests)] EXCEPT !.awaited = FALSE] \in Backend!Request
    <3>1. requests[Len(requests)] \in Backend!Request
      BY <1>1
    <3> QED BY <3>1 DEF Backend!Request
  <2> QED BY <1>1, <1>3, <2>1, ExceptSeq
<1>5. Backend!TypeOK'
  BY <1>3, <1>4 DEF BackendInv, Backend!TypeOK
<1>6. OnlyLastAwaited'
  <2> SUFFICES \A i \in 1..Len(requests) : ~requests'[i].awaited
    BY <1>4 DEF OnlyLastAwaited
  <2>1. TAKE i \in 1..Len(requests)
  <2>2. CASE i = Len(requests)
    <3>1. requests[i] \in Backend!Request
      BY <1>1
    <3> QED BY <1>1, <1>3, <2>2, <3>1 DEF Backend!Request
  <2>3. CASE i # Len(requests)
    BY <1>1, <1>3, <2>3 DEF BackendInv, OnlyLastAwaited
  <2> QED BY <2>2, <2>3
<1>7. CleanedUp' /\ CallsMatchBackend' /\ Backend!ActiveBackendOwnsCore'
  BY <1>3 DEF BackendInv, CleanedUp, CallsMatchBackend, Backend!ActiveBackendOwnsCore
<1> QED BY <1>5, <1>6, <1>7 DEF BackendInv

\* Every step of the controller, of the service and of the client.
LEMMA NextBackend ==
  ASSUME Backend!ConstantsAssumption, BackendInv, [Backend!Next]_(Backend!vars)
  PROVE  BackendInv'
<1> USE DEF BackendInv
<1>1. ASSUME NEW channel \in Channels, Backend!CallStart(channel) PROVE BackendInv'
  BY <1>1 DEF Backend!CallStart, Backend!Return, Backend!ConstantsAssumption, Backend!TypeOK,
              OnlyLastAwaited, Awaited, CleanedUp, CallsMatchBackend,
              Backend!ActiveBackendOwnsCore, Backend!Backends, Backend!Awaits
<1>2. CASE Backend!Probe
  <2>1. target \in Channels /\ at = "probe" /\ active = None
    BY <1>2 DEF Backend!Probe, Backend!TypeOK, CallsMatchBackend
  <2>2. CASE at' = "serviceStart" /\ Backend!Send(Backend!StartCore(target))
    <3>1. /\ requests' \in Seq(Backend!Request) /\ reply' \in {"none", "error"}
          /\ OnlyLastAwaited'
      BY <2>1, <2>2, SendKeeps, RequestTypes DEF Awaited
    <3> QED BY <1>2, <2>1, <2>2, <3>1 DEF Backend!Probe, Backend!TypeOK, CleanedUp,
                        CallsMatchBackend, Backend!ActiveBackendOwnsCore, Backend!Backends,
                        Backend!Awaits
  <2>3. CASE at' = "sidecarStart" /\ UNCHANGED <<reply, requests>>
    BY <1>2, <2>1, <2>3 DEF Backend!Probe, Backend!TypeOK, OnlyLastAwaited, Awaited,
                        CleanedUp, CallsMatchBackend, Backend!ActiveBackendOwnsCore,
                        Backend!Backends, Backend!Awaits
  <2> QED BY <1>2, <2>2, <2>3 DEF Backend!Probe
<1>3. CASE Backend!ServiceStartReturns
  <2>1. CASE reply = "ok"
    BY <1>3, <2>1 DEF Backend!ServiceStartReturns, Backend!Return,
                      Backend!ConstantsAssumption, Backend!TypeOK, OnlyLastAwaited, Awaited,
                      CleanedUp, CallsMatchBackend, Backend!ActiveBackendOwnsCore,
                      Backend!Backends, Backend!Awaits
  <2>2. CASE reply # "ok"
    <3>1. at' = "serviceCleanup" /\ Backend!Send(Backend!StopCore)
      BY <1>3, <2>2 DEF Backend!ServiceStartReturns
    <3>2. /\ requests' \in Seq(Backend!Request) /\ reply' \in {"none", "error"}
          /\ OnlyLastAwaited'
      BY <1>3, <3>1, SendKeeps, RequestTypes DEF Awaited, Backend!ServiceStartReturns
    <3> QED BY <1>3, <2>2, <3>1, <3>2 DEF Backend!ServiceStartReturns, Backend!TypeOK,
                        CleanedUp, CallsMatchBackend, Backend!ActiveBackendOwnsCore,
                        Backend!Backends, Backend!Awaits
  <2> QED BY <2>1, <2>2
<1>4. CASE Backend!ServiceCleanupReturns
  BY <1>4 DEF Backend!ServiceCleanupReturns, Backend!Return, Backend!TypeOK, OnlyLastAwaited,
              Awaited, CleanedUp, CallsMatchBackend, Backend!ActiveBackendOwnsCore,
              Backend!Backends, Backend!Awaits
<1>5. CASE Backend!CallStop
  <2>1. CASE active = "Service"
    <3>1. at = "idle" /\ at' = "serviceStop" /\ Backend!Send(Backend!StopCore)
          /\ UNCHANGED <<active, target, clean, overtaken, service_core, sidecar_core>>
      BY <1>5, <2>1 DEF Backend!CallStop, Backend!ConstantsAssumption, Backend!TypeOK,
                        Backend!Backends
    <3>2. /\ requests' \in Seq(Backend!Request) /\ reply' \in {"none", "error"}
          /\ OnlyLastAwaited'
      BY <3>1, SendKeeps, RequestTypes DEF Awaited
    <3> QED BY <2>1, <3>1, <3>2 DEF Backend!TypeOK, CleanedUp, CallsMatchBackend,
                 Backend!ActiveBackendOwnsCore, Backend!Backends, Backend!Awaits
  <2>2. CASE active # "Service"
    BY <1>5, <2>2 DEF Backend!CallStop, Backend!Return, Backend!TypeOK, OnlyLastAwaited,
                      Awaited, CleanedUp, CallsMatchBackend, Backend!ActiveBackendOwnsCore,
                      Backend!Backends, Backend!Awaits
  <2> QED BY <2>1, <2>2
<1>6. CASE Backend!ServiceStopReturns
  BY <1>6 DEF Backend!ServiceStopReturns, Backend!Return, Backend!TypeOK, OnlyLastAwaited,
              Awaited, CleanedUp, CallsMatchBackend, Backend!ActiveBackendOwnsCore,
              Backend!Backends, Backend!Awaits
<1>7. ASSUME NEW ok \in BOOLEAN, Backend!SidecarStartReturns(ok) PROVE BackendInv'
  BY <1>7 DEF Backend!SidecarStartReturns, Backend!Return, Backend!TypeOK, OnlyLastAwaited,
              Awaited, CleanedUp, CallsMatchBackend, Backend!ActiveBackendOwnsCore,
              Backend!Backends, Backend!Awaits
<1>8. ASSUME NEW ok \in BOOLEAN, Backend!SidecarStopReturns(ok) PROVE BackendInv'
  BY <1>8 DEF Backend!SidecarStopReturns, Backend!Return, Backend!TypeOK, OnlyLastAwaited,
              Awaited, CleanedUp, CallsMatchBackend, Backend!ActiveBackendOwnsCore,
              Backend!Backends, Backend!Awaits
<1>9. CASE UNCHANGED Backend!vars
  BY <1>9 DEF Backend!vars, Backend!TypeOK, OnlyLastAwaited, Awaited, CleanedUp,
              CallsMatchBackend, Backend!ActiveBackendOwnsCore
<1> QED BY <1>1, <1>2, <1>3, <1>4, <1>5, <1>6, <1>7, <1>8, <1>9, HandlingKeeps, TimeOutKeeps
        DEF Backend!Next

LEMMA BackendInvariance ==
  ASSUME Backend!ConstantsAssumption
  PROVE  Backend!Spec => []BackendInv
<1>1. Backend!Init => BackendInv
  BY InitBackend
<1>2. BackendInv /\ [Backend!Next]_(Backend!vars) => BackendInv'
  BY NextBackend
<1> QED BY <1>1, <1>2, PTL DEF Backend!Spec

\* A behaviour of the run is one of each part.
LEMMA BackendRuns == PartsSpec => Backend!Spec
<1>1. PartsInit => Backend!Init
  BY DEF PartsInit
<1>2. [PartsNext]_allVars => [Backend!Next]_(Backend!vars)
  BY DEF PartsNext, ByCoordinator, ByBackend, BySidecar, ByInstall, allVars, ofBackend,
         Backend!vars
<1> QED BY <1>1, <1>2, PTL DEF PartsSpec, Backend!Spec

\* A fallback to the sidecar that follows an acknowledged cleanup finds the service without a
\* core, and without a start that it would carry out later, for any number of requests
\* outstanding and whichever the service carries out first, unless it has carried out a stop
\* before an earlier start (try_service, preferred.rs; ServiceClient::request, transport.rs;
\* a task for each connection, server.rs).
THEOREM BackendIsSafe == PartsSpec => []FallbackIsSafe
<1>1. BackendInv => FallbackIsSafe
  BY LenProperties
  DEF BackendInv, Backend!TypeOK, CleanedUp, FallbackIsSafe, Backend!FallbackIsSafe, Backend!LateStarts
<1> QED BY <1>1, PartsAssumption, BackendInvariance, BackendRuns, PTL

\* No sidecar is left that a stop would not reach (start and stop of PreferredController).
THEOREM BackendOwnsItsCore == PartsSpec => []ActiveBackendOwnsCore
<1>1. BackendInv => ActiveBackendOwnsCore
  BY DEF BackendInv, ActiveBackendOwnsCore
<1> QED BY <1>1, PartsAssumption, BackendInvariance, BackendRuns, PTL

-----------------------------------------------------------------------------
(* The process of the sidecar                                              *)

\* A call in progress has taken the controller's process; past its end the process is dead
\* and its output has been joined.
CallEnded ==
  /\ call.at # "idle" => owned = None
  /\ call.at \in {"join", "remove"} => ~Sidecar!Alive(call.held)
  /\ call.at = "remove" => call.held \notin capturing

Process == [state : {"none", "starting", "listening", "exited"}, termed : BOOLEAN,
            killed : BOOLEAN]

\* Nobody else's socket is at the path while a process is spawned and comes up.
PathIsOurs ==
  {"late", "refused"} \cap gaps = {} =>
    /\ call.at = "spawn" => socket = None
    /\ call.at = "probe" => socket \in {None, call.held}

SidecarInv ==
  /\ Sidecar!TypeOK /\ CallEnded /\ Sidecar!OnlyOwnedLives /\ PathIsOurs
  /\ Sidecar!ReadyIsItsOwn

LEMMA InitSidecar == ASSUME Sidecar!SidecarAssumption PROVE Sidecar!Init => SidecarInv
  BY DEF Sidecar!SidecarAssumption, Sidecar!Init, SidecarInv, Sidecar!TypeOK, CallEnded,
         Sidecar!OnlyOwnedLives, PathIsOurs, Sidecar!ReadyIsItsOwn, Sidecar!Alive,
         Sidecar!Idle, Sidecar!Procs, Sidecar!Awaits

\* A call starts, or is refused before it has spawned anything.
LEMMA CallsKeep ==
  ASSUME Sidecar!SidecarAssumption, SidecarInv,
         (\E channel \in Channels : Sidecar!CallStart(channel)) \/ Sidecar!CallStop
           \/ Sidecar!PrepareFails \/ Sidecar!RemoveStaleSocket \/ Sidecar!SpawnFails
  PROVE  SidecarInv'
<1> USE DEF SidecarInv, Sidecar!TypeOK, CallEnded, Sidecar!OnlyOwnedLives, PathIsOurs,
            Sidecar!ReadyIsItsOwn, Sidecar!Alive, Sidecar!Idle, Sidecar!At, Sidecar!Input,
            Sidecar!Awaits
<1> USE DEF Sidecar!SidecarAssumption
<1>1. ASSUME NEW channel \in Channels, Sidecar!CallStart(channel) PROVE SidecarInv'
  BY <1>1 DEF Sidecar!CallStart
<1>2. CASE Sidecar!CallStop
  BY <1>2 DEF Sidecar!CallStop
<1>3. CASE Sidecar!PrepareFails
  BY <1>3 DEF Sidecar!PrepareFails
<1>4. CASE Sidecar!RemoveStaleSocket
  BY <1>4 DEF Sidecar!RemoveStaleSocket
<1>5. CASE Sidecar!SpawnFails
  BY <1>5 DEF Sidecar!SpawnFails
<1> QED BY <1>1, <1>2, <1>3, <1>4, <1>5

\* A process is spawned, and answers at its socket or not.
LEMMA StartKeeps ==
  ASSUME Sidecar!SidecarAssumption, SidecarInv,
         Sidecar!Spawn \/ Sidecar!Probe \/ Sidecar!StartupTimesOut \/ Sidecar!SecureSocket
  PROVE  SidecarInv'
<1> USE DEF SidecarInv, Sidecar!TypeOK, CallEnded, Sidecar!OnlyOwnedLives, PathIsOurs,
            Sidecar!ReadyIsItsOwn, Sidecar!Alive, Sidecar!Idle, Sidecar!At, Sidecar!Awaits,
            Sidecar!SidecarAssumption
<1>1. CASE Sidecar!Spawn
  <2>1. spawns' \in Sidecar!Procs
    BY <1>1 DEF Sidecar!Spawn, Sidecar!Procs
  <2>2. proc' = [proc EXCEPT ![spawns'] = [proc[spawns'] EXCEPT !.state = "starting"]]
    BY <1>1 DEF Sidecar!Spawn
  <2>3. [proc[spawns'] EXCEPT !.state = "starting"] \in Process
    BY <2>1 DEF Process
  <2>4. /\ proc' \in [Sidecar!Procs -> Process]
        /\ \A p \in Sidecar!Procs : p # spawns' => proc'[p] = proc[p]
    BY <2>1, <2>2, <2>3 DEF Process
  <2>5. Sidecar!TypeOK'
    BY <1>1, <2>1, <2>4 DEF Sidecar!Spawn, Process
  <2>6. CallEnded'
    BY <1>1, <2>1, <2>4 DEF Sidecar!Spawn, Process
  <2>7. Sidecar!OnlyOwnedLives'
    BY <1>1, <2>1, <2>4 DEF Sidecar!Spawn, Process
  <2>8. PathIsOurs' /\ Sidecar!ReadyIsItsOwn'
    BY <1>1, <2>1, <2>4 DEF Sidecar!Spawn, Process
  <2> QED BY <2>5, <2>6, <2>7, <2>8
<1>2. CASE Sidecar!Probe
  BY <1>2 DEF Sidecar!Probe, Sidecar!Procs
<1>3. CASE Sidecar!StartupTimesOut
  BY <1>3 DEF Sidecar!StartupTimesOut
<1>4. CASE Sidecar!SecureSocket
  BY <1>4 DEF Sidecar!SecureSocket
<1> QED BY <1>1, <1>2, <1>3, <1>4

\* What a signal does.
LEMMA SignalKeeps ==
  ASSUME Sidecar!TypeOK, NEW p \in Sidecar!Procs, NEW signal \in {"termed", "killed"},
         proc' = Sidecar!Signalled(p, signal)
  PROVE  /\ proc' \in [Sidecar!Procs -> Process]
         /\ \A q \in Sidecar!Procs : /\ proc'[q].state = proc[q].state
                                     /\ proc[q].killed => proc'[q].killed
<1>1. proc \in [Sidecar!Procs -> Process]
  BY DEF Sidecar!TypeOK, Process
<1>2. CASE ~Sidecar!Alive(p)
  BY <1>1, <1>2 DEF Sidecar!Signalled
<1>3. CASE Sidecar!Alive(p) /\ signal = "termed"
  <2>1. [proc[p] EXCEPT !.termed = TRUE] \in Process
    BY <1>1 DEF Process
  <2>2. proc' = [proc EXCEPT ![p] = [proc[p] EXCEPT !.termed = TRUE]]
    BY <1>3 DEF Sidecar!Signalled
  <2> QED BY <1>1, <2>1, <2>2 DEF Process
<1>4. CASE Sidecar!Alive(p) /\ signal = "killed"
  <2>1. [proc[p] EXCEPT !.killed = TRUE] \in Process
    BY <1>1 DEF Process
  <2>2. proc' = [proc EXCEPT ![p] = [proc[p] EXCEPT !.killed = TRUE]]
    BY <1>4 DEF Sidecar!Signalled
  <2> QED BY <1>1, <2>1, <2>2 DEF Process
<1> QED BY <1>2, <1>3, <1>4

\* A process is terminated, waited for and forgotten.
LEMMA EndKeeps ==
  ASSUME Sidecar!SidecarAssumption, SidecarInv,
         \/ Sidecar!SignalRefused \/ Sidecar!Terminate \/ Sidecar!GraceEnds
         \/ Sidecar!Reaped \/ Sidecar!Join \/ Sidecar!RemoveSocket
  PROVE  SidecarInv'
<1> USE DEF SidecarInv, Sidecar!TypeOK, CallEnded, Sidecar!OnlyOwnedLives, PathIsOurs,
            Sidecar!ReadyIsItsOwn, Sidecar!Alive, Sidecar!Idle, Sidecar!At, Sidecar!Awaits,
            Sidecar!Input, Sidecar!SidecarAssumption
<1>1. CASE Sidecar!SignalRefused
  BY <1>1 DEF Sidecar!SignalRefused
<1>2. CASE Sidecar!Terminate
  <2>1. call.held \in Sidecar!Procs /\ proc' = Sidecar!Signalled(call.held, "termed")
    BY <1>2 DEF Sidecar!Terminate
  <2> QED BY <1>2, <2>1, SignalKeeps DEF Sidecar!Terminate, Process
<1>3. CASE Sidecar!GraceEnds
  <2>1. call.held \in Sidecar!Procs /\ proc' = Sidecar!Signalled(call.held, "killed")
    BY <1>3 DEF Sidecar!GraceEnds
  <2> QED BY <1>3, <2>1, SignalKeeps DEF Sidecar!GraceEnds, Process
<1>4. CASE Sidecar!Reaped
  BY <1>4 DEF Sidecar!Reaped
<1>5. CASE Sidecar!Join
  BY <1>5 DEF Sidecar!Join
<1>6. CASE Sidecar!RemoveSocket
  BY <1>6 DEF Sidecar!RemoveSocket
<1> QED BY <1>1, <1>2, <1>3, <1>4, <1>5, <1>6

\* What is dropped has been killed, if it may be signalled.
LEMMA DropKills ==
  ASSUME Sidecar!SidecarAssumption, Sidecar!TypeOK, NEW held \in SUBSET Sidecar!Procs,
         Sidecar!Drop(held)
  PROVE  /\ proc' \in [Sidecar!Procs -> Process]
         /\ \A p \in Sidecar!Procs : /\ proc'[p].state = proc[p].state
                                     /\ proc[p].killed => proc'[p].killed
         /\ "refused" \notin gaps => \A p \in held : Sidecar!Alive(p) => proc'[p].killed
<1>1. proc \in [Sidecar!Procs -> Process]
  BY DEF Sidecar!TypeOK, Process
<1>2. CASE proc' = Sidecar!Dropped(held)
  <2>1. \A p \in Sidecar!Procs : [proc[p] EXCEPT !.killed = TRUE] \in Process
    BY <1>1 DEF Process
  <2> QED BY <1>1, <1>2, <2>1 DEF Sidecar!Dropped, Sidecar!Alive, Process
<1>3. CASE "refused" \in gaps /\ UNCHANGED proc
  BY <1>1, <1>3
<1> QED BY <1>2, <1>3 DEF Sidecar!Drop

\* A call ends with its process, or the desktop does.
LEMMA LossesKeep ==
  ASSUME Sidecar!SidecarAssumption, SidecarInv,
         Sidecar!StatusFails \/ Sidecar!Abort \/ Sidecar!Crash
  PROVE  SidecarInv'
<1> USE DEF SidecarInv, Sidecar!TypeOK, CallEnded, Sidecar!OnlyOwnedLives, PathIsOurs,
            Sidecar!ReadyIsItsOwn, Sidecar!Alive, Sidecar!Idle, Sidecar!At, Sidecar!Awaits,
            Sidecar!Input, Sidecar!SidecarAssumption
<1>1. CASE Sidecar!StatusFails
  <2>1. CASE call.at = "probe"
    BY <1>1, <2>1 DEF Sidecar!StatusFails
  <2>2. CASE call.at # "probe"
    <3>1. call.held \in Sidecar!Procs /\ Sidecar!Drop({call.held})
      BY <1>1, <2>2 DEF Sidecar!StatusFails
    <3> QED BY <1>1, <2>2, <3>1, DropKills DEF Sidecar!StatusFails, Process
  <2> QED BY <2>1, <2>2
<1>2. CASE Sidecar!Abort
  <2>1. /\ {call.held, owned} \ {None} \in SUBSET Sidecar!Procs
        /\ Sidecar!Drop({call.held, owned} \ {None})
    BY <1>2 DEF Sidecar!Abort
  <2> QED BY <1>2, <2>1, DropKills DEF Sidecar!Abort, Process
<1>3. CASE Sidecar!Crash
  BY <1>3 DEF Sidecar!Crash
<1> QED BY <1>1, <1>2, <1>3

\* A process comes up or ends.
LEMMA ProcessesKeep ==
  ASSUME Sidecar!SidecarAssumption, SidecarInv, NEW p \in Sidecar!Procs,
         Sidecar!Listen(p) \/ Sidecar!Exit(p) \/ Sidecar!Die(p)
  PROVE  SidecarInv'
<1> USE DEF SidecarInv, Sidecar!TypeOK, CallEnded, Sidecar!OnlyOwnedLives, PathIsOurs,
            Sidecar!ReadyIsItsOwn, Sidecar!Alive, Sidecar!Awaits, Sidecar!Input,
            Sidecar!Exited, Sidecar!SidecarAssumption
<1>1. CASE Sidecar!Listen(p)
  BY <1>1 DEF Sidecar!Listen
<1>2. CASE Sidecar!Exit(p)
  BY <1>2 DEF Sidecar!Exit
<1>3. CASE Sidecar!Die(p)
  BY <1>3 DEF Sidecar!Die
<1> QED BY <1>1, <1>2, <1>3

LEMMA NextSidecar ==
  ASSUME Sidecar!SidecarAssumption, SidecarInv, [Sidecar!Next]_(Sidecar!vars)
  PROVE  SidecarInv'
<1>1. CASE UNCHANGED Sidecar!vars
  BY <1>1 DEF Sidecar!vars, SidecarInv, Sidecar!TypeOK, CallEnded, Sidecar!OnlyOwnedLives,
              PathIsOurs, Sidecar!ReadyIsItsOwn, Sidecar!Alive
<1> QED BY <1>1, CallsKeep, StartKeeps, EndKeeps, LossesKeep, ProcessesKeep
        DEF Sidecar!Next, Sidecar!Progress

\* None of it needs the fairness of Spec.
LEMMA SidecarInvariance ==
  ASSUME Sidecar!SidecarAssumption
  PROVE  Sidecar!Init /\ [][Sidecar!Next]_(Sidecar!vars) => []SidecarInv
<1>1. Sidecar!Init => SidecarInv
  BY InitSidecar
<1>2. SidecarInv /\ [Sidecar!Next]_(Sidecar!vars) => SidecarInv'
  BY NextSidecar
<1> QED BY <1>1, <1>2, PTL

LEMMA SidecarRuns == PartsSpec => Sidecar!Init /\ [][Sidecar!Next]_(Sidecar!vars)
<1>1. PartsInit => Sidecar!Init
  BY DEF PartsInit
<1>2. [PartsNext]_allVars => [Sidecar!Next]_(Sidecar!vars)
  BY DEF PartsNext, ByCoordinator, ByBackend, BySidecar, ByInstall, allVars, ofSidecar,
         Sidecar!vars
<1> QED BY <1>1, <1>2, PTL DEF PartsSpec

\* A process that runs is the controller's, its call's, or has been killed, however the call
\* failed, was dropped or was aborted (SidecarProcess::drop in linux.rs).
THEOREM NothingRunsUnowned == PartsSpec => []OnlyOwnedLives
<1>1. SidecarInv => OnlyOwnedLives
  BY DEF SidecarInv, OnlyOwnedLives
<1> QED BY <1>1, PartsAssumption, SidecarInvariance, SidecarRuns, PTL

\* A start that is ready has heard from the process that it started (remove_stale_socket and
\* wait_until_ready in linux.rs).
THEOREM ReadinessIsReal == PartsSpec => []ReadyIsItsOwn
<1>1. SidecarInv => ReadyIsItsOwn
  BY DEF SidecarInv, ReadyIsItsOwn
<1> QED BY <1>1, PartsAssumption, SidecarInvariance, SidecarRuns, PTL

-----------------------------------------------------------------------------
(* The installation                                                        *)

LEMMA InstallRuns == PartsSpec => Install!Init /\ [][Install!Next]_(Install!vars)
<1>1. PartsInit => Install!Init
  BY DEF PartsInit
<1>2. [PartsNext]_allVars => [Install!Next]_(Install!vars)
  BY DEF PartsNext, ByCoordinator, ByBackend, BySidecar, ByInstall, allVars, ofInstall,
         Install!vars
<1> QED BY <1>1, <1>2, PTL DEF PartsSpec

Rest(steps, k) == [i \in 1..(8 - k) |-> steps[i + k - 1]]

\* What an installation or an uninstallation that comes to its k-th step has done.
Installed(k, request) ==
  /\ k > 1 => files.service # None
  /\ k > 2 => files.stable # None
  /\ k > 3 /\ request.alpha => files.alpha # None
  /\ k > 4 => files.config = IF request.alpha THEN "both" ELSE "stable"
  /\ k > 5 => files.unit
  /\ k > 6 => manager.loaded

Removed(k) ==
  /\ k > 1 => ~manager.enabled /\ ~manager.active
  /\ k > 2 => ~files.unit
  /\ k > 3 => files.config = None
  /\ k > 4 => files.alpha = None
  /\ k > 5 => files.stable = None
  /\ k > 6 => files.service = None

Installing(k, request) ==
  /\ installer = [steps |-> Rest(Install!InstallSteps, k), request |-> request,
                  by |-> installer.by]
  /\ Installed(k, request)

Uninstalling(k) ==
  /\ installer = [steps |-> Rest(Install!UninstallSteps, k), request |-> None,
                  by |-> installer.by]
  /\ Removed(k)

Reached ==
  installer # None =>
    /\ result = "none"
    /\ \/ \E k \in 1..7, request \in Install!Request : Installing(k, request)
       \/ \E k \in 1..7 : Uninstalling(k)

\* What systemd has, and what the end of an installer leaves for it.
ManagerKnows ==
  /\ manager.enabled \/ manager.active => files.unit
  /\ service # None => manager.active

Ended ==
  /\ result = "installed" =>
       /\ Install!Loads /\ files.service # None /\ files.unit
       /\ manager.loaded /\ manager.enabled /\ manager.active
  /\ result = "uninstalled" => files = Install!Absent /\ manager = Install!Unknown

\* Nothing is there before the first installer.
Fresh == installer = None /\ result = "none" => files = Install!Absent

Typed ==
  /\ files \in Install!Files
  /\ manager \in [loaded : BOOLEAN, enabled : BOOLEAN, active : BOOLEAN]
  /\ service \in Install!Process \cup {None}
  /\ installer \in Install!Installer \cup {None}
  /\ result \in {"none", "installed", "uninstalled", "failed"}
  /\ events \in 0..InstallInputs

Shows ==
  view \in [installed : BOOLEAN, reachable : BOOLEAN, busy : BOOLEAN, announced : BOOLEAN]

InstallInv ==
  Typed /\ Shows /\ Install!StableFilesExist /\ ManagerKnows /\ Ended /\ Reached /\ Fresh

\* The rest of a list of seven steps begins with the step it has come to.
LEMMA RestSteps ==
  ASSUME NEW steps, NEW k \in 1..7
  PROVE  /\ Rest(steps, k) # <<>>
         /\ Head(Rest(steps, k)) = steps[k]
         /\ Len(Rest(steps, k)) = 8 - k
         /\ Tail(Rest(steps, k)) = Rest(steps, k + 1)
<1> DEFINE s == Rest(steps, k)
<1>1. s \in Seq({steps[i] : i \in 1..7}) /\ Len(s) = 8 - k /\ s # <<>> /\ s[1] = steps[k]
  <2>1. \A i \in 1..(8 - k) : steps[i + k - 1] \in {steps[j] : j \in 1..7}
    OBVIOUS
  <2>2. s \in [1..(8 - k) -> {steps[j] : j \in 1..7}]
    BY <2>1 DEF Rest
  <2>3. s \in Seq({steps[j] : j \in 1..7})
    BY <2>2
  <2>4. Len(s) = 8 - k /\ s # <<>> /\ s[1] = steps[k]
    BY DEF Rest
  <2> QED BY <2>3, <2>4
<1>2. \A i \in 1..(7 - k) : s[i + 1] = steps[i + k]
  BY DEF Rest
<1>3. Rest(steps, k + 1) = [i \in 1..(7 - k) |-> steps[i + k]]
  BY DEF Rest
<1> HIDE DEF s
<1>4. /\ Tail(s) \in Seq({steps[i] : i \in 1..7}) /\ Len(Tail(s)) = 7 - k
      /\ \A i \in 1..(7 - k) : Tail(s)[i] = s[i + 1]
  BY <1>1, HeadTailProperties
<1>5. Tail(s) = [i \in 1..(7 - k) |-> Tail(s)[i]]
  BY <1>4, LenProperties
<1>6. Tail(s) = Rest(steps, k + 1)
  BY <1>2, <1>3, <1>4, <1>5
<1>7. Head(s) = steps[k]
  BY <1>1
<1> QED BY <1>1, <1>6, <1>7 DEF s

LEMMA AllSteps ==
  /\ Rest(Install!InstallSteps, 1) = Install!InstallSteps
  /\ Rest(Install!UninstallSteps, 1) = Install!UninstallSteps
BY DEF Rest, Install!InstallSteps, Install!UninstallSteps

LEMMA StepLists ==
  ASSUME NEW k \in 1..7
  PROVE  /\ Rest(Install!InstallSteps, k) \in Seq(Install!Steps)
         /\ Rest(Install!UninstallSteps, k) \in Seq(Install!Steps)
<1>1. ASSUME NEW steps, \A i \in 1..7 : steps[i] \in Install!Steps
      PROVE  Rest(steps, k) \in Seq(Install!Steps)
  <2>1. \A i \in 1..(8 - k) : steps[i + k - 1] \in Install!Steps
    BY <1>1
  <2> QED BY <2>1 DEF Rest
<1>2. DOMAIN Install!InstallSteps = 1..7 /\ DOMAIN Install!UninstallSteps = 1..7
  BY DEF Install!InstallSteps, Install!UninstallSteps
<1>3. /\ \A i \in 1..7 : Install!InstallSteps[i] \in Install!Steps
      /\ \A i \in 1..7 : Install!UninstallSteps[i] \in Install!Steps
  BY <1>2 DEF Install!Steps
<1> QED BY <1>1, <1>3

LEMMA InstallInit == Install!Init => InstallInv
BY PartsAssumption DEF Install!Init, InstallInv, Typed, Shows, Install!StableFilesExist,
   ManagerKnows, Ended, Reached, Fresh, Install!InstallAssumption, Install!Files, Install!Absent,
   Install!Unknown

\* What a step is, of those that are left.
LEMMA StepIs ==
  ASSUME NEW steps, NEW k \in 1..7, Install!Step,
         installer.steps = Rest(steps, k)
  PROVE  /\ installer # None /\ events' = events
         /\ files' = Install!Written(steps[k], installer.request)
         /\ manager' = Install!Managed(steps[k])
         /\ service' = IF manager'.active THEN service ELSE None
         /\ IF k = 7
            THEN installer' = None /\ result' = Install!Outcome /\ view' = Install!Shown(TRUE)
            ELSE /\ installer' = [installer EXCEPT !.steps = Rest(steps, k + 1)]
                 /\ UNCHANGED <<result, view>>
<1>1. 8 - k = 1 <=> k = 7
  OBVIOUS
<1>2. /\ Head(installer.steps) = steps[k] /\ Tail(installer.steps) = Rest(steps, k + 1)
      /\ Len(installer.steps) = 8 - k
  BY RestSteps
<1> QED BY <1>1, <1>2 DEF Install!Step

Kept ==
  /\ files' \in Install!Files
  /\ manager' \in [loaded : BOOLEAN, enabled : BOOLEAN, active : BOOLEAN]
  /\ Install!StableFilesExist' /\ ManagerKnows'

\* A step of an installation, of the files and of systemd.
LEMMA InstallStepKeeps ==
  ASSUME Typed, Install!StableFilesExist, ManagerKnows,
         NEW k \in 1..7, NEW request \in Install!Request, Installed(k, request),
         files' = Install!Written(Install!InstallSteps[k], request),
         manager' = Install!Managed(Install!InstallSteps[k]),
         service' = IF manager'.active THEN service ELSE None
  PROVE  /\ Kept
         /\ k < 7 => Installed(k + 1, request)'
         /\ k = 7 => /\ Install!Loads' /\ files'.service # None /\ files'.unit
                     /\ manager'.loaded /\ manager'.enabled /\ manager'.active
<1> USE PartsAssumption DEF Install!InstallAssumption, Typed, Install!StableFilesExist,
      ManagerKnows, Installed, Install!Files, Install!Request, Kept
<1>1. CASE k = 1
  <2>1. Install!InstallSteps[k] = "service"
    BY <1>1 DEF Install!InstallSteps
  <2>2. files' = [files EXCEPT !.service = request.release]
    BY <2>1 DEF Install!Written
  <2>3. manager' = manager
    BY <2>1 DEF Install!Managed
  <2>4. files' \in Install!Files /\ Install!StableFilesExist'
    BY <1>1, <2>2
  <2>5. manager' \in [loaded : BOOLEAN, enabled : BOOLEAN, active : BOOLEAN]
    BY <2>3
  <2>6. ManagerKnows'
    BY <1>1, <2>2, <2>3
  <2> QED BY <1>1, <2>2, <2>3, <2>4, <2>5, <2>6
<1>2. CASE k = 2
  <2>1. Install!InstallSteps[k] = "stable"
    BY <1>2 DEF Install!InstallSteps
  <2>2. files' = [files EXCEPT !.stable = request.release]
    BY <2>1 DEF Install!Written
  <2>3. manager' = manager
    BY <2>1 DEF Install!Managed
  <2>4. files' \in Install!Files /\ Install!StableFilesExist'
    BY <1>2, <2>2
  <2>5. manager' \in [loaded : BOOLEAN, enabled : BOOLEAN, active : BOOLEAN]
    BY <2>3
  <2>6. ManagerKnows'
    BY <1>2, <2>2, <2>3
  <2> QED BY <1>2, <2>2, <2>3, <2>4, <2>5, <2>6
<1>3. CASE k = 3
  <2>1. Install!InstallSteps[k] = "alpha"
    BY <1>3 DEF Install!InstallSteps
  <2>2. files' = [files EXCEPT !.alpha = IF request.alpha THEN request.release ELSE None]
    BY <2>1 DEF Install!Written
  <2>3. manager' = manager
    BY <2>1 DEF Install!Managed
  <2>4. files' \in Install!Files /\ Install!StableFilesExist'
    BY <1>3, <2>2
  <2>5. manager' \in [loaded : BOOLEAN, enabled : BOOLEAN, active : BOOLEAN]
    BY <2>3
  <2>6. ManagerKnows'
    BY <1>3, <2>2, <2>3
  <2> QED BY <1>3, <2>2, <2>3, <2>4, <2>5, <2>6
<1>4. CASE k = 4
  <2>1. Install!InstallSteps[k] = "config"
    BY <1>4 DEF Install!InstallSteps
  <2>2. files' = [files EXCEPT !.config = IF request.alpha THEN "both" ELSE "stable"]
    BY <2>1 DEF Install!Written, Install!Cores
  <2>3. manager' = manager
    BY <2>1 DEF Install!Managed
  <2>4. files' \in Install!Files /\ Install!StableFilesExist'
    BY <1>4, <2>2
  <2>5. manager' \in [loaded : BOOLEAN, enabled : BOOLEAN, active : BOOLEAN]
    BY <2>3
  <2>6. ManagerKnows'
    BY <1>4, <2>2, <2>3
  <2> QED BY <1>4, <2>2, <2>3, <2>4, <2>5, <2>6
<1>5. CASE k = 5
  <2>1. Install!InstallSteps[k] = "unit"
    BY <1>5 DEF Install!InstallSteps
  <2>2. files' = [files EXCEPT !.unit = TRUE]
    BY <2>1 DEF Install!Written
  <2>3. manager' = manager
    BY <2>1 DEF Install!Managed
  <2>4. files' \in Install!Files /\ Install!StableFilesExist'
    <3>1. files.config # None /\ files.service # None /\ files.stable # None
      BY <1>5
    <3>2. files' \in Install!Files
      BY <2>2
    <3>3. files'.config = files.config /\ files'.service = files.service
          /\ files'.stable = files.stable
      BY <2>2
    <3> QED BY <3>1, <3>2, <3>3
  <2>5. manager' \in [loaded : BOOLEAN, enabled : BOOLEAN, active : BOOLEAN]
    BY <2>3
  <2>6. ManagerKnows'
    BY <1>5, <2>2, <2>3
  <2> QED BY <1>5, <2>2, <2>3, <2>4, <2>5, <2>6
<1>6. CASE k = 6
  <2>1. Install!InstallSteps[k] = "load"
    BY <1>6 DEF Install!InstallSteps
  <2>2. files' = files
    BY <2>1 DEF Install!Written
  <2>3. manager' = [manager EXCEPT !.loaded = files.unit]
    BY <2>1 DEF Install!Managed
  <2>4. files' \in Install!Files /\ Install!StableFilesExist'
    BY <1>6, <2>2
  <2>5. manager' \in [loaded : BOOLEAN, enabled : BOOLEAN, active : BOOLEAN]
    BY <2>3
  <2>6. ManagerKnows'
    BY <1>6, <2>2, <2>3
  <2> QED BY <1>6, <2>2, <2>3, <2>4, <2>5, <2>6
<1>7. CASE k = 7
  <2>1. Install!InstallSteps[k] = "enable"
    BY <1>7 DEF Install!InstallSteps
  <2>2. files' = files
    BY <2>1 DEF Install!Written
  <2>3. manager' = [manager EXCEPT !.enabled = TRUE, !.active = TRUE]
    BY <2>1 DEF Install!Managed
  <2>4. files' \in Install!Files /\ Install!StableFilesExist'
    BY <1>7, <2>2
  <2>5. manager' \in [loaded : BOOLEAN, enabled : BOOLEAN, active : BOOLEAN]
    BY <2>3
  <2>6. ManagerKnows'
    BY <1>7, <2>2, <2>3
  <2>7. /\ files.service # None /\ files.stable # None /\ files.config # None
        /\ files.config = "both" => files.alpha # None
    BY <1>7
  <2>8. Install!Loads'
    BY <2>2, <2>7 DEF Install!Loads
  <2>9. files.unit /\ manager.loaded
    BY <1>7
  <2>10. files'.unit /\ manager'.loaded /\ manager'.enabled /\ manager'.active
    BY <2>2, <2>3, <2>9
  <2> QED BY <1>7, <2>2, <2>4, <2>5, <2>6, <2>7, <2>8, <2>10
<1> HIDE PartsAssumption DEF Install!InstallAssumption, Typed, Install!StableFilesExist,
      ManagerKnows, Installed, Install!Files, Install!Request, Kept
<1> QED BY <1>1, <1>2, <1>3, <1>4, <1>5, <1>6, <1>7

LEMMA UninstallStepKeeps ==
  ASSUME Typed, Install!StableFilesExist, ManagerKnows, NEW k \in 1..7, Removed(k),
         files' = Install!Written(Install!UninstallSteps[k], None),
         manager' = Install!Managed(Install!UninstallSteps[k]),
         service' = IF manager'.active THEN service ELSE None
  PROVE  /\ Kept
         /\ k < 7 => Removed(k + 1)'
         /\ k = 7 => files' = Install!Absent /\ manager' = Install!Unknown
<1> USE PartsAssumption DEF Install!InstallAssumption, Typed, Install!StableFilesExist,
      ManagerKnows, Removed, Install!Files, Kept
<1>1. CASE k = 1
  <2>1. Install!UninstallSteps[k] = "disable"
    BY <1>1 DEF Install!UninstallSteps
  <2>2. files' = files
    BY <2>1 DEF Install!Written
  <2>3. manager' = IF files.unit THEN [manager EXCEPT !.enabled = FALSE, !.active = FALSE]
                                    ELSE manager
    BY <2>1 DEF Install!Managed
  <2>4. files' \in Install!Files /\ Install!StableFilesExist'
    BY <1>1, <2>2
  <2>5. manager' \in [loaded : BOOLEAN, enabled : BOOLEAN, active : BOOLEAN]
    BY <2>3
  <2>6. ManagerKnows'
    BY <1>1, <2>2, <2>3
  <2>7. ~manager'.enabled /\ ~manager'.active
    BY <2>3
  <2> QED BY <1>1, <2>2, <2>4, <2>5, <2>6, <2>7
<1>2. CASE k = 2
  <2>1. Install!UninstallSteps[k] = "no unit"
    BY <1>2 DEF Install!UninstallSteps
  <2>2. files' = [files EXCEPT !.unit = FALSE]
    BY <2>1 DEF Install!Written
  <2>3. manager' = manager
    BY <2>1 DEF Install!Managed
  <2>4. files' \in Install!Files /\ Install!StableFilesExist'
    BY <1>2, <2>2
  <2>5. manager' \in [loaded : BOOLEAN, enabled : BOOLEAN, active : BOOLEAN]
    BY <2>3
  <2>6. ManagerKnows'
    BY <1>2, <2>2, <2>3
  <2> QED BY <1>2, <2>2, <2>3, <2>4, <2>5, <2>6
<1>3. CASE k = 3
  <2>1. Install!UninstallSteps[k] = "no config"
    BY <1>3 DEF Install!UninstallSteps
  <2>2. files' = [files EXCEPT !.config = None]
    BY <2>1 DEF Install!Written
  <2>3. manager' = manager
    BY <2>1 DEF Install!Managed
  <2>4. files' \in Install!Files /\ Install!StableFilesExist'
    BY <1>3, <2>2
  <2>5. manager' \in [loaded : BOOLEAN, enabled : BOOLEAN, active : BOOLEAN]
    BY <2>3
  <2>6. ManagerKnows'
    BY <1>3, <2>2, <2>3
  <2> QED BY <1>3, <2>2, <2>3, <2>4, <2>5, <2>6
<1>4. CASE k = 4
  <2>1. Install!UninstallSteps[k] = "no alpha"
    BY <1>4 DEF Install!UninstallSteps
  <2>2. files' = [files EXCEPT !.alpha = None]
    BY <2>1 DEF Install!Written
  <2>3. manager' = manager
    BY <2>1 DEF Install!Managed
  <2>4. files' \in Install!Files /\ Install!StableFilesExist'
    BY <1>4, <2>2
  <2>5. manager' \in [loaded : BOOLEAN, enabled : BOOLEAN, active : BOOLEAN]
    BY <2>3
  <2>6. ManagerKnows'
    BY <1>4, <2>2, <2>3
  <2> QED BY <1>4, <2>2, <2>3, <2>4, <2>5, <2>6
<1>5. CASE k = 5
  <2>1. Install!UninstallSteps[k] = "no stable"
    BY <1>5 DEF Install!UninstallSteps
  <2>2. files' = [files EXCEPT !.stable = None]
    BY <2>1 DEF Install!Written
  <2>3. manager' = manager
    BY <2>1 DEF Install!Managed
  <2>4. files' \in Install!Files /\ Install!StableFilesExist'
    BY <1>5, <2>2
  <2>5. manager' \in [loaded : BOOLEAN, enabled : BOOLEAN, active : BOOLEAN]
    BY <2>3
  <2>6. ManagerKnows'
    BY <1>5, <2>2, <2>3
  <2> QED BY <1>5, <2>2, <2>3, <2>4, <2>5, <2>6
<1>6. CASE k = 6
  <2>1. Install!UninstallSteps[k] = "no service"
    BY <1>6 DEF Install!UninstallSteps
  <2>2. files' = [files EXCEPT !.service = None]
    BY <2>1 DEF Install!Written
  <2>3. manager' = manager
    BY <2>1 DEF Install!Managed
  <2>4. files' \in Install!Files /\ Install!StableFilesExist'
    BY <1>6, <2>2
  <2>5. manager' \in [loaded : BOOLEAN, enabled : BOOLEAN, active : BOOLEAN]
    BY <2>3
  <2>6. ManagerKnows'
    BY <1>6, <2>2, <2>3
  <2> QED BY <1>6, <2>2, <2>3, <2>4, <2>5, <2>6
<1>7. CASE k = 7
  <2>1. Install!UninstallSteps[k] = "load"
    BY <1>7 DEF Install!UninstallSteps
  <2>2. files' = files
    BY <2>1 DEF Install!Written
  <2>3. manager' = [manager EXCEPT !.loaded = files.unit]
    BY <2>1 DEF Install!Managed
  <2>4. files' \in Install!Files /\ Install!StableFilesExist'
    BY <1>7, <2>2
  <2>5. manager' \in [loaded : BOOLEAN, enabled : BOOLEAN, active : BOOLEAN]
    BY <2>3
  <2>6. ManagerKnows'
    BY <1>7, <2>2, <2>3
  <2>7. files' = Install!Absent
    <3>1. /\ files.service = None /\ files.stable = None /\ files.alpha = None
          /\ files.config = None /\ ~files.unit
      BY <1>7
    <3>2. files.unit \in BOOLEAN
      OBVIOUS
    <3>3. files.unit = FALSE
      BY <3>1, <3>2
    <3>4. files = [service |-> files.service, stable |-> files.stable, alpha |-> files.alpha,
                   config |-> files.config, unit |-> files.unit]
      OBVIOUS
    <3> QED BY <2>2, <3>1, <3>3, <3>4 DEF Install!Absent
  <2>8. ~files.unit /\ ~manager.enabled /\ ~manager.active
    BY <1>7
  <2>9. manager' = Install!Unknown
    BY <2>3, <2>5, <2>8 DEF Install!Unknown
  <2> QED BY <1>7, <2>4, <2>5, <2>6, <2>7, <2>9
<1> HIDE PartsAssumption DEF Install!InstallAssumption, Typed, Install!StableFilesExist,
      ManagerKnows, Removed, Install!Files, Kept
<1> QED BY <1>1, <1>2, <1>3, <1>4, <1>5, <1>6, <1>7

\* A step of the installer.
LEMMA StepKeeps == ASSUME InstallInv, Install!Step PROVE InstallInv'
<1>0. /\ Typed /\ Install!StableFilesExist /\ ManagerKnows /\ Shows /\ installer # None
      /\ result = "none"
  BY DEF InstallInv, Reached, Install!Step
<1>1. events' = events /\ service' \in {service, None}
  BY DEF Install!Step
<1>2. view' = view \/ (\E success \in BOOLEAN : view' = Install!Shown(success))
  BY DEF Install!Step
<1>3. Shows'
  <2>1. CASE view' = view
    BY <1>0, <2>1 DEF Shows
  <2>2. ASSUME NEW success \in BOOLEAN, view' = Install!Shown(success) PROVE Shows'
    <3>1. CASE installer.by = "user"
      BY <1>0, <2>2, <3>1 DEF Shows, Install!Shown
    <3>2. CASE installer.by # "user" /\ success
      <4>1. view' = [installed |-> files'.config # None, reachable |-> service' # None,
                     busy |-> FALSE, announced |-> Install!Outcome = "installed"]
        BY <2>2, <3>2 DEF Install!Shown
      <4> DEFINE installed == files'.config # None
                 reachable == service' # None
                 announced == Install!Outcome = "installed"
      <4>2. installed \in BOOLEAN /\ reachable \in BOOLEAN /\ announced \in BOOLEAN
        OBVIOUS
      <4>3. view' = [installed |-> installed, reachable |-> reachable, busy |-> FALSE,
                     announced |-> announced]
        BY <4>1
      <4> HIDE DEF installed, reachable, announced
      <4> QED BY <4>2, <4>3 DEF Shows
    <3>3. CASE installer.by # "user" /\ ~success
      BY <1>0, <2>2, <3>3 DEF Shows, Install!Shown
    <3> QED BY <3>1, <3>2, <3>3
  <2> QED BY <1>2, <2>1, <2>2
<1>4. CASE \E k \in 1..7, request \in Install!Request : Installing(k, request)
  <2>1. PICK k \in 1..7, request \in Install!Request : Installing(k, request)
    BY <1>4
  <2>2. request # None
    BY <2>1, PartsAssumption DEF Install!Request, Install!InstallAssumption
  <2>3. /\ files' = Install!Written(Install!InstallSteps[k], request)
        /\ manager' = Install!Managed(Install!InstallSteps[k])
        /\ service' = IF manager'.active THEN service ELSE None
        /\ IF k = 7
           THEN installer' = None /\ result' = Install!Outcome
           ELSE /\ installer' = [installer EXCEPT !.steps = Rest(Install!InstallSteps, k + 1)]
                /\ result' = result
    <3>1. installer.steps = Rest(Install!InstallSteps, k) /\ installer.request = request
      BY <2>1 DEF Installing
    <3> QED BY <3>1, StepIs
  <2>4. /\ Kept
        /\ k < 7 => Installed(k + 1, request)'
        /\ k = 7 => /\ Install!Loads' /\ files'.service # None /\ files'.unit
                    /\ manager'.loaded /\ manager'.enabled /\ manager'.active
    BY <1>0, <2>1, <2>3, InstallStepKeeps DEF Installing
  <2>5. CASE k = 7
    <3>1. installer' = None /\ result' = "installed"
      BY <2>1, <2>2, <2>3, <2>5 DEF Install!Outcome, Installing
    <3>2. Ended' /\ Reached'
      BY <2>4, <2>5, <3>1 DEF Ended, Reached
    <3>3. Typed'
      BY <1>0, <1>1, <2>4, <3>1 DEF Typed, Kept
    <3> QED BY <1>3, <2>4, <3>1, <3>2, <3>3 DEF InstallInv, Kept, Fresh
  <2>6. CASE k # 7
    <3>1. /\ installer' = [installer EXCEPT !.steps = Rest(Install!InstallSteps, k + 1)]
          /\ result' = "none" /\ k + 1 \in 1..7
      BY <1>0, <2>3, <2>6
    <3>2. Installing(k + 1, request)'
      BY <2>1, <2>4, <3>1 DEF Installing
    <3>3. Ended' /\ Reached'
      BY <3>1, <3>2 DEF Ended, Reached
    <3>4. installer' \in Install!Installer /\ installer' # None
      <4>1. installer \in Install!Installer /\ Rest(Install!InstallSteps, k + 1) \in Seq(Install!Steps)
        BY <1>0, <3>1, StepLists DEF Typed
      <4>2. installer' \in Install!Installer
        BY <3>1, <4>1 DEF Install!Installer
      <4> QED BY <4>2, PartsAssumption DEF Install!InstallAssumption
    <3>5. Typed'
      BY <1>0, <1>1, <2>4, <3>1, <3>4 DEF Typed, Kept
    <3> QED BY <1>3, <2>4, <3>3, <3>4, <3>5 DEF InstallInv, Kept, Fresh
  <2> QED BY <2>5, <2>6
<1>5. CASE \E k \in 1..7 : Uninstalling(k)
  <2>1. PICK k \in 1..7 : Uninstalling(k)
    BY <1>5
  <2>3. /\ files' = Install!Written(Install!UninstallSteps[k], None)
        /\ manager' = Install!Managed(Install!UninstallSteps[k])
        /\ service' = IF manager'.active THEN service ELSE None
        /\ IF k = 7
           THEN installer' = None /\ result' = Install!Outcome
           ELSE /\ installer' = [installer EXCEPT !.steps = Rest(Install!UninstallSteps, k + 1)]
                /\ result' = result
    <3>1. installer.steps = Rest(Install!UninstallSteps, k) /\ installer.request = None
      BY <2>1 DEF Uninstalling
    <3> QED BY <3>1, StepIs
  <2>4. /\ Kept
        /\ k < 7 => Removed(k + 1)'
        /\ k = 7 => files' = Install!Absent /\ manager' = Install!Unknown
    BY <1>0, <2>1, <2>3, UninstallStepKeeps DEF Uninstalling
  <2>5. CASE k = 7
    <3>1. installer' = None /\ result' = "uninstalled"
      BY <2>1, <2>3, <2>5 DEF Install!Outcome, Uninstalling
    <3>2. Ended' /\ Reached'
      BY <2>4, <2>5, <3>1 DEF Ended, Reached
    <3>3. Typed'
      BY <1>0, <1>1, <2>4, <3>1 DEF Typed, Kept
    <3> QED BY <1>3, <2>4, <3>1, <3>2, <3>3 DEF InstallInv, Kept, Fresh
  <2>6. CASE k # 7
    <3>1. /\ installer' = [installer EXCEPT !.steps = Rest(Install!UninstallSteps, k + 1)]
          /\ result' = "none" /\ k + 1 \in 1..7
      BY <1>0, <2>3, <2>6
    <3>2. Uninstalling(k + 1)'
      BY <2>1, <2>4, <3>1 DEF Uninstalling
    <3>3. Ended' /\ Reached'
      BY <3>1, <3>2 DEF Ended, Reached
    <3>4. installer' \in Install!Installer /\ installer' # None
      <4>1. installer \in Install!Installer /\ Rest(Install!UninstallSteps, k + 1) \in Seq(Install!Steps)
        BY <1>0, <3>1, StepLists DEF Typed
      <4>2. installer' \in Install!Installer
        BY <3>1, <4>1 DEF Install!Installer
      <4> QED BY <4>2, PartsAssumption DEF Install!InstallAssumption
    <3>5. Typed'
      BY <1>0, <1>1, <2>4, <3>1, <3>4 DEF Typed, Kept
    <3> QED BY <1>3, <2>4, <3>3, <3>4, <3>5 DEF InstallInv, Kept, Fresh
  <2> QED BY <2>5, <2>6
<1> QED BY <1>0, <1>4, <1>5 DEF InstallInv, Reached

\* The installers that start, end, or are cut off, and what goes on beside them.
LEMMA OthersKeep ==
  ASSUME InstallInv, [Install!Next]_(Install!vars), ~Install!Step
  PROVE  InstallInv'
<1> USE PartsAssumption DEF Install!InstallAssumption
<1>0. /\ Typed /\ Shows /\ Install!StableFilesExist /\ ManagerKnows /\ Ended /\ Reached
     /\ Fresh
  BY DEF InstallInv
<1>1. CASE UNCHANGED Install!vars
  BY <1>0, <1>1 DEF Install!vars, InstallInv, Typed, Shows, Install!StableFilesExist, ManagerKnows,
     Ended, Reached, Installing, Uninstalling, Installed, Removed, Install!Loads, Fresh
<1>2. ASSUME NEW steps, NEW request, NEW by \in {"user", "desktop"},
             Install!Begins(steps, request, by),
             \/ steps = Install!InstallSteps /\ request \in Install!Request
             \/ steps = Install!UninstallSteps /\ request = None
      PROVE  InstallInv'
  <2>1. /\ installer' = [steps |-> steps, request |-> request, by |-> by]
        /\ result' = "none" /\ UNCHANGED <<files, manager, service>>
        /\ events' \in 0..InstallInputs
        /\ view' = [view EXCEPT !.busy = by = "desktop", !.announced = FALSE]
    BY <1>0, <1>2 DEF Install!Begins, Install!Input, Typed
  <2>2. steps = Install!InstallSteps /\ request \in Install!Request => Installing(1, request)'
    BY <2>1, AllSteps DEF Installing, Installed
  <2>3. steps = Install!UninstallSteps /\ request = None => Uninstalling(1)'
    BY <2>1, AllSteps DEF Uninstalling, Removed
  <2>4. Reached'
    BY <1>2, <2>1, <2>2, <2>3 DEF Reached
  <2>5. Shows'
    BY <1>0, <2>1 DEF Shows
  <2>6. installer' \in Install!Installer
    <3>1. /\ Install!InstallSteps \in Seq(Install!Steps) /\ Install!UninstallSteps \in Seq(Install!Steps)
      BY 1 \in 1..7, StepLists, AllSteps
    <3>2. steps \in Seq(Install!Steps) /\ request \in Install!Request \cup {None}
      BY <1>2, <3>1
    <3> QED BY <2>1, <3>2 DEF Install!Installer
  <2>7. Typed' /\ Install!StableFilesExist' /\ ManagerKnows' /\ Ended' /\ Fresh'
    BY <1>0, <2>1, <2>6 DEF Typed, Install!StableFilesExist, ManagerKnows, Ended, Fresh
  <2> QED BY <2>4, <2>5, <2>7 DEF InstallInv
<1>3. CASE \E request \in Install!Request, by \in {"user", "desktop"} :
             Install!Begins(Install!InstallSteps, request, by)
  BY <1>2, <1>3
<1>4. CASE \E by \in {"user", "desktop"} : Install!Begins(Install!UninstallSteps, None, by)
  BY <1>2, <1>4
<1>5. CASE Install!InstallerFails
  <2>1. Shows'
    BY <1>0, <1>5 DEF Install!InstallerFails, Shows, Install!Shown
  <2>2. Reached' /\ Ended' /\ Fresh'
    BY <1>5 DEF Install!InstallerFails, Reached, Ended, Fresh
  <2> QED BY <1>0, <1>5, <2>1, <2>2 DEF Install!InstallerFails, Install!Input, InstallInv, Typed,
             Install!StableFilesExist, ManagerKnows
<1>6. CASE Install!Restart
  <2>1. Shows'
    BY <1>6 DEF Install!Restart, Shows
  <2>2. /\ Reached' /\ Fresh' /\ installer' = None
        /\ (result' # "failed" => result' = result)
    BY <1>0, <1>6 DEF Install!Restart, Reached, Fresh
  <2>3. /\ UNCHANGED files /\ service' = None /\ events' \in 0..InstallInputs
        /\ result' \in {result, "failed"}
    BY <1>0, <1>6 DEF Install!Restart, Install!Input, Typed
  <2>4. /\ manager'.loaded = files.unit
        /\ manager'.enabled = (manager.enabled /\ files.unit)
        /\ manager'.active = (manager.enabled /\ files.unit)
        /\ manager' \in [loaded : BOOLEAN, enabled : BOOLEAN, active : BOOLEAN]
    <3> DEFINE enabled == manager.enabled /\ files.unit
               unit == files.unit
    <3>1. enabled \in BOOLEAN /\ unit \in BOOLEAN
      BY <1>0 DEF Typed, Install!Files
    <3>2. manager' = [loaded |-> unit, enabled |-> enabled, active |-> enabled]
      BY <1>6 DEF Install!Restart
    <3> HIDE DEF enabled, unit
    <3>3. /\ manager'.loaded = unit /\ manager'.enabled = enabled /\ manager'.active = enabled
          /\ manager' \in [loaded : BOOLEAN, enabled : BOOLEAN, active : BOOLEAN]
      BY <3>1, <3>2
    <3> QED BY <3>3 DEF enabled, unit
  <2>5. ManagerKnows'
    BY <2>3, <2>4 DEF ManagerKnows
  <2>6. ASSUME result' = "installed"
        PROVE  /\ Install!Loads' /\ files'.service # None /\ files'.unit
               /\ manager'.loaded /\ manager'.enabled /\ manager'.active
    BY <1>0, <2>3, <2>4, <2>6 DEF Ended, Install!Loads
  <2>7. ASSUME result' = "uninstalled" PROVE files' = Install!Absent /\ manager' = Install!Unknown
    <3>1. files = Install!Absent /\ ~files.unit
      BY <1>0, <2>3, <2>7 DEF Ended, Install!Absent
    <3>2. manager'.loaded = FALSE /\ manager'.enabled = FALSE /\ manager'.active = FALSE
      BY <2>4, <3>1
    <3>3. manager' = [loaded |-> manager'.loaded, enabled |-> manager'.enabled,
                      active |-> manager'.active]
      BY <2>4
    <3> QED BY <2>3, <3>1, <3>2, <3>3 DEF Install!Unknown
  <2>8. Ended'
    BY <2>6, <2>7 DEF Ended
  <2>9. Typed' /\ Install!StableFilesExist'
    BY <1>0, <2>2, <2>3, <2>4 DEF Typed, Install!StableFilesExist
  <2> QED BY <2>1, <2>2, <2>5, <2>8, <2>9 DEF InstallInv
<1>7. CASE Install!ServiceStarts \/ Install!ServiceFails
  <2>1. /\ UNCHANGED <<files, installer, view>>
        /\ service' \in Install!Process \cup {None} /\ events' \in 0..InstallInputs
    BY <1>0, <1>7 DEF Install!ServiceStarts, Install!ServiceFails, Install!Input, Typed,
       Install!Loads, Install!Files, Install!Process
  <2>2. UNCHANGED <<manager, result>> /\ (service' # None => manager.active)
    BY <1>7 DEF Install!ServiceStarts, Install!ServiceFails
  <2>3. Typed'
    BY <1>0, <2>1, <2>2 DEF Typed
  <2>5. Shows' /\ Install!StableFilesExist' /\ ManagerKnows'
    BY <1>0, <2>1, <2>2 DEF Shows, Install!StableFilesExist, ManagerKnows
  <2>4. Ended' /\ Reached' /\ Fresh'
    BY <1>0, <2>1, <2>2 DEF Ended, Reached, Installing, Uninstalling, Installed, Removed,
       Install!Loads, Fresh
  <2> QED BY <2>3, <2>4, <2>5 DEF InstallInv
<1>8. CASE Install!Refresh
  <2>1. UNCHANGED <<files, manager, service, installer, result, events>>
    BY <1>8 DEF Install!Refresh
  <2>2. Shows'
    BY <1>0, <1>8 DEF Install!Refresh, Shows
  <2>3. Typed' /\ Install!StableFilesExist' /\ ManagerKnows'
    BY <1>0, <2>1 DEF Typed, Install!StableFilesExist, ManagerKnows
  <2>4. Ended' /\ Reached' /\ Fresh'
    BY <1>0, <2>1 DEF Ended, Reached, Installing, Uninstalling, Installed, Removed,
       Install!Loads, Fresh
  <2> QED BY <2>2, <2>3, <2>4 DEF InstallInv
<1> QED BY <1>1, <1>3, <1>4, <1>5, <1>6, <1>7, <1>8
        DEF Install!Next, Install!UserInstalls, Install!UserUninstalls, Install!DesktopInstalls,
            Install!DesktopUninstalls

\* Wherever the installer stops, the unit that is there finds its program and configuration,
\* and the configuration the stable core; the alpha core it names is missed only while an
\* installer works or once one has been cut off.  An installation that succeeds leaves a service that can start, an uninstallation nothing that runs or would
\* run again, whatever an earlier one has left (install_files, uninstall, enable_and_start).
THEOREM InstallationsAreSound == PartsSpec => []InstallationIsSound
<1>1. InstallInv /\ [Install!Next]_(Install!vars) => InstallInv'
  BY StepKeeps, OthersKeep
<1>2. InstallInv => InstallationIsSound
  <2>1. InstallInv => Install!TypeOK
    BY DEF InstallInv, Typed, Shows, Install!TypeOK
  <2>2. InstallInv => Install!InstallationRuns
    BY DEF InstallInv, Ended, Install!InstallationRuns
  <2>3. InstallInv => Install!UninstallationIsClean
    <3>1. Install!Unknown.active = FALSE
      BY DEF Install!Unknown
    <3> QED BY <3>1 DEF InstallInv, Ended, ManagerKnows, Install!UninstallationIsClean
  <2>4. InstallInv => Install!NamedFilesExist
    <3> SUFFICES ASSUME InstallInv, files.config = "both", files.alpha = None, installer = None
                 PROVE  result = "failed"
      BY DEF InstallInv, Install!NamedFilesExist, Install!AlphaExists
    <3>0. Install!Absent.config # "both"
      BY PartsAssumption DEF Install!Absent, Install!InstallAssumption
    <3>1. result # "none" /\ result # "uninstalled"
      BY <3>0 DEF InstallInv, Fresh, Ended
    <3>2. result # "installed"
      BY DEF InstallInv, Ended, Install!Loads
    <3> QED BY <3>1, <3>2 DEF InstallInv, Typed
  <2> QED BY <2>1, <2>2, <2>3, <2>4 DEF InstallInv, InstallationIsSound
<1> QED BY <1>1, <1>2, InstallInit, InstallRuns, PTL
=============================================================================

\* Coordinator: two channels, the owner and a handle that contend for a queue of one, a
\* budget of two failures and two attempts; no symmetry, for the liveness properties.
\* Backend: three requests outstanding.  Sidecar: three processes, five inputs.
\* Installation: two releases, five inputs.
SPECIFICATION PartsSpec
CONSTANTS
  None = None
  Channels = {stable, alpha}
  Clients = {owner, ui}
  Owner = owner
  QueueCapacity = 1
  MaxFailures = 2
  MaxAttempts = 2
  MaxRequests = 3
  Binaries = {stable}
  File = File
  MaxSpawns = 3
  SidecarInputs = 5
  Releases = {old, new}
  InstallInputs = 5
INVARIANTS
  TypeOK
  NoSecondCore
  StateMatchesProcess
  StopIsFinal
  BudgetCanBeEarnedBack
  FallbackIsSafe
  ActiveBackendOwnsCore
  OnlyOwnedLives
  ReadyIsItsOwn
  InstallationIsSound
PROPERTIES
  AnswersAreTrue
  ImplementsLifecycle
  EveryRequestEnds
  ScheduledRestartRuns
  CallsEnd
CHECK_DEADLOCK FALSE

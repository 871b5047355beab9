SPECIFICATION Spec
CONSTANTS
  base = base
  lib = lib
  tool = tool
  app = app
  Element = {base, lib, app}
  BuildDeps <- ChainBuild
  RuntimeDeps <- ChainRuntime
  Plan <- ChainPlan
  Queues <- FetchBuildPush
  MaxResources <- OneEach
  Strict = TRUE
  RetryFailed = FALSE
  HasFetchRemotes = FALSE
  Targets = {app}
  RequiredScope = "none"
  LocalArtifacts = {"none"}
  LocalSources = {"staged"}
  RemoteArtifacts = {"none"}
  Faults = {"build", "collect", "push"}
  OnFailure = {"continue", "quit", "terminate", "retry"}
  Interrupts = {"quit", "terminate"}
  MaxUserRetries = 1
INVARIANTS
  ResourcesExact
  CountersExact
PROPERTIES
  QuitIsHonoured

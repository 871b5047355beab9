SPECIFICATION Spec
CONSTANTS
  base = base
  lib = lib
  tool = tool
  app = app
  Element = {base, lib, app}
  BuildDeps <- ChainBuild
  RuntimeDeps <- ChainRuntime
  Plan <- ChainPlan
  Queues <- FetchBuildPush
  MaxResources <- TwoEach
  Strict = TRUE
  RetryFailed = FALSE
  HasFetchRemotes = FALSE
  Targets = {lib, app}
  RequiredScope = "none"
  LocalArtifacts = {"none"}
  LocalSources = {"none", "staged"}
  RemoteArtifacts = {"none"}
  Faults = {}
  OnFailure = {"continue"}
  Interrupts = {}
  MaxUserRetries = 0
INVARIANTS
  SuccessMeansBuilt

SPECIFICATION Spec
CONSTANTS
  base = base
  lib = lib
  tool = tool
  app = app
  Element = {base, lib, app}
  BuildDeps <- ChainBuild
  RuntimeDeps <- ChainRuntime
  Plan <- ChainPlan
  Queues <- PullFetchBuildPush
  MaxResources <- TwoEach
  Strict = FALSE
  RetryFailed = FALSE
  HasFetchRemotes = TRUE
  Targets = {app}
  RequiredScope = "none"
  LocalArtifacts = {"none", "success"}
  LocalSources = {"none", "staged"}
  RemoteArtifacts = {"none", "success"}
  Faults = {}
  OnFailure = {"continue"}
  Interrupts = {}
  MaxUserRetries = 0
INVARIANTS
  KeyKnownToBuild

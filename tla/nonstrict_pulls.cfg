SPECIFICATION Spec
CONSTANTS
  base = base
  lib = lib
  tool = tool
  app = app
  Element = {base, lib, app}
  BuildDeps <- ChainBuild
  RuntimeDeps <- ChainRuntime
  Plan <- ChainPlan
  Queues <- PullFetchBuild
  MaxResources <- TwoEach
  Strict = FALSE
  RetryFailed = TRUE
  HasFetchRemotes = TRUE
  Targets = {app}
  RequiredScope = "none"
  LocalArtifacts = {"none", "failure"}
  LocalSources = {"none", "original"}
  RemoteArtifacts = {"none", "success", "failure"}
  Faults = {"pull", "fetch", "build", "post"}
  OnFailure = {"continue"}
  Interrupts = {}
  MaxUserRetries = 0
INVARIANTS
  CountersExact
  ReadySound
  ReadyComplete
  NoMissedWakeup

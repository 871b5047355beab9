SPECIFICATION Spec
CONSTANTS
  base = base
  lib = lib
  tool = tool
  app = app
  Element = {base, lib, app}
  BuildDeps <- ChainBuild
  RuntimeDeps <- ChainRuntime
  Plan <- ChainPlan
  Queues <- PullFetchBuildPush
  MaxResources <- TwoEach
  Strict = TRUE
  RetryFailed = FALSE
  HasFetchRemotes = TRUE
  Targets = {app}
  RequiredScope = "none"
  LocalArtifacts = {"none", "success"}
  LocalSources = {"none", "original"}
  RemoteArtifacts = {"none", "success", "failure"}
  Faults = {"build"}
  OnFailure = {"continue"}
  Interrupts = {}
  MaxUserRetries = 0
INVARIANTS
  TypeOK
  BuildInputsReady
  ReadyIsStored
  NotBuiltTwice
  SourcesCachedToBuild
  SuccessMeansBuilt
  FailureContained
  OnlyNeededWork
PROPERTIES
  BuildsInOrder

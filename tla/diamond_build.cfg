SPECIFICATION FairSpec
CONSTANTS
  base = base
  lib = lib
  tool = tool
  app = app
  Element = {base, lib, tool, app}
  BuildDeps <- DiamondBuild
  RuntimeDeps <- DiamondRuntime
  Plan <- DiamondPlan
  Queues <- FetchBuild
  MaxResources <- OneEach
  Strict = FALSE
  RetryFailed = FALSE
  HasFetchRemotes = FALSE
  Targets = {app}
  RequiredScope = "none"
  LocalArtifacts = {"none"}
  LocalSources = {"none"}
  RemoteArtifacts = {"none"}
  Faults = {"build"}
  OnFailure = {"continue"}
  Interrupts = {"casd"}
  MaxUserRetries = 0
INVARIANTS
  KeyKnownToBuild
  OnePlace
PROPERTIES
  SessionEnds

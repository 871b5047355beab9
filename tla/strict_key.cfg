SPECIFICATION Spec
CONSTANTS
  alice = alice
  bob = bob
  exact = exact
  again = again
  loose = loose
  NoDigest = NoDigest
  Clients = {alice, bob}
  Remotes = {1, 2}
  Index = {1, 2}
  Storage = {1, 2}
  Push = {1, 2}
  MayBeDown = {}
  Artifacts = {loose}
  Strong <- StrongKeys
  Strict <- StrictKeys
  Weak <- WeakKeys
  HasBuildtree = {}
  Builds <- LooseOnly
  StrictKey = "strict"
  WeakKey = "weak"
  Sources <- Sources2
  NeedsPrevious = {"patch"}
  Staged = "staged"
  Ops <- ArtifactOps
  StrictMode = FALSE
  PullBuildtrees = FALSE
  Faults = {}
  MaxFaults = 0
  MaxOps = 2
INVARIANT
  StrictKeyIsStrict
CHECK_DEADLOCK FALSE

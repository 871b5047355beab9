SPECIFICATION Spec
CONSTANTS
  alice = alice
  bob = bob
  exact = exact
  again = again
  loose = loose
  NoDigest = NoDigest
  Clients = {alice, bob}
  Remotes = {1, 2}
  Index = {1, 2}
  Storage = {1, 2}
  Push = {1, 2}
  MayBeDown = {2}
  Artifacts = {exact, again}
  Strong <- StrongKeys
  Strict <- StrictKeys
  Weak <- WeakKeys
  HasBuildtree = {exact, again}
  Builds <- ExactAndAgain
  StrictKey = "strict"
  WeakKey = "weak"
  Sources <- Sources2
  NeedsPrevious = {"patch"}
  Staged = "staged"
  Ops <- AllOps
  StrictMode = FALSE
  PullBuildtrees = TRUE
  Faults = {"index", "storage", "full", "fetch", "expiry"}
  MaxFaults = 2
  MaxOps = 2
PROPERTIES
  SuccessIsComplete
  PullFindsWhatIsThere
  IndexAfterBlobs
  PullLosesNothing
CHECK_DEADLOCK FALSE

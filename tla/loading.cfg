SPECIFICATION LoaderSpec
CONSTANTS
  Inputs <- MCInputs
  Before <- MCBefore
INVARIANTS
  CircularFound
  ResolutionIsStable
  OverridesHonoured
  OverriddenParentsKnown
  PlanIsTopological
PROPERTIES
  LoadsThenPlans
CHECK_DEADLOCK FALSE

CONSTANTS
  db = db
  cache = cache
  web = web
  shop = shop
  blog = blog
  NoProject = NoProject
  Order <- ThreeInOrder
  Projects <- TwoProjects
  Roles <- AllLabelled
  Plans <- AllPlans
  MaxFaults = 2
SPECIFICATION Spec
SYMMETRY ProjectSymmetry
INVARIANTS TypeOK NoDependentWithoutDependency ResultsAreTrue NobodyIsLeftBehind SelfUpdatesComeLast
CHECK_DEADLOCK FALSE

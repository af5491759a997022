CONSTANTS
  db = db
  cache = cache
  web = web
  shop = shop
  blog = blog
  NoProject = NoProject
  Order <- TwoInOrder
  Projects <- OneProject
  Roles <- WithOwn
  Plans <- ExplicitOrImplicit
  MaxFaults = 0
SPECIFICATION Spec
INVARIANT OwnContainerIsOnlyTriggered
CHECK_DEADLOCK FALSE

SPECIFICATION Spec
CONSTANTS
  None = None
  TrustedProxies = {"p1", "p2"}
  Clients = {"a1", "a2"}
  Verify <- Tokens
  Requests <- SomeRequests
  RouteFiles <- Files
  UserLimit <- UserLimits
  IPLimit <- IPLimits
  MaxBodyBytes = 2
  MaxRequests = 3
INVARIANTS
  TypeOK
  BuiltInsStay
  LimitsOfTheRoute
PROPERTIES
  BudgetIsOwn

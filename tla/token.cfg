SPECIFICATION LiveSpec
CONSTANTS
  Lifetime = 12
  Margin = 6
  Retry = 2
  Timeout = 2
  Hour = 8
  MaxPanics = 1
INVARIANTS
  TypeOK
  FreshUnlessOutage
  StallIsVisible
PROPERTIES
  ExpiryMonotone
  TokenRecovers

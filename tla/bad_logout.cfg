SPECIFICATION Spec
CONSTANTS
  t1 = t1
  t2 = t2
  Tabs = {t1}
  MaxIssues = 2
  None = None
  Empty = Empty
PROPERTY
  LogoutInvalidates

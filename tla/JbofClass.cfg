CONSTANTS
  n1 = n1
  n2 = n2
  j1 = j1
  j2 = j2
  all = all
  one = one
  Nodes = {n1, n2}
  Jbofs = {j1, j2}
  Classes = {all, one}
  Urls <- TwoClasses
  Ttl = 2
  SetupTime = 1
  MaxTime = 4
  Failures = FALSE
  None = None
SPECIFICATION Spec
INVARIANTS
  ListIsOfTheClass

SPECIFICATION Spec
CONSTANTS
  t1 = t1
  t2 = t2
  Callers = {c1, c2, c3}
  Tenants <- MCTenants
  Costs = {1, 2, 3}
  MaxCost = 3
  NoCap = NoCap
  Tokens = {1, 2}
  RequestCap = 2
  TokenCap = 1
  DayCap = 3
  Capped <- MCCapped
  TenantCap <- MCTenantCap
  KeyPerDay = TRUE
  Days = 2
SYMMETRY Symmetric
INVARIANTS OvershootBounded AdmittedFits

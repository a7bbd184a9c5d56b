SPECIFICATION Spec
CONSTANTS
  k1 = k1
  k2 = k2
  a1 = a1
  a2 = a2
  v1 = v1
  u1 = u1
  owner = owner
  manager = manager
  t1 = t1
  t2 = t2
  Nobody = Nobody
  Idle = Idle
  NoBranch = 0
  Branches <- MCBranches
  Customers = {k1, k2}
  Approvers = {a1, a2}
  Advisors = {v1}
  Accounts <- MCAccounts
  Txns = {t1, t2}
  Scenarios <- MCScenarios
SYMMETRY MCSymmetry
INVARIANT WorkIsAtHome
INVARIANT ClosedIsEmpty
INVARIANT ApprovalsHaveAnApprover
INVARIANT AdvisorsHoldTheirRole
INVARIANT OneCustomerPerAccount
INVARIANT HappensOnce
INVARIANT NoCircularWait
PROPERTY ImplementsDesk
PROPERTY ImplementsGuards

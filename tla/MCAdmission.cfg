SPECIFICATION MCSpec
CONSTANTS
  Requests <- MCRequests
  Kinds <- MCKinds
  Hosts = {"h1", "h2"}
  Tenants = {"t1", "t2"}
  Ids = {"u1", "s1"}
  Modules = {"shop"}
  Table <- MCTable
  PrincipalOf <- MCPrincipalOf
  States = {"active", "suspended", "onboarding"}
  InitState <- MCInitState
  InitHosts <- MCInitHosts
  Policy <- MCPolicy
  GateTTL = 2
  PosTTL = 3
  NegTTL = 1
  MaxLoad = 1
  MaxNow = 4
  MaxChanges = 2
  Scenarios = {"gates", "hosts", "limits"}
  None = None
CHECK_DEADLOCK FALSE
INVARIANTS
  GateStaleBound
  HostStaleBound
  ClassLimit
  TracesMatchAnswers
PROPERTIES
  RetryAfterFrees

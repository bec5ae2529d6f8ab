SPECIFICATION MCSpec
CONSTANTS
  Owner = Owner
  Admin = Admin
  Ops = Ops
  Ghost = Ghost
  K1 = K1
  K2 = K2
  R1 = R1
  Live = Live
  Closed0 = Closed0
  Pay = Pay
  Extra = Extra
  C1 = C1
  C2 = C2
  None = None
  NoBlock = NoBlock
  Roles <- MCRoles
  Tenant <- MCTenant
  Platform = {Ops}
  Keys = {K1, K2}
  Routes = {R1}
  States = {Live, Closed0}
  COLUMNS = {Pay}
  Others = {Extra}
  Codes <- MCCodes
  MaxEdits = 2
  MaxTenantEdits = 3
  MODULES <- MCModules
  ErrorCodes = {"acct", "x"}
  SecDocs = {"evl"}
  Home <- MCHome
  AccountCodes = {"acct"}
  LccDoc = "lcc"
  Events = {"Created", "purchased", "extra"}
  DOCS4 <- MCDocs4
  ApiDocs = {"evl", "lcc"}
  NoteDocs = {"cms"}
  Paths = {"p"}
  RowNames = {"acct", "x", "Created", "purchased", "extra", "p"}
  Editions = {"e1", "e2"}
  InitText <- MCText
  MaxDocEdits = 2
  MaxReruns = 2
CHECK_DEADLOCK FALSE
INVARIANTS
  LoopExact
  PolicyExact
  RealmsSeparate
  MatrixCurrent
  TenantTableExact
  AggregatesExact
PROPERTIES
  LoopEnds
  

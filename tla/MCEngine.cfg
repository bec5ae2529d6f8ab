SPECIFICATION MCSpec
CONSTANTS
  Symbols = {"EURUSD"}
  Tiers = {"high", "HIGH", "low"}
  LowerCase <- MCLower
  AnySymbol = "*"
  None = None
  Bad = Bad
  Orders = {"o1", "o2"}
  InitialDay = "d0"
  Packs <- MCPacks
  Stream <- MCStream
INVARIANTS
  NoCloseWaitsForOpen
  DealsAccounted
  DailyLossNoticed
  
  

SPECIFICATION Spec
CONSTANTS
  Symbols = {"EURUSD"}
  Tiers = {"high"}
  LowerCase <- MCLower
  AnySymbol = "*"
  None = None
  Bad = Bad
  Orders = {"o1"}
  InitialDay = "d0"
  TightPacks <- MCTight
  LoosePacks <- MCLoose
  Stream <- MCStream
INVARIANTS
  PacksCompare

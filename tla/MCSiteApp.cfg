SPECIFICATION MCSpec
CONSTANTS
  DocIds = {"d1", "d2"}
  Num <- MCNum
  Annexes = {"d2"}
  Payloads = {"p 1"}
  Apis = {"x"}
  Questions = {"q1"}
  Section <- MCSection
  Texts <- MCTexts
  HeadIds = {"a", "b"}
  DocHeads <- MCDocHeads
  PackHeads <- MCPackHeads
  RegHeads <- MCRegHeads
  Sec <- MCSec
  Encode <- MCEncode
  Decode <- MCDecode
  Typed <- MCTyped
  Featured = {"d1"}
  Queries = {"w"}
  Matches <- MCMatches
  MaxClicks = 2
  MaxParts = 4
  MaxLoads = 1
  MaxEdits = 1
  None = None
  Malformed = Malformed
CHECK_DEADLOCK FALSE
INVARIANTS
  
  LinksLead
  
PROPERTIES
  TimerScrollsWhereAsked
  Settles

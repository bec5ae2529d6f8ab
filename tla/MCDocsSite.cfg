SPECIFICATION MCSpec
CONSTANTS
  Trees <- MCTrees
  Texts <- MCTexts
  LinksOf <- MCLinksOf
  IdsOf <- MCIdsOf
  Exts = {"md", "html", "yaml"}
  NameOrder <- MCNameOrder
  MaxDirDepth = 1
  MaxEdits = 4
  None = None
CHECK_DEADLOCK FALSE
INVARIANTS
  RenderingFaithful
  
  

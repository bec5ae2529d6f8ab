SPECIFICATION MCSpec
CONSTANTS
  Books <- MCBooks
  Names <- MCNames
  ReqCol <- MCReqCol
  StoryCol <- MCStoryCol
  Buckets = {"coo", "internal"}
  Internal = "internal"
  MaxEdits = 2
  None = None
CHECK_DEADLOCK FALSE
INVARIANTS
  AlignOptimal
  
  RegistersFit

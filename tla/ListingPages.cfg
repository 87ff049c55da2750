SPECIFICATION Spec
CONSTANTS
  Keys <- MCKeys
  Matching <- MCMatching
  Hidden <- MCHidden
  Folders <- MCFolders
  Group <- MCGroup
  MaxKeys = 2
  Changes = 2
  NONE = NONE
  Word = 16
INVARIANTS ListingTypeOK  
  
CHECK_DEADLOCK FALSE

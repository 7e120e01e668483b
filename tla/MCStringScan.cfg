SPECIFICATION Spec
CONSTANTS
  Keys <- MCKeys
  MaxFile = 6
  MaxString = 6
  MaxTriple = 5
INVARIANTS FStringPartsSurvive CommentsAgree
CHECK_DEADLOCK FALSE

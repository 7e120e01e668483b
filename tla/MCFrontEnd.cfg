SPECIFICATION Spec
CONSTANTS
  Uris = {u1, u2}
  u1 = u1
  u2 = u2
  Texts <- MCTexts
  Edits <- MCEdits
  Parsed <- ParseText
  Linted <- LintProgram
  Formatted <- Format
  MaxText = 60
  MaxSource = 60
  MaxDocuments = 1
  MaxNesting = 256
  SnakeNames <- MCSnake
  PascalNames <- MCPascal
  SilentNames <- MCSilent
  Variables <- MCVariables
INVARIANTS FollowsEditor BlocksMatchColumns FormatKeepsProgram CommentsKept UnusedWarned

\* What a job lists, and the roots of its scope.
SPECIFICATION Spec
CONSTANTS
  Chars <- MCChars
  Lower <- MCLower
  Code <- MCCode
  Policies <- MCPolicies
  Requests <- MCRequests
  Objects <- MCObjects
  TermLists <- MCTermLists
  MaxPaths = 2
  MaxTerms = 3
  MaxTermLength = 4
  Lines <- MCLines
  HeaderLimit = 2
  MaxLines = 4
  Rows <- MCRows
  Scripts <- MCScripts
  MaxRows = 3
  NoDag = "none"
  Illegal = {"/", ":"}
  NameLimit = 3
  MaxCounter = 13
  Title <- MCTitle
INVARIANT ListedWithinPolicy
\* A finished job rests.
CHECK_DEADLOCK FALSE

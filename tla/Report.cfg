\* One job's request on its way to the workbook.
SPECIFICATION Spec
CONSTANTS
  Chars <- MCChars
  Lower <- MCLower
  Code <- MCCode
  Policies <- MCPolicies
  Requests <- MCRequests
  Objects <- MCObjects
  TermLists <- MCTermLists
  MaxPaths = 2
  MaxTerms = 3
  MaxTermLength = 4
  Lines <- MCLines
  HeaderLimit = 2
  MaxLines = 4
  Rows <- MCRows
  Scripts <- MCScripts
  MaxRows = 3
  NoDag = "none"
  Illegal = {"/", ":"}
  NameLimit = 3
  MaxCounter = 13
  Title <- MCTitle
INVARIANTS
  WithinPolicy
  FoundAsDefined
  BuiltExact
  LookupExact
  WorkbookWhole
  TitleFree
  ReportInv
PROPERTY Ends
\* A finished job rests.
CHECK_DEADLOCK FALSE

CONSTANTS
  Empty = ""
  Named = {":x"}
  Stars = {"*f"}
  Segments <- MCSegments
  Methods = {"GET", "POST"}
  Comps <- MCComps
  GroupPrefixes <- MCPrefixes
  Paths <- MCPaths
  Filepath = "*f"
  Longer <- MCLonger
  MaxCalls = 4
  MaxRoutes = 2
  MaxNext = 1
SPECIFICATION Spec
INVARIANTS TypeOK RoutesRight FoundIsServable GroupsGuardRoutes RunsInOrder NextRunsTheRest

CONSTANTS
  Empty = ""
  Named = {":name"}
  Stars = {"*filepath"}
SPECIFICATION Spec
INVARIANT TestGetRoute
CHECK_DEADLOCK FALSE

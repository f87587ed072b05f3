SPECIFICATION RouterSpec
CONSTANTS
  Slash = "/"
  Paths <- MCPaths
  Urls <- MCUrls
  MaxCalls = 3
INVARIANTS RoutesFound LongestPrefix HandlerOfPrefix
CHECK_DEADLOCK FALSE

SPECIFICATION Spec
CONSTANTS
  Sessions = {s1, s2}
  Spellings = {example, Example, Localhost}
  example = example
  Example = Example
  Lower <- MCLower
  LOCALHOST = Localhost
  Ports = {80, 443, 6188, 6143}
  listen_http = 6188
  listen_https = 6143
  Paths = {p1}
  Requests <- MCRequests
  CacheControl <- MCCacheControl
  None = None
  Unreadable = Unreadable
  Malformed = Malformed
INVARIANT LabelTellsSource
CHECK_DEADLOCK FALSE

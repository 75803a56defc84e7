CONSTANTS
  Ends <- Coded
  Trailing = 1
  MaxChunk = 2
  Limits <- Bounds
  Urls <- Some
  Scheme <- Kinds
  Blocked <- Ports
  Routed <- Route
  Auth = TRUE
  Requests <- Asks
  MaxRedirects = 2
SPECIFICATION FairSpec
CHECK_DEADLOCK FALSE
INVARIANTS StateSound DecodedWhole RedirectsFaithful
PROPERTIES CallEnds

CONSTANTS
  Blocks = 2
  form = form
  Types = {form}
  Form = form
  None = None
  MaxStreams = 5
  MaxObjects = 2
  MaxCalls = 2
  MaxNew = 1
  MaxEdits = 1
  MaxReaders = 1
  MaxCuts = 0
SPECIFICATION Spec
INVARIANT HeadersSent
CHECK_DEADLOCK FALSE

CONSTANTS
  Blocks = 2
  form = form
  Types = {form}
  Form = form
  None = None
  MaxStreams = 5
  MaxObjects = 2
  MaxCalls = 2
  MaxNew = 1
  MaxEdits = 1
  MaxReaders = 1
  MaxCuts = 1
SPECIFICATION Spec
INVARIANTS WholeBody ConsumedOnce
PROPERTIES UsedIsForGood
CHECK_DEADLOCK FALSE

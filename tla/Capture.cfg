\* One response, every way of cutting it into messages.
CONSTANTS
  Replies <- MCReplies
  MaxBody = 3
  MaxUnits = 6
SPECIFICATION LiveSpec
INVARIANTS TypeOK EntryWhole InOrder OneStart MarkTruthful
PROPERTY Delivered
\* A response comes to its end.
CHECK_DEADLOCK FALSE

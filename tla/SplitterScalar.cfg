SPECIFICATION SplitterSpec
CONSTANTS
  MaxIssue = 3
  FIFO_DEPTH = 4
  Kinds = {{"lo"}, {"hi"}}
  Slow = TRUE
PROPERTY Paired

SPECIFICATION ClientSpec
CONSTANTS
  Lines <- MCLines
  MaxLines = 4
  NetBufferSize = 12
  PrintedWidth <- MCPrintedWidth
  OutCmdMaxLen = 32
INVARIANTS HandledAsSent RepliesAsAsked NoLineWaits
CHECK_DEADLOCK FALSE

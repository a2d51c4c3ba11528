CONSTANTS
  DiskProc = {p1, p2, p3}
  NUM = 8
  IdxRange = 8
  NoBuf = NoBuf
  ConsProc = {p1, p2}
  INPUT_BUF_SIZE = 3
  ConsWrap = 6
  Wants = {2}
  p2 = p2
  Writer = {p1, p2}
  Handler = h
  Printer = h2
  UART_TX_BUF_SIZE = 2
  TxWrap = 4
  Nobody = Nobody
SPECIFICATION DevicesSpec
INVARIANTS
  DescriptorsOwned
  TransferredOnce
  ConsoleHolds
  OutputInOrder
PROPERTIES
  SubmittedFinishes
  OutputShown

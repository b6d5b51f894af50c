\* Requests without end, late replies, foreign bytes; payloads of two or four bytes.
SPECIFICATION ModbusSpec
CONSTANTS
  ReadCounts <- MCReadCounts
  WriteBytes <- MCWriteBytes
  ForeignBytes <- MCForeignBytes
  DataBytes <- MCDataBytes
  ExceptionCodes = {2}
  MaxFrame = 11
  Timeout = 2
  InterByte = 1
  Budget = 5
  MaxLate = 2
INVARIANTS
  ModbusTypeOK
  PayloadFits
  ListenBounded
  AcceptedIsGenuine
  PunctualRepliesAreOwn

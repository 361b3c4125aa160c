\* Bytes of 2 bits, an int of 2 bytes, 3 bytes of payload, which raw just
\* holds, as in the code.  dlc goes one beyond the payload.
CONSTANTS
  bitsInByte = 2
  intBits = 4
  rawBits = 6
  CAN_MAX_DLC = 3
  MaxDlc = 4
SPECIFICATION Spec
INVARIANTS
  LittleEndianExact
  BigEndianExact
  ThrowsOnlyBeyondPayload
\* The function returns.
CHECK_DEADLOCK FALSE

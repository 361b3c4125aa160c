\* Little-endian signals that cross a byte boundary.
\* Bytes of 2 bits, an int of 2 bytes, 3 bytes of payload, which raw just
\* holds, as in the code.  dlc goes one beyond the payload.
CONSTANTS
  bitsInByte = 2
  intBits = 4
  rawBits = 6
  CAN_MAX_DLC = 3
  MaxDlc = 4
SPECIFICATION Spec
INVARIANT LittleEndianAnywhere
CHECK_DEADLOCK FALSE

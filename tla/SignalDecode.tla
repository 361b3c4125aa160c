---------------------------- MODULE SignalDecode ----------------------------
(***************************************************************************)
(* CanSignal::parseSignal: the bits of a signal are cut out of the payload *)
(* byte by byte (one step per turn of the loop), the pieces are put        *)
(* together (one step per piece), and the sign is extended.  The widths    *)
(* are parameters; the code's are 8 bits to the byte, 32 to int, 64 to     *)
(* uint64_t and 8 bytes of payload.  The final scaling, ret * scale +      *)
(* offset, is left out, and so is the rounding of a double beyond 53 bits. *)
(***************************************************************************)
EXTENDS Integers, Sequences

CONSTANTS
  bitsInByte,
  intBits,        \* the width of int, to which d << shiftCnt is promoted
  rawBits,        \* the width of raw
  CAN_MAX_DLC,
  MaxDlc          \* bound: the largest dlc of a frame; BlfParser does not
                  \* check it against CAN_MAX_DLC

ASSUME WidthAssumption ==
  /\ {bitsInByte, intBits, rawBits, CAN_MAX_DLC} \subseteq Nat \ {0}
  /\ intBits <= rawBits
  /\ CAN_MAX_DLC * bitsInByte <= rawBits
  /\ MaxDlc \in Nat

VARIABLES
  signal,     \* the parameters: startBit, len, isBigEndian, isSigned
  input, dlc,
  startBit, len, dataBytes,   \* the locals of the loop
  pc,         \* "exception": input.at() threw; "undefined": a shift of an int
              \* by its width or more; "nan": the signal is not in the frame
  raw, piece, \* the pieces put together so far, and how many they are
  ret

vars == <<signal, input, dlc, startBit, len, dataBytes, pc, raw, piece, ret>>
frame == <<signal, input, dlc>>
bits == <<startBit, len, dataBytes>>
sum == <<raw, piece>>

(* 2 ^ n, as a function whose defining equation can be used in a proof.    *)
Pow[n \in Nat] == IF n = 0 THEN 1 ELSE 2 * Pow[n - 1]

Byte == 0 .. Pow[bitsInByte] - 1
ByteIndex == 0 .. CAN_MAX_DLC - 1
Bits == 0 .. MaxDlc * bitsInByte

Signal == [startBit : Bits, len : Bits, isBigEndian : BOOLEAN, isSigned : BOOLEAN]

TypeOK ==
  /\ signal \in Signal
  /\ input \in [ByteIndex -> Byte]
  /\ dlc \in 0 .. MaxDlc
  /\ startBit \in Nat /\ len \in Nat
  /\ dataBytes \in Seq(Byte)
  /\ pc \in {"start", "loop", "assemble", "done", "nan", "exception", "undefined"}
  /\ raw \in 0 .. Pow[rawBits] - 1
  /\ piece \in 0 .. Len(dataBytes)
  /\ ret \in Int

Init ==
  /\ signal \in Signal
  /\ input \in [ByteIndex -> Byte]
  /\ dlc \in 0 .. MaxDlc
  /\ startBit = signal.startBit /\ len = signal.len
  /\ dataBytes = <<>>
  /\ pc = "start"
  /\ raw = 0 /\ piece = 0
  /\ ret = 0

GetNbit(b, n) == b % Pow[n]

ShiftRight(b, n) == b \div Pow[n]

-----------------------------------------------------------------------------
(* Mutant: the last byte of the payload is taken for out of range, and the *)
(* first byte behind it for in range.                                      *)
CheckRangeOffByOne ==
  /\ pc = "start"
  /\ pc' = IF signal.startBit + signal.len > dlc * bitsInByte + 1 \/ signal.len = 0
             THEN "nan" ELSE "loop"
  /\ UNCHANGED <<frame, bits, sum, ret>>

CheckRange ==
  /\ pc = "start"
  /\ pc' = IF signal.startBit + signal.len > dlc * bitsInByte \/ signal.len = 0
             THEN "nan" ELSE "loop"
  /\ UNCHANGED <<frame, bits, sum, ret>>

(* The bits one turn of the loop takes: to the end of the byte, or of the  *)
(* signal.                                                                 *)
bit2Get ==
  LET toByteEnd == bitsInByte - (startBit % bitsInByte)
  IN  IF toByteEnd < len THEN toByteEnd ELSE len

(* One turn of while (len); input.at() throws beyond the payload.          *)
TakeBits ==
  /\ pc = "loop"
  /\ len # 0
  /\ startBit \div bitsInByte \in ByteIndex
  /\ dataBytes' = Append(dataBytes,
       GetNbit(ShiftRight(input[startBit \div bitsInByte], startBit % bitsInByte), bit2Get))
  /\ startBit' = startBit + bit2Get
  /\ len' = len - bit2Get
  /\ UNCHANGED <<frame, sum, pc, ret>>

ReadOutOfRange ==
  /\ pc = "loop"
  /\ len # 0
  /\ startBit \div bitsInByte \notin ByteIndex
  /\ pc' = "exception"
  /\ UNCHANGED <<frame, bits, sum, ret>>

LoopEnds ==
  /\ pc = "loop"
  /\ len = 0
  /\ pc' = "assemble"
  /\ UNCHANGED <<frame, bits, sum, ret>>

(* raw <<= bitsInByte; raw += d.                                           *)
BigEndianRaw(d) == (raw * Pow[bitsInByte] + d) % Pow[rawBits]

(* d << shiftCnt is an int: when it reaches the sign bit it is negative,   *)
(* and raw += subtracts.                                                   *)
ShiftedInt(d, shiftCnt) ==
  LET n == (d * Pow[shiftCnt]) % Pow[intBits]
  IN  IF n >= Pow[intBits - 1] THEN n - Pow[intBits] ELSE n

(* Mutant: shiftCnt is not advanced.                                       *)
LittleEndianRawNoShift(d) == (raw + ShiftedInt(d, 0)) % Pow[rawBits]

(* raw += d << shiftCnt; shiftCnt += bitsInByte.                           *)
LittleEndianRaw(d) == (raw + ShiftedInt(d, bitsInByte * piece)) % Pow[rawBits]

(* A turn of for (const uint8_t d : dataBytes).                            *)
AddPiece ==
  /\ pc = "assemble"
  /\ piece < Len(dataBytes)
  /\ signal.isBigEndian \/ bitsInByte * piece < intBits
  /\ LET d == dataBytes[piece + 1]
     IN  raw' = IF signal.isBigEndian THEN BigEndianRaw(d) ELSE LittleEndianRaw(d)
  /\ piece' = piece + 1
  /\ UNCHANGED <<frame, bits, pc, ret>>

(* The same turn shifts an int by its width or more.                       *)
ShiftTooFar ==
  /\ pc = "assemble"
  /\ piece < Len(dataBytes)
  /\ ~signal.isBigEndian /\ bitsInByte * piece >= intBits
  /\ pc' = "undefined"
  /\ UNCHANGED <<frame, bits, sum, ret>>

(* Mutant: no special case for the full width, where 1 << len is undefined *)
(* and processors take len modulo the width.                               *)
maskNoSpecialCase == Pow[signal.len % rawBits] - 1

(* The low len bits set; all of them where 1 << len is not defined.        *)
mask == IF signal.len # rawBits THEN Pow[signal.len] - 1 ELSE Pow[rawBits] - 1

(* raw - mask - 1, computed modulo 2^rawBits and read as an int64_t.       *)
Signed ==
  LET n == (raw - mask - 1) % Pow[rawBits]
  IN  IF ShiftRight(raw, signal.len - 1) = 0 THEN raw
      ELSE IF n >= Pow[rawBits - 1] THEN n - Pow[rawBits] ELSE n

(* The rest of parseSignal.                                                *)
Extend ==
  /\ pc = "assemble"
  /\ piece = Len(dataBytes)
  /\ pc' = "done"
  /\ ret' = IF signal.isSigned THEN Signed ELSE raw
  /\ UNCHANGED <<frame, bits, sum>>

Next ==
  \/ CheckRange \/ TakeBits \/ ReadOutOfRange \/ LoopEnds
  \/ AddPiece \/ ShiftTooFar \/ Extend

Spec == Init /\ [][Next]_vars

-----------------------------------------------------------------------------
(* What a signal sig of the payload data means: its bits are counted from  *)
(* startBit, bit 0 being the lowest bit of the first byte.                 *)
Bit(data, i) == ShiftRight(data[i \div bitsInByte], i % bitsInByte) % 2

(* The value that its first n bits spell, the first one the lowest.        *)
LittleEndian(sig, data) ==
  LET value[n \in 0 .. sig.len] ==
        IF n = 0 THEN 0
        ELSE value[n - 1] + Bit(data, sig.startBit + (n - 1)) * Pow[n - 1]
  IN  value

LittleEndianBits == LittleEndian(signal, input)[signal.len]

(* The value of its first n bytes, the first one the most significant.     *)
BigEndian(sig, data) ==
  LET value[n \in 0 .. sig.len \div bitsInByte] ==
        IF n = 0 THEN 0
        ELSE value[n - 1] * Pow[bitsInByte]
               + data[(sig.startBit \div bitsInByte) + (n - 1)]
  IN  value

BigEndianBytes == BigEndian(signal, input)[signal.len \div bitsInByte]

TwosComplement(n) ==
  IF signal.isSigned /\ n >= Pow[signal.len - 1] THEN n - Pow[signal.len] ELSE n

Aligned == signal.startBit % bitsInByte = 0
InOneByte == (signal.startBit % bitsInByte) + signal.len <= bitsInByte

(* A little-endian signal that starts on a byte boundary, or lies within a *)
(* byte, and is shorter than an int has the value its bits spell.          *)
LittleEndianExact ==
  pc = "done" /\ ~signal.isBigEndian /\ (Aligned \/ InOneByte) /\ signal.len < intBits
    => ret = TwosComplement(LittleEndianBits)

(* A big-endian signal of whole bytes has the value its bytes spell, up to *)
(* the full width of the payload.                                          *)
BigEndianExact ==
  pc = "done" /\ signal.isBigEndian /\ Aligned /\ signal.len % bitsInByte = 0
    => ret = TwosComplement(BigEndianBytes)

(* parseSignal throws only for a frame whose dlc is larger than its        *)
(* payload, which only BlfParser produces.                                 *)
ThrowsOnlyBeyondPayload == pc = "exception" => dlc > CAN_MAX_DLC

(* The pieces taken so far and the bits still to take are the signal, and  *)
(* the next read is within the frame.                                      *)
LoopInv ==
  pc \in {"loop", "assemble"} =>
    /\ startBit + len = signal.startBit + signal.len
    /\ startBit + len <= dlc * bitsInByte

-----------------------------------------------------------------------------
(* What the code does not meet: TLC finds a counterexample (see README.md). *)

(* What dbcparser.cpp says a signal is, <start bit>|<length>@<endian>, of  *)
(* a little-endian signal that starts anywhere in a byte.                  *)
LittleEndianAnywhere ==
  pc = "done" /\ ~signal.isBigEndian /\ signal.len < intBits
    => ret = TwosComplement(LittleEndianBits)

(* The same of a little-endian signal that starts on a byte boundary and   *)
(* is as long as the frame allows.                                         *)
LittleEndianAnyLength ==
  pc \in {"done", "undefined"} /\ ~signal.isBigEndian /\ Aligned /\ dlc <= CAN_MAX_DLC
    => pc = "done" /\ ret = TwosComplement(LittleEndianBits)
=============================================================================

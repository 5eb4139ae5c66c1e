-------------------------------- MODULE Crc16 --------------------------------
(***************************************************************************)
(* The checksum of subway packets: crc16.cpp's, four bits at a time from   *)
(* two tables, and the CCITT polynomial it is said to compute.             *)
(***************************************************************************)
EXTENDS Integers, Sequences, SequencesExt, Bitwise

CONSTANT LengthMod   \* lengths are taken modulo this: CRC16_Calc has a
                     \* parameter of 8 bits, 256

ASSUME Crc16Assumption == LengthMod \in Nat \ {0}

-----------------------------------------------------------------------------
(* crc16.cpp. *)

CRC16_LookupHigh == << 0, 16, 32, 48, 64, 80, 96, 112,
                       129, 145, 161, 177, 193, 209, 225, 241 >>
CRC16_LookupLow == << 0, 33, 66, 99, 132, 165, 198, 231,
                      8, 41, 74, 107, 140, 173, 206, 239 >>

CRC16_Init == [high |-> 255, low |-> 255]

CRC16_Update4Bits(crc, val) ==
    LET t    == (crc.high \div 16) ^^ val
        high == ((crc.high * 16) % 256) + (crc.low \div 16)
        low  == (crc.low * 16) % 256
    IN  [high |-> high ^^ CRC16_LookupHigh[t + 1], low |-> low ^^ CRC16_LookupLow[t + 1]]

CRC16_Update(crc, val) ==
    CRC16_Update4Bits(CRC16_Update4Bits(crc, val \div 16), val % 16)

CRC16_Calc(buffer, len) ==
    FoldLeft(CRC16_Update, CRC16_Init, SubSeq(buffer, 1, len % LengthMod))

-----------------------------------------------------------------------------
(* x^16 + x^12 + x^5 + 1, bit by bit, from 0xFFFF. *)

Divide(remainder, bit) ==
    LET shifted == (2 * remainder) % 65536
    IN  IF (remainder >= 32768) # (bit = 1) THEN shifted ^^ 4129 ELSE shifted

Bits(byte) == [i \in 1..8 |-> (byte \div 2^(8 - i)) % 2]

Ccitt(bytes) == FoldLeft(Divide, 65535, FlattenSeq([i \in 1..Len(bytes) |-> Bits(bytes[i])]))

=============================================================================

-------------------------------- MODULE Crc32 --------------------------------
(***************************************************************************)
(* mpc5748Eth1CalcCrc of the MPC5748 ENET0 driver                          *)
(* (src/cyc/cyclone_tcp/drivers/mac/mpc5748_eth1_driver.c), the            *)
(* bit-serial CRC-32 the driver uses to pick a hash bucket, and a          *)
(* reference definition of the same CRC by polynomial division over GF(2). *)
(* A 32-bit word is a record of its upper and lower 16-bit halves: TLC's   *)
(* integers cannot hold a full uint32_t such as 0xEDB88320.                *)
(***************************************************************************)
EXTENDS Naturals, Sequences, Bitwise

Half == 0 .. 65535
Word == [hi : Half, lo : Half]
Byte == 0 .. 255

(* The word holding the integer v < 2^31, and the word given as its eight  *)
(* hexadecimal digits, most significant first.                             *)
WordOf(v) == [hi |-> v \div 65536, lo |-> v % 65536]
HexWord(d) == [hi |-> ((d[1] * 16 + d[2]) * 16 + d[3]) * 16 + d[4],
               lo |-> ((d[5] * 16 + d[6]) * 16 + d[7]) * 16 + d[8]]

Zero == WordOf(0)
AllOnes == [hi |-> 65535, lo |-> 65535]
Poly == HexWord(<< 14, 13, 11, 8, 8, 3, 2, 0 >>)   \* 0xEDB88320

XorWord(a, b) == [hi |-> a.hi ^^ b.hi, lo |-> a.lo ^^ b.lo]
ShiftRight1(w) == [hi |-> w.hi \div 2, lo |-> w.lo \div 2 + (w.hi % 2) * 32768]

(* Bit j of word w (j in 0 .. 31). *)
BitOf(w, j) == IF j >= 16 THEN (w.hi \div 2 ^ (j - 16)) % 2 ELSE (w.lo \div 2 ^ j) % 2

-----------------------------------------------------------------------------
(* mpc5748Eth1CalcCrc *)

(* Fault variant: the polynomial applied before the shift. *)
CrcBitXorFirst(crc) ==
  IF BitOf(crc, 0) = 1 THEN ShiftRight1(XorWord(crc, Poly)) ELSE ShiftRight1(crc)

(* One iteration of the inner loop: shift right, XOR-ing in 0xEDB88320     *)
(* when the bit shifted out is 1.                                          *)
CrcBit(crc) ==
  IF BitOf(crc, 0) = 1 THEN XorWord(ShiftRight1(crc), Poly) ELSE ShiftRight1(crc)

(* The inner loop, j iterations left (a recursive function, so that each  *)
(* intermediate register is evaluated before the next step).              *)
CrcBits[crc \in Word, j \in 0 .. 8] ==
  IF j = 0 THEN crc ELSE CrcBits[CrcBit(crc), j - 1]

(* crc ^= p[i], then the message byte is processed bit by bit. *)
CrcByte(crc, b) == CrcBits[XorWord(crc, WordOf(b)), 8]

(* The outer loop over the bytes. *)
CrcFrom[crc \in Word, data \in Seq(Byte)] ==
  IF data = << >> THEN crc ELSE CrcFrom[CrcByte(crc, Head(data)), Tail(data)]

(* The CRC preset value 0xFFFFFFFF; no final inversion. *)
CalcCrc(data) == CrcFrom[AllOnes, data]

-----------------------------------------------------------------------------
(***************************************************************************)
(* Reference: the same CRC defined by polynomial arithmetic over GF(2).    *)
(* The message bits, each byte least significant bit first, are the        *)
(* coefficients of M(x) from the highest degree down; the register is      *)
(* (x^32 * M(x) + x^(8n) * I(x)) mod G(x), with I(x) the all-ones preset   *)
(* of degree 31 and G(x) = 0x104C11DB7; register bit j is the coefficient  *)
(* of x^(31-j). Polynomials are sequences of bits, highest degree first.   *)
(***************************************************************************)
GenPoly == << 1, 0,0,0,0, 0,1,0,0, 1,1,0,0, 0,0,0,1, 0,0,0,1,
              1,1,0,1, 1,0,1,1, 0,1,1,1 >>

MessagePoly(data) ==
  [k \in 1 .. 8 * Len(data) |-> (data[(k - 1) \div 8 + 1] \div (2 ^ ((k - 1) % 8))) % 2]

ZeroBits(n) == [k \in 1 .. n |-> 0]

(* x^32 * M(x) + x^(8n) * I(x): the first 32 coefficients inverted. *)
Dividend(data) ==
  LET d == MessagePoly(data) \o ZeroBits(32)
  IN [k \in 1 .. Len(d) |-> IF k <= 32 THEN 1 - d[k] ELSE d[k]]

(* Long division: cancel the leading coefficient until 32 remain. *)
RECURSIVE PolyMod(_)
PolyMod(d) ==
  IF Len(d) = 32 THEN d
  ELSE LET r == IF d[1] = 1
                THEN [k \in 1 .. Len(d) |->
                        IF k <= 33 THEN (d[k] + GenPoly[k]) % 2 ELSE d[k]]
                ELSE d
       IN PolyMod(Tail(r))

(* The value of a bit sequence, least significant bit first. *)
RECURSIVE BitsValue(_)
BitsValue(bits) == IF bits = << >> THEN 0 ELSE bits[1] + 2 * BitsValue(Tail(bits))

(* The reference register's bits, bit 0 first. *)
CrcReferenceBits(data) == PolyMod(Dividend(data))

CrcReference(data) ==
  LET r == CrcReferenceBits(data)
  IN [hi |-> BitsValue(SubSeq(r, 17, 32)), lo |-> BitsValue(SubSeq(r, 1, 16))]

=============================================================================

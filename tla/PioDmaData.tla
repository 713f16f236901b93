----------------------------- MODULE PioDmaData -----------------------------
(***************************************************************************)
(* What the DMA controller does to the data it moves (pio_dma.c): elements *)
(* of one, two or four bytes assembled little-endian from memory, swapped, *)
(* fed to the sniffer and written back.  A byte has BYTE_BITS bits and a   *)
(* word four bytes, so that sub-word elements and every CRC width exist at *)
(* any width.                                                              *)
(***************************************************************************)
EXTENDS PioWord, Sequences

CONSTANTS BYTE_BITS,                        \* 8
          POLY32, POLY32R, POLY16, POLY16R  \* CRC polynomials, as words

ASSUME ByteAssumption ==
    /\ BYTE_BITS \in Nat \ {0} /\ WORD_BITS = 4 * BYTE_BITS
    /\ {POLY32, POLY32R, POLY16, POLY16R} \subseteq Words

Bytes == [0 .. BYTE_BITS - 1 -> BOOLEAN]

Xor(v, w) == [i \in BitIdx |-> v[i] # w[i]]
Plus(v, w) == W((LowBits(v, WORD_BITS) + LowBits(w, WORD_BITS)) % 2^WORD_BITS)

(* The low bytes of a word from memory at a, and back.                     *)
Assemble(mem, a, bytes) ==
    [i \in BitIdx |-> i < bytes * BYTE_BITS /\ mem[a + (i \div BYTE_BITS)][i % BYTE_BITS]]
Disperse(mem, a, bytes, v) ==
    [x \in DOMAIN mem |->
       IF x \in a .. a + bytes - 1
       THEN [j \in 0 .. BYTE_BITS - 1 |-> v[(x - a) * BYTE_BITS + j]]
       ELSE mem[x]]

(* Faulty variant: a halfword is swapped as a word.                        *)
dma_bswap_word(v, bytes) ==
    [i \in BitIdx |-> v[(3 - (i \div BYTE_BITS)) * BYTE_BITS + (i % BYTE_BITS)]]

(* A single byte is passed through whole.                                  *)
dma_bswap(v, bytes) ==
    IF bytes = 1 THEN v
    ELSE [i \in BitIdx |->
            /\ i < bytes * BYTE_BITS
            /\ v[(bytes - 1 - (i \div BYTE_BITS)) * BYTE_BITS + (i % BYTE_BITS)]]

-----------------------------------------------------------------------------
(* CRC registers.                                                          *)

ByteOf(v, k) == mask_n(Shr(v, BYTE_BITS * k), BYTE_BITS)

crc_update_msb(crc, byte, poly, width) ==
    LET r[b \in 0 .. BYTE_BITS] ==
          IF b = 0 THEN Xor(crc, Shl(byte, width - BYTE_BITS))
          ELSE LET p == r[b - 1]
               IN  IF p[width - 1] THEN Xor(Shl(p, 1), poly) ELSE Shl(p, 1)
    IN  mask_n(r[BYTE_BITS], width)

crc_update_lsb(crc, byte, poly) ==
    LET r[b \in 0 .. BYTE_BITS] ==
          IF b = 0 THEN Xor(crc, byte)
          ELSE LET p == r[b - 1]
               IN  IF p[0] THEN Xor(Shr(p, 1), poly) ELSE Shr(p, 1)
    IN  r[BYTE_BITS]

(* The bytes of an element go in from the lowest up.                       *)
CrcBytes(crc, value, bytes, Update(_, _)) ==
    LET r[k \in 0 .. bytes] ==
          IF k = 0 THEN crc ELSE Update(r[k - 1], ByteOf(value, k - 1))
    IN  r[bytes]

HALF == 2 * BYTE_BITS

(* Faulty variant: the bytes above the element are not masked off.         *)
dma_sniff_unmasked(calc, data, value, bytes) ==
    CASE calc = "CRC32" ->
           CrcBytes(data, value, bytes, LAMBDA c, b : crc_update_msb(c, b, POLY32, WORD_BITS))
      [] calc = "CRC32R" ->
           CrcBytes(data, value, bytes, LAMBDA c, b : crc_update_lsb(c, b, POLY32R))
      [] calc = "CRC16" ->
           CrcBytes(data, value, bytes, LAMBDA c, b : crc_update_msb(c, b, POLY16, HALF))
      [] calc = "CRC16R" ->
           CrcBytes(data, value, bytes,
                    LAMBDA c, b : crc_update_lsb(mask_n(c, HALF), b, POLY16R))
      [] calc = "EVEN" -> Xor(data, value)
      [] OTHER -> Plus(data, value)

dma_sniff(calc, data, value, bytes) ==
    CASE calc = "CRC32" ->
           CrcBytes(data, value, bytes, LAMBDA c, b : crc_update_msb(c, b, POLY32, WORD_BITS))
      [] calc = "CRC32R" ->
           CrcBytes(data, value, bytes, LAMBDA c, b : crc_update_lsb(c, b, POLY32R))
      [] calc = "CRC16" ->
           CrcBytes(data, value, bytes, LAMBDA c, b : crc_update_msb(c, b, POLY16, HALF))
      [] calc = "CRC16R" ->
           CrcBytes(data, value, bytes,
                    LAMBDA c, b : crc_update_lsb(mask_n(c, HALF), b, POLY16R))
      [] calc = "EVEN" -> Xor(data, mask_n(value, bytes * BYTE_BITS))
      [] OTHER -> Plus(data, mask_n(value, bytes * BYTE_BITS))

pio_dma_sniffer_get_data_accumulator(s) ==
    LET v == IF s.out_rev THEN pio_reverse32(s.data) ELSE s.data
    IN  IF s.out_inv THEN Not(v) ELSE v
============================================================================

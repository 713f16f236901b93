----------------------------- MODULE PioEncode -----------------------------
(***************************************************************************)
(* The 16-bit instruction word: the encoders the assembler and a host use, *)
(* and the fields the engine's handlers read back out of it.               *)
(*                                                                         *)
(*     15  13 12            8 7     5 4       0                            *)
(*     opcode  delay/side-set  arg 1   arg 2                               *)
(*                                                                         *)
(* Operands that are names in the source (a register, a condition, a wait  *)
(* source) are strings here, and the tables give their codes.              *)
(***************************************************************************)
EXTENDS Integers

CondField == [ALWAYS |-> 0, NOTX |-> 1, XDEC |-> 2, NOTY |-> 3, YDEC |-> 4,
              XNEY |-> 5, PIN |-> 6, NOTOSRE |-> 7]
SrcField  == [PINS |-> 0, X |-> 1, Y |-> 2, NULL |-> 3, STATUS |-> 5,
              ISR |-> 6, OSR |-> 7]
OutDst    == [PINS |-> 0, X |-> 1, Y |-> 2, NULL |-> 3, PINDIRS |-> 4,
              PC |-> 5, ISR |-> 6, EXEC |-> 7]
MovDst    == [PINS |-> 0, X |-> 1, Y |-> 2, PINDIRS |-> 3, EXEC |-> 4,
              PC |-> 5, ISR |-> 6, OSR |-> 7]
SetDst    == [PINS |-> 0, X |-> 1, Y |-> 2, PINDIRS |-> 4]
WaitField == [GPIO |-> 0, PIN |-> 1, IRQ |-> 2, JMPPIN |-> 3]
MovOps    == [NONE |-> 0, INVERT |-> 1, REVERSE |-> 2]

(* Bits [4:3] of an IRQ index select the flag's block and the SM-relative  *)
(* form.                                                                   *)
IrqMode   == [SELF |-> 0, PREV |-> 1, REL |-> 2, NEXT |-> 3]

Bit(b) == IF b THEN 1 ELSE 0
NameOf(table, code) ==
    IF \E n \in DOMAIN table : table[n] = code
    THEN CHOOSE n \in DOMAIN table : table[n] = code
    ELSE "RESERVED"

-----------------------------------------------------------------------------
(* Encoders: every argument is masked to the width of its field.           *)

Opcode(op, arg1, arg2) == op * 8192 + (arg1 % 8) * 32 + (arg2 % 32)

pio_sim_encode_jmp(cond, addr)  == Opcode(0, cond, addr)
pio_sim_encode_wait(pol, source, index) ==
    Opcode(1, (pol % 2) * 4 + (source % 4), index)
pio_sim_encode_in(src, cnt)     == Opcode(2, src, cnt)
pio_sim_encode_out(dest, cnt)   == Opcode(3, dest, cnt)
pio_sim_encode_push(iffull, block)  == Opcode(4, Bit(iffull) * 2 + Bit(block), 0)
pio_sim_encode_pull(ifempty, block) ==
    Opcode(4, 4 + Bit(ifempty) * 2 + Bit(block), 0)
pio_sim_encode_mov_rxfifo(get, literal, idx) ==
    Opcode(4, 4 * Bit(get), 16 + (IF literal THEN 8 + (idx % 4) ELSE 0))
pio_sim_encode_mov(dest, op, src) == Opcode(5, dest, (op % 4) * 8 + (src % 8))
pio_sim_encode_irq(clr, wait, field) ==
    Opcode(6, Bit(clr) * 2 + Bit(wait), field)
pio_sim_encode_set(dest, value) == Opcode(7, dest, value)
pio_sim_encode_nop == pio_sim_encode_mov(SetDst["Y"], MovOps["NONE"], SrcField["Y"])

-----------------------------------------------------------------------------
(* What the engine reads: exec_one splits the word, every handler its own  *)
(* operand byte.                                                           *)

IrqOperand(field) ==
    [mode |-> NameOf(IrqMode, field \div 8), idx |-> field % 8]
Count(field) == IF field = 0 THEN 32 ELSE field

DecodeOperand(op, operand) ==
    LET arg1 == operand \div 32
        arg2 == operand % 32
        src  == NameOf(WaitField, arg1 % 4)
    IN  CASE op = 0 -> [op |-> "JMP", cond |-> NameOf(CondField, arg1), n |-> arg2]
          [] op = 1 -> [op |-> "WAIT", pol |-> arg1 \div 4, src |-> src,
                        mode |-> IF src = "IRQ" THEN IrqOperand(arg2).mode ELSE "SELF",
                        n |-> IF src = "IRQ" THEN IrqOperand(arg2).idx ELSE arg2]
          [] op = 2 -> [op |-> "IN", src |-> NameOf(SrcField, arg1), n |-> Count(arg2)]
          [] op = 3 -> [op |-> "OUT", dst |-> NameOf(OutDst, arg1), n |-> Count(arg2)]
          [] op = 4 /\ arg2 >= 16 ->
               [op |-> "MOVRX", get |-> arg1 >= 4, literal |-> (arg2 \div 8) % 2 = 1,
                n |-> arg2 % 4]
          [] op = 4 /\ arg2 < 16 ->
               [op |-> IF arg1 >= 4 THEN "PULL" ELSE "PUSH",
                cond |-> (arg1 \div 2) % 2 = 1, block |-> arg1 % 2 = 1]
          [] op = 5 -> [op |-> "MOV", dst |-> NameOf(MovDst, arg1),
                        mop |-> NameOf(MovOps, arg2 \div 8),
                        src |-> NameOf(SrcField, arg2 % 8)]
          [] op = 6 -> [op |-> "IRQ", clr |-> (arg1 \div 2) % 2 = 1, wait |-> arg1 % 2 = 1,
                        mode |-> IrqOperand(arg2).mode, n |-> IrqOperand(arg2).idx]
          [] op = 7 -> [op |-> "SET", dst |-> NameOf(SetDst, arg1), n |-> arg2]

(* The delay/side-set field under a state machine's side-set width (which  *)
(* counts the enable bit) and its optional flag.                           *)
sideset_total(bits) == IF bits > 5 THEN 5 ELSE bits

decode_delay_sideset(bits, opt, field) ==
    LET total == sideset_total(bits)
        delay_bits == 5 - total
        data_bits == IF opt /\ total > 0 THEN total - 1 ELSE total
    IN  [delay |-> field % 2^delay_bits,
         side_en |-> IF total > 0 /\ opt THEN (field \div 16) % 2 = 1 ELSE ~opt,
         side_val |-> IF total = 0 THEN 0
                      ELSE (field \div 2^delay_bits) % 2^data_bits]

Decode(word, bits, opt) ==
    [what |-> DecodeOperand(word \div 8192, word % 256),
     ds   |-> decode_delay_sideset(bits, opt, (word \div 256) % 32)]
============================================================================

---------------------------- MODULE PioAsmInsn ----------------------------
(***************************************************************************)
(* One instruction line of the assembler: the operands resolved, checked   *)
(* against the width of their field and encoded, then the delay/side-set   *)
(* modifiers packed into bits [12:8].                                      *)
(*                                                                         *)
(* An instruction of the source is a record: op, the names of its operands *)
(* as strings, its numeric operand an expression e (<<>> when it is        *)
(* missing), and mods, the sequence of its "side" and "delay" modifiers.   *)
(* Every operator returns [ok, v, ctx].                                    *)
(***************************************************************************)
EXTENDS PioAsmExpr, PioEncode

CONSTANT PIO_SIM_PIO_VERSION    \* what the library is built for (1: RP2350)

ASSUME VersionAssumption == PIO_SIM_PIO_VERSION = 1

EffectiveVersion(prog) ==
    IF prog.pio_version >= 0 THEN prog.pio_version ELSE PIO_SIM_PIO_VERSION
require_prog_version(prog, need) == EffectiveVersion(prog) >= need

(* The word when the operands pass the checks, else the error.             *)
Emit(ok, ctx, msg, word) ==
    IF ok THEN [ok |-> TRUE, v |-> word, ctx |-> ctx]
    ELSE [ok |-> FALSE, v |-> 0, ctx |-> pa_set_error(ctx, <<msg, "">>)]

ResolveOr(ctx, s, default) ==
    IF s = <<>> THEN [ok |-> TRUE, v |-> default, ctx |-> ctx] ELSE resolve_uint(ctx, s)

(* The number is resolved only when the operand named before it is known.  *)
NameKnown(i) ==
    /\ i.op = "IN" => i.src \in DOMAIN SrcField
    /\ i.op = "OUT" => i.dst \in DOMAIN OutDst
    /\ i.op = "SET" => i.dst \in DOMAIN SetDst
NumberOf(ctx, i) ==
    IF NameKnown(i) THEN resolve_uint(ctx, i.e) ELSE [ok |-> FALSE, v |-> 0, ctx |-> ctx]

-----------------------------------------------------------------------------

enc_jmp(r, i) ==
    Emit(r.ok /\ r.v <= 31, r.ctx, "jmp", pio_sim_encode_jmp(CondField[i.cond], r.v))

(* rel excludes prev and next, which need PIO version 1; in an IRQ word    *)
(* that names both, prev wins.                                             *)
ModesLegal(prog, modes) ==
    /\ "REL" \in modes => modes \cap {"PREV", "NEXT"} = {}
    /\ modes \cap {"PREV", "NEXT"} # {} => require_prog_version(prog, 1)
ModeOf(modes) ==
    CASE "REL" \in modes -> "REL" [] "PREV" \in modes -> "PREV"
      [] "NEXT" \in modes -> "NEXT" [] OTHER -> "SELF"
IrqField(modes, idx) == IrqMode[ModeOf(modes)] * 8 + (idx % 8)

WaitIndexLegal(prog, i, idx) ==
    CASE i.src = "JMPPIN" -> require_prog_version(prog, 1) /\ idx <= 3
      [] i.src = "IRQ" -> idx <= 7 /\ ModesLegal(prog, i.modes)
      [] OTHER -> idx <= 31

WaitIndex(pol, prog, i, r) ==
    Emit(r.ok /\ WaitIndexLegal(prog, i, r.v), r.ctx, "wait index",
         pio_sim_encode_wait(pol, WaitField[i.src],
                             IF i.src = "IRQ" THEN IrqField(i.modes, r.v) ELSE r.v))

enc_wait(pol, prog, i) ==
    IF ~pol.ok \/ pol.v > 1 \/ i.src \notin DOMAIN WaitField
    THEN Emit(FALSE, pol.ctx, "wait polarity", 0)
    ELSE WaitIndex(pol.v, prog, i,
                   IF i.src = "JMPPIN" /\ i.e = <<>> THEN [pol EXCEPT !.v = 0]
                   ELSE resolve_uint(pol.ctx, i.e))

(* A count of 32 is encoded as 0.                                          *)
enc_in(r, i) ==
    Emit(r.ok /\ r.v \in 1 .. 32, r.ctx, "in", pio_sim_encode_in(SrcField[i.src], r.v % 32))
enc_out(r, i) ==
    Emit(r.ok /\ r.v \in 1 .. 32, r.ctx, "out", pio_sim_encode_out(OutDst[i.dst], r.v % 32))
enc_set(r, i) ==
    Emit(r.ok /\ r.v <= 31, r.ctx, "set", pio_sim_encode_set(SetDst[i.dst], r.v))

enc_irq(r, prog, i) ==
    Emit(r.ok /\ r.v <= 7 /\ ModesLegal(prog, i.modes), r.ctx, "irq",
         pio_sim_encode_irq(i.clr, i.wait, IrqField(i.modes, r.v)))

enc_push(ctx, i) == Emit(TRUE, ctx, "", pio_sim_encode_push(i.cond, i.block))
enc_pull(ctx, i) == Emit(TRUE, ctx, "", pio_sim_encode_pull(i.cond, i.block))

(* An indexed RX FIFO move needs the matching .fifo mode.                  *)
RxJoins(get) == IF get THEN {"RX_GET", "RX_PUTGET"} ELSE {"RX_PUT", "RX_PUTGET"}
enc_mov_rxfifo(ctx, prog, i) ==
    Emit(/\ require_prog_version(prog, 1)
         /\ i.literal => i.n <= 3
         /\ prog.fifo_join \in RxJoins(i.get),
         ctx, "mov rxfifo", pio_sim_encode_mov_rxfifo(i.get, i.literal, i.n))

enc_mov(ctx, prog, i) ==
    Emit(/\ i.dst = "PINDIRS" => require_prog_version(prog, 1)
         /\ i.dst \in DOMAIN MovDst /\ i.src \in DOMAIN SrcField,
         ctx, "mov", pio_sim_encode_mov(MovDst[i.dst], MovOps[i.mop], SrcField[i.src]))

EncodeNumber(r, prog, i) ==
    CASE i.op = "JMP" -> enc_jmp(r, i)
      [] i.op = "IN"  -> enc_in(r, i)
      [] i.op = "OUT" -> enc_out(r, i)
      [] i.op = "IRQ" -> enc_irq(r, prog, i)
      [] i.op = "SET" -> enc_set(r, i)

encode_mnemonic(ctx, prog, i) ==
    CASE i.op = "NOP"  -> Emit(TRUE, ctx, "", pio_sim_encode_nop)
      [] i.op = "WAIT" -> enc_wait(ResolveOr(ctx, i.pol, 1), prog, i)
      [] i.op = "PUSH" -> enc_push(ctx, i)
      [] i.op = "PULL" -> enc_pull(ctx, i)
      [] i.op = "MOVRX" -> enc_mov_rxfifo(ctx, prog, i)
      [] i.op = "MOV"  -> enc_mov(ctx, prog, i)
      [] i.op \in {"JMP", "IN", "OUT", "IRQ", "SET"} ->
           EncodeNumber(NumberOf(ctx, i), prog, i)
      [] OTHER -> Emit(FALSE, ctx, "mnemonic", 0)

-----------------------------------------------------------------------------
(* Modifiers come off the end of the line one by one, in any order, so the *)
(* leftmost of two of a kind is the one that stays.                        *)

TakeMod(m, r, x) ==
    IF ~r.ok THEN [x EXCEPT !.ok = FALSE, !.ctx = pa_set_error(r.ctx, <<m.m, "">>)]
    ELSE IF m.m = "delay" THEN [x EXCEPT !.ctx = r.ctx, !.delay = r.v]
    ELSE [x EXCEPT !.ctx = r.ctx, !.side = <<r.v>>]

extract_side_delay(ctx, mods) ==
    FoldRight(LAMBDA m, x : IF x.ok THEN TakeMod(m, resolve_uint(x.ctx, m.e), x) ELSE x,
              mods, [ok |-> TRUE, ctx |-> ctx, delay |-> 0, side |-> <<>>])

(* Faulty variant: the largest side-set value is refused.                  *)
FieldLegal_below(total, opt, delay, side) ==
    /\ delay <= 2^(5 - total) - 1
    /\ total = 0 => side = <<>>
    /\ total > 0 /\ ~opt => side # <<>>
    /\ side # <<>> => side[1] < 2^(IF opt THEN total - 1 ELSE total) - 1

(* side is <<>> or <<value>>; total counts the enable bit of optional      *)
(* side-set, which is bit 4 of the field.                                  *)
FieldLegal(total, opt, delay, side) ==
    /\ delay <= 2^(5 - total) - 1
    /\ total = 0 => side = <<>>
    /\ total > 0 /\ ~opt => side # <<>>
    /\ side # <<>> => side[1] <= 2^(IF opt THEN total - 1 ELSE total) - 1

(* Faulty variant: the enable bit of optional side-set counted twice.      *)
PackField_enable_twice(total, opt, delay, side) ==
    delay + (IF side = <<>> THEN 0
             ELSE side[1] * 2^(5 - total + (IF opt THEN 1 ELSE 0)) + (IF opt THEN 16 ELSE 0))
PackField(total, opt, delay, side) ==
    delay + (IF side = <<>> THEN 0
             ELSE side[1] * 2^(5 - total) + (IF opt THEN 16 ELSE 0))

pack_delay_sideset(ctx, prog, x) ==
    LET total == sideset_total(prog.sideset_bits)
    IN  Emit(FieldLegal(total, prog.sideset_opt, x.delay, x.side), ctx, "delay/side",
             PackField(total, prog.sideset_opt, x.delay, x.side))

WithField(base, ds) ==
    [ok |-> ds.ok, v |-> base + ds.v * 256, ctx |-> ds.ctx]

PackInto(base, prog, x) ==
    IF base.ok THEN WithField(base.v, pack_delay_sideset(base.ctx, prog, x)) ELSE base

AssembleWith(x, prog, i) ==
    IF x.ok THEN PackInto(encode_mnemonic(x.ctx, prog, i), prog, x)
    ELSE [ok |-> FALSE, v |-> 0, ctx |-> x.ctx]

assemble_insn(ctx, prog, i) == AssembleWith(extract_side_delay(ctx, i.mods), prog, i)
============================================================================

------------------------------- MODULE PioAsm -------------------------------
(***************************************************************************)
(* pio_asm_assemble: three passes over the same source lines.  Pass 0      *)
(* records labels and declares defines, pass 1 applies the directives,     *)
(* pass 2 emits the words.  Every pass counts instruction slots again, so  *)
(* the label of pass 0, the wrap point of pass 1 and the word of pass 2    *)
(* belong together only if the passes agree on every line.                 *)
(*                                                                         *)
(* A source line is a record with a kind k.  Pass 0 picks the lines one at *)
(* a time from what the job offers at that position and may stop after any *)
(* of them; passes 1 and 2 read the same lines again.  name is the program *)
(* to select ("" for the first).                                           *)
(***************************************************************************)
EXTENDS PioAsmInsn

CONSTANTS Jobs,           \* sequence of [name, calls: host calls after the
                          \* assembly, lines: a sequence of sets of lines]
          INSN_COUNT,     \* words of instruction memory (32)
          MAX_LABELS,     \* label table (32)
          MAX_DEFINES,    \* define table (32)
          MAX_PUBLIC      \* exported labels (8)

ASSUME TableAssumption ==
    /\ INSN_COUNT \in 1 .. 32
    /\ MAX_LABELS \in Nat \ {0} /\ MAX_DEFINES \in Nat \ {0} /\ MAX_PUBLIC \in Nat \ {0}

VARIABLES job,      \* which of the Jobs is assembled
          src,      \* the lines read so far
          pass,     \* 0, 1, 2; 3 when pio_asm_assemble has returned true
          at,       \* lines read in this pass
          ps,       \* pa_parse_state_t
          ctx,      \* asm_ctx_t, with the error fields of the output
          prog      \* pio_program_t

asmVars == <<job, src, pass, at, ps, ctx, prog>>

UNSET == 255        \* the sentinel of wrap_top

FreshParse == [in_program |-> FALSE, done_selected |-> FALSE, in_verbatim |-> FALSE,
               in_block_comment |-> FALSE, seen_any_program |-> FALSE, idx |-> 0]
FreshContext == [labels |-> <<>>, defs |-> <<>>, line_no |-> 0,
                 ok |-> TRUE, error |-> <<"", "">>, error_line |-> 0]
FreshProgram ==
    [insns |-> [a \in 0 .. INSN_COUNT - 1 |-> 0], count |-> 0,
     sideset_bits |-> 0, sideset_opt |-> FALSE, sideset_pindirs |-> FALSE,
     wrap_bottom |-> 0, wrap_top |-> UNSET, publics |-> <<>>,
     origin |-> <<>>, pio_version |-> -1, clock_div |-> <<>>,
     fifo_join |-> "NONE", has_fifo_join |-> FALSE, mov_status |-> <<>>,
     in_cfg |-> <<>>, out_cfg |-> <<>>, set_cfg |-> <<>>]

AsmInit ==
    /\ job \in DOMAIN Jobs /\ src = <<>> /\ pass = 0 /\ at = 0
    /\ ps = FreshParse /\ ctx = FreshContext /\ prog = FreshProgram

-----------------------------------------------------------------------------
(* run_pass: read one line.  An error ends the assembly.                   *)

Scanning == pass < 3 /\ ctx.ok /\ ~ps.done_selected

LinesHere ==
    IF pass > 0 THEN {src[k] : k \in {at + 1} \cap (1 .. Len(src))}
    ELSE UNION {Jobs[job].lines[k] : k \in {at + 1} \cap (1 .. Len(Jobs[job].lines))}

Read(l) ==
    /\ at' = at + 1
    /\ src' = IF pass = 0 THEN Append(src, l) ELSE src
    /\ UNCHANGED <<job, pass>>

Here == [ctx EXCEPT !.line_no = at + 1]
Visible == ~ps.in_verbatim /\ ~ps.in_block_comment
InBody == Visible /\ ps.in_program

(* strip_block_comments: an open block hides everything to its end.        *)
Comment(l) ==
    /\ \/ ps.in_block_comment
       \/ Visible /\ l.k = "comment_open"
    /\ ps' = [ps EXCEPT !.in_block_comment = (l.k # "comment_close")]
    /\ ctx' = Here
    /\ Read(l) /\ UNCHANGED prog

(* A line that starts with % opens a verbatim block, whatever follows; one *)
(* with a closing brace ends it.                                           *)
Verbatim(l) ==
    /\ \/ ps.in_verbatim /\ ps' = [ps EXCEPT !.in_verbatim = (l.k # "verbatim_close")]
       \/ /\ Visible /\ l.k \in {"verbatim_open", "verbatim_close"}
          /\ ps' = [ps EXCEPT !.in_verbatim = TRUE]
    /\ ctx' = Here
    /\ Read(l) /\ UNCHANGED prog

(* .program: the selected one begins; the next one after it ends the pass. *)
SelectProgram(l) ==
    /\ Visible /\ l.k = "program"
    /\ ps' = IF ps.seen_any_program /\ ps.in_program
             THEN [ps EXCEPT !.done_selected = TRUE]
             ELSE [ps EXCEPT !.seen_any_program = TRUE, !.idx = 0,
                             !.in_program = (Jobs[job].name = "" \/ l.name = Jobs[job].name)]
    /\ ctx' = Here
    /\ Read(l) /\ UNCHANGED prog

declare_define(c, l) ==
    [c EXCEPT !.defs = Append(@, [name |-> l.name, expr |-> l.e, value |-> 0,
                                  line |-> c.line_no, resolved |-> FALSE,
                                  visiting |-> FALSE])]

(* .define, before the in_program gate: a non-public one of another        *)
(* program is skipped, any other joins the one namespace.                  *)
Define(l) ==
    /\ Visible /\ l.k = "define"
    /\ ctx' = IF pass # 0 \/ (~l.public /\ ps.seen_any_program /\ ~ps.in_program)
              THEN Here
              ELSE IF l.e = <<>> THEN pa_set_error(Here, <<"bad define", "">>)
              ELSE IF define_declared(ctx, l.name) \/ find_label(ctx, l.name) >= 0
              THEN pa_set_error(Here, <<"duplicate", l.name>>)
              ELSE IF Len(ctx.defs) >= MAX_DEFINES
              THEN pa_set_error(Here, <<"too many defines", "">>)
              ELSE declare_define(Here, l)
    /\ Read(l) /\ UNCHANGED <<ps, prog>>

(* Outside the selected program every other line is passed over.           *)
SkipLine(l) ==
    /\ Visible /\ ~ps.in_program
    /\ l.k \notin {"program", "define", "comment_open", "verbatim_open", "verbatim_close"}
    /\ ctx' = Here
    /\ Read(l) /\ UNCHANGED <<ps, prog>>

-----------------------------------------------------------------------------
(* Directives of the selected program.                                     *)

WrapTarget(l) ==
    /\ InBody /\ l.k = "wrap_target"
    /\ prog' = IF pass = 1 THEN [prog EXCEPT !.wrap_bottom = ps.idx] ELSE prog
    /\ ctx' = Here
    /\ Read(l) /\ UNCHANGED ps

Wrap(l) ==
    /\ InBody /\ l.k = "wrap"
    /\ IF pass = 1 /\ (ps.idx = 0 \/ prog.wrap_top # UNSET)
       THEN ctx' = pa_set_error(Here, <<"wrap", "">>) /\ UNCHANGED prog
       ELSE /\ ctx' = Here
            /\ prog' = IF pass = 1 THEN [prog EXCEPT !.wrap_top = ps.idx - 1] ELSE prog
    /\ Read(l) /\ UNCHANGED ps

(* Faulty variant: pass 0 does not count a .word.                          *)
Slot_word_uncounted(l, c, r) ==
    /\ IF ps.idx >= INSN_COUNT
       THEN ctx' = pa_set_error(c, <<"too long", "">>) /\ UNCHANGED <<ps, prog>>
       ELSE IF pass = 2 /\ ~r.ok THEN ctx' = r.ctx /\ UNCHANGED <<ps, prog>>
       ELSE /\ ctx' = IF pass = 2 THEN r.ctx ELSE c
            /\ ps' = [ps EXCEPT !.idx = @ + (IF pass = 0 /\ l.k = "word" THEN 0 ELSE 1)]
            /\ prog' = IF pass = 2 THEN [prog EXCEPT !.insns[ps.idx] = r.v] ELSE prog
    /\ Read(l)

(* .word and an instruction occupy a slot in every pass; the value is      *)
(* resolved in pass 2 only.                                                *)
Slot(l, c, r) ==
    /\ IF ps.idx >= INSN_COUNT
       THEN ctx' = pa_set_error(c, <<"too long", "">>) /\ UNCHANGED <<ps, prog>>
       ELSE IF pass = 2 /\ ~r.ok THEN ctx' = r.ctx /\ UNCHANGED <<ps, prog>>
       ELSE /\ ctx' = IF pass = 2 THEN r.ctx ELSE c
            /\ ps' = [ps EXCEPT !.idx = @ + 1]
            /\ prog' = IF pass = 2 THEN [prog EXCEPT !.insns[ps.idx] = r.v] ELSE prog
    /\ Read(l)

WordOf(r) == Emit(r.ok /\ r.v < 2^16, r.ctx, "word", r.v)

Word(l) ==
    /\ InBody /\ l.k = "word"
    /\ Slot(l, Here, WordOf(resolve_uint(Here, l.e)))

(* The directives that only describe the program: pass 1, one operand r    *)
(* resolved and checked, then stored.  What a refused directive leaves     *)
(* behind in the output of a failed assembly is not kept.                  *)
NoOperand == [ok |-> TRUE, v |-> 0, ctx |-> Here]

Describe(l, r, legal, p) ==
    /\ IF pass = 1 /\ ~(r.ok /\ legal)
       THEN ctx' = pa_set_error(r.ctx, <<"directive", l.k>>) /\ UNCHANGED prog
       ELSE IF pass = 1 THEN ctx' = r.ctx /\ prog' = p
       ELSE ctx' = Here /\ UNCHANGED prog
    /\ Read(l) /\ UNCHANGED ps

Opt(b) == IF b THEN 1 ELSE 0

SideSet(l, r) ==
    Describe(l, r, r.v <= 5 /\ r.v + Opt(l.opt) <= 5,
             [prog EXCEPT !.sideset_bits = r.v + Opt(l.opt), !.sideset_opt = l.opt,
                          !.sideset_pindirs = l.pindirs])

Origin(l, r) == Describe(l, r, r.v < INSN_COUNT, [prog EXCEPT !.origin = <<r.v>>])

PioVersion(l, r) ==
    Describe(l, r, r.v <= 1 /\ r.v <= PIO_SIM_PIO_VERSION, [prog EXCEPT !.pio_version = r.v])

Fifo(l, r) ==
    Describe(l, r, l.join \in {"RX_PUT", "RX_GET", "RX_PUTGET"} => require_prog_version(prog, 1),
             [prog EXCEPT !.fifo_join = l.join, !.has_fifo_join = TRUE])

ClockDiv(l, r) == Describe(l, r, l.div >= 0, [prog EXCEPT !.clock_div = <<l.div>>])

(* The source is checked before its level is resolved.                     *)
StatusLegal(l) ==
    /\ l.sel \in {"IRQ_SET_NEXT", "IRQ_SET_PREV"} => require_prog_version(prog, 1)
    /\ l.marker
MovStatus(l, r) ==
    Describe(l, IF StatusLegal(l) THEN r ELSE NoOperand, StatusLegal(l) /\ r.v <= 31,
             [prog EXCEPT !.mov_status = <<[sel |-> l.sel, n |-> r.v]>>])

(* .in and .out: a count, a direction, auto or manual, and a threshold.    *)
ShiftCount(l, n) ==
    /\ n <= 32
    /\ l.k = "in" => IF EffectiveVersion(prog) = 0 THEN n = 32 ELSE n # 0

ShiftConfig(l, n, thresh) ==
    LET c == <<[count |-> n, right |-> l.right, auto |-> l.auto, thresh |-> thresh]>>
    IN  IF l.k = "in" THEN [prog EXCEPT !.in_cfg = c] ELSE [prog EXCEPT !.out_cfg = c]

ShiftThreshold(l, n, t) == Describe(l, t, t.v <= 32, ShiftConfig(l, n, t.v))
ShiftDir(l, r) ==
    ShiftThreshold(l, r.v, IF r.ok /\ ShiftCount(l, r.v) THEN ResolveOr(r.ctx, l.thresh, 32)
                           ELSE [r EXCEPT !.ok = FALSE])

SetCount(l, r) == Describe(l, r, r.v <= 5, [prog EXCEPT !.set_cfg = <<r.v>>])

Numbered(l, r) ==
    \/ l.k = "side_set" /\ SideSet(l, r)
    \/ l.k = "origin" /\ Origin(l, r)
    \/ l.k = "pio_version" /\ PioVersion(l, r)
    \/ l.k = "mov_status" /\ MovStatus(l, r)
    \/ l.k \in {"in", "out"} /\ ShiftDir(l, r)
    \/ l.k = "set" /\ SetCount(l, r)

Metadata(l) ==
    /\ InBody
    /\ \/ l.k = "fifo" /\ Fifo(l, NoOperand)
       \/ l.k = "clock_div" /\ ClockDiv(l, NoOperand)
       \/ /\ l.k \in {"side_set", "origin", "pio_version", "mov_status", "in", "out", "set"}
          /\ Numbered(l, resolve_uint(Here, l.e))

-----------------------------------------------------------------------------
(* A code line: a label, an instruction, or both.  label is <<>> or        *)
(* <<[name, public]>>, insn is <<>> or <<instruction>>.                    *)

(* Faulty variant: the table bound is off by one.                          *)
handle_label_one_more(c, label) ==
    IF label = <<>> \/ pass # 0 THEN c
    ELSE IF Len(c.labels) > MAX_LABELS THEN pa_set_error(c, <<"too many labels", "">>)
    ELSE IF find_label(c, label[1].name) >= 0 \/ define_declared(c, label[1].name)
    THEN pa_set_error(c, <<"duplicate", label[1].name>>)
    ELSE [c EXCEPT !.labels = Append(@, [name |-> label[1].name, index |-> ps.idx,
                                         is_public |-> label[1].public])]

handle_label(c, label) ==
    IF label = <<>> \/ pass # 0 THEN c
    ELSE IF Len(c.labels) >= MAX_LABELS THEN pa_set_error(c, <<"too many labels", "">>)
    ELSE IF find_label(c, label[1].name) >= 0 \/ define_declared(c, label[1].name)
    THEN pa_set_error(c, <<"duplicate", label[1].name>>)
    ELSE [c EXCEPT !.labels = Append(@, [name |-> label[1].name, index |-> ps.idx,
                                         is_public |-> label[1].public])]

Statement(l, c) ==
    IF ~c.ok \/ l.insn = <<>> THEN ctx' = c /\ Read(l) /\ UNCHANGED <<ps, prog>>
    ELSE Slot(l, c, assemble_insn(c, prog, l.insn[1]))

(* An instruction on the label's line takes the slot the label names.      *)
Code(l) ==
    /\ InBody /\ l.k \in {"code", "comment_close"}
    /\ Statement(l, handle_label(Here, l.label))

-----------------------------------------------------------------------------
(* pio_asm_assemble between the passes.                                    *)

EndOfSource == ctx.ok /\ (ps.done_selected \/ at = Len(src))

EndScan ==
    /\ pass = 0 /\ EndOfSource
    /\ pass' = 1 /\ at' = 0 /\ ps' = FreshParse
    /\ UNCHANGED <<job, src, ctx, prog>>

EndConfig ==
    /\ pass = 1 /\ EndOfSource
    /\ LET top == IF prog.wrap_top # UNSET THEN prog.wrap_top
                  ELSE IF ps.idx > 0 THEN ps.idx - 1 ELSE 0
       IN  /\ prog' = [prog EXCEPT !.count = ps.idx, !.wrap_top = top]
           /\ ctx' = IF ps.idx = 0 \/ prog.wrap_bottom >= ps.idx
                     THEN pa_set_error(ctx, <<"no instruction", "">>) ELSE ctx
    /\ pass' = 2 /\ at' = 0 /\ ps' = FreshParse
    /\ UNCHANGED <<job, src>>

EndEmit ==
    /\ pass = 2 /\ EndOfSource
    /\ LET public == SelectSeq(ctx.labels, LAMBDA l : l.is_public)
           kept == SubSeq(public, 1, IF Len(public) < MAX_PUBLIC THEN Len(public) ELSE MAX_PUBLIC)
       IN  /\ prog' = [prog EXCEPT !.publics =
                         [k \in 1 .. Len(kept) |-> [name |-> kept[k].name,
                                                    index |-> kept[k].index]]]
           /\ ctx' = IF Len(public) > MAX_PUBLIC
                     THEN pa_set_error(ctx, <<"too many public labels", "">>) ELSE ctx
           /\ pass' = IF Len(public) > MAX_PUBLIC THEN 2 ELSE 3
    /\ UNCHANGED <<job, src, at, ps>>

ReadLine ==
    /\ Scanning
    /\ \E l \in LinesHere :
         \/ Comment(l) \/ Verbatim(l) \/ SelectProgram(l) \/ Define(l) \/ SkipLine(l)
         \/ WrapTarget(l) \/ Wrap(l) \/ Word(l) \/ Metadata(l) \/ Code(l)

AsmNext == ReadLine \/ EndScan \/ EndConfig \/ EndEmit
============================================================================

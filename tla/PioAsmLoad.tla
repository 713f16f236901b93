---------------------------- MODULE PioAsmLoad ----------------------------
(***************************************************************************)
(* The assembler's output put to use: pio_asm_load_program copies the      *)
(* words into the instruction memory with the JMP targets moved by the     *)
(* load offset and points a state machine at them, and                     *)
(* pio_asm_apply_program_config lays the directives over the state         *)
(* machine's configuration.  A configuration is a function from the names  *)
(* of the fields of pio_sm_config.                                         *)
(***************************************************************************)
EXTENDS PioAsm

CONSTANTS SMs,          \* state machines of the block
          HostConfig      \* a configuration the host has built for one

ASSUME LoadAssumption == IsFiniteSet(SMs)

VARIABLES insn,     \* instruction memory
          sm,       \* [pc, cfg, tx: words waiting, status_override]
          home,     \* history: where a state machine's program was loaded,
                    \* -1 before it is and once a later load overwrote it
          calls     \* host calls made

loadVars == <<insn, sm, home, calls>>
vars == <<asmVars, loadVars>>

Addresses == 0 .. INSN_COUNT - 1
UNWRITTEN == -1

(* pio_get_default_sm_config.                                              *)
ZeroConfig ==
    [f \in {"out_base", "out_count", "set_base", "set_count", "in_base",
            "sideset_base", "sideset_total_bits", "jmp_pin", "clkdiv_frac",
            "wrap_bottom", "status_n", "out_en_sel"} |-> 0]
      @@ [f \in {"sideset_opt", "sideset_pindirs", "autopull", "autopush",
                 "out_sticky", "out_inline_en"} |-> FALSE]
DefaultConfig ==
    [wrap_top |-> INSN_COUNT - 1, out_dir |-> "LEFT", in_dir |-> "LEFT",
     pull_thresh |-> 32, push_thresh |-> 32, in_count |-> 32, clkdiv_int |-> 1,
     fifo_join |-> "NONE", status_sel |-> "TX_LEVEL"] @@ ZeroConfig

Init ==
    /\ AsmInit
    /\ insn = [a \in Addresses |-> UNWRITTEN]
    /\ sm = [s \in SMs |-> [pc |-> 0, cfg |-> DefaultConfig, tx |-> 0,
                            status_override |-> FALSE]]
    /\ home = [s \in SMs |-> -1]
    /\ calls = 0

Call == pass = 3 /\ calls < Jobs[job].calls /\ calls' = calls + 1 /\ UNCHANGED asmVars

-----------------------------------------------------------------------------
(* pio_asm_load_program.                                                   *)

IsJmp(word) == word \div 8192 = 0

(* Faulty variant: only an unconditional JMP without side-set is moved.    *)
Relocate_always_only(word, offset) ==
    IF word \div 32 = 0 THEN (word + offset) % 32 ELSE word

Relocate(word, offset) ==
    IF IsJmp(word) /\ offset # 0
    THEN (word - (word % 32)) + (((word % 32) + offset) % 32)
    ELSE word

Loadable(p, offset) ==
    /\ offset + p.count <= INSN_COUNT
    /\ p.wrap_bottom < p.count /\ p.wrap_top < p.count

pio_sim_load(mem, offset, p) ==
    [a \in Addresses |-> IF a \in offset .. offset + p.count - 1
                         THEN Relocate(p.insns[a - offset], offset) ELSE mem[a]]

LoadedSm(m, offset, p) ==
    [m EXCEPT !.pc = offset,
              !.cfg = [wrap_bottom |-> offset + p.wrap_bottom, wrap_top |-> offset + p.wrap_top,
                       sideset_total_bits |-> p.sideset_bits, sideset_opt |-> p.sideset_opt,
                       sideset_pindirs |-> p.sideset_pindirs] @@ @]

Overlap(a, b, n) == a < b + n /\ b < a + n

LoadProgram(s, offset) ==
    /\ Call
    /\ IF Loadable(prog, offset)
       THEN /\ insn' = pio_sim_load(insn, offset, prog)
            /\ sm' = [sm EXCEPT ![s] = LoadedSm(@, offset, prog)]
            /\ home' = [x \in SMs |->
                 IF x = s THEN offset
                 ELSE IF home[x] < 0 \/ Overlap(home[x], offset, prog.count) THEN -1
                 ELSE home[x]]
       ELSE UNCHANGED <<insn, sm, home>>

LoadAtOrigin(s) ==
    LoadProgram(s, IF prog.origin = <<>> THEN 0 ELSE prog.origin[1])

-----------------------------------------------------------------------------
(* pio_asm_apply_program_config: seeded from the live state machine, one   *)
(* sm_config mutator per directive, then pio_sim_sm_set_config.            *)

clamp_pin_count(n) == IF n > 32 THEN 32 ELSE n

clamp_thresh(n) == IF n = 0 \/ n > 32 THEN 32 ELSE n

(* A divisor in 1/1024ths, clamped to at least 1 and rounded to the        *)
(* nearest 1/256; the upper clamp (65535.99) is out of the models' range.  *)
sm_config_set_clkdiv(div) ==
    LET nearest == ((IF div < 1024 THEN 1024 ELSE div) + 2) \div 4
    IN  [clkdiv_int |-> nearest \div 256, clkdiv_frac |-> nearest % 256]
sm_config_set_fifo_join(join) == [fifo_join |-> join]
sm_config_set_mov_status(st) == [status_sel |-> st.sel, status_n |-> st.n]
ShiftDirOf(c) == IF c.right THEN "RIGHT" ELSE "LEFT"
sm_config_set_in_shift(c) ==
    [in_dir |-> ShiftDirOf(c), autopush |-> c.auto, push_thresh |-> clamp_thresh(c.thresh)]
sm_config_set_in_pin_count(n) ==
    [in_count |-> IF n = 0 \/ n > 32 THEN 32 ELSE n]
sm_config_set_out_shift(c) ==
    [out_dir |-> ShiftDirOf(c), autopull |-> c.auto, pull_thresh |-> clamp_thresh(c.thresh)]
sm_config_set_out_pin_count(n) == [out_count |-> clamp_pin_count(n)]
sm_config_set_set_pin_count(n) == [set_count |-> clamp_pin_count(n)]

When(opt, Setter(_)) == IF opt = <<>> THEN <<>> ELSE Setter(opt[1])
InShift(c) == sm_config_set_in_shift(c) @@ sm_config_set_in_pin_count(c.count)
OutShift(c) == sm_config_set_out_shift(c) @@ sm_config_set_out_pin_count(c.count)

Overlay(p) ==
    When(p.clock_div, sm_config_set_clkdiv)
      @@ When(IF p.has_fifo_join THEN <<p.fifo_join>> ELSE <<>>, sm_config_set_fifo_join)
      @@ When(p.mov_status, sm_config_set_mov_status)
      @@ When(p.in_cfg, InShift) @@ When(p.out_cfg, OutShift)
      @@ When(p.set_cfg, sm_config_set_set_pin_count)

(* The fields copied from the live state machine into the new              *)
(* configuration, one assignment each.                                     *)
Seeded ==
    {"out_base", "out_count", "set_base", "set_count", "in_base", "in_count",
     "sideset_base", "sideset_total_bits", "sideset_opt", "sideset_pindirs",
     "jmp_pin", "out_dir", "in_dir", "autopull", "autopush", "pull_thresh",
     "push_thresh", "clkdiv_int", "clkdiv_frac", "wrap_bottom", "wrap_top",
     "fifo_join", "status_sel", "status_n", "out_sticky", "out_inline_en",
     "out_en_sel"}

(* Faulty variant: one assignment is forgotten.                            *)
Seed_forgets_sticky(cfg) == Restrict(cfg, Seeded \ {"out_sticky"}) @@ DefaultConfig

Seed(cfg) == Restrict(cfg, Seeded) @@ DefaultConfig

(* The fields pio_sim_sm_set_config copies back, fifo_join last.           *)
Applied ==
    {"wrap_bottom", "wrap_top", "out_base", "out_count", "set_base", "set_count",
     "in_base", "in_count", "sideset_base", "sideset_total_bits", "sideset_opt",
     "sideset_pindirs", "jmp_pin", "out_dir", "in_dir", "autopull", "autopush",
     "pull_thresh", "push_thresh", "clkdiv_int", "clkdiv_frac", "status_sel",
     "status_n", "out_sticky", "out_inline_en", "out_en_sel", "fifo_join"}

(* pio_sim_sm_set_config; apply_fifo_join empties the FIFOs only when the  *)
(* mode changes.                                                           *)
SetConfig(m, cfg) ==
    [m EXCEPT !.cfg = Restrict(cfg, Applied) @@ @, !.status_override = FALSE,
              !.tx = IF cfg.fifo_join = m.cfg.fifo_join THEN @ ELSE 0]

ApplyConfig(s) ==
    /\ Call
    /\ sm' = [sm EXCEPT ![s] = SetConfig(@, Overlay(prog) @@ Seed(@.cfg))]
    /\ UNCHANGED <<insn, home>>

(* The host's own calls on the state machine: its own configuration, which *)
(* moves the wrap window, a TX word, a fixed STATUS.                       *)
HostConfigure(s) ==
    /\ Call
    /\ sm' = [sm EXCEPT ![s] = SetConfig(@, HostConfig)]
    /\ home' = [home EXCEPT ![s] = -1]
    /\ UNCHANGED insn

HostPut(s) ==
    /\ Call /\ sm[s].cfg.fifo_join # "RX"
    /\ sm' = [sm EXCEPT ![s].tx = @ + 1]
    /\ UNCHANGED <<insn, home>>

HostStatus(s) ==
    /\ Call
    /\ sm' = [sm EXCEPT ![s].status_override = TRUE]
    /\ UNCHANGED <<insn, home>>

-----------------------------------------------------------------------------
Next ==
    \/ AsmNext /\ UNCHANGED loadVars
    \/ \E s \in SMs : \/ \E offset \in Addresses : LoadProgram(s, offset)
                      \/ LoadAtOrigin(s) \/ ApplyConfig(s)
                      \/ HostConfigure(s) \/ HostPut(s) \/ HostStatus(s)

Spec == Init /\ [][Next]_vars
============================================================================

----------------------------- MODULE MCPioChip -----------------------------
(***************************************************************************)
(* One block with one state machine, four-bit words of four one-bit bytes. *)
(* A host alone with echo programs, DMA copies with every checksum, a      *)
(* chained pair of channels, interrupt-driven hosts and the clock tree.    *)
(***************************************************************************)
EXTENDS PioChipRef

Base == [pio_get_default_sm_config EXCEPT !.wrap_top = 2]

(* out x, 2 / in x, 2 [1] / nop, autopull and autopush at both widths.     *)
BitEcho(calls, right, div) ==
    Alone(Prog(<<OUT("X", 2), Delay(IN_("X", 2), 1), NOP>>),
          [Base EXCEPT !.autopull = TRUE, !.autopush = TRUE, !.div = div,
                       !.out_right = right, !.in_right = right],
          {<<0, 0>>}, calls)

(* pull / mov isr, osr / push.                                             *)
WordEcho(calls, div) ==
    Alone(Prog(<<PULL(FALSE, TRUE), MOV("ISR", "NONE", "OSR"), PUSH(FALSE, TRUE)>>),
          [Base EXCEPT !.div = div], {<<0, 0>>}, calls)

(* pull ifempty / out isr, 4 / push iffull, no autopull.                   *)
IfEcho(calls) ==
    Alone(Prog(<<PULL(TRUE, TRUE), OUT("ISR", 4), PUSH(TRUE, TRUE)>>),
          Base, {<<0, 0>>}, calls)

(* autopull, and a pull that must act as a barrier only.                   *)
BarrierEcho(calls) ==
    Alone(Prog(<<PULL(FALSE, TRUE), OUT("Y", 4), IN_("Y", 4)>>),
          [Base EXCEPT !.autopull = TRUE, !.autopush = TRUE],
          {<<0, 0>>}, calls)

(* The IN is injected by mov exec and carries a delay of its own.          *)
ExecEcho(calls) ==
    Alone(Prog(<<OUT("X", 4), Delay(MOV("EXEC", "NONE", "NULL"), 1), NOP>>),
          [Base EXCEPT !.autopull = TRUE, !.autopush = TRUE],
          {<<0, 0>>}, calls)

Echoes(calls) ==
    {BitEcho(calls, TRUE, 2), BitEcho(calls, FALSE, 3), WordEcho(calls, 2),
     IfEcho(calls), BarrierEcho(calls), ExecEcho(calls)}

Injected == Delay(IN_("X", 4), 1)
TwoWords == {W(1), W(6)}
Injections == {NOP, WAIT(TRUE, "IRQ", "SELF", 0)}
MCDecode(w) == Injected
MCWords == TwoWords
MCExec == Injections
MCBase == [b \in Blocks |-> 0]

-----------------------------------------------------------------------------
(* Plans.                                                                  *)

Control(size, treq) == [size |-> size, ring |-> 0, chain |-> -1, ctrl |-> [treq_sel |-> treq]]
With(j, fields) == [j EXCEPT !.ctrl = fields @@ @]
Feeding(j, from, n) == j @@ [read |-> <<"MEM", from>>, write |-> <<"TXF", 0>>, count |-> n]
Draining(j, to, n) == With(j, [incr_read |-> FALSE, incr_write |-> TRUE])
                        @@ [read |-> <<"RXF", 0>>, write |-> <<"MEM", to>>, count |-> n]

(* Twelve bytes of source, then the destination.                           *)
MCMem == [x \in 0 .. ADDR_SPACE - 1 |->
            [j \in 0 .. BYTE_BITS - 1 |-> x \in {0, 3, 5, 6, 7, 10}]]

Setup(jobs, fraction, sniffer) ==
    [jobs |-> jobs, start |-> DOMAIN jobs, timers |-> [t \in Timers |-> fraction], mem |-> MCMem,
     sniff |-> sniffer, lines |-> [pio |-> NoLines, dma |-> NoLines], endless |-> FALSE]

Sniffer(c, mode) == [en |-> TRUE, chan |-> c, calc |-> mode,
                     out_rev |-> mode \in {"CRC32R", "CRC16R"},
                     out_inv |-> mode \in {"CRC32", "CRC32R"}]

(* Words, swapped on the way out; the sniffer on the feeding channel.      *)
CopyPlan(mode) ==
    Setup(0 :> Feeding(With(Control(2, <<"TX", 0>>), [bswap |-> TRUE, sniff_en |-> TRUE]), 0, 3)
            @@ 1 :> Draining(With(Control(7, <<"RX", 0>>), [sniff_en |-> TRUE]), 12, 3),
          <<0, 0>>, Sniffer(0, mode))

(* Halfwords on a timer's pace; the low byte drained at once, and sniffed. *)
HalfPlan(mode) ==
    Setup(0 :> Feeding(With(Control(1, <<"TIMER", 0>>), [bswap |-> TRUE]), 0, 3)
            @@ 1 :> Draining(With(Control(0, <<"FORCE", 0>>),
                                  [high_priority |-> TRUE, sniff_en |-> TRUE]), 12, 3),
          <<2, 3>>, Sniffer(1, mode))

(* One word at a time, the handler of line 0 starts the next.              *)
BlockPlan ==
    [Setup(0 :> Feeding(Control(2, <<"TX", 0>>), 0, 1)
             @@ 1 :> Draining(Control(2, <<"RX", 0>>), 12, 3), <<0, 0>>, Sniffer(0, "SUM"))
       EXCEPT !.lines.dma[0].inte = {0}]

(* Two channels round an eight-byte ring, a third to drain.                *)
Half2(next) == [Control(2, <<"TX", 0>>) EXCEPT !.chain = next, !.ring = 3]
RingPlan ==
    [Setup(0 :> Feeding(Half2(2 * NUM_CH + 1), 0, 2) @@ 1 :> Feeding(Half2(0), 4, 1)
             @@ 2 :> Draining(Control(2, <<"RX", 0>>), 12, 5), <<0, 0>>, Sniffer(0, "SUM"))
       EXCEPT !.endless = TRUE, !.start = {0, 2}, !.lines.dma[0].inte = {2},
              !.jobs[2].ctrl.incr_write = FALSE]

(* No channel; the PIO's own lines.                                        *)
LinePlan ==
    [Setup(<<>>, <<0, 0>>, Sniffer(0, "SUM"))
       EXCEPT !.lines.pio = (0 :> [inte |-> {<<"RXNEMPTY", 0>>}, intf |-> {}]
                             @@ 1 :> [inte |-> {<<"TXNFULL", 0>>}, intf |-> {}])]

(* x^4 + x + 1 and x^2 + x + 1.                                            *)
MCPoly32 == W(3)
MCPoly32R == W(12)
MCPoly16 == W(3)
MCPoly16R == W(3)

Modes == {"CRC32", "CRC32R", "CRC16", "CRC16R", "EVEN", "SUM"}

AllPlans ==
    [m \in Modes |-> CopyPlan(m)]
      @@ [half_sum |-> HalfPlan("SUM"), half_even |-> HalfPlan("EVEN"),
          half_crc |-> HalfPlan("CRC16R"), blocks |-> BlockPlan, ring |-> RingPlan,
          lines |-> LinePlan]
MCPlans == AllPlans

Told(story, su) == [su EXCEPT !.host.story = story]

Controls == {"put", "get", "enable", "set_config"}
Injects == {"put", "get", "exec", "irq_force"}
Clears == {"clear_fdebug"}

MCSetups ==
    Echoes({"put", "get"})
      \union {BitEcho(Controls, FALSE, 3), WordEcho(Controls \union Clears, 2),
              BarrierEcho(Controls \union Clears), ExecEcho(Controls \union Clears),
              BitEcho(Injects, TRUE, 2), BarrierEcho(Injects \union Clears)}
      \union {Told(m, WordEcho({}, 2)) : m \in Modes}
      \union {Told(m, WordEcho({"sniff"}, 2)) : m \in Modes}
      \union {Told("CRC32", BitEcho({"pause"}, TRUE, 2)),
              Told("half_sum", BarrierEcho({"pause"})), Told("half_sum", BarrierEcho({})),
              Told("half_even", BarrierEcho({})), Told("half_crc", BarrierEcho({})),
              Told("blocks", BitEcho({"isr", "lines"}, TRUE, 3)),
              Told("ring", WordEcho({"isr"}, 3)),
              Told("lines", BitEcho({"put", "get", "isr"}, TRUE, 2)),
              Told("clock", Alone(Prog(<<>>), Base, {}, {"clock"}))}

-----------------------------------------------------------------------------
(* A tree of small numbers.                                                *)
MCBoot == [xosc_hz |-> 6, pll_refdiv |-> 1, pll_fbdiv |-> 4, pll_postdiv1 |-> 2,
           pll_postdiv2 |-> 1, clksys_div_int |-> 1, clksys_div_frac |-> 0,
           bypass_pll |-> FALSE]
MCPll == {<<1, 4, 1, 3>>, <<2, 5, 3, 2>>, <<1, 5, 1, 1>>, <<1, 2, 1, 1>>,      \* some legal
          <<0, 4, 1, 1>>, <<3, 4, 1, 1>>, <<1, 1, 1, 1>>, <<1, 6, 1, 1>>,
          <<1, 4, 0, 1>>, <<1, 4, 1, 4>>}
MCFields == [xosc_hz |-> {2, 3, 8, 9}, clksys_div_int |-> {0, 2, 4},
             clksys_div_frac |-> {1, 4}, bypass_pll |-> {TRUE}]
ASSUME MCNeverStops == NeverStops
ASSUME MCDrainIdiom == DrainIdiom
============================================================================

------------------------------- MODULE PioChip -------------------------------
(***************************************************************************)
(* The whole chip (pio_chip.c): the PIO group, then one DMA bus cycle, in  *)
(* every tick.  Words travel from memory through a DMA channel, a TX FIFO, *)
(* an echoing program, an RX FIFO and another channel back to memory; the  *)
(* interrupt lines of both controllers let the host take part without      *)
(* polling; the clock tree only gives ticks a duration.                    *)
(*                                                                         *)
(* A host whose story names no plan ticks its block alone (PioStream).     *)
(***************************************************************************)
EXTENDS PioStream, PioDmaData, PioClk

CONSTANTS
    NUM_CH, Timers, ADDR_SPACE,     \* the DMA controller (see PioDma)
    Plans,          \* what a chip host sets up, by story: [jobs, timers,
                    \* start, mem, sniff, lines, endless: the channels never
                    \* stop];
                    \* a job is the arguments of the calls that set it up
    PllSettings,    \* arguments of pio_clk_configure_pll the host tries
    FieldWrites     \* fields of the tree the host writes: [field -> values]

ASSUME ClockCallAssumption ==
    /\ \A q \in PllSettings : {q[1], q[2], q[3], q[4]} \subseteq Nat
    /\ \A f \in DOMAIN FieldWrites : \A v \in FieldWrites[f] :
         f \in DOMAIN BOOT /\ v \in (IF f = "bypass_pll" THEN BOOLEAN ELSE Nat)

VARIABLES
    ch, timer, intr, rr_next,   \* the DMA controller (see PioDma)
    mem,                        \* bytes
    sniff,                      \* [en, chan, calc, out_inv, out_rev, data,
                                \* and, history: seed, fed (bytes since it)]
    lines,                      \* [pio, dma]: [line |-> [inte, intf]]
    clk,                        \* clock tree
    bus                         \* the PIO group has ticked, the DMA has not

dvars == <<ch, timer, intr, rr_next, mem, sniff>>
cvars == <<svars, dvars, lines, clk, bus>>

FifoIds == 0 .. NUM_PIO * NUM_SM - 1
SmAt(f) == sm[f \div NUM_SM][f % NUM_SM]

D == INSTANCE PioDma WITH
       Attached <- FifoIds, FIFO_CAP <- FIFO_DEPTH, Jobs <- {}, Fractions <- {},
       Callbacks <- {}, HostOps <- {"start", "enable", "ack"},
       tx <- [f \in FifoIds |-> SmAt(f).tx.count],
       rx <- [f \in FifoIds |-> SmAt(f).rx.count],
       fdebug <- UNION {{<<flag, f>> : flag \in SmAt(f).fdebug \cap {"TXOVER", "RXUNDER"}}
                        : f \in FifoIds}

Ch == 0 .. NUM_CH - 1
Lines == 0 .. 1
Planned == host.story \in DOMAIN Plans
Plan == Plans[host.story]
Calls(op) == op \in host.calls /\ ~bus

NoLines == [l \in Lines |-> [inte |-> {}, intf |-> {}]]
NoSniff == [en |-> FALSE, chan |-> 0, calc |-> "SUM", out_inv |-> FALSE, out_rev |-> FALSE,
            data |-> ZERO, seed |-> ZERO, fed |-> <<>>]

(* pio_dma_channel_configure with trigger on the channels of a plan.       *)
Programmed(c) ==
    LET ctrl == D!pio_dma_channel_get_default_config(c)
        k == [ctrl |-> ctrl, read |-> <<"NULL", 0>>, write |-> <<"NULL", 0>>,
              trans_count |-> 0, reload |-> 0, en |-> FALSE, busy |-> FALSE,
              on_complete |-> {}]
    IN  IF c \notin DOMAIN Plan.jobs THEN k
        ELSE LET j == Plan.jobs[c]
                 sized == D!channel_config_set_transfer_data_size(ctrl, j.size)
                 ringed == D!channel_config_set_ring(sized, FALSE, j.ring)
                 chained == IF j.chain = -1 THEN ringed
                            ELSE D!channel_config_set_chain_to(ringed, j.chain)
             IN  D!Configured(k, [j EXCEPT !.ctrl = @ @@ chained])

(* pio_chip_init, then what the plan sets up.                              *)
ChipInit ==
    /\ StreamInit
    /\ clk = BOOT /\ bus = FALSE /\ intr = {} /\ rr_next = 0
    /\ IF ~Planned
       THEN ch = <<>> /\ timer = <<>> /\ mem = <<>> /\ lines = <<>> /\ sniff = NoSniff
       ELSE /\ ch = D!Started([c \in Ch |-> Programmed(c)], Plan.start)
            /\ timer = [t \in Timers |-> [num |-> Plan.timers[t][1], den |-> Plan.timers[t][2],
                                          accum |-> 0, credit |-> FALSE]]
            /\ mem = Plan.mem /\ sniff = Plan.sniff @@ NoSniff /\ lines = Plan.lines

-----------------------------------------------------------------------------
(* pio_chip_tick.                                                          *)

(* The first half.  Host calls between ticks, or from an on_tick callback, *)
(* find no half-done bus cycle.                                            *)
ChipStep ==
    /\ ~bus /\ StreamStep
    /\ bus' = (Planned /\ turn # Idle /\ turn + 1 = NUM_PIO)
    /\ UNCHANGED <<dvars, lines, clk>>

Element(k) ==
    IF k.read[1] = "MEM" THEN Assemble(mem, k.read[2], k.ctrl.bytes)
    ELSE fifo_front(SmAt(k.read[2]).rx)
Swapped(k, v) == IF k.ctrl.bswap THEN dma_bswap(v, k.ctrl.bytes) ELSE v

(* The state machines after the get and the put of one element.            *)
Passed(k, v) ==
    [b \in Blocks |-> [s \in SMs |->
       LET f == b * NUM_SM + s
           r == IF k.read = <<"RXF", f>> THEN GetWord(sm[b][s]) ELSE sm[b][s]
       IN  IF k.write = <<"TXF", f>> THEN PutWord(r, v) ELSE r]]

ElementBytes(v, bytes) == [j \in 1 .. bytes |-> ByteOf(v, j - 1)]

Sniffed(k, c, v) ==
    IF sniff.en /\ k.ctrl.sniff_en /\ sniff.chan = c
    THEN [sniff EXCEPT !.data = dma_sniff(sniff.calc, @, v, k.ctrl.bytes),
                       !.fed = @ \o ElementBytes(v, k.ctrl.bytes)]
    ELSE sniff

(* The histories; an endless stream forgets a word that came back right.   *)
Record(into, out) ==
    LET match == Plan.endless /\ into # <<>> /\ out # <<>> /\ into[1] = out[1]
    IN  /\ sent' = IF match THEN Tail(into) ELSE into
        /\ got' = IF match THEN Tail(out) ELSE out

(* dma_transfer_one with its data: D!Serve is its control.                 *)
Deliver(c, k, v) ==
    /\ sm' = Passed(k, v)
    /\ mem' = IF k.write[1] = "MEM" THEN Disperse(mem, k.write[2], k.ctrl.bytes, v) ELSE mem
    /\ sniff' = Sniffed(k, c, v)
    /\ Record(IF k.write[1] = "TXF" THEN Append(sent, v) ELSE sent,
              IF k.read[1] = "RXF" THEN Append(got, Element(k)) ELSE got)
    /\ UNCHANGED <<cfg, reg, irq, pads, insn, turn, host, drain>>
    /\ D!Serve(c)

BusCycle ==
    /\ bus /\ bus' = FALSE
    /\ \/ \E c \in Ch : /\ D!FirstInScan(c, D!Candidates(D!dma_timers_tick))
                        /\ Deliver(c, ch[c], Swapped(ch[c], Element(ch[c])))
       \/ UNCHANGED <<svars, mem, sniff>> /\ D!NobodyReady
    /\ UNCHANGED <<lines, clk>>

-----------------------------------------------------------------------------
(* Interrupt lines.  A source is <<"RXNEMPTY", f>>, <<"TXNFULL", f>> or    *)
(* <<"IRQ", n>> of PIO block 0, or a channel of the DMA controller.        *)

pio_sim_get_intr(b) ==
    {<<"RXNEMPTY", s>> : s \in {x \in SMs : ~fifo_empty(sm[b][x].rx)}}
      \union {<<"TXNFULL", s>> : s \in {x \in SMs : ~fifo_full(sm[b][x].tx)}}
      \union {<<"IRQ", n>> : n \in irq[b]}

Ints(pending, l) == (pending \cap l.inte) \union l.intf
pio_sim_get_ints(line) == Ints(pio_sim_get_intr(0), lines.pio[line])
pio_dma_get_ints(line) == Ints(intr, lines.dma[line])

(* Faulty variant: one set of masks for both lines.                        *)
SetLine_shared(ctl, line, field, source, on) ==
    /\ lines' = [lines EXCEPT ![ctl] = [l \in Lines |->
                   [lines[ctl][l] EXCEPT ![field] =
                      IF on THEN @ \union {source} ELSE @ \ {source}]]]
    /\ UNCHANGED <<svars, dvars, clk, bus>>

(* pio_sim_set_irqn_source_mask_enabled and pio_dma_irqn_set_channel_mask_ *)
(* enabled (reg "inte"), pio_sim_set_intf and pio_dma_irqn_force_channel   *)
(* (reg "intf"), on one source.                                            *)
SetLine(ctl, line, field, source, on) ==
    /\ lines' = [lines EXCEPT ![ctl][line][field] =
                                IF on THEN @ \union {source} ELSE @ \ {source}]
    /\ UNCHANGED <<svars, dvars, clk, bus>>

(* The host enables and forces sources of line 1.                          *)
HostLines ==
    /\ Calls("lines") /\ turn = Idle
    /\ \E field \in {"inte", "intf"}, on \in BOOLEAN :
         \/ SetLine("pio", 1, field, <<"RXNEMPTY", 0>>, on)
         \/ SetLine("dma", 1, field, 0, on)

-----------------------------------------------------------------------------
(* A host that acts on the lines only.  Its handlers run between ticks or  *)
(* in a device callback; behind the last callback a tick only clocks the   *)
(* pads, so the moment before the bus cycle counts as inside it.           *)

(* PIO line 0 asks for a word to be read, line 1 for one to be written;    *)
(* the writer turns its source off after the last word.                    *)
IsrGet ==
    /\ "isr" \in host.calls /\ <<"RXNEMPTY", 0>> \in pio_sim_get_ints(0)
    /\ StreamGet
    /\ UNCHANGED <<dvars, lines, clk, bus>>

IsrPut ==
    /\ "isr" \in host.calls /\ <<"TXNFULL", 0>> \in pio_sim_get_ints(1)
    /\ StreamPut
    /\ lines' = IF Len(sent') < MAX_SENT THEN lines
                ELSE [lines EXCEPT !.pio[1].inte = @ \ {<<"TXNFULL", 0>>}]
    /\ UNCHANGED <<dvars, clk, bus>>

(* DMA line 0 announces the end of a block: acknowledge, then start the    *)
(* channel again while there are words left to send (in an endless stream: *)
(* always).                                                                *)
IsrBlockDone ==
    /\ "isr" \in host.calls
    /\ \E c \in pio_dma_get_ints(0) :
         /\ intr' = intr \ {c}
         /\ ch' = IF Plan.endless \/ Len(sent) < MAX_SENT THEN D!Started(ch, {c}) ELSE ch
    /\ UNCHANGED <<svars, timer, rr_next, mem, sniff, lines, clk, bus>>

-----------------------------------------------------------------------------
(* Other calls of a chip host.                                             *)

Pause ==
    /\ Calls("pause") /\ turn = Idle
    /\ UNCHANGED <<svars, mem, sniff, lines, clk, bus>>
    /\ \E c \in DOMAIN Plan.jobs : D!pio_dma_channel_set_enabled(c, ~ch[c].en)

(* pio_dma_sniffer_enable (forcing the channel's own enable or not),       *)
(* _disable and _set_data_accumulator.                                     *)
SniffCall ==
    /\ Calls("sniff") /\ turn = Idle
    /\ \/ \E c \in DOMAIN Plan.jobs, force \in BOOLEAN :
            /\ sniff' = [sniff EXCEPT !.en = TRUE, !.chan = c,
                                      !.seed = sniff.data, !.fed = <<>>]
            /\ ch' = IF force THEN [ch EXCEPT ![c].ctrl.sniff_en = TRUE] ELSE ch
       \/ sniff.en /\ sniff' = [sniff EXCEPT !.en = FALSE] /\ UNCHANGED ch
       \/ /\ sniff' = [sniff EXCEPT !.data = ONES, !.seed = ONES, !.fed = <<>>]
          /\ UNCHANGED ch
    /\ UNCHANGED <<svars, timer, intr, rr_next, mem, lines, clk, bus>>

(* The clock tree: pio_clk_configure_pll, and direct writes to the struct. *)
ClockCall ==
    /\ Calls("clock") /\ turn = Idle
    /\ \/ \E q \in PllSettings :
            clk' = pio_clk_configure_pll(clk, q[1], q[2], q[3], q[4])
       \/ \E f \in DOMAIN FieldWrites : \E v \in FieldWrites[f] :
            clk' = [clk EXCEPT ![f] = v]
    /\ UNCHANGED <<svars, dvars, lines, bus>>

HostGet == ~Planned /\ StreamGet /\ UNCHANGED <<dvars, lines, clk, bus>>

HostCalls ==
    /\ ~Planned
    /\ StreamPut \/ DrainStart \/ DrainEnd \/ StreamExec \/ StreamControl
    /\ UNCHANGED <<dvars, lines, clk, bus>>

ChipNext ==
    \/ HostGet \/ HostCalls \/ ChipStep \/ BusCycle
    \/ IsrGet \/ IsrPut \/ IsrBlockDone \/ HostLines
    \/ Pause \/ SniffCall \/ ClockCall

ChipSpec == ChipInit /\ [][ChipNext]_cvars

(* The chip is ticked on (a bus cycle stands between two ticks); a host    *)
(* that waits for data keeps reading; a pending interrupt is taken.        *)
FairChipSpec ==
    /\ ChipSpec /\ TicksForever
    /\ WF_cvars(HostGet)
    /\ WF_cvars(IsrGet) /\ WF_cvars(IsrPut) /\ WF_cvars(IsrBlockDone)
============================================================================

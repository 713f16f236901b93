----------------------------- MODULE MCPioAsm -----------------------------
(***************************************************************************)
(* Sources for the assembler: each job offers a set of lines at every      *)
(* position, and between them the jobs reach every directive, every        *)
(* instruction form, every error of the tables and the loader.             *)
(***************************************************************************)
EXTENDS PioAsmRef

N(n) == [t |-> "num", v |-> n]
I(name) == [t |-> "id", v |-> name]
O(op) == [t |-> op]
Num(n) == <<N(n)>>

Program(p) == [k |-> "program", name |-> p]
Def(name, e) == [k |-> "define", name |-> name, e |-> e, public |-> FALSE]
PublicDef(name, e) == [Def(name, e) EXCEPT !.public = TRUE]
WordLine(e) == [k |-> "word", e |-> e]
Line(k) == [k |-> k]
With(k, e) == [k |-> k, e |-> e]
SideSetLine(n, opt, pd) == [k |-> "side_set", e |-> Num(n), opt |-> opt, pindirs |-> pd]
FifoLine(join) == [k |-> "fifo", join |-> join]
ShiftLine(k, n, right, auto, thresh) ==
    [k |-> k, e |-> Num(n), right |-> right, auto |-> auto, thresh |-> thresh]
StatusLine(sel, n, marker) ==
    [k |-> "mov_status", sel |-> sel, e |-> Num(n), marker |-> marker]

CodeLine(label, insns) == [k |-> "code", label |-> label, insn |-> insns]
Insn(i) == CodeLine(<<>>, <<i>>)
Label(name) == CodeLine(<<[name |-> name, public |-> FALSE]>>, <<>>)
PublicLabel(name, i) == CodeLine(<<[name |-> name, public |-> TRUE]>>, <<i>>)
Garbage == [k |-> "comment_close", label |-> <<>>, insn |-> <<[op |-> "BAD", mods |-> <<>>]>>]

NopM(mods) == [op |-> "NOP", mods |-> mods]
Nop == NopM(<<>>)
JmpTo(cond, e) == [op |-> "JMP", cond |-> cond, e |-> e, mods |-> <<>>]
WaitFor(pol, from, modes, e) ==
    [op |-> "WAIT", pol |-> pol, src |-> from, modes |-> modes, e |-> e, mods |-> <<>>]
InBits(from, e) == [op |-> "IN", src |-> from, e |-> e, mods |-> <<>>]
OutBits(dst, e) == [op |-> "OUT", dst |-> dst, e |-> e, mods |-> <<>>]
SetTo(dst, e) == [op |-> "SET", dst |-> dst, e |-> e, mods |-> <<>>]
PushPull(op, cond, block) == [op |-> op, cond |-> cond, block |-> block, mods |-> <<>>]
Move(dst, mop, from) == [op |-> "MOV", dst |-> dst, mop |-> mop, src |-> from, mods |-> <<>>]
MoveRx(get, literal, n) ==
    [op |-> "MOVRX", get |-> get, literal |-> literal, n |-> n, mods |-> <<>>]
Irq(clr, wait, modes, n) ==
    [op |-> "IRQ", clr |-> clr, wait |-> wait, modes |-> modes, e |-> Num(n), mods |-> <<>>]
SideMod(n) == [m |-> "side", e |-> Num(n)]
DelayMod(n) == [m |-> "delay", e |-> Num(n)]

Offer(name, nCalls, lines) == [name |-> name, calls |-> nCalls, lines |-> lines]

-----------------------------------------------------------------------------
(* Expressions: every pair of operators, with a unary minus, a reversal or *)
(* parentheses at every place, and every short run of tokens.              *)
Ops == UNION {Levels[k] : k \in 1 .. 4}
Chains ==
    UNION { { <<N(13), O(p), N(6), O(q), N(3)>>,
              <<O("-"), N(13), O(p), N(6), O(q), N(3)>>,
              <<N(13), O(p), O("-"), N(6), O(q), N(3)>>,
              <<N(13), O(p), N(6), O(q), O("-"), N(3)>>,
              <<O("::"), N(13), O(p), N(6), O(q), N(3)>>,
              <<O("("), N(13), O(p), N(6), O(")"), O(q), N(3)>>,
              <<N(13), O(p), O("("), O("-"), N(6), O(q), N(3), O(")")>>,
              <<N(13), O(p), O("("), O("::"), N(6), O(")"), O(q), N(3)>> }
            : p \in Ops, q \in Ops }
Runs == UNION { [1 .. n -> {N(1), I("L"), I("Z"), O("-"), O("<<"), O("/"), O("("), O(")"), O("::")}]
                : n \in 0 .. 3 }
Edges == { <<N(2^17)>>, <<N(2^17 - 1)>>, <<N(2^16)>>, <<N(2^16 - 1)>>, <<N(1), O("<<"), N(20)>>,
           <<N(1), O("<<"), N(19)>>, <<O("-"), N(1), O(">>"), N(3)>>,
           <<O("-"), O("("), N(1), O("<<"), N(19), O(")"), O("/"), O("-"), N(1)>>,
           <<O("("), N(1), O("<<"), N(19), O(")"), O("/"), O("("), O("-"), N(1), O(")")>>,
           <<O("("), O("("), N(1), O(")"), O(")")>>,
           <<O("("), O("("), O("("), N(1), O(")"), O(")"), O(")")>>,
           <<O("::"), O("::"), N(6)>>, <<O("::"), O("::"), O("::"), N(6)>> }

ExprJobs ==
    << Offer("", 0, << {Program("p")}, {Def("A", e) : e \in Chains \cup Runs \cup Edges},
                    {CodeLine(<<[name |-> "L", public |-> FALSE]>>, <<Nop>>)},
                    {WordLine(<<I("A")>>)} >>) >>

(* Defines of two programs, above and inside them, forward and circular.   *)
ScopeJobs ==
    LET outer == {Def("A", <<I("B")>>), Def("A", Num(1)), PublicDef("A", <<I("L")>>)}
        inner == {Def("B", <<I("A"), O("+"), N(1)>>), Def("A", Num(2)),
                  PublicDef("B", <<I("L")>>), Insn(JmpTo("ALWAYS", <<I("B")>>)),
                  PublicLabel("L", Nop), Def("L", Num(3))}
    IN  << Offer("q", 0, << outer, {Program("p")}, inner, {Program("q"), Program("p")},
                         inner, inner, {Program("r"), Label("L")}, {Insn(Nop)} >>),
          Offer("", 0, << {Program("p")},
                        {Def("A", <<I("B")>>), Def("A", <<I("A")>>), Def("A", <<>>)},
                        {Def("B", <<I("C"), O("+"), N(1)>>), Def("B", <<I("L")>>)},
                        {Def("C", <<I("A")>>), Def("C", <<I("B")>>), Def("C", <<I("Z")>>)},
                        {With("set", <<I("A")>>), Def("D", Num(1)), Label("L")},
                        {Insn(JmpTo("ALWAYS", <<I("C")>>)), Insn(JmpTo("PIN", <<I("B")>>))},
                        {Insn(JmpTo("XDEC", <<I("A")>>)), Insn(JmpTo("XDEC", <<I("L")>>))} >>) >>

(* Slots: labels, words, wrap points, hidden lines.                        *)
SlotJobs ==
    LET any == {Insn(JmpTo("ALWAYS", <<I("L")>>)), Label("L"), PublicLabel("M", Nop),
                WordLine(<<I("M"), O("+"), N(1)>>), Line("wrap_target"), Line("wrap"),
                Line("verbatim_open"), Line("verbatim_close"), Line("comment_open"), Garbage}
    IN  << Offer("", 0, << {Program("p")} \cup any, any, any, any \cup {Program("q")} >>),
          Offer("", 0, << {Program("p")} >> \o
                     [k \in 1 .. 5 |-> {Insn(Nop), PublicLabel("a", Nop),
                                        PublicLabel("b", Nop), PublicLabel("c", Nop),
                                        Label("d"), WordLine(Num(7))}]) >>

(* Side-set widths against modifiers.                                      *)
SideJobs ==
    << Offer("", 0, << {Program("p")},
                    {SideSetLine(n, opt, FALSE) : n \in 0 .. 6, opt \in BOOLEAN}
                      \cup {Insn(Nop)},
                    {Insn(NopM(mods)) : mods \in
                       {<<>>} \cup {<<SideMod(n)>> : n \in {0, 1, 3, 16, 31, 32}}
                         \cup {<<DelayMod(n)>> : n \in {1, 3, 4, 31, 32}}
                         \cup {<<SideMod(1), DelayMod(3)>>, <<DelayMod(1), SideMod(3)>>,
                               <<DelayMod(2), SideMod(0), DelayMod(1)>>,
                               <<SideMod(2), SideMod(1)>>,
                               <<[m |-> "side", e |-> <<I("Z")>>]>>}} >>) >>

(* Every instruction form, at and past the edge of every operand.          *)
Forms ==
    {Insn(JmpTo(c, Num(n))) : c \in DOMAIN CondField, n \in {0, 31, 32}}
      \cup {Insn(WaitFor(pol, from, {}, e)) :
              pol \in {<<>>, Num(0), Num(2)}, from \in {"GPIO", "PIN", "IRQ", "JMPPIN", "bad"},
              e \in {<<>>, Num(3), Num(7), Num(8), Num(31), Num(32)}}
      \cup {Insn(WaitFor(<<>>, "IRQ", modes, Num(5))) : modes \in
              {{"REL"}, {"PREV"}, {"NEXT"}, {"REL", "PREV"}}}
      \cup {Insn(InBits(from, Num(n))) : from \in {"PINS", "STATUS", "bad"}, n \in {0, 1, 32, 33}}
      \cup {Insn(OutBits(dst, Num(n))) : dst \in DOMAIN OutDst, n \in {1, 32}}
      \cup {Insn(SetTo(dst, Num(n))) : dst \in DOMAIN SetDst \cup {"PC"}, n \in {31, 32}}
      \cup {Insn(PushPull(op, c, b)) : op \in {"PUSH", "PULL"}, c \in BOOLEAN, b \in BOOLEAN}
      \cup {Insn(Move(dst, mop, from)) : dst \in {"PINDIRS", "EXEC", "OSR", "NULL"},
              mop \in DOMAIN MovOps, from \in {"NULL", "OSR", "bad"}}
      \cup {Insn(MoveRx(get, lit, n)) : get \in BOOLEAN, lit \in BOOLEAN, n \in {0, 3, 4}}
      \cup {Insn(Irq(clr, wait, modes, n)) : clr \in BOOLEAN, wait \in BOOLEAN,
              modes \in {{}, {"REL"}, {"PREV"}, {"NEXT"}, {"PREV", "NEXT"}, {"REL", "NEXT"}},
              n \in {7, 8}}
FormJobs ==
    << Offer("", 0, << {Program("p")},
                    {With("pio_version", Num(n)) : n \in 0 .. 2} \cup {Insn(Nop)},
                    {FifoLine(j) : j \in {"TX", "RX_PUT", "RX_GET", "RX_PUTGET"}} \cup {Insn(Nop)},
                    Forms >>) >>

(* Directives, loaded and applied.                                         *)
ConfigJobs ==
    LET some == {ShiftLine("in", 4, TRUE, TRUE, <<>>), ShiftLine("in", 0, TRUE, FALSE, Num(0)),
                 ShiftLine("out", 32, FALSE, TRUE, Num(8)), ShiftLine("out", 5, TRUE, FALSE, Num(33)),
                 ShiftLine("out", 0, TRUE, TRUE, Num(0)),
                 FifoLine("RX"), FifoLine("NONE"), With("set", Num(5)), With("set", Num(6)),
                 [k |-> "clock_div", div |-> 2562], [k |-> "clock_div", div |-> 100],
                 [k |-> "clock_div", div |-> -1],
                 StatusLine("RX_LEVEL", 3, TRUE), StatusLine("IRQ_SET_NEXT", 32, TRUE),
                 StatusLine("TX_LEVEL", 1, FALSE), With("pio_version", Num(0))}
    IN  << Offer("", 2, << {Program("p")}, some, some \cup {Insn(Nop)}, {Insn(Nop)} >>),
          Offer("", 2, << {Program("p")}, {With("origin", Num(n)) : n \in {1, 3, 4}},
                        {Insn(JmpTo("PIN", <<I("L")>>)), Line("wrap_target")},
                        {SideSetLine(1, FALSE, TRUE), Label("L"), Line("wrap_target"), Line("wrap")},
                        {Insn(JmpTo("ALWAYS", <<I("L")>>)), Insn(NopM(<<SideMod(1)>>))},
                        {Label("L"), Line("wrap"), Insn(JmpTo("ALWAYS", Num(0)))} >>) >>

(* A program without directives, applied.                                  *)
ApplyJobs == << Offer("", 2, << {Program("p")}, {Insn(Nop)} >>) >>

(* A configuration that differs from the default one in every field.       *)
MCHostConfig ==
    [out_base |-> 3, out_count |-> 2, set_base |-> 4, set_count |-> 1, in_base |-> 5,
     in_count |-> 7, sideset_base |-> 6, sideset_total_bits |-> 2, sideset_opt |-> TRUE,
     sideset_pindirs |-> TRUE, jmp_pin |-> 8, out_dir |-> "RIGHT", in_dir |-> "RIGHT",
     autopull |-> TRUE, autopush |-> TRUE, pull_thresh |-> 16, push_thresh |-> 24,
     clkdiv_int |-> 3, clkdiv_frac |-> 128, wrap_bottom |-> 1, wrap_top |-> 2,
     fifo_join |-> "TX", status_sel |-> "RX_LEVEL", status_n |-> 2, out_sticky |-> TRUE,
     out_inline_en |-> TRUE, out_en_sel |-> 9]

SMSymmetry == Permutations(SMs)

MCJobs == ExprJobs \o ScopeJobs \o SlotJobs \o SideJobs \o FormJobs \o ConfigJobs
============================================================================

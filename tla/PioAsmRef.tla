----------------------------- MODULE PioAsmRef -----------------------------
(***************************************************************************)
(* What a source means, said without passes, tables or a parser state: the *)
(* body of the selected program as a set of lines, a label as the number   *)
(* of slots before it, a define by substitution, an expression by operator *)
(* precedence on a stack.  The properties compare the assembler and the    *)
(* loader with it.                                                         *)
(***************************************************************************)
EXTENDS PioAsmLoad

-----------------------------------------------------------------------------
(* Lines.                                                                  *)

Texts == 1 .. Len(src)

(* What hides line i from the assembler, if anything does.                 *)
Mode == LET mode[i \in 0 .. Len(src)] ==
              IF i = 0 THEN "text"
              ELSE CASE mode[i - 1] = "comment" ->
                          IF src[i].k = "comment_close" THEN "text" ELSE "comment"
                     [] mode[i - 1] = "verbatim" ->
                          IF src[i].k = "verbatim_close" THEN "text" ELSE "verbatim"
                     [] mode[i - 1] = "text" ->
                          CASE src[i].k = "comment_open" -> "comment"
                            [] src[i].k \in {"verbatim_open", "verbatim_close"} -> "verbatim"
                            [] OTHER -> "text"
        IN  mode

LinesOf(mode, kinds) == {i \in Texts : mode[i - 1] = "text" /\ src[i].k \in kinds}

(* The selected body lies between its .program line and the next one.      *)
Heads(mode) == {i \in LinesOf(mode, {"program"}) : Jobs[job].name = "" \/ src[i].name = Jobs[job].name}
BodyStart(mode) == IF Heads(mode) = {} THEN Len(src) + 1 ELSE Min(Heads(mode))
BodyEnd(mode, start) ==
    LET later == {i \in LinesOf(mode, {"program"}) : i > start}
    IN  IF later = {} THEN Len(src) + 1 ELSE Min(later)

Scope(mode, start, end) ==
    LET body == (start + 1) .. (end - 1)
        code == LinesOf(mode, {"code", "comment_close"}) \cap body
        slots == {i \in code : src[i].insn # <<>>} \cup (LinesOf(mode, {"word"}) \cap body)
        outer == 1 .. (IF LinesOf(mode, {"program"}) = {} THEN Len(src)
                       ELSE Min(LinesOf(mode, {"program"})))
    IN  [body |-> body \cap LinesOf(mode, {src[i].k : i \in Texts}),
         slots |-> slots,
         labels |-> {i \in code : src[i].label # <<>>},
         defines |-> {i \in LinesOf(mode, {"define"}) :
                        i < end /\ (src[i].public \/ i \in outer \/ i \in body)}]

(* The scope of the selected program.                                      *)
Source ==
    LET mode == Mode start == BodyStart(mode)
    IN  Scope(mode, start, BodyEnd(mode, start))

SlotNo(scope, i) == Cardinality({j \in scope.slots : j < i})

-----------------------------------------------------------------------------
(* Expressions: a value stack and an operator stack.  Unary minus has the  *)
(* precedence of the binary one, :: the loosest, and :: may only open an   *)
(* expression or a parenthesis.                                            *)

Prec(op) == CASE op = "(" -> 0 [] op = "::" -> 1 [] op \in {"<<", ">>"} -> 2
              [] op \in {"+", "-", "neg"} -> 3 [] op \in {"*", "/"} -> 4
              [] op \in {"&", "|", "^"} -> 5

Broken == [ok |-> FALSE, vals |-> <<>>, ops |-> <<>>, operand |-> FALSE]

Reduce(st) ==
    LET op == Last(st.ops) b == Last(st.vals) rest == Front(st.vals)
    IN  IF op = "neg" THEN [st EXCEPT !.ops = Front(@), !.vals = Append(rest, Signed(-b))]
        ELSE IF op = "::"
        THEN [st EXCEPT !.ops = Front(@), !.vals = Append(rest, pio_reverse32(Truncate(b)))]
        ELSE LET r == Apply(op, Last(rest), b)
             IN  [st EXCEPT !.ops = Front(@), !.ok = @ /\ r.ok,
                            !.vals = Append(Front(rest), r.v)]

RECURSIVE ReduceTo(_, _)
ReduceTo(st, level) ==
    IF st.ops # <<>> /\ Prec(Last(st.ops)) >= level THEN ReduceTo(Reduce(st), level) ELSE st

PushOp(st, op) == [st EXCEPT !.ops = Append(@, op), !.operand = TRUE]
PushVal(st, v) == [st EXCEPT !.vals = Append(@, v), !.operand = FALSE]

Shift(st, tok, val) ==
    IF ~st.ok THEN st
    ELSE IF st.operand
    THEN CASE tok.t \in {"num", "id"} -> IF val = <<>> THEN Broken ELSE PushVal(st, val[1])
           [] tok.t = "-" -> PushOp(st, "neg")
           [] tok.t = "(" -> PushOp(st, "(")
           [] tok.t = "::" /\ (st.ops = <<>> \/ Last(st.ops) \in {"(", "::"}) -> PushOp(st, "::")
           [] OTHER -> Broken
    ELSE CASE tok.t \in UNION {Levels[k] : k \in 1 .. 4} ->
                PushOp(ReduceTo(st, Prec(tok.t)), tok.t)
           [] tok.t = ")" ->
                LET r == ReduceTo(st, 1)
                IN  IF r.ops = <<>> THEN Broken ELSE [r EXCEPT !.ops = Front(@)]
           [] OTHER -> Broken

Finish(st) ==
    LET r == IF st.ok /\ ~st.operand THEN ReduceTo(st, 1) ELSE Broken
    IN  IF r.ok /\ r.ops = <<>> THEN <<Truncate(r.vals[1])>> ELSE <<>>

(* The value of an expression, <<>> when it has none: names are replaced   *)
(* by what they stand for, at most fuel defines deep.                      *)
RECURSIVE Value(_, _, _)
NameValue(scope, name, fuel) ==
    LET ds == {i \in scope.defines : src[i].name = name}
        ls == {i \in scope.labels : src[i].label[1].name = name}
    IN  IF ds # {} THEN IF fuel = 0 THEN <<>> ELSE Value(scope, src[Min(ds)].e, fuel - 1)
        ELSE IF ls # {} THEN <<SlotNo(scope, Min(ls))>> ELSE <<>>
TokenValue(scope, tok, fuel) ==
    IF tok.t = "id" THEN NameValue(scope, tok.v, fuel)
    ELSE IF tok.t = "num" /\ tok.v < 2^WORD_BITS THEN <<tok.v>> ELSE <<>>
Value(scope, s, fuel) ==
    Finish(FoldLeft(LAMBDA st, tok : Shift(st, tok, TokenValue(scope, tok, fuel)),
                    [ok |-> TRUE, vals |-> <<>>, ops |-> <<>>, operand |-> TRUE], s))

Worth(scope, s) == Value(scope, s, Cardinality(scope.defines))

(* Parentheses and reversals open around any token of s.                   *)
Nesting(s) ==
    LET Open(k) == Cardinality({j \in 1 .. k : s[j].t \in {"(", "::"}})
                     - Cardinality({j \in 1 .. k : s[j].t = ")"})
    IN  Max({0} \cup {Open(k) : k \in DOMAIN s})

-----------------------------------------------------------------------------
(* Instructions: the fields the engine must read from the emitted word.    *)

Number(scope, s, default) == IF s = <<>> THEN default ELSE Worth(scope, s)[1]

Meaning(scope, i) ==
    CASE i.op = "NOP" -> [op |-> "MOV", dst |-> "Y", mop |-> "NONE", src |-> "Y"]
      [] i.op = "JMP" -> [op |-> "JMP", cond |-> i.cond, n |-> Number(scope, i.e, 0)]
      [] i.op = "WAIT" -> [op |-> "WAIT", pol |-> Number(scope, i.pol, 1), src |-> i.src,
                           mode |-> ModeOf(i.modes), n |-> Number(scope, i.e, 0)]
      [] i.op = "IN" -> [op |-> "IN", src |-> i.src, n |-> Number(scope, i.e, 0)]
      [] i.op = "OUT" -> [op |-> "OUT", dst |-> i.dst, n |-> Number(scope, i.e, 0)]
      [] i.op \in {"PUSH", "PULL"} -> [op |-> i.op, cond |-> i.cond, block |-> i.block]
      [] i.op = "MOVRX" -> [op |-> "MOVRX", get |-> i.get, literal |-> i.literal,
                            n |-> IF i.literal THEN i.n ELSE 0]
      [] i.op = "MOV" -> [op |-> "MOV", dst |-> i.dst, mop |-> i.mop, src |-> i.src]
      [] i.op = "IRQ" -> [op |-> "IRQ", clr |-> i.clr, wait |-> i.wait,
                          mode |-> ModeOf(i.modes), n |-> Number(scope, i.e, 0)]
      [] i.op = "SET" -> [op |-> "SET", dst |-> i.dst, n |-> Number(scope, i.e, 0)]

FirstMod(mods, m) == SelectSeq(mods, LAMBDA x : x.m = m)

(* Delay and side-set as written, where the program has side-set bits.     *)
FieldMeans(scope, mods, ds) ==
    LET delays == FirstMod(mods, "delay") sides == FirstMod(mods, "side")
    IN  /\ ds.delay = IF delays = <<>> THEN 0 ELSE Worth(scope, delays[1].e)[1]
        /\ prog.sideset_bits > 0 => (ds.side_en <=> sides # <<>>)
        /\ sides # <<>> => ds.side_val = Worth(scope, sides[1].e)[1]

SlotMeans(scope, i, word) ==
    IF src[i].k = "word" THEN <<word>> = Worth(scope, src[i].e)
    ELSE LET d == Decode(word, prog.sideset_bits, prog.sideset_opt)
             ins == src[i].insn[1]
         IN  d.what = Meaning(scope, ins) /\ FieldMeans(scope, ins.mods, d.ds)
-----------------------------------------------------------------------------
(* PROPERTIES                                                              *)

Finished == pass = 3

(* The tables of the assembler never hold more than their size and every   *)
(* emitted word fits 16 bits, whatever the source (handle_label,           *)
(* declare_define, handle_instruction, the public table).                  *)
WithinTables ==
    /\ ps.idx <= INSN_COUNT
    /\ Len(ctx.labels) <= MAX_LABELS /\ Len(ctx.defs) <= MAX_DEFINES
    /\ Len(prog.publics) <= MAX_PUBLIC
    /\ \A a \in Addresses : prog.insns[a] \in 0 .. 2^16 - 1

(* The three passes count the same slots: a label found in pass 0 names    *)
(* the instruction that follows it, the count of pass 1 is the number of   *)
(* words, and the pass that emits ends on the same count.                  *)
SlotsAgree(scope) ==
    /\ \A k \in DOMAIN ctx.labels :
         \E i \in scope.labels : /\ src[i].label[1].name = ctx.labels[k].name
                                 /\ ctx.labels[k].index = SlotNo(scope, i)
    /\ EndOfSource => ps.idx = Cardinality(scope.slots)
    /\ pass >= 2 => prog.count = Cardinality(scope.slots)
PassesAgree == pass > 0 /\ ctx.ok => SlotsAgree(Source)

(* Every word of a finished program reads, field by field as the engine    *)
(* decodes it, what its source line says, with forward references, defines *)
(* and side-set widths resolved by the reference.                          *)
AllSlotsMean(scope) ==
    \A i \in scope.slots : SlotMeans(scope, i, prog.insns[SlotNo(scope, i)])
EmittedMeans == Finished => AllSlotsMean(Source)

(* A memoised define has the value of its expression under pioasm's        *)
(* precedence, from whichever pass and line it was first needed.           *)
ValuesRight(scope) ==
    \A k \in DOMAIN ctx.defs :
      ctx.defs[k].resolved => <<ctx.defs[k].value>> = Worth(scope, ctx.defs[k].expr)
DefinesMeanTheirText ==
    pass > 0 /\ (\E k \in DOMAIN ctx.defs : ctx.defs[k].resolved) => ValuesRight(Source)

(* What may be wrong with a source, said of its text.  A name refused as   *)
(* "circular" depends on itself, an "unresolvable" one has no value.       *)
Ids(s) == {s[k].v : k \in {j \in DOMAIN s : s[j].t = "id"}}
Uses(scope, name) ==
    UNION {Ids(src[i].e) : i \in {j \in scope.defines : src[j].name = name}}
RECURSIVE Reach(_, _, _)
Reach(scope, names, n) ==
    IF n = 0 THEN names
    ELSE Reach(scope, names \cup UNION {Uses(scope, x) : x \in names}, n - 1)
DependsOn(scope, name) == Reach(scope, Uses(scope, name), Cardinality(scope.defines))

NoValue(scope, s) == Worth(scope, s) = <<>> \/ Nesting(s) >= EXPR_MAX_DEPTH
OutOf(scope, s, range) == NoValue(scope, s) \/ Worth(scope, s)[1] \notin range
OutOfOpt(scope, s, range) == s # <<>> /\ OutOf(scope, s, range)

BadDefine(scope, tag, name, l) ==
    /\ l.k = "define" /\ l.name = name
    /\ tag = "circular" => name \in DependsOn(scope, name)
    /\ \E i \in scope.defines : /\ src[i].name \in {name} \cup DependsOn(scope, name)
                              /\ NoValue(scope, src[i].e)

(* Line n in its scope: the names and slots before it, and the version and *)
(* the side-set in force.                                                  *)
Before(lines, n) == {i \in lines : i < n}
Named(scope, name) ==
    {i \in scope.defines : src[i].name = name}
      \cup {i \in scope.labels : src[i].label[1].name = name}
Twice(scope, name, n) ==
    /\ Before(Named(scope, name), n) # {}
    /\ name = (IF src[n].k = "define" THEN src[n].name ELSE src[n].label[1].name)
LastBefore(scope, k, n) == Before({i \in scope.body : src[i].k = k}, n)
VersionAt(scope, n) ==
    LET told == LastBefore(scope, "pio_version", n)
    IN  IF told = {} THEN PIO_SIM_PIO_VERSION ELSE Worth(scope, src[Max(told)].e)[1]
JoinTold(scope) ==
    LET told == LastBefore(scope, "fifo", Len(src) + 1)
    IN  IF told = {} THEN "NONE" ELSE src[Max(told)].join
SideTold(scope) ==
    LET told == LastBefore(scope, "side_set", Len(src) + 1)
    IN  IF told = {} THEN [bits |-> 0, opt |-> FALSE]
        ELSE LET l == src[Max(told)]
             IN  [bits |-> Worth(scope, l.e)[1] + Opt(l.opt), opt |-> l.opt]

(* A directive states something it may not.                                *)
BadDirective(scope, l, version) ==
    CASE l.k = "side_set" -> OutOf(scope, l.e, 0 .. 5 - Opt(l.opt))
      [] l.k = "origin" -> OutOf(scope, l.e, Addresses)
      [] l.k = "pio_version" -> OutOf(scope, l.e, 0 .. PIO_SIM_PIO_VERSION)
      [] l.k = "set" -> OutOf(scope, l.e, 0 .. 5)
      [] l.k = "fifo" -> l.join \in {"RX_PUT", "RX_GET", "RX_PUTGET"} /\ version = 0
      [] l.k = "clock_div" -> l.div < 0
      [] l.k = "mov_status" -> \/ l.sel \in {"IRQ_SET_NEXT", "IRQ_SET_PREV"} /\ version = 0
                               \/ ~l.marker \/ OutOf(scope, l.e, 0 .. 31)
      [] l.k = "out" -> OutOf(scope, l.e, 0 .. 32) \/ OutOfOpt(scope, l.thresh, 0 .. 32)
      [] l.k = "in" -> \/ OutOf(scope, l.e, IF version = 0 THEN {32} ELSE 1 .. 32)
                       \/ OutOfOpt(scope, l.thresh, 0 .. 32)

(* No word makes the engine do what the line says: an operand has no       *)
(* value, a name has no code, a number does not fit its field.             *)
Readable == {DecodeOperand(op, operand) : op \in 0 .. 7, operand \in 0 .. 255}
Operands(i) ==
    (IF "pol" \in DOMAIN i /\ i.pol # <<>> THEN {i.pol} ELSE {})
      \cup (IF "e" \in DOMAIN i /\ ~(i.op = "WAIT" /\ i.src = "JMPPIN" /\ i.e = <<>>)
            THEN {i.e} ELSE {})
Unsayable(scope, i) ==
    \/ \E s \in Operands(i) : NoValue(scope, s)
    \/ Meaning(scope, i) \notin Readable

(* The engine could do it, but the version, the mode of the FIFO or the    *)
(* words themselves exclude it.                                            *)
Forbidden(scope, i, version) ==
    \/ "modes" \in DOMAIN i /\ i.modes \cap {"PREV", "NEXT"} # {}
         /\ ("REL" \in i.modes \/ version = 0)
    \/ i.op = "WAIT" /\ i.src = "JMPPIN" /\ (version = 0 \/ OutOfOpt(scope, i.e, 0 .. 3))
    \/ i.op = "MOV" /\ i.dst = "PINDIRS" /\ version = 0
    \/ i.op = "MOVRX" /\ \/ version = 0
                         \/ JoinTold(scope) \notin {"RX_PUTGET", IF i.get THEN "RX_GET" ELSE "RX_PUT"}

TagsOf(op) ==
    CASE op = "JMP" -> {"jmp"} [] op = "IN" -> {"in"} [] op = "OUT" -> {"out"}
      [] op = "SET" -> {"set"} [] op = "IRQ" -> {"irq"} [] op = "MOV" -> {"mov"}
      [] op = "MOVRX" -> {"mov rxfifo"} [] op = "WAIT" -> {"wait polarity", "wait index"}
      [] OTHER -> {}
BadPolarity(scope, i) == OutOfOpt(scope, i.pol, {0, 1}) \/ i.src \notin DOMAIN WaitField
BadInstruction(scope, tag, i) ==
    /\ tag = "wait polarity" => BadPolarity(scope, i)
    /\ tag = "wait index" => ~BadPolarity(scope, i)
    /\ Unsayable(scope, i) \/ Forbidden(scope, i, VersionAt(scope, Len(src) + 1))

(* No setting of the five bits reads back as the delay and the side-set    *)
(* value of the line, or it has a side-set value and the program none.     *)
BadField(scope, mods) ==
    LET told == SideTold(scope)
        sides == FirstMod(mods, "side")
    IN  \/ told.bits = 0 /\ sides # <<>>
        \/ \A field \in 0 .. 31 :
             ~FieldMeans(scope, mods, decode_delay_sideset(told.bits, told.opt, field))

(* The cause that each refusal names.                                      *)
Justified(scope, tag, name, n) ==
    CASE tag \in {"circular", "unresolvable"} -> BadDefine(scope, tag, name, src[n])
      [] tag = "bad define" -> src[n].k = "define" /\ src[n].e = <<>>
      [] tag = "duplicate" -> Twice(scope, name, n)
      [] tag = "too many defines" -> Cardinality(Before(scope.defines, n)) = MAX_DEFINES
      [] tag = "too many labels" -> Cardinality(Before(scope.labels, n)) = MAX_LABELS
      [] tag = "too many public labels" ->
           Cardinality({i \in scope.labels : src[i].label[1].public}) > MAX_PUBLIC
      [] tag = "too long" -> n \in scope.slots /\ SlotNo(scope, n) = INSN_COUNT
      [] tag = "no instruction" ->
           \/ scope.slots = {}
           \/ \E i \in scope.body : src[i].k = "wrap_target"
                                  /\ \A j \in scope.slots : j < i
      [] tag = "wrap" -> /\ src[n].k = "wrap"
                         /\ SlotNo(scope, n) = 0 \/ LastBefore(scope, "wrap", n) # {}
      [] tag = "word" -> src[n].k = "word" /\ OutOf(scope, src[n].e, 0 .. 2^16 - 1)
      [] tag = "directive" ->
           src[n].k = name /\ BadDirective(scope, src[n], VersionAt(scope, n))
      [] tag = "mnemonic" -> src[n].insn[1].op = "BAD"
      [] tag \in {"side", "delay"} ->
           \E k \in DOMAIN src[n].insn[1].mods :
             src[n].insn[1].mods[k].m = tag /\ NoValue(scope, src[n].insn[1].mods[k].e)
      [] tag = "delay/side" -> BadField(scope, src[n].insn[1].mods)
      [] OTHER -> tag \in TagsOf(src[n].insn[1].op) /\ BadInstruction(scope, tag, src[n].insn[1])

(* A refused source is refused for what the line of the error says: each   *)
(* message has its cause in the text, judged by what the engine can read   *)
(* back and by the version, FIFO mode, tables and side-set in force there. *)
(* The largest value of every field is therefore accepted.                 *)
RefusedForCause ==
    pass > 0 /\ ~ctx.ok
      => Justified(Source, ctx.error[1], ctx.error[2], ctx.error_line)

(* A state machine whose program is still in memory cannot leave it: from  *)
(* its PC, falling through, wrapping and jumping reach only the program's  *)
(* own words, if the program's jumps stay inside it, its wrap does not     *)
(* precede its target and its last word does not fall through.  The wrap   *)
(* window lies inside the loaded words in every case.                      *)
Successors(m, pc) ==
    LET d == DecodeOperand(insn[pc] \div 8192, insn[pc] % 256)
    IN  IF insn[pc] = UNWRITTEN THEN {} ELSE
        (IF d.op = "JMP" /\ d.cond = "ALWAYS" THEN {}
         ELSE {IF pc = m.cfg.wrap_top THEN m.cfg.wrap_bottom ELSE pc + 1})
          \cup (IF d.op = "JMP" THEN {d.n} ELSE {})
RECURSIVE Visits(_, _, _)
Visits(m, pcs, n) ==
    IF n = 0 THEN pcs
    ELSE Visits(m, pcs \cup UNION {Successors(m, pc) : pc \in pcs \cap Addresses}, n - 1)

Closed32(p) ==
    /\ \A k \in 0 .. p.count - 1 : IsJmp(p.insns[k]) => p.insns[k] % 32 < p.count
    /\ p.wrap_bottom <= p.wrap_top
    /\ p.wrap_top = p.count - 1 \/ p.insns[p.count - 1] \in 0 .. 31
StaysHome ==
    \A s \in SMs : home[s] >= 0 =>
      LET window == home[s] .. home[s] + prog.count - 1
      IN  /\ {sm[s].cfg.wrap_bottom, sm[s].cfg.wrap_top} \subseteq window
          /\ Closed32(prog) => Visits(sm[s], {sm[s].pc}, prog.count) \subseteq window

(* Applying the directives gives every field the last directive of the     *)
(* body that speaks of it, leaves every other field alone, and drops the   *)
(* words waiting in the FIFO only with a .fifo that changes the mode.  It  *)
(* also ends a fixed STATUS value, whatever the directives are.            *)
LastOf(scope, k) == {i \in scope.body : src[i].k = k /\ \A j \in scope.body : src[j].k = k => j <= i}
Told(scope, k, V(_), old) ==
    IF LastOf(scope, k) = {} THEN old ELSE V(src[CHOOSE i \in LastOf(scope, k) : TRUE])
Threshold(n) == IF n = 0 THEN 32 ELSE n
ShiftAsTold(l) == <<IF l.right THEN "RIGHT" ELSE "LEFT", l.auto>>
Spoken == {"set_count", "out_count", "in_count", "push_thresh", "pull_thresh", "in_dir",
           "autopush", "out_dir", "autopull", "fifo_join", "status_sel", "status_n",
           "clkdiv_int", "clkdiv_frac"}
Div(int, frac) == 256 * int + frac
FieldsAsTold(scope, old, new) ==
    /\ new.set_count = Told(scope, "set", LAMBDA l : Worth(scope, l.e)[1], old.set_count)
    /\ new.out_count = Told(scope, "out", LAMBDA l : Worth(scope, l.e)[1], old.out_count)
    /\ new.in_count = Told(scope, "in", LAMBDA l : Worth(scope, l.e)[1], old.in_count)
    /\ new.push_thresh = Told(scope, "in", LAMBDA l : Threshold(Number(scope, l.thresh, 32)),
                              old.push_thresh)
    /\ new.pull_thresh = Told(scope, "out", LAMBDA l : Threshold(Number(scope, l.thresh, 32)),
                              old.pull_thresh)
    /\ <<new.in_dir, new.autopush>> = Told(scope, "in", ShiftAsTold, <<old.in_dir, old.autopush>>)
    /\ <<new.out_dir, new.autopull>> =
         Told(scope, "out", ShiftAsTold, <<old.out_dir, old.autopull>>)
    /\ new.fifo_join = Told(scope, "fifo", LAMBDA l : l.join, old.fifo_join)
    /\ <<new.status_sel, new.status_n>> =
         Told(scope, "mov_status", LAMBDA l : <<l.sel, Worth(scope, l.e)[1]>>,
              <<old.status_sel, old.status_n>>)
    /\ Told(scope, "clock_div",
            LAMBDA l : \A d \in 256 .. 2048 : \* no encoding is nearer
              LET want == IF l.div < 1024 THEN 1024 ELSE l.div
                  Dist(x) == IF 4 * x > want THEN 4 * x - want ELSE want - 4 * x
              IN  Dist(Div(new.clkdiv_int, new.clkdiv_frac)) <= Dist(d),
            <<new.clkdiv_int, new.clkdiv_frac>> = <<old.clkdiv_int, old.clkdiv_frac>>)
    /\ DOMAIN new = DOMAIN old
    /\ \A f \in DOMAIN old \ Spoken : new[f] = old[f]
DirectivesOnly ==
    [][\A s \in SMs : ApplyConfig(s) =>
         /\ FieldsAsTold(Source, sm[s].cfg, sm'[s].cfg)
         /\ sm'[s].tx = (IF sm'[s].cfg.fifo_join = sm[s].cfg.fifo_join THEN sm[s].tx ELSE 0)
         /\ sm'[s].pc = sm[s].pc /\ ~sm'[s].status_override
         /\ \A t \in SMs \ {s} : sm'[t] = sm[t]]_vars

(* Only directives that were present take effect, and the fixed STATUS     *)
(* value, which is no part of a configuration, lasts until the host clears *)
(* it: without a .mov_status it survives an application.  It does not:     *)
(* pio_sim_sm_set_config drops it with every configuration.                *)
StatusKept ==
    [][\A s \in SMs : ApplyConfig(s) /\ LastOf(Source, "mov_status") = {} =>
         sm'[s].status_override = sm[s].status_override]_vars
============================================================================

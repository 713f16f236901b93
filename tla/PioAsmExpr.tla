---------------------------- MODULE PioAsmExpr ----------------------------
(***************************************************************************)
(* The assembler's integer expressions: the recursive-descent evaluator of *)
(* pio_asm.c over a sequence of tokens, the lazy and memoised resolution   *)
(* of .define symbols it recurses into, and its error record.              *)
(*                                                                         *)
(* A token is [t |-> "num", v |-> n], [t |-> "id", v |-> name], or         *)
(* [t |-> op] for an operator or a parenthesis.  A context (asm_ctx_t with *)
(* the error fields of pio_program_t) is threaded through the evaluation,  *)
(* because evaluating an identifier may memoise a define or set the error. *)
(***************************************************************************)
EXTENDS Integers, Sequences, FiniteSets, FiniteSetsExt, SequencesExt, Bitwise

CONSTANTS LONG_BITS,       \* width of an intermediate value (int64_t: 64)
          WORD_BITS,       \* width of a resolved operand (uint32_t: 32)
          EXPR_MAX_DEPTH   \* nesting bound (64)

ASSUME ExprAssumption ==
    /\ WORD_BITS \in Nat \ {0} /\ LONG_BITS \in Nat /\ LONG_BITS > WORD_BITS
    /\ EXPR_MAX_DEPTH \in Nat \ {0}

Unsigned(v) == v % 2^LONG_BITS
Signed(v) ==
    LET u == Unsigned(v) IN IF u >= 2^(LONG_BITS - 1) THEN u - 2^LONG_BITS ELSE u
Truncate(v) == v % 2^WORD_BITS
LONG_MIN == -2^(LONG_BITS - 1)

pio_reverse32(w) ==
    MapThenSumSet(LAMBDA i : ((w \div 2^i) % 2) * 2^(WORD_BITS - 1 - i),
                  0 .. WORD_BITS - 1)

-----------------------------------------------------------------------------
(* Error record: the first error wins.                                     *)

pa_set_error(ctx, msg) ==
    IF ctx.ok THEN [ctx EXCEPT !.ok = FALSE, !.error = msg, !.error_line = ctx.line_no]
    ELSE ctx

(* Symbol tables: one namespace, labels and defines.                       *)
LabelAt(ctx, name) == SelectInSeq(ctx.labels, LAMBDA l : l.name = name)
DefineAt(ctx, name) == SelectInSeq(ctx.defs, LAMBDA d : d.name = name)
find_label(ctx, name) ==
    IF LabelAt(ctx, name) = 0 THEN -1 ELSE ctx.labels[LabelAt(ctx, name)].index
define_declared(ctx, name) == DefineAt(ctx, name) # 0

-----------------------------------------------------------------------------
(* Operators.  & | ^ bind tightest, then * /, then + -, then << >>.        *)

(* Faulty variant: the precedence of C.                                    *)
Levels_of_c == << {"*", "/"}, {"+", "-"}, {"<<", ">>"}, {"&", "|", "^"} >>

Levels == << {"&", "|", "^"}, {"*", "/"}, {"+", "-"}, {"<<", ">>"} >>

(* C division truncates towards zero.                                      *)
Quotient(a, b) ==
    LET q == (IF a < 0 THEN -a ELSE a) \div (IF b < 0 THEN -b ELSE b)
    IN  IF (a < 0) = (b < 0) THEN q ELSE -q

expr_do_shift(v, by, left) ==
    IF by < 0 \/ by > LONG_BITS - 1 THEN [ok |-> FALSE, v |-> 0]
    ELSE [ok |-> TRUE,
          v |-> Signed(IF left THEN (Unsigned(v) % 2^(LONG_BITS - by)) * 2^by
                       ELSE Unsigned(v) \div 2^by)]

Apply(op, a, b) ==
    CASE op = "&" -> [ok |-> TRUE, v |-> Signed(Unsigned(a) & Unsigned(b))]
      [] op = "|" -> [ok |-> TRUE, v |-> Signed(Unsigned(a) | Unsigned(b))]
      [] op = "^" -> [ok |-> TRUE, v |-> Signed(Unsigned(a) ^^ Unsigned(b))]
      [] op = "*" -> [ok |-> TRUE, v |-> Signed(a * b)]
      [] op = "/" -> IF b = 0 THEN [ok |-> FALSE, v |-> a]
                     ELSE [ok |-> TRUE, v |-> IF a = LONG_MIN /\ b = -1 THEN a
                                              ELSE Quotient(a, b)]
      [] op = "+" -> [ok |-> TRUE, v |-> Signed(a + b)]
      [] op = "-" -> [ok |-> TRUE, v |-> Signed(a - b)]
      [] op = "<<" -> expr_do_shift(a, b, TRUE)
      [] op = ">>" -> expr_do_shift(a, b, FALSE)

-----------------------------------------------------------------------------
(* The evaluator.  e = [s, p, ok, depth, v, ctx] is expr_t with the value  *)
(* the last call returned.                                                 *)

Peek(e) == IF e.p <= Len(e.s) THEN e.s[e.p].t ELSE "end"
Advance(e) == [e EXCEPT !.p = @ + 1]
Fail(e) == [e EXCEPT !.ok = FALSE, !.v = 0]
Yield(e, val) == [e EXCEPT !.v = val]

RECURSIVE expr_level(_, _), LevelLoop(_, _), expr_reverse(_), resolve_uint(_, _)

resolve_define_value(ctx, name) ==
    LET i == DefineAt(ctx, name)
        d == ctx.defs[i]
        AtDecl(c) == [c EXCEPT !.line_no = d.line]
        Enter == [ctx EXCEPT !.defs[i].visiting = TRUE]
        Leave(r) ==
          LET c == [r.ctx EXCEPT !.defs[i].visiting = FALSE]
          IN  IF r.ok
              THEN [ok |-> TRUE, v |-> r.v,
                    ctx |-> [c EXCEPT !.defs[i].resolved = TRUE, !.defs[i].value = r.v]]
              ELSE [ok |-> FALSE, v |-> 0,
                    ctx |-> pa_set_error(AtDecl(c), <<"unresolvable", name>>)]
    IN  IF d.resolved THEN [ok |-> TRUE, v |-> d.value, ctx |-> ctx]
        ELSE IF d.visiting
        THEN [ok |-> FALSE, v |-> 0,
              ctx |-> pa_set_error(AtDecl(ctx), <<"circular", name>>)]
        ELSE Leave(resolve_uint(Enter, d.expr))

(* A literal that does not fit a word is refused; an identifier is a       *)
(* define first, then a label.                                             *)
Identifier(e, name) ==
    IF define_declared(e.ctx, name)
    THEN LET r == resolve_define_value(e.ctx, name)
         IN  [e EXCEPT !.ctx = r.ctx, !.ok = @ /\ r.ok, !.v = r.v]
    ELSE IF find_label(e.ctx, name) >= 0 THEN Yield(e, find_label(e.ctx, name))
    ELSE Fail(e)

Closed(e) == IF Peek(e) = ")" THEN Advance(e) ELSE [e EXCEPT !.ok = FALSE]
Negated(e) == [e EXCEPT !.v = Signed(-@)]

(* Unary minus takes a multiplicative operand: - 1 & 6 is -(1 & 6).        *)
expr_primary(e) ==
    CASE Peek(e) = "-" -> Negated(expr_level(Advance(e), 2))
      [] Peek(e) = "(" -> Closed(expr_reverse(Advance(e)))
      [] Peek(e) = "num" ->
           IF e.s[e.p].v < 2^WORD_BITS THEN Yield(Advance(e), e.s[e.p].v)
           ELSE Fail(Advance(e))
      [] Peek(e) = "id" -> Identifier(Advance(e), e.s[e.p].v)
      [] OTHER -> Fail(e)

(* expr_bit, expr_mul, expr_add, expr_shift: one left-associative loop per *)
(* level over operands of the next tighter one.                            *)
Operand(e, k) == IF k = 1 THEN expr_primary(e) ELSE expr_level(e, k - 1)
Both(e, r) == [e EXCEPT !.ok = @ /\ r.ok, !.v = r.v]
Combined(op, left, right) == Both(right, Apply(op, left, right.v))
LevelLoop(e, k) ==
    IF Peek(e) \in Levels[k]
    THEN LevelLoop(Combined(Peek(e), e.v, Operand(Advance(e), k)), k)
    ELSE e
expr_level(e, k) == LevelLoop(Operand(e, k), k)

Reversed(e) == [e EXCEPT !.v = pio_reverse32(Truncate(@))]
expr_reverse(e) ==
    LET deeper == [e EXCEPT !.depth = @ + 1]
        Back(r) == [r EXCEPT !.depth = e.depth]
    IN  IF deeper.depth > EXPR_MAX_DEPTH THEN Fail(e)
        ELSE IF Peek(e) = "::" THEN Back(Reversed(expr_reverse(Advance(deeper))))
        ELSE Back(expr_level(deeper, 4))

resolve_uint(ctx, s) ==
    LET e == expr_reverse([s |-> s, p |-> 1, ok |-> TRUE, depth |-> 0, v |-> 0,
                           ctx |-> ctx])
    IN  [ok |-> e.ok /\ Peek(e) = "end", v |-> Truncate(e.v), ctx |-> e.ctx]
============================================================================

------------------------------ MODULE PioInsns ------------------------------
(***************************************************************************)
(* Instruction constructors for the programs of the models: the encoders   *)
(* of pio_sim.c with the fields kept apart.  Delay and side-set are added  *)
(* with Delay and Side.                                                    *)
(***************************************************************************)
EXTENDS PioSm

JMP(cond, addr)    == [op |-> "JMP", cond |-> cond, addr |-> addr,
                       delay |-> 0, side |-> <<>>]
WAIT(pol, src, mode, idx) ==
    [op |-> "WAIT", pol |-> pol, src |-> src, mode |-> mode, idx |-> idx,
     delay |-> 0, side |-> <<>>]
IN_(src, cnt)      == [op |-> "IN", src |-> src, cnt |-> cnt,
                       delay |-> 0, side |-> <<>>]
OUT(dst, cnt)      == [op |-> "OUT", dst |-> dst, cnt |-> cnt,
                       delay |-> 0, side |-> <<>>]
PUSH(iffull, block)  == [op |-> "PUSH", iffull |-> iffull, block |-> block,
                         delay |-> 0, side |-> <<>>]
PULL(ifempty, block) == [op |-> "PULL", ifempty |-> ifempty, block |-> block,
                         delay |-> 0, side |-> <<>>]
MOV(dst, mop, src) == [op |-> "MOV", dst |-> dst, mop |-> mop, src |-> src,
                       delay |-> 0, side |-> <<>>]
MOVRX(get, literal, idx) ==
    [op |-> "MOVRX", get |-> get, literal |-> literal, idx |-> idx,
     delay |-> 0, side |-> <<>>]
IRQ(clr, wait, mode, idx) ==
    [op |-> "IRQ", clr |-> clr, wait |-> wait, mode |-> mode, idx |-> idx,
     delay |-> 0, side |-> <<>>]
SET(dst, val)      == [op |-> "SET", dst |-> dst, val |-> val,
                       delay |-> 0, side |-> <<>>]

NOP == MOV("Y", "NONE", "Y")

(* It touches registers and pins only.                                     *)
Works(i) == i.op \in {"MOV", "SET"} /\ i.dst \notin {"EXEC", "PC"}

(* A program at address 0; the words after it are unwritten.               *)
Prog(is) == [a \in PCs |-> IF a < Len(is) THEN is[a + 1] ELSE NoInsn]

(* The state machines sms run the program with one configuration; the host *)
(* makes the calls on them.                                                *)
Alone(prog, conf, sms, calls) ==
    [prog |-> [b \in Blocks |-> prog],
     conf |-> [b \in Blocks |-> [s \in SMs |->
                 IF <<b, s>> \in sms THEN conf ELSE pio_get_default_sm_config]],
     on   |-> sms,
     host |-> [story |-> "alone", calls |-> calls, sms |-> sms]]

Delay(i, n) == [i EXCEPT !.delay = n]
Side(i, w)  == [i EXCEPT !.side = <<w>>]
============================================================================

--------------------------- MODULE MCPioPrograms ---------------------------
(* Programs for PioPrograms: three linked blocks of two state machines.    *)
EXTENDS PioPrograms

Base == pio_get_default_sm_config

(***************************************************************************)
(* meet: absolute and relative flags, both scan orders, unequal clocks.    *)
(* Words 0-1 are the program of state machine 0, words 2-3 of 1; c is the  *)
(* number of the caller.                                                   *)
(***************************************************************************)
MeetConf(start, div) == [Base EXCEPT !.wrap_bottom = start, !.wrap_top = start + 1,
                                     !.div = div]

Meet(c, call, serve, d) ==
    LET first  == IF c = 0 THEN call ELSE serve
        second == IF c = 0 THEN serve ELSE call
    IN  [prog |-> [b \in Blocks |-> Prog(<<first, NOP, second, Delay(NOP, 1)>>)],
         conf |-> [b \in Blocks |-> [s \in SMs |->
                     IF b # 0 THEN Base
                     ELSE IF s = 0 THEN MeetConf(0, d[1]) ELSE MeetConf(2, d[2])]],
         on   |-> {0} \X SMs,
         host |-> [story |-> "meet", calls |-> {"enable", "exec"}, sms |-> {0} \X SMs]]

Abs(c, d) == Meet(c, IRQ(FALSE, TRUE, "SELF", 1), WAIT(TRUE, "IRQ", "SELF", 1), d)

(* Relative indices that reach flag 0 from either state machine.           *)
Rel(c, d) == Meet(c, IRQ(FALSE, TRUE, "REL", (2 - c) % 2),
                     WAIT(TRUE, "IRQ", "REL", (1 + c) % 2), d)

Divs == {<<2, 2>>, <<2, 3>>, <<3, 2>>}
MeetSetups == {Abs(c, d) : c \in {0, 1}, d \in Divs}
                \union {Rel(c, d) : c \in {0, 1}, d \in Divs}

(***************************************************************************)
(* ring: the token passed forward or backward, unequal clocks.             *)
(***************************************************************************)
Pass(dir, div) ==
    [prog |-> [b \in Blocks |-> Prog(<<WAIT(TRUE, "IRQ", "SELF", 0), Delay(NOP, 1),
                                       IRQ(FALSE, FALSE, dir, 0)>>)],
     conf |-> [b \in Blocks |-> [s \in SMs |->
                 [Base EXCEPT !.wrap_top = 2, !.div = IF b = 1 /\ s = 0 THEN div ELSE 2]]],
     on   |-> Blocks \X {0},
     host |-> [story |-> "ring", calls |-> {"enable", "irq_force"},
               sms |-> Blocks \X {0}]]

RingSetups == {Pass(dir, div) : dir \in {"NEXT", "PREV"}, div \in {2, 3}}

(***************************************************************************)
(* twins: a program that stalls, delays and branches on what it read, at a *)
(* clock divisor of 3/2.                                                   *)
(***************************************************************************)
Watch == Prog(<<WAIT(TRUE, "GPIO", "SELF", 0), Delay(MOV("X", "NONE", "PINS"), 1),
                JMP("XDEC", 1)>>)

TwinSetups ==
    {[Alone(Watch, [Base EXCEPT !.div = 3, !.wrap_top = 2], {0} \X SMs,
            {"enable", "restart", "enable_in_sync", "set_pin"})
        EXCEPT !.host.story = "twins"]}

AllSetups == MeetSetups \union RingSetups \union TwinSetups
MCDecode(w) == NoInsn
MCExec == {NOP}
MCBase == [b \in Blocks |-> 0]

(* The meetings, the rings and the twins are what the theorems about them  *)
(* ask for.                                                                *)
ASSUME MCMeetings == Meetings
ASSUME MCTokenRings == TokenRings
ASSUME MCLookingTwins == LookingTwins
============================================================================

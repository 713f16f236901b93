------------------------------ MODULE MCPioSim ------------------------------
(* The whole engine on one-bit words and shared pads: one setup per kind   *)
(* of host traffic.                                                        *)
EXTENDS PioSim, PioInsns

Base == pio_get_default_sm_config

(***************************************************************************)
(* FIFO traffic: indexed moves, autopush, PUSH and PULL under every join.  *)
(***************************************************************************)
FifoConf(join) == [Base EXCEPT !.autopush = TRUE, !.fifo_join = join]

FifoProg == Prog(<<MOVRX(FALSE, TRUE, 0), IN_("OSR", 1), PUSH(FALSE, FALSE),
                   MOVRX(TRUE, FALSE, 0)>>)
PullProg == Prog(<<PULL(FALSE, TRUE), IN_("OSR", 1), MOVRX(TRUE, TRUE, 0),
                   PUSH(TRUE, TRUE)>>)

FifoCalls == {"put", "get", "clear_fifos", "rxfifo_put"}
FifoSetups ==
    {Alone(FifoProg, FifoConf("NONE"), {<<0, 0>>},
           FifoCalls \union {"set_config", "clear_fdebug"}),
     Alone(PullProg, FifoConf("NONE"), {<<0, 0>>}, FifoCalls \union {"init"})}
FifoConfigs == {FifoConf(j) : j \in Joins}

(***************************************************************************)
(* Two state machines on one pin.  Words 0-3 belong to the first, 4-7 to   *)
(* the second.                                                             *)
(***************************************************************************)
PinConf(s) == [Base EXCEPT !.wrap_bottom = 4 * s, !.wrap_top = 4 * s + 3,
                           !.out_count = 1, !.set_count = 1,
                           !.status_n = 1, !.pull_thresh = 1]

OnPin(is, c0, c1) ==
    [prog |-> [b \in Blocks |-> Prog(is)],
     conf |-> [b \in Blocks |-> [s \in SMs |-> IF s = 0 THEN c0 ELSE c1]],
     on   |-> {<<0, 0>>},
     host |-> [story |-> "pin", calls |-> {"enable", "pindirs", "exec"},
               sms |-> {0} \X SMs]]

(* Direction and level toggling against a waiter that drives the status.   *)
Toggle == OnPin(<<SET("PINS", ONES), SET("PINDIRS", ONES),
                  SET("PINS", ZERO), Delay(SET("PINDIRS", ZERO), 1),
                  WAIT(TRUE, "GPIO", "SELF", 0), MOV("PINDIRS", "INVERT", "NULL"),
                  MOV("PINS", "NONE", "STATUS"), SET("PINDIRS", ZERO)>>,
                PinConf(0), PinConf(1))

(* OUT_STICKY with an inline enable that releases the pin, against a       *)
(* side-set of the direction.                                              *)
Release == [OnPin(<<MOV("OSR", "INVERT", "NULL"), OUT("PINDIRS", 1),
                    OUT("PINS", 1), JMP("NOTOSRE", 0),
                    Side(JMP("PIN", 6), ONES), Side(JMP("XDEC", 4), ZERO),
                    Side(SET("PINS", ZERO), ONES), JMP("XNEY", 4)>>,
                  [PinConf(0) EXCEPT !.out_sticky = TRUE, !.out_inline_en = TRUE],
                  [PinConf(1) EXCEPT !.sideset_bits = 1, !.sideset_pindirs = TRUE])
             EXCEPT !.host.calls = {"enable", "exec"}]

(* A sticky upper state machine that waits for a flag, over a lower one    *)
(* that toggles the pin and is written to by the host.                     *)
Sticky == [OnPin(<<SET("PINS", ONES), SET("PINS", ZERO), NOP, SET("PINDIRS", ONES),
                   SET("PINDIRS", ONES), SET("PINS", ONES),
                   WAIT(TRUE, "IRQ", "SELF", 0), SET("PINS", ZERO)>>,
                 PinConf(0), [PinConf(1) EXCEPT !.out_sticky = TRUE])
             EXCEPT !.on = {<<0, 0>>, <<0, 1>>},
                    !.host.calls = {"enable", "exec", "irq_force"},
                    !.host.sms = {<<0, 0>>}]

(* The host also writes through a later block on the same pin.             *)
StickyUnder == [Sticky EXCEPT !.host.calls = {"exec"},
                              !.host.sms = {<<0, 0>>, <<1, 0>>}]

(* Two blocks toggle the shared pin and are stopped and started.           *)
Neighbours == [Toggle EXCEPT !.on = {<<0, 0>>, <<1, 0>>},
                             !.host.calls = {"enable"},
                             !.host.sms = {<<0, 0>>, <<1, 0>>}]

PinSetups == {Toggle, Release, Sticky, StickyUnder, Neighbours}
PinConfigs == {PinConf(1)}
PinExec == {SET("PINS", ONES)}

(* The host re-initialises a running state machine.                        *)
ReinitSetups == {[Toggle EXCEPT !.host.calls = {"enable", "pindirs", "init"}]}

(***************************************************************************)
(* Host calls against a short program of saturating shifts.                *)
(***************************************************************************)
ShiftConf == [Base EXCEPT !.wrap_top = 1, !.autopull = TRUE, !.in_right = TRUE,
                          !.status_sel = "IRQ_SET", !.div = 2]
ShiftProg == Prog(<<IN_("STATUS", 1), Delay(OUT("PC", 1), 1)>>)
HostSetups == {Alone(ShiftProg, ShiftConf, {<<0, 0>>}, calls) : calls \in
                 {{"put", "enable", "enable_in_sync", "restart", "set_pc"},
                  {"put", "exec", "status"},
                  {"exec", "irq_force", "set_pin"}}}

AllSetups == FifoSetups \union PinSetups \union HostSetups

MCDecode(w) == NoInsn
MCBase == [b \in Blocks |-> 0]
MCWords == {ONES}
============================================================================

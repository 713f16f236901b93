--------------------------- MODULE PioRendezvous ---------------------------
(***************************************************************************)
(* Two state machines of a block meet on an IRQ flag: the caller executes  *)
(* `irq wait', the server `wait 1 irq' on the same flag.  History counters *)
(* record how often each got past its synchronising instruction, the first *)
(* word of its program.  The host stops and starts either at any moment    *)
(* and may inject instructions.                                            *)
(***************************************************************************)
EXTENDS PioSim, PioInsns

CONSTANTS
    EXEC_PARKED,        \* TRUE: the host injects into a stalled SM, too
    LAPS                \* the counters are kept modulo LAPS

ASSUME TwoAssumption == NUM_SM = 2
ASSUME LapsAssumption == LAPS \in Nat \ {0}

VARIABLE passed         \* passed[s]: synchronisations completed by s

Meeting == host.story = "meet"

(* The caller is the one whose program starts with the IRQ instruction.    *)
Caller == CHOOSE s \in SMs : insn[0][cfg[0][s].wrap_bottom].op = "IRQ"
Server == 1 - Caller

(* s left the first word of its program in this step.                      *)
Passes(s) == /\ sm[0][s].pc = cfg[0][s].wrap_bottom
             /\ sm'[0][s].pc # cfg[0][s].wrap_bottom

Count == passed' = [s \in SMs |-> IF Passes(s) THEN (passed[s] + 1) % LAPS
                                  ELSE passed[s]]

RNext ==
    /\ \/ Step
       \/ \E s \in SMs, on \in BOOLEAN : pio_sim_set_sm_mask_enabled(0, {s}, on)
       \/ \E s \in SMs, i \in ExecInsns :
            /\ EXEC_PARKED \/ ~sm[0][s].stalled
            /\ pio_sim_sm_exec(0, s, i)
    /\ Count

(* Each call is served exactly once: the server is never behind the caller *)
(* and at most one synchronisation ahead of it.  The caller raises the     *)
(* flag once and then only polls, and `wait 1 irq' takes the flag it saw.  *)
Paired == Meeting => (passed[Server] - passed[Caller]) % LAPS \in {0, 1}

(* A start of such a pair: state machines of block 0, and no others, run a *)
(* call or its answer on one flag of their block, then something that      *)
(* touches registers or pins only, and so are the words the host injects;  *)
(* delays, side-sets, dividers and the rest are anything.  A relative      *)
(* index means a flag of its group, counted on by the state machine.       *)
OnFlag(i, s, n) ==
    \/ i.mode = "SELF" /\ n = i.idx
    \/ /\ i.mode = "REL" /\ n \div NUM_SM = i.idx \div NUM_SM
       /\ n % NUM_SM = (i.idx + s) % NUM_SM
Summons(i, s, n) == i.op = "IRQ" /\ i.wait /\ ~i.clr /\ OnFlag(i, s, n)
Answers(i, s, n) == i.op = "WAIT" /\ i.src = "IRQ" /\ i.pol /\ OnFlag(i, s, n)

MeetSetup(su) ==
    LET First(s) == su.prog[0][su.conf[0][s].wrap_bottom]
        Rest(s)  == su.prog[0][su.conf[0][s].wrap_top]
    IN  /\ su.on \subseteq {0} \X SMs /\ {0} \X SMs \subseteq su.host.sms
        /\ \A s \in SMs : /\ su.conf[0][s].wrap_top = su.conf[0][s].wrap_bottom + 1
                          /\ Works(Rest(s))
        /\ \E c \in SMs, n \in Irqs : Summons(First(c), c, n) /\ Answers(First(1 - c), 1 - c, n)

Meetings ==
    /\ \A i \in ExecInsns : Works(i)
    /\ \A su \in Setups : su.host.story = "meet" => MeetSetup(su)

(* Both keep meeting while the clocks of both keep running: neither the    *)
(* order in which a tick visits the two nor their dividers can make both   *)
(* wait for each other.                                                    *)
BothRun == \A s \in SMs : sm[0][s].enabled
KeepMeeting ==
    (Meeting /\ <>[]BothRun) => \A s \in SMs, k \in 0 .. LAPS - 1 :
                                  []<>(passed[s] = k)
============================================================================

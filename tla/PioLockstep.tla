---------------------------- MODULE PioLockstep ----------------------------
(***************************************************************************)
(* Two state machines of a block with one program and one configuration.   *)
(* The host stops them one by one, restarts each while it is stopped, and  *)
(* starts both with pio_sim_enable_sm_mask_in_sync.  Between these calls   *)
(* ticks go on, and the dividers of stopped state machines free-run.  The  *)
(* pin the program looks at changes at any moment.                         *)
(***************************************************************************)
EXTENDS PioSim, PioInsns

VARIABLES
    fresh,      \* state machines restarted while stopped, and not touched since
    synced      \* both were fresh when they were started in sync

Stopped(s) == ~sm[0][s].enabled

StartOrStop ==
    \E s \in SMs, on \in BOOLEAN :
      /\ pio_sim_set_sm_mask_enabled(0, {s}, on)
      /\ fresh' = IF on THEN fresh \ {s} ELSE fresh
      /\ synced' = FALSE

Restart ==
    \E s \in SMs :
      /\ pio_sim_sm_restart(0, s)
      /\ fresh' = IF Stopped(s) THEN fresh \union {s} ELSE fresh
      /\ synced' = FALSE

InSync ==
    /\ pio_sim_enable_sm_mask_in_sync(0, SMs)
    /\ fresh' = {}
    /\ synced' = (fresh = SMs)

Surroundings ==
    /\ \E level \in BOOLEAN : SetPin(0, 0, level)
    /\ UNCHANGED <<fresh, synced>>

LNext == \/ StartOrStop \/ Restart \/ InSync \/ Surroundings
         \/ Step /\ UNCHANGED <<fresh, synced>>

(* State machines started in sync after a restart of each run in lockstep: *)
(* same PC, registers, delay, stall and divider phase after every tick,    *)
(* although they were stopped and restarted at different ticks, their      *)
(* dividers ran on in between, and they wait on inputs.  It rests on       *)
(* sm_reset_exec leaving nothing behind and on the divider restart.        *)
Lockstep ==
    synced => \A s \in SMs :
      [sm[0][s] EXCEPT !.fdebug = {}] = [sm[0][0] EXCEPT !.fdebug = {}]

(* A start of such twins: state machines of block 0 with one configuration *)
(* and no automatic push or pull, and a program that only looks: it        *)
(* branches, waits on pins, and moves and shifts among its own registers.  *)
(* The other blocks run anything.                                          *)
Looks(i) ==
    /\ i.side = <<>>
    /\ \/ i.op \in {"JMP", "IN"}
       \/ i.op = "WAIT" /\ i.src # "IRQ"
       \/ i.op = "SET" /\ i.dst \in {"X", "Y"}
       \/ i.op = "OUT" /\ i.dst \in {"X", "Y", "NULL", "PC", "ISR"}
       \/ i.op = "MOV" /\ i.dst \in {"X", "Y", "PC", "ISR", "OSR"}

TwinSetup(su) ==
    /\ {0} \X SMs \subseteq su.host.sms
    /\ \A a \in PCs : Looks(su.prog[0][a])
    /\ \A s \in SMs : su.conf[0][s] = su.conf[0][0]
    /\ ~su.conf[0][0].autopull /\ ~su.conf[0][0].autopush

LookingTwins == \A su \in Setups : su.host.story = "twins" => TwinSetup(su)
============================================================================

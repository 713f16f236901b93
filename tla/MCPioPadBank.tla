---------------------------- MODULE MCPioPadBank ----------------------------
(* Three users of one pin shared by two blocks of one state machine.       *)
EXTENDS PioPadBank

(* Both blocks write, release and are stopped under the function mux.      *)
Mux == [ops |-> {"write", "release", "enable", "func", "periph", "oeover"},
        blocks |-> Blocks]

(* Isolation against every source of drive.                                *)
Iso == [ops |-> {"write", "func", "periph", "outover", "oeover", "od", "iso",
                 "reset"},
        blocks |-> {0}]

(* External drive, pulls, bus keeper and synchroniser.                     *)
Input == [ops |-> {"write", "ext", "pulls", "ie", "inover", "bypass", "settle",
                   "tick"},
          blocks |-> {0}]

MCUsers == {Mux, Iso, Input}
============================================================================

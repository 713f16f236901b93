---------------------------- MODULE MCPioParts ----------------------------
(***************************************************************************)
(* Two parts of a state machine that share no state, its FIFO pair and its *)
(* clock divider, checked in one run: a behaviour exercises one of them.   *)
(***************************************************************************)
EXTENDS PioFifoPair, PioClkdivBank

VARIABLE part   \* the part this behaviour exercises

partsVars == <<vars, bankVars, part>>

PartsInit ==
    /\ Init /\ BankInit
    /\ \/ part = "dividers"
       \/ part = "fifos" /\ div = [s \in SM |-> DIV_ONE]

PartsNext ==
    \/ part = "fifos" /\ Next /\ UNCHANGED <<bankVars, part>>
    \/ part = "dividers" /\ BankNext /\ UNCHANGED <<vars, part>>

PartsSpec == PartsInit /\ [][PartsNext]_partsVars
============================================================================

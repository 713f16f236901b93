----------------------------- MODULE PioPadBank -----------------------------
(***************************************************************************)
(* A set of pads under every register of IO_BANK0 and PADS_BANK0, shared   *)
(* by blocks whose programs are left open: any state machine may write any *)
(* level or direction, release a pin or be stopped at any moment, and the  *)
(* host changes functions, overrides, pulls, isolation and external drive  *)
(* in between.  DRIVE, SLEWFAST and SCHMITT have no digital effect and are *)
(* left out.                                                               *)
(***************************************************************************)
EXTENDS PioPads

CONSTANT Users      \* [ops, blocks]: who acts, the calls made and the
                    \* blocks whose state machines write

ASSUME BankAssumption ==
    /\ SHARED
    /\ \A u \in Users : u.blocks \subseteq Blocks

VARIABLES
    p,          \* the pad set
    reg,        \* pin registers of each state machine
    on,         \* enabled state machines
    hist,       \* history: input views at the last two tick ends
    user        \* the member of Users acting in this run

vars == <<p, reg, on, hist, user>>

Init ==
    /\ p = pio_pads_init_defaults(OwnersOf(0))
    /\ reg = [b \in Blocks |-> [s \in SMs |-> NoPinRegs]]
    /\ on = [b \in Blocks |-> [s \in SMs |-> FALSE]]
    /\ hist = <<{}, {}>>
    /\ user \in Users

(***************************************************************************)
(* State machines and ticks.                                               *)
(***************************************************************************)
SetReg(b, s, q) ==
    LET r == [reg EXCEPT ![b][s] = q]
    IN  /\ reg' = r
        /\ p' = pio_pads_resolve(p, r, on)
        /\ UNCHANGED <<on, hist>>

WritePin(b, s, n, level) ==
    /\ "write" \in user.ops
    /\ SetReg(b, s, WriteLevels(reg[b][s], {n}, IF level THEN {n} ELSE {}))

WriteDir(b, s, n, out) ==
    /\ "write" \in user.ops
    /\ SetReg(b, s, WriteDirs(reg[b][s], {n}, IF out THEN {n} ELSE {}))

Release(b, s, n) ==
    /\ "release" \in user.ops
    /\ SetReg(b, s, ReleaseSpan(reg[b][s], {n}))

SetEnabled(b, s, e) ==
    LET o == [on EXCEPT ![b][s] = e]
    IN  /\ "enable" \in user.ops
        /\ on' = o
        /\ p' = pio_pads_resolve(p, reg, o)
        /\ UNCHANGED <<reg, hist>>

(* The end of one tick and the opening of the next write window.           *)
Tick ==
    /\ "tick" \in user.ops
    /\ reg' = [b \in Blocks |-> [s \in SMs |-> [reg[b][s] EXCEPT !.wrote = {}]]]
    /\ p' = ClockPads(p)
    /\ hist' = <<pads_input_view(pads_update_keeper(p)), hist[1]>>
    /\ UNCHANGED on

(***************************************************************************)
(* Registers.                                                              *)
(***************************************************************************)
Host(op, q) == /\ op \in user.ops
               /\ p' = q
               /\ UNCHANGED <<reg, on, hist>>

SetFunction(n, f) == Host("func", pio_sim_gpio_set_function(p, reg, on, n, f))

pio_sim_gpio_set_outover(n, o) == Host("outover", [p EXCEPT !.outover[n] = o])
pio_sim_gpio_set_oeover(n, o)  == Host("oeover", [p EXCEPT !.oeover[n] = o])
pio_sim_gpio_set_inover(n, o)  == Host("inover", [p EXCEPT !.inover[n] = o])

pio_sim_gpio_set_periph_output(n, oe, level) ==
    Host("periph", [p EXCEPT !.periph_oe = SetTo(@, n, oe),
                             !.periph_level = SetTo(@, n, level)])

pio_sim_pad_set_input_enable(n, ie) ==
    Host("ie", [p EXCEPT !.pad_ie = SetTo(@, n, ie)])

pio_sim_pad_set_output_disable(n, od) ==
    Host("od", [p EXCEPT !.pad_od = SetTo(@, n, od)])

pio_sim_pad_set_pulls(n, up, down) ==
    Host("pulls", [p EXCEPT !.pad_pue = SetTo(@, n, up),
                            !.pad_pde = SetTo(@, n, down)])

SetIso(n, iso) == Host("iso", pio_sim_pad_set_iso(p, n, iso))

ResetHw == Host("reset", pio_sim_pads_reset_hw(p))

SetPin(n, level) == Host("ext", pio_sim_set_pin(p, n, level))
ReleasePin(n)    == Host("ext", pio_sim_release_pin(p, n))

SetBypass(n, by) == Host("bypass", [p EXCEPT !.sync_bypass = SetTo(@, n, by)])

(* Both flip-flops take the present view, as if two ticks had passed.      *)
Settle == /\ "settle" \in user.ops
          /\ p' = pio_sim_sync_settle(p)
          /\ hist' = <<pads_input_view(p), pads_input_view(p)>>
          /\ UNCHANGED <<reg, on>>

SmStep ==
    \E b \in user.blocks, s \in SMs :
      \/ \E n \in Pins, v \in BOOLEAN : WritePin(b, s, n, v) \/ WriteDir(b, s, n, v)
      \/ \E n \in Pins : Release(b, s, n)
      \/ \E v \in BOOLEAN : SetEnabled(b, s, v)

Registers ==
    \E n \in Pins :
      \/ \E f \in Funcs : SetFunction(n, f)
      \/ \E o \in Overrides : \/ pio_sim_gpio_set_outover(n, o)
                              \/ pio_sim_gpio_set_oeover(n, o)
                              \/ pio_sim_gpio_set_inover(n, o)
      \/ \E v, w \in BOOLEAN : \/ pio_sim_gpio_set_periph_output(n, v, w)
                               \/ pio_sim_pad_set_pulls(n, v, w)
      \/ \E v \in BOOLEAN : \/ pio_sim_pad_set_input_enable(n, v)
                            \/ pio_sim_pad_set_output_disable(n, v)
                            \/ SetIso(n, v)
                            \/ SetPin(n, v)
                            \/ SetBypass(n, v)
      \/ ReleasePin(n)

Next == /\ SmStep \/ Registers \/ Tick \/ ResetHw \/ Settle
        /\ UNCHANGED user

Spec == Init /\ [][Next]_vars

(***************************************************************************)
(* Properties.                                                             *)
(***************************************************************************)
TypeOK ==
    /\ p \in Pads
    /\ reg \in [Blocks -> [SMs -> PinRegs]]
    /\ on \in [Blocks -> [SMs -> BOOLEAN]]

(* The function mux is exclusive and combinational: a block drives a pin   *)
(* only while the pin's FUNCSEL selects it (or the any-PIO default), the   *)
(* peripheral only while it is selected, and a pin with no function is not *)
(* driven at all; no sequence of writes, stops and mux changes leaves a    *)
(* drive behind in the routing caches or in pin_dirs.                      *)
MuxExclusive ==
    \A n \in Pins :
      LET f == p.funcsel[n]
          Drives(b) == \E s \in SMs : n \in reg[b][s].oe \intersect reg[b][s].dir
      IN  /\ n \in p.pin_dirs => \E b \in Blocks : Drives(b) /\ f \in {b, FUNC_LEGACY}
          /\ (f = FUNC_NULL /\ p.oeover[n] = "NORMAL" /\ n \notin p.pad_iso)
               => n \notin pio_pads_chip_drive(p).oe
          /\ f # FUNC_PERIPH => n \notin p.periph_sel_mask

(* pin_dirs is what pio_pads_resolve would compute now: writes, releases,  *)
(* enables and mux changes all re-resolve.                                 *)
DirsFresh == p.pin_dirs = ResolvedDirs(p, reg, on)

(* The pad bank is consistent after every register write, pin write,       *)
(* enable, reset and tick: the state is well formed, nobody drives through *)
(* the mux who is not selected, and the cached masks and directions agree  *)
(* with the registers pio_pads_resolve derives them from.                  *)
PadsConsistent == TypeOK /\ MuxExclusive /\ DirsFresh

(* Isolation holds the pad: from the call that raises ISO until it is      *)
(* cleared the pad's drive does not move, whatever the state machines, the *)
(* mux, the overrides and OD do; only the hardware reset re-latches it.    *)
IsoFreezes ==
    [][\A n \in Pins :
         (n \in p'.pad_iso /\ ~ResetHw) =>
           LET d == pio_pads_chip_drive(p)
               e == pio_pads_chip_drive(p')
           IN  /\ (n \in d.oe) = (n \in e.oe)
               /\ (n \in d.lvl) = (n \in e.lvl)]_vars

(* Both pulls are on and nobody drives the pin.                            *)
Kept(q, n) == /\ n \in q.pad_pue \intersect q.pad_pde
              /\ n \notin q.ext_drive
              /\ n \notin pio_pads_chip_drive(q).oe

(* The bus keeper holds: while both pulls are on and nobody drives, the    *)
(* level of the wire does not move, across ticks and whatever else changes *)
(* on the pad.                                                             *)
KeeperHolds ==
    [][\A n \in Pins :
         (Kept(p, n) /\ Kept(p', n)) =>
           ((n \in pads_live(p)) = (n \in pads_live(p')))]_vars

(* A state machine sees a pin as it was at the end of the last tick but    *)
(* one, whatever is done to the pin between ticks, unless the synchroniser *)
(* is bypassed.                                                            *)
SyncLag ==
    \A n \in Pins \ p.sync_bypass :
      (n \in pio_input_level(p)) = (n \in hist[2])
============================================================================

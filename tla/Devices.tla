------------------------------ MODULE Devices ------------------------------
(***************************************************************************)
(* The timer and the joypad in the frame loop: the game runs for a frame   *)
(* of machine cycles and touches registers as it likes, the timer is       *)
(* brought up to date when it is touched and when the frame ends, and      *)
(* buttons change between two frames.                                      *)
(*                                                                         *)
(* What the game runs, in which backend, is Machine's and Backends' affair.*)
(* Here it does anything at any cycle: reads, writes, the service of a     *)
(* pending interrupt.                                                      *)
(***************************************************************************)
EXTENDS Integers, Timer, Joypad

CONSTANTS FRAME,          \* GB_CYCLES_PER_FRAME
          OVERRUN,        \* cycles a frame may take beyond it: one block
          TIMA_VALUES,    \* what a game writes to TIMA and TMA
          TAC_VALUES,     \* what it writes to TAC
          BUTTONS,        \* the buttons of the frontend
          GAMES,          \* the devices a game uses: subsets of {"timer", "joypad"}
          OVERFLOW_MOD    \* bound on the counters of overflows

ASSUME DevicesAssumption ==
    /\ {FRAME, CYCLE_MOD, DIV_MOD, TIMA_MOD, CLOCKS, OVERFLOW_MOD} \subseteq Nat \ {0}
    /\ OVERRUN \in Nat
    /\ 0 \in DOMAIN PERIOD /\ PERIOD \in [DOMAIN PERIOD -> Nat]
    /\ TIMA_VALUES \subseteq 0..TIMA_MOD - 1
    /\ TAC_VALUES \subseteq [on : BOOLEAN, select : DOMAIN PERIOD]
    /\ BUTTONS \subseteq 0..GB_BUTTON_COUNT - 1
    \* timer_tick computes with the clocks since the last tick, and with those left of a
    \* period, modulo CYCLE_MOD.
    /\ \A select \in DOMAIN PERIOD :
          /\ PERIOD[select] > 0
          /\ PERIOD[select] + (CLOCKS * (FRAME + OVERRUN)) <= CYCLE_MOD

VARIABLES
    game,         \* which devices it uses
    loc,          \* "poll": between two frames; "run": in rom_main
    spent,        \* machine cycles since the frame began
    cycles,       \* the runtime's counter
    tmr, joypad,  \* the devices
    if_reg,       \* IF: the lines with a request
    raised,       \* timer requests so far, modulo OVERFLOW_MOD
    due           \* IF's timer bit, had the timer been up to date all the time

vars == <<game, loc, spent, cycles, tmr, joypad, if_reg, raised, due>>

Init ==
    /\ game \in GAMES /\ loc = "poll" /\ spent = 0 /\ cycles = 0
    /\ tmr = timer_init /\ joypad = joypad_init
    /\ if_reg = {} /\ raised = 0 /\ due = FALSE

\* What any access to the timer does first.
Request(now) ==
    /\ if_reg' = IF Requests(tmr, now) > 0 THEN if_reg \cup {"timer"} ELSE if_reg
    /\ raised' = (raised + Requests(tmr, now)) % OVERFLOW_MOD

\* A machine cycle passes.
Cycle ==
    /\ loc = "run" /\ spent < FRAME + OVERRUN
    /\ spent' = spent + 1
    /\ cycles' = (cycles + 1) % CYCLE_MOD
    /\ due' = (due \/ Requests(tmr, cycles') > Requests(tmr, cycles))
    /\ UNCHANGED <<game, loc, tmr, joypad, if_reg, raised>>

\* The game reads a register of the timer.
timer_read ==
    /\ loc = "run" /\ "timer" \in game
    /\ tmr' = timer_tick(tmr, cycles)
    /\ Request(cycles)
    /\ UNCHANGED <<game, loc, spent, cycles, joypad, due>>

\* The game writes one.
Writes == {<<"DIV", 0>>} \cup ({"TIMA", "TMA"} \X TIMA_VALUES) \cup ({"TAC"} \X TAC_VALUES)
write_timer ==
    /\ loc = "run" /\ "timer" \in game
    /\ \E w \in Writes : tmr' = timer_write(tmr, cycles, w[1], w[2])
    /\ Request(cycles)
    /\ due' = (due \/ Requests(tmr', cycles) > 0)
    /\ UNCHANGED <<game, loc, spent, cycles, joypad>>

\* The game selects lines of the joypad.
write_joypad ==
    /\ loc = "run" /\ "joypad" \in game
    /\ \E bit5, bit4 \in {0, 1} : joypad' = joypad_write(joypad, bit5, bit4)
    /\ UNCHANGED <<game, loc, spent, cycles, tmr, if_reg, raised, due>>

\* A request is serviced, or the game clears or sets bits of IF, without any device
\* being brought up to date.
if_write ==
    /\ loc = "run"
    /\ \E v \in SUBSET game : if_reg' = v /\ due' = ("timer" \in v)
    /\ UNCHANGED <<game, loc, spent, cycles, tmr, joypad, raised>>

\* Mutant: the frame ends without a tick of the timer.
gb_step_without_timer ==
    /\ loc = "run" /\ spent >= FRAME
    /\ loc' = "poll" /\ spent' = 0
    /\ UNCHANGED <<game, cycles, tmr, joypad, if_reg, raised, due>>

\* rom_main returns, and gb_step ticks the timer.
gb_step ==
    /\ loc = "run" /\ spent >= FRAME
    /\ loc' = "poll" /\ spent' = 0
    /\ tmr' = timer_tick(tmr, cycles)
    /\ Request(cycles)
    /\ UNCHANGED <<game, cycles, joypad, due>>

\* gb_poll of the frontend reports a button, or nothing any more.
set_button(idx, pressed) ==
    /\ loc = "poll" /\ "joypad" \in game
    /\ joypad' = gb_set_button(joypad, idx, pressed)
    /\ if_reg' = IF requests(joypad, idx, pressed) THEN if_reg \cup {"joypad"} ELSE if_reg
    /\ UNCHANGED <<game, loc, spent, cycles, tmr, raised, due>>
gb_poll ==
    \/ \E idx \in BUTTONS, pressed \in BOOLEAN : set_button(idx, pressed)
    \/ loc = "poll" /\ loc' = "run" /\ UNCHANGED <<game, spent, cycles, tmr, joypad, if_reg, raised, due>>

Next == Cycle \/ timer_read \/ write_timer \/ write_joypad \/ if_write \/ gb_step \/ gb_poll
Spec == Init /\ [][Next]_vars
-----------------------------------------------------------------------------
(* Properties *)

Now == timer_tick(tmr, cycles)
Ticking == INSTANCE TickingTimer WITH
    div <- Now.div_counter, part <- Now.tima_accum, tima <- Now.tima, tma <- Now.tma, tac <- Now.tac,
    overflows <- (raised + Requests(tmr, cycles)) % OVERFLOW_MOD

\* That the timer is late is never seen: brought up to date at any cycle, after whatever
\* writes and pauses, DIV, TIMA and the overflows so far are those of a timer that ticks
\* in every cycle (timer_tick's dt, its remainder in tima_accum and its loop).
LateIsUnseen == Ticking!Spec

\* Requests come late, but no later than the end of the frame: between two frames, IF
\* has the timer's bit if the bit would still be set had the timer ticked all the time,
\* however many overflows, services and writes to IF there were (gb_step).
DueByFrameEnd == loc = "poll" /\ due => "timer" \in if_reg

\* The joypad as it would be if only button idx could be down.
Alone(j, idx) == [j EXCEPT !.buttons = [b \in DOMAIN j.buttons |-> b = idx /\ j.buttons[b]]]

\* A change of a button that makes a line of the joypad fall requests an interrupt, also
\* where a face button and one of the pad share the line; none is requested by a
\* release, a button already down, or a button that is not selected, whatever the other
\* button of its line does (gb_set_button against joypad_read).
PressSeen ==
    [][\A idx \in BUTTONS, pressed \in BOOLEAN :
        set_button(idx, pressed) =>
            LET fell == joypad_read(joypad') \ joypad_read(joypad)
            IN  /\ fell # {} => "joypad" \in if_reg'
                /\ if_reg' # if_reg =>
                       joypad'.buttons # joypad.buttons /\ joypad_read(Alone(joypad', idx)) # {}]_vars
=============================================================================

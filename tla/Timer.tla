------------------------------- MODULE Timer -------------------------------
(***************************************************************************)
(* The timer of the runtime (timer.c).  It is only brought up to date when *)
(* the game touches it and when a frame ends: t is its record `tmr', now   *)
(* the value of `cycles'.                                                  *)
(***************************************************************************)
EXTENDS Integers

CONSTANTS CYCLE_MOD,      \* 2^32, of `cycles', dt and tima_accum
          DIV_MOD,        \* 2^16
          TIMA_MOD,       \* 2^8
          PERIOD,         \* tima_period
          CLOCKS          \* 4, clocks in a machine cycle

timer_init == [tima_accum |-> 0, last_cycles |-> 0, div_counter |-> 0, tima |-> 0, tma |-> 0,
               tac |-> [on |-> FALSE, select |-> 0]]

\* What k turns of timer_tick's loop do to TIMA, and how many interrupts they request.
Turns(t, k) ==
    LET turn[j \in 0..k] ==
            IF j = 0 THEN [tima |-> t.tima, requests |-> 0]
            ELSE IF turn[j - 1].tima = TIMA_MOD - 1
                 THEN [tima |-> t.tma, requests |-> turn[j - 1].requests + 1]
                 ELSE [turn[j - 1] EXCEPT !.tima = @ + 1]
    IN  turn[k]

Elapsed(t, now) == (((now - t.last_cycles) % CYCLE_MOD) * CLOCKS) % CYCLE_MOD
Accum(t, now)   == (t.tima_accum + Elapsed(t, now)) % CYCLE_MOD
TurnsDue(t, now) == IF t.tac.on THEN Accum(t, now) \div PERIOD[t.tac.select] ELSE 0

timer_tick(t, now) ==
    [t EXCEPT !.last_cycles = now,
              !.div_counter = (@ + Elapsed(t, now)) % DIV_MOD,
              !.tima_accum = IF t.tac.on THEN Accum(t, now) % PERIOD[t.tac.select] ELSE @,
              !.tima = Turns(t, TurnsDue(t, now)).tima]

\* The requests of a tick; one or more set the same bit of IF.
Requests(t, now) == Turns(t, TurnsDue(t, now)).requests

\* Mutant: the register is written before the timer is brought up to date.
timer_write_late(t, now, reg, val) ==
    timer_tick(CASE reg = "DIV"  -> [t EXCEPT !.div_counter = 0]
                 [] reg = "TIMA" -> [t EXCEPT !.tima = val]
                 [] reg = "TMA"  -> [t EXCEPT !.tma = val]
                 [] reg = "TAC"  -> [t EXCEPT !.tac = val], now)

\* A write first brings the timer up to date, and so does a read.
timer_write(t0, now, reg, val) ==
    LET t == timer_tick(t0, now)
    IN  CASE reg = "DIV"  -> [t EXCEPT !.div_counter = 0]
          [] reg = "TIMA" -> [t EXCEPT !.tima = val]
          [] reg = "TMA"  -> [t EXCEPT !.tma = val]
          [] reg = "TAC"  -> [t EXCEPT !.tac = val]
=============================================================================

-------------------------------- MODULE Apu --------------------------------
(***************************************************************************)
(* The sound unit of the runtime (apu.c): which of its channels play, and  *)
(* how long.  a is its record `apu'; time is given as clocks since its     *)
(* last tick.  Waveforms, envelopes and the mixer never decide whether a   *)
(* channel plays and are left out, and so are the registers' copies that   *)
(* only apu_read returns.                                                  *)
(***************************************************************************)
EXTENDS Integers

CONSTANTS FRAME_SEQ_PERIOD,   \* 8192, clocks
          LENGTH,             \* of a note, by channel: 64, and 256 for ch3
          FREQ_LOW,           \* 2^8: what the register of the lower bits holds
          FREQ_MOD,           \* 2^11
          SWEEP_IDLE          \* 8, sweep_timer for a period of zero

Channels == {"ch1", "ch2", "ch3", "ch4"}

silent == [enabled |-> FALSE, dac |-> FALSE, freq |-> 0, length |-> [counter |-> 0, enable |-> FALSE]]
no_sweep == [period |-> 0, dir |-> FALSE, shift |-> 0, timer |-> 0, enabled |-> FALSE]

apu_init == [enabled |-> FALSE, fs_acc |-> 0, fs_step |-> 0, ch |-> [c \in Channels |-> silent], sweep |-> no_sweep]

clock_length(ch) ==
    IF ch.length.enable /\ ch.length.counter > 0
    THEN [ch EXCEPT !.length.counter = @ - 1, !.enabled = @ /\ ch.length.counter # 1]
    ELSE ch

\* Mutant: a frequency that does not fit in 11 bits is stored.
sweep_calc_unchecked(a) ==
    LET delta == a.ch["ch1"].freq \div 2^a.sweep.shift
        nf    == IF a.sweep.dir THEN a.ch["ch1"].freq - delta ELSE a.ch["ch1"].freq + delta
    IN  IF a.sweep.shift # 0 THEN [a EXCEPT !.ch["ch1"].freq = nf] ELSE a

\* The next frequency of the sweep; one that does not fit in 11 bits ends the note.
sweep_calc(a) ==
    LET delta == a.ch["ch1"].freq \div 2^a.sweep.shift
        nf    == IF a.sweep.dir THEN a.ch["ch1"].freq - delta ELSE a.ch["ch1"].freq + delta
    IN  IF nf >= FREQ_MOD THEN [a EXCEPT !.ch["ch1"].enabled = FALSE]
        ELSE IF a.sweep.shift # 0 THEN [a EXCEPT !.ch["ch1"].freq = nf] ELSE a

SweepTime(a) == IF a.sweep.period = 0 THEN SWEEP_IDLE ELSE a.sweep.period

clock_sweep(a) ==
    LET timer == IF a.sweep.timer > 0 THEN a.sweep.timer - 1 ELSE 0
        b == [a EXCEPT !.sweep.timer = IF timer = 0 THEN SweepTime(a) ELSE timer]
    IN  IF timer # 0 \/ ~a.sweep.enabled \/ a.sweep.period = 0 THEN b
        ELSE sweep_calc(IF a.sweep.shift # 0 THEN sweep_calc(b) ELSE b)

\* The frame sequencer clocks lengths in every other step, the sweep in two of eight.
\* (Step 7 clocks the envelopes.)
frame_step(a) ==
    LET b == IF a.fs_step % 2 = 0 THEN [a EXCEPT !.ch = [c \in Channels |-> clock_length(a.ch[c])]] ELSE a
    IN  [IF a.fs_step \in {2, 6} THEN clock_sweep(b) ELSE b EXCEPT !.fs_step = (@ + 1) % 8]

\* Time stands still while the unit is off.
apu_tick(a, elapsed) ==
    LET all == a.fs_acc + elapsed
        after[n \in 0..all \div FRAME_SEQ_PERIOD] == IF n = 0 THEN a ELSE frame_step(after[n - 1])
    IN  IF a.enabled THEN [after[all \div FRAME_SEQ_PERIOD] EXCEPT !.fs_acc = all % FRAME_SEQ_PERIOD]
        ELSE [a EXCEPT !.fs_acc = 0]

\* Mutant: a note that has run out starts without its length.
trigger_without_length(a, c) ==
    LET b == [a EXCEPT !.ch[c].enabled = a.ch[c].dac]
        s == [b EXCEPT !.sweep.timer = SweepTime(a), !.sweep.enabled = a.sweep.period # 0 \/ a.sweep.shift # 0]
    IN  IF c # "ch1" THEN b ELSE IF a.sweep.shift # 0 THEN sweep_calc(s) ELSE s

\* trigger_square, trigger_wave and trigger_noise; the first channel starts its sweep.
trigger(a, c) ==
    LET b == [a EXCEPT !.ch[c].length.counter = IF @ = 0 THEN LENGTH[c] ELSE @,
                       !.ch[c].enabled = a.ch[c].dac]
        s == [b EXCEPT !.sweep.timer = SweepTime(a), !.sweep.enabled = a.sweep.period # 0 \/ a.sweep.shift # 0]
    IN  IF c # "ch1" THEN b ELSE IF a.sweep.shift # 0 THEN sweep_calc(s) ELSE s

\* What a switched-off unit forgets: everything but the step of the frame sequencer.
reset(a) == [a EXCEPT !.ch = [c \in Channels |-> silent], !.sweep = no_sweep]

\* The registers: NR52, NR10, and for a channel c the length, the converter, the lower
\* bits of the frequency, and its upper bits with the trigger.
NR52(a, on) == IF on THEN [a EXCEPT !.enabled = TRUE]
               ELSE IF a.enabled THEN reset([a EXCEPT !.enabled = FALSE]) ELSE a
NR10(a, period, dir, shift) == [a EXCEPT !.sweep.period = period, !.sweep.dir = dir, !.sweep.shift = shift]
NRx1(a, c, v) == [a EXCEPT !.ch[c].length.counter = LENGTH[c] - v]
NRx2(a, c, on) == [a EXCEPT !.ch[c].dac = on, !.ch[c].enabled = @ /\ on]
NRx3(a, c, low) == [a EXCEPT !.ch[c].freq = @ - (@ % FREQ_LOW) + low]
NRx4(a, c, high, enable, triggered) ==
    LET b == [a EXCEPT !.ch[c].freq = (high * FREQ_LOW) + (@ % FREQ_LOW), !.ch[c].length.enable = enable]
    IN  IF triggered THEN trigger(b, c) ELSE b
=============================================================================

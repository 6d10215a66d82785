------------------------------- MODULE Sound -------------------------------
(***************************************************************************)
(* The sound unit in the frame loop: a game writes the registers of one    *)
(* channel at any time, and the unit is brought up to date by every access *)
(* and at the end of every frame.                                          *)
(***************************************************************************)
EXTENDS Integers, Apu

CONSTANTS FRAME,      \* clocks of a frame
          CHANNEL,    \* the channels of which a game uses one
          SWEEPS      \* what it writes to NR10

ASSUME SoundAssumption ==
    /\ FRAME_SEQ_PERIOD \in Nat \ {0} /\ FRAME \in Nat \ {0}
    /\ CHANNEL \subseteq Channels /\ \A c \in Channels : LENGTH[c] \in Nat \ {0}
    /\ {FREQ_LOW, FREQ_MOD} \subseteq Nat \ {0} /\ FREQ_MOD % FREQ_LOW = 0
    /\ SWEEP_IDLE \in Nat /\ SWEEPS \subseteq [period : Nat, dir : BOOLEAN, shift : Nat]

VARIABLES used,       \* the channel the game uses
          apu,        \* the unit
          clock       \* clocks from the frame's beginning to the unit's last tick

vars == <<used, apu, clock>>

Init == used \in CHANNEL /\ apu = apu_init /\ clock = 0

\* The unit brought up to date.
Ticked(now) == apu_tick(apu, now - clock)

\* The game reads a register.
apu_read ==
    \E now \in clock..FRAME - 1 :
        apu' = Ticked(now) /\ clock' = now /\ UNCHANGED used

\* The game writes a register; a unit that is off only listens to NR52.
apu_write ==
    \E now \in clock..FRAME - 1 :
        LET a == Ticked(now)
        IN  /\ clock' = now /\ UNCHANGED used
            /\ \/ \E on \in BOOLEAN : apu' = NR52(a, on)
               \/ /\ apu.enabled
                  /\ \/ \E v \in 0..LENGTH[used] - 1 : apu' = NRx1(a, used, v)
                     \/ \E on \in BOOLEAN : apu' = NRx2(a, used, on)
                     \/ used # "ch4" /\ \E low \in 0..FREQ_LOW - 1 : apu' = NRx3(a, used, low)
                     \/ \E high \in 0..(FREQ_MOD \div FREQ_LOW) - 1, enable, triggered \in BOOLEAN :
                           apu' = NRx4(a, used, high, enable, triggered)
                     \/ used = "ch1" /\ \E w \in SWEEPS : apu' = NR10(a, w.period, w.dir, w.shift)

\* The frame ends.
gb_step == apu' = Ticked(FRAME) /\ clock' = 0 /\ UNCHANGED used

\* Frames go on: gb_run only stops when the player does.
Next == apu_read \/ apu_write \/ gb_step
Spec == Init /\ [][Next]_vars /\ WF_vars(gb_step)
-----------------------------------------------------------------------------
(* Properties *)

\* A channel that plays can be heard and can end: the unit and its converter are on, its
\* length has not run out, and its frequency has 11 bits, without which advance's loop,
\* which adds the rest to 2048 until the timer is positive, would never stop; whatever
\* the order of writes, length clocks and sweeps (apu_write, frame_step, sweep_calc).
PlaysSoundly ==
    \A c \in Channels :
        /\ apu.ch[c].enabled => apu.enabled /\ apu.ch[c].dac /\ apu.ch[c].length.counter > 0
        /\ apu.ch[c].freq \in 0..FREQ_MOD - 1

\* A note with a length ends by itself: no channel plays one for ever, unless the game
\* keeps on writing (clock_length by way of the frame sequencer, trigger's reload).
NoteEnds ==
    \A c \in Channels :
        \/ []<>(~apu.ch[c].enabled \/ ~apu.ch[c].length.enable)
        \/ []<><<apu_write>>_vars
=============================================================================
